------------------------ MODULE NotebookCryptoProofs ------------------------
(***************************************************************************)
(* Proofs, for any wallets, calls, device keys and number of records, of   *)
(* the safety properties of NotebookCrypto.                                *)
(*                                                                         *)
(* The argument is about the right key of an owner: the derived one of a   *)
(* wallet, the device's own without one.  A call that nothing disturbed    *)
(* works with the right key of the owner it began under; a record it makes *)
(* is under that key, and that key stays the right one, because the        *)
(* device's is written once as long as nothing went wrong with it.         *)
(*                                                                         *)
(* At the end, theorems about SeedBytes: nothing of a wallet's seed is     *)
(* lost before the derivation that makes its key.                          *)
(***************************************************************************)
EXTENDS NotebookCrypto, SeedBytes, TLAPS

USE KeyAssumption

Steps == {"idle", "read", "generate", "store", "adopt", "use"}

TaskType == [key: SomeKey \cup {NoKey, Zeroed}, owner: Wallets \cup {NoWallet},
             sound: BOOLEAN, calm: BOOLEAN, opens: Record \cup {NoKey}]

\* The key of this device, for calls without a wallet.
DeviceKey == IF platform = "bare" THEN FixedKey ELSE stored

\* Is k the right key of owner w?
Right(k, w) ==
    IF w # NoWallet THEN k = DerivedKey(w)
    ELSE faults = {} => k = DeviceKey /\ k # NoKey

\* A cache that no call filled late has the right key of the active wallet; one that
\* was has a key of the legacy path, the only one that awaits before it fills the cache.
CacheRight ==
    /\ cache # NoKey /\ ~stray => Right(cache, active)
    /\ stray => cache \in LegacyKeys

RightRecord(r) == r.sound => Right(r.key, r.owner)
RecordsRight   == \A r \in records : RightRecord(r)

\* A first launch makes one device key, unless two of them overlap.
Launching(t) == pc[t] \in {"generate", "store"}
OneLaunch == faults = {} =>
    \A t \in Tasks : Launching(t) => stored = NoKey /\ \A u \in Tasks : Launching(u) => u = t

\* A call under way: the owner it has, the key it works with, the record it opens.
Good(t) ==
    /\ t \in holders => pc[t] = "use"
    /\ pc[t] # "idle" /\ task[t].calm => task[t].owner = active
    /\ pc[t] \in {"read", "generate", "store", "adopt"} => task[t].owner = NoWallet
    /\ pc[t] \in {"read", "generate", "store"} => platform # "bare"
    /\ pc[t] = "store" => task[t].key \in DeviceKeys
    /\ pc[t] = "adopt" => task[t].key \in LegacyKeys /\ Right(task[t].key, NoWallet)
    /\ pc[t] = "use" => /\ task[t].key \in SomeKey \cup {Zeroed}
                        /\ task[t].sound => Right(task[t].key, task[t].owner)
    /\ pc[t] # "idle" /\ task[t].opens # NoKey => RightRecord(task[t].opens)

LostExplained == \A r \in lost : r.owner = NoWallet /\ faults # {}

IInv == /\ TypeOK /\ CacheRight /\ RecordsRight /\ OneLaunch /\ LostExplained
        /\ \A t \in Tasks : Good(t)

-----------------------------------------------------------------------------
(* What stays right. *)

\* How a step may change what the right key depends on: what went wrong is never
\* forgotten, and the device key is written once, unless something went wrong.
KeyStep ==
    /\ UNCHANGED platform /\ faults \subseteq faults'
    /\ faults' = {} => stored' = stored \/ stored = NoKey

\* The right key of an owner stays the right one.
LEMMA RightPersists ==
    ASSUME KeyStep, FixedKey # NoKey, NEW k, NEW w, Right(k, w)
    PROVE  Right(k, w)'
BY DEF KeyStep, Right, DeviceKey

\* A fixed key is a key.
LEMMA FixedIsKey == FixedKey \in SomeKey /\ FixedKey # NoKey /\ FixedKey \in LegacyKeys
BY DEF SomeKey, LegacyKeys

\* A device key is a key, and so is a wallet's.
LEMMA KeysAreKeys ==
    /\ DeviceKeys \subseteq LegacyKeys /\ LegacyKeys \subseteq SomeKey
    /\ \A w \in Wallets : DerivedKey(w) \in SomeKey
BY DEF SomeKey, LegacyKeys

\* A record keeps what is right about it.
LEMMA RecordPersists ==
    ASSUME KeyStep, NEW r, RightRecord(r)
    PROVE  RightRecord(r)'
BY RightPersists, FixedIsKey DEF RightRecord

\* A call that a step does not touch, unless it changes the active wallet.
LEMMA OtherKeeps ==
    ASSUME KeyStep, UNCHANGED active, NEW u \in Tasks, Good(u),
           pc'[u] = pc[u], task'[u] = task[u], u \in holders' => u \in holders
    PROVE  Good(u)'
<1>1. ASSUME Right(task[u].key, NoWallet) PROVE Right(task[u].key, NoWallet)'
  BY <1>1, RightPersists, FixedIsKey DEF Right, KeyStep, DeviceKey
<1>2. ASSUME Right(task[u].key, task[u].owner) PROVE Right(task[u].key, task[u].owner)'
  BY <1>2, RightPersists, FixedIsKey DEF Right, KeyStep, DeviceKey
<1>3. ASSUME RightRecord(task[u].opens) PROVE RightRecord(task[u].opens)'
  BY <1>3, FixedIsKey DEF RightRecord, Right, KeyStep, DeviceKey
<1>4. QED
  BY <1>1, <1>2, <1>3 DEF Good, KeyStep

\* What a step of one call has to see to.
LEMMA TaskStepKeeps ==
    ASSUME IInv, NEW t \in Tasks, KeyStep, UNCHANGED active, TypeOK',
           \A u \in Tasks \ {t} : /\ pc'[u] = pc[u] /\ task'[u] = task[u]
                                  /\ u \in holders' => u \in holders,
           Good(t)', CacheRight', OneLaunch',
           \A r \in records' \ records : RightRecord(r)',
           \A r \in lost' \ lost : r.owner = NoWallet /\ faults # {}
    PROVE  IInv'
<1>1. \A u \in Tasks : Good(u)'
  BY OtherKeeps DEF IInv
<1>2. RecordsRight'
  BY RecordPersists DEF IInv, RecordsRight
<1>3. LostExplained'
  BY DEF IInv, LostExplained, KeyStep
<1>4. QED
  BY <1>1, <1>2, <1>3 DEF IInv

\* A cache that is not touched stays right.
LEMMA CacheKeeps ==
    ASSUME CacheRight, KeyStep, UNCHANGED <<active, cache, stray>>
    PROVE  CacheRight'
BY FixedIsKey DEF CacheRight, Right, KeyStep, DeviceKey

\* So does the promise of a single launch, when no call starts one.
LEMMA LaunchKeeps ==
    ASSUME OneLaunch, faults \subseteq faults', \A u \in Tasks : Launching(u)' => Launching(u),
           UNCHANGED stored \/ (\A u \in Tasks : ~Launching(u)')
    PROVE  OneLaunch'
BY DEF OneLaunch

-----------------------------------------------------------------------------
(* A change of wallet and a reset. *)

\* The object that the calls hold is zeroed, and every call under way disturbed.
LEMMA DropTypes ==
    ASSUME TypeOK, DropCache
    PROVE  /\ task' \in [Tasks -> TaskType]
           /\ \A t \in Tasks :
                /\ task'[t].owner = task[t].owner /\ task'[t].opens = task[t].opens
                /\ task'[t].key = IF t \in holders THEN Zeroed ELSE task[t].key
                /\ pc[t] # "idle" => ~task'[t].sound /\ ~task'[t].calm
<1>1. task \in [Tasks -> TaskType]
  BY DEF TypeOK, TaskType
<1>2. ASSUME NEW t \in Tasks
      PROVE  /\ task'[t] \in TaskType
             /\ task'[t].owner = task[t].owner /\ task'[t].opens = task[t].opens
             /\ task'[t].key = IF t \in holders THEN Zeroed ELSE task[t].key
             /\ pc[t] # "idle" => ~task'[t].sound /\ ~task'[t].calm
  <2>1. task[t] \in TaskType
    BY <1>1
  <2>2. task'[t] = LET x == IF t \in Running THEN Disturbed(task[t]) ELSE task[t]
                   IN  IF t \in holders THEN [x EXCEPT !.key = Zeroed] ELSE x
    BY DEF DropCache
  <2>3. t \in Running <=> pc[t] # "idle"
    BY DEF Running
  <2>4. QED
    BY <2>1, <2>2, <2>3 DEF TaskType, Disturbed
<1>3. DOMAIN task' = Tasks /\ task' = [t \in Tasks |-> task'[t]]
  BY DEF DropCache
<1>4. QED
  BY <1>2, <1>3

\* So the calls under way are not trusted any more, and nothing else changed.
LEMMA DropKeeps ==
    ASSUME IInv, DropCache, active' \in Wallets \cup {NoWallet},
           UNCHANGED <<platform, stored, drawn, pc, records, lost, faults>>
    PROVE  IInv'
<1>1. KeyStep
  BY DEF KeyStep
<1>2. /\ task' \in [Tasks -> TaskType]
      /\ \A t \in Tasks :
           /\ task'[t].owner = task[t].owner /\ task'[t].opens = task[t].opens
           /\ task'[t].key = IF t \in holders THEN Zeroed ELSE task[t].key
           /\ pc[t] # "idle" => ~task'[t].sound /\ ~task'[t].calm
  BY DropTypes DEF IInv
<1>3. TypeOK'
  <2>1. holders' = {} /\ cache' = NoKey /\ stray' = FALSE
    BY DEF DropCache
  <2>2. QED
    BY <1>2, <2>1 DEF IInv, TypeOK, TaskType
<1>4. CacheRight'
  BY DEF DropCache, CacheRight
<1>5. RecordsRight' /\ LostExplained' /\ OneLaunch'
  <2>1. RecordsRight'
    BY <1>1, RecordPersists DEF IInv, RecordsRight
  <2>2. LostExplained' /\ OneLaunch'
    BY DEF IInv, LostExplained, OneLaunch, Launching
  <2>3. QED
    BY <2>1, <2>2
<1>6. ASSUME NEW t \in Tasks PROVE Good(t)'
  <2>1. Good(t)
    BY DEF IInv
  <2>2. holders' = {} /\ pc' = pc
    BY DEF DropCache
  <2>3. /\ pc'[t] # "idle" => ~task'[t].calm /\ ~task'[t].sound
        /\ task'[t].owner = task[t].owner /\ task'[t].opens = task[t].opens
        /\ task'[t].key = IF t \in holders THEN Zeroed ELSE task[t].key
    BY <1>2, <2>2
  <2>4. pc'[t] \in {"store", "adopt"} => task'[t].key = task[t].key
    BY <2>1, <2>2, <2>3 DEF Good
  <2>5. ASSUME RightRecord(task[t].opens) PROVE RightRecord(task[t].opens)'
    BY <2>3, <2>5 DEF RightRecord, Right, DeviceKey
  <2>6. ASSUME Right(task[t].key, NoWallet), task'[t].key = task[t].key
        PROVE  Right(task[t].key, NoWallet)'
    BY <2>6 DEF Right, DeviceKey
  <2>7. QED
    BY <2>1, <2>2, <2>3, <2>4, <2>5, <2>6 DEF Good
<1>7. QED
  BY <1>3, <1>4, <1>5, <1>6 DEF IInv

-----------------------------------------------------------------------------
(* getKey. *)

\* A call starts with a key, or with none while it reads the device's.
LEMMA CallFacts ==
    ASSUME TypeOK, NEW t \in Tasks, NEW k \in SomeKey \cup {NoKey},
           NEW opens \in Record \cup {NoKey}, Call(t, k, opens)
    PROVE  /\ task' \in [Tasks -> TaskType]
           /\ task'[t] = [key |-> k, owner |-> active, sound |-> ~stray, calm |-> TRUE,
                          opens |-> opens]
           /\ \A u \in Tasks \ {t} : task'[u] = task[u]
<1>1. task \in [Tasks -> TaskType]
  BY DEF TypeOK, TaskType
<1>2. [key |-> k, owner |-> active, sound |-> ~stray, calm |-> TRUE, opens |-> opens] \in TaskType
  BY DEF TypeOK, TaskType
<1>3. QED
  BY <1>1, <1>2 DEF Call

\* The await a call moves to.
LEMMA GotoFacts ==
    ASSUME TypeOK, NEW t \in Tasks, NEW step \in Steps, Goto(t, step)
    PROVE  /\ pc' \in [Tasks -> Steps] /\ pc'[t] = step
           /\ \A u \in Tasks \ {t} : pc'[u] = pc[u]
BY DEF TypeOK, Goto, Steps

\* A call that finds no device key launches one; what may go wrong is on record.
LEMMA MissedFacts ==
    ASSUME TypeOK, OneLaunch, NEW t \in Tasks, ~Launching(t), Missed(t), UNCHANGED stored
    PROVE  /\ OneLaunch' /\ faults \subseteq faults' /\ pc' \in [Tasks -> Steps]
           /\ pc'[t] = "generate" /\ \A u \in Tasks \ {t} : pc'[u] = pc[u]
<1>1. /\ pc' \in [Tasks -> Steps] /\ pc'[t] = "generate"
      /\ \A u \in Tasks \ {t} : pc'[u] = pc[u]
  BY GotoFacts DEF Missed, Steps
<1>2. /\ faults \subseteq faults'
      /\ faults' = {} => stored = NoKey /\ \A u \in Tasks : ~Launching(u)
  BY DEF Missed, Launching
<1>3. OneLaunch'
  BY <1>1, <1>2 DEF OneLaunch, Launching
<1>4. QED
  BY <1>1, <1>2, <1>3

\* A call gets the cached object, and holds it.
LEMMA GetCachedKeeps ==
    ASSUME IInv, NEW t \in Tasks, NEW opens \in records \cup {NoKey}, pc[t] = "idle",
           GetCached(t, opens), UNCHANGED <<platform, stored, drawn, records, lost, faults>>
    PROVE  IInv'
<1>1. TypeOK /\ CacheRight /\ OneLaunch /\ Good(t) /\ cache \in SomeKey
      /\ opens \in Record \cup {NoKey} /\ UNCHANGED <<active, cache, stray>>
      /\ holders' = holders \cup {t} /\ KeyStep
  BY DEF IInv, TypeOK, GetCached, KeyStep
<1>2. /\ task' \in [Tasks -> TaskType]
      /\ task'[t] = [key |-> cache, owner |-> active, sound |-> ~stray, calm |-> TRUE,
                     opens |-> opens]
      /\ \A u \in Tasks \ {t} : task'[u] = task[u]
  BY <1>1, CallFacts DEF GetCached
<1>3. /\ pc' \in [Tasks -> Steps] /\ pc'[t] = "use" /\ \A u \in Tasks \ {t} : pc'[u] = pc[u]
  BY <1>1, GotoFacts DEF GetCached, Steps
<1>4. TypeOK'
  BY <1>1, <1>2, <1>3 DEF TypeOK, TaskType, Steps, Running
<1>5. opens # NoKey => RightRecord(opens)'
  BY <1>1, RecordPersists DEF IInv, RecordsRight
<1>6. cache # NoKey /\ (~stray => Right(cache, active))
  BY <1>1 DEF CacheRight, GetCached
<1>7. Good(t)'
  <2>1. (task[t].sound => Right(task[t].key, task[t].owner))'
    <3>1. /\ active' = active /\ task'[t].key = cache /\ task'[t].owner = active
          /\ task'[t].sound => ~stray
      <4>1. task'[t].sound = ~stray
        BY ONLY <1>2
      <4>2. active' = active
        BY <1>1
      <4>3. task'[t].key = cache /\ task'[t].owner = active
        BY <1>2
      <4>4. QED
        BY <4>1, <4>2, <4>3
    <3>2. task'[t].sound => Right(cache, active)
      BY <1>6, <3>1
    <3>3. QED
      BY <3>1, <3>2 DEF Right, DeviceKey
  <2>2. (task[t].opens # NoKey => RightRecord(task[t].opens))'
    BY <1>2, <1>5 DEF RightRecord, Right, DeviceKey
  <2>3. /\ pc'[t] = "use" /\ task'[t].key \in SomeKey /\ task'[t].owner = active'
    BY <1>1, <1>2, <1>3
  <2>4. QED
    BY <2>1, <2>2, <2>3 DEF Good
<1>8. CacheRight' /\ OneLaunch'
  BY <1>1, <1>3, CacheKeeps, LaunchKeeps DEF KeyStep, Launching
<1>9. QED
  BY <1>1, <1>2, <1>3, <1>4, <1>7, <1>8, TaskStepKeeps

\* A call derives the key of the wallet and caches it.
LEMMA DeriveKeeps ==
    ASSUME IInv, NEW t \in Tasks, NEW opens \in records \cup {NoKey}, pc[t] = "idle",
           Derive(t, opens), UNCHANGED <<platform, stored, drawn, records, lost, faults>>
    PROVE  IInv'
<1>1. TypeOK /\ OneLaunch /\ Good(t) /\ active \in Wallets /\ active # NoWallet
      /\ opens \in Record \cup {NoKey} /\ UNCHANGED active
      /\ cache' = DerivedKey(active) /\ stray' = FALSE /\ holders' = {t} /\ KeyStep
      /\ DerivedKey(active) \in SomeKey
  BY KeysAreKeys DEF IInv, TypeOK, Derive, KeyStep
<1>2. /\ task' \in [Tasks -> TaskType]
      /\ task'[t] = [key |-> DerivedKey(active), owner |-> active, sound |-> ~stray,
                     calm |-> TRUE, opens |-> opens]
      /\ \A u \in Tasks \ {t} : task'[u] = task[u]
  BY <1>1, CallFacts DEF Derive
<1>3. /\ pc' \in [Tasks -> Steps] /\ pc'[t] = "use" /\ \A u \in Tasks \ {t} : pc'[u] = pc[u]
  BY <1>1, GotoFacts DEF Derive, Steps
<1>4. TypeOK'
  <2>1. holders' \subseteq Running' /\ \A u \in holders' : task'[u].key = cache'
    BY <1>1, <1>2, <1>3 DEF Running
  <2>2. cache' \in SomeKey \cup {NoKey} /\ stray' \in BOOLEAN
    BY <1>1
  <2>3. QED
    BY <1>1, <1>2, <1>3, <2>1, <2>2 DEF TypeOK, TaskType, Steps
<1>5. opens # NoKey => RightRecord(opens)'
  BY <1>1, RecordPersists DEF IInv, RecordsRight
<1>6. Good(t)'
  BY <1>1, <1>2, <1>3, <1>5 DEF Good, RightRecord, Right
<1>7. CacheRight'
  BY <1>1 DEF CacheRight, Right
<1>8. OneLaunch'
  BY <1>1, <1>3, LaunchKeeps DEF KeyStep, Launching
<1>9. QED
  BY <1>1, <1>2, <1>3, <1>4, <1>6, <1>7, <1>8, TaskStepKeeps

\* Without a wallet, a call reads the key of the device, or makes one.
LEMMA LegacyKeeps ==
    ASSUME IInv, NEW t \in Tasks, NEW opens \in records \cup {NoKey}, pc[t] = "idle",
           Legacy(t, opens), UNCHANGED <<platform, stored, drawn, records, lost>>
    PROVE  IInv'
<1>1. TypeOK /\ CacheRight /\ OneLaunch /\ Good(t) /\ active = NoWallet /\ ~Launching(t)
      /\ opens \in Record \cup {NoKey} /\ UNCHANGED <<active, cache, stray, holders>>
      /\ t \notin holders /\ stored \in LegacyKeys \cup {NoKey}
  BY KeysAreKeys DEF IInv, TypeOK, Legacy, keys, Launching, Good
<1>2. PICK k \in LegacyKeys \cup {NoKey}, step \in {"adopt", "generate", "read"} :
          /\ Call(t, k, opens)
          /\ \/ step = "generate" /\ Missed(t) /\ platform # "bare"
             \/ step = "read" /\ Goto(t, "read") /\ UNCHANGED faults /\ platform # "bare"
             \/ /\ step = "adopt" /\ Goto(t, "adopt") /\ UNCHANGED faults
                /\ k \in LegacyKeys /\ k = DeviceKey
  <2>1. CASE platform = "bare"
    <3>1. Call(t, FixedKey, opens) /\ Goto(t, "adopt") /\ UNCHANGED faults
      BY <2>1 DEF Legacy
    <3>2. FixedKey = DeviceKey
      BY <2>1 DEF DeviceKey
    <3>3. QED
      BY <3>1, <3>2, FixedIsKey
  <2>2. CASE platform = "web" /\ stored # NoKey
    <3>1. Call(t, stored, opens) /\ Goto(t, "adopt") /\ UNCHANGED faults
      BY <2>2 DEF Legacy
    <3>2. stored = DeviceKey
      BY <2>2 DEF DeviceKey
    <3>3. QED
      BY <1>1, <2>2, <3>1, <3>2
  <2>3. CASE platform = "web" /\ stored = NoKey
    <3>1. Call(t, NoKey, opens) /\ Missed(t)
      BY <2>3 DEF Legacy
    <3>2. QED
      BY <2>3, <3>1
  <2>4. CASE platform = "native"
    <3>1. Call(t, NoKey, opens) /\ Goto(t, "read") /\ UNCHANGED faults
      BY <2>4 DEF Legacy
    <3>2. QED
      BY <2>4, <3>1
  <2>5. QED
    BY <1>1, <2>1, <2>2, <2>3, <2>4 DEF TypeOK
<1>3. /\ task' \in [Tasks -> TaskType]
      /\ task'[t] = [key |-> k, owner |-> active, sound |-> ~stray, calm |-> TRUE,
                     opens |-> opens]
      /\ \A u \in Tasks \ {t} : task'[u] = task[u]
  BY <1>1, <1>2, CallFacts, KeysAreKeys
<1>4. /\ pc' \in [Tasks -> Steps] /\ pc'[t] = step /\ \A u \in Tasks \ {t} : pc'[u] = pc[u]
      /\ faults \subseteq faults' /\ OneLaunch'
  <2>1. CASE step = "generate"
    BY <1>1, <1>2, <2>1, MissedFacts
  <2>2. CASE step # "generate"
    <3>1. /\ pc' \in [Tasks -> Steps] /\ pc'[t] = step
          /\ \A u \in Tasks \ {t} : pc'[u] = pc[u]
      BY <1>1, <1>2, <2>2, GotoFacts DEF Steps
    <3>2. QED
      BY <1>1, <1>2, <2>2, <3>1, LaunchKeeps DEF Launching
  <2>3. QED
    BY <2>1, <2>2
<1>5. KeyStep
  BY <1>4 DEF KeyStep
<1>6. TypeOK'
  BY <1>1, <1>3, <1>4 DEF TypeOK, TaskType, Steps, Running
<1>7. opens # NoKey => RightRecord(opens)'
  BY <1>1, <1>5, RecordPersists DEF IInv, RecordsRight
<1>8. step = "adopt" => k \in LegacyKeys /\ Right(k, NoWallet)'
  BY <1>2, KeysAreKeys DEF Right, DeviceKey
<1>9. Good(t)'
  BY <1>1, <1>2, <1>3, <1>4, <1>7, <1>8 DEF Good, RightRecord, Right, DeviceKey
<1>10. CacheRight'
  BY <1>1, <1>5, CacheKeeps
<1>11. QED
  BY <1>1, <1>3, <1>4, <1>5, <1>6, <1>9, <1>10, TaskStepKeeps

\* The stored key is read, or the read fails and is taken for a first launch.
LEMMA ReadStoredKeeps ==
    ASSUME IInv, NEW t \in Tasks, ReadStored(t)
    PROVE  IInv'
<1>1. TypeOK /\ CacheRight /\ OneLaunch /\ Good(t) /\ pc[t] = "read" /\ ~Launching(t)
      /\ UNCHANGED <<platform, active, cache, stray, holders, stored, drawn, records, lost>>
      /\ t \notin holders /\ task[t] \in TaskType /\ task[t].owner = NoWallet
      /\ platform # "bare"
  BY DEF IInv, TypeOK, TaskType, ReadStored, keys, Launching, Good
<1>2. CASE stored # NoKey /\ task' = [task EXCEPT ![t].key = stored] /\ Goto(t, "adopt")
           /\ UNCHANGED faults
  <2>1. /\ pc' \in [Tasks -> Steps] /\ pc'[t] = "adopt"
        /\ \A u \in Tasks \ {t} : pc'[u] = pc[u]
    BY <1>1, <1>2, GotoFacts DEF Steps
  <2>2. stored \in SomeKey /\ stored \in LegacyKeys
    BY <1>1, <1>2, KeysAreKeys DEF TypeOK
  <2>3. /\ task' \in [Tasks -> TaskType] /\ task'[t] = [task[t] EXCEPT !.key = stored]
        /\ \A u \in Tasks \ {t} : task'[u] = task[u]
    <3>1. [task[t] EXCEPT !.key = stored] \in TaskType
      BY <1>1, <2>2 DEF TaskType
    <3>2. QED
      BY <1>1, <1>2, <3>1 DEF TypeOK, TaskType
  <2>4. /\ task'[t].key = stored /\ task'[t].owner = NoWallet
        /\ task'[t].calm = task[t].calm /\ task'[t].opens = task[t].opens
    BY <1>1, <2>3 DEF TaskType
  <2>5. TypeOK'
    BY <1>1, <2>1, <2>3 DEF TypeOK, TaskType, Steps, Running
  <2>6. KeyStep
    BY <1>1, <1>2 DEF KeyStep
  <2>7. Good(t)'
    BY <1>1, <1>2, <2>1, <2>2, <2>4 DEF Good, RightRecord, Right, DeviceKey
  <2>8. CacheRight' /\ OneLaunch'
    BY <1>1, <2>1, <2>6, CacheKeeps, LaunchKeeps DEF KeyStep, Launching
  <2>9. QED
    BY <1>1, <2>1, <2>3, <2>5, <2>6, <2>7, <2>8, TaskStepKeeps
<1>3. CASE Missed(t) /\ UNCHANGED task
  <2>1. /\ OneLaunch' /\ faults \subseteq faults' /\ pc' \in [Tasks -> Steps]
        /\ pc'[t] = "generate" /\ \A u \in Tasks \ {t} : pc'[u] = pc[u]
    BY <1>1, <1>3, MissedFacts
  <2>2. KeyStep
    BY <1>1, <2>1 DEF KeyStep
  <2>3. TypeOK'
    BY <1>1, <1>3, <2>1 DEF TypeOK, Steps, Running
  <2>4. task'[t] = task[t] /\ (RightRecord(task[t].opens) => RightRecord(task[t].opens)')
    <3>1. task' = task
      BY <1>3
    <3>2. QED
      BY <2>2, <3>1, FixedIsKey DEF RightRecord, Right, DeviceKey, KeyStep
  <2>5. Good(t)'
    BY <1>1, <2>1, <2>4 DEF Good
  <2>6. CacheRight'
    BY <1>1, <2>2, CacheKeeps
  <2>7. QED
    BY <1>1, <1>3, <2>1, <2>2, <2>3, <2>5, <2>6, TaskStepKeeps
<1>4. QED
  BY <1>2, <1>3 DEF ReadStored

\* A new random key, not written yet.
LEMMA GenerateKeeps ==
    ASSUME IInv, NEW t \in Tasks, Generate(t)
    PROVE  IInv'
<1>1. TypeOK /\ CacheRight /\ OneLaunch /\ Good(t) /\ pc[t] = "generate"
      /\ UNCHANGED <<platform, active, cache, stray, holders, stored, records, lost, faults>>
      /\ t \notin holders /\ task[t] \in TaskType /\ task[t].owner = NoWallet
      /\ platform # "bare"
  BY DEF IInv, TypeOK, TaskType, Generate, keys, Good
<1>2. PICK k \in DeviceKeys : task' = [task EXCEPT ![t].key = k] /\ drawn' = drawn \cup {k}
  BY DEF Generate
<1>3. /\ pc' \in [Tasks -> Steps] /\ pc'[t] = "store" /\ \A u \in Tasks \ {t} : pc'[u] = pc[u]
  BY <1>1, GotoFacts DEF Generate, Steps
<1>4. /\ task' \in [Tasks -> TaskType] /\ task'[t] = [task[t] EXCEPT !.key = k]
      /\ \A u \in Tasks \ {t} : task'[u] = task[u]
  <2>1. [task[t] EXCEPT !.key = k] \in TaskType
    BY <1>1, KeysAreKeys DEF TaskType
  <2>2. QED
    BY <1>1, <1>2, <2>1 DEF TypeOK, TaskType
<1>5. /\ task'[t].key = k /\ task'[t].owner = NoWallet
      /\ task'[t].calm = task[t].calm /\ task'[t].opens = task[t].opens
  BY <1>1, <1>4 DEF TaskType
<1>6. TypeOK'
  BY <1>1, <1>2, <1>3, <1>4 DEF TypeOK, TaskType, Steps, Running
<1>7. KeyStep
  BY <1>1 DEF KeyStep
<1>8. Good(t)'
  BY <1>1, <1>3, <1>5 DEF Good, RightRecord, Right, DeviceKey
<1>9. CacheRight' /\ OneLaunch'
  BY <1>1, <1>3, <1>7, CacheKeeps, LaunchKeeps DEF KeyStep, Launching
<1>10. QED
  BY <1>1, <1>3, <1>4, <1>6, <1>7, <1>8, <1>9, TaskStepKeeps

\* A call is over: its key, and its hold on the object, are gone.
LEMMA ReturnFacts ==
    ASSUME TypeOK, NEW t \in Tasks, Return(t)
    PROVE  /\ pc' \in [Tasks -> Steps] /\ pc'[t] = "idle"
           /\ \A u \in Tasks \ {t} : pc'[u] = pc[u] /\ task'[u] = task[u]
           /\ task' \in [Tasks -> TaskType]
<1>1. task \in [Tasks -> TaskType] /\ NoTask \in TaskType
  BY DEF TypeOK, TaskType, NoTask
<1>2. QED
  BY <1>1, GotoFacts DEF Return, Steps

\* The key is written: it becomes the device's.  When the write fails, the call
\* goes on with a key that nobody else will read, or throws.
LEMMA StoreKeeps ==
    ASSUME IInv, NEW t \in Tasks, Store(t)
    PROVE  IInv'
<1>1. TypeOK /\ CacheRight /\ OneLaunch /\ Good(t) /\ pc[t] = "store" /\ Launching(t)
      /\ UNCHANGED <<platform, active, cache, stray, holders, drawn, records, lost>>
      /\ t \notin holders /\ task[t] \in TaskType /\ task[t].owner = NoWallet
      /\ platform # "bare" /\ task[t].key \in DeviceKeys /\ task[t].key \in LegacyKeys
      /\ faults \subseteq faults'
  BY KeysAreKeys DEF IInv, TypeOK, TaskType, Store, keys, Good, Launching
<1>2. CASE stored' = task[t].key /\ Goto(t, "adopt") /\ UNCHANGED <<task, faults>>
  <2>1. /\ pc' \in [Tasks -> Steps] /\ pc'[t] = "adopt"
        /\ \A u \in Tasks \ {t} : pc'[u] = pc[u]
    BY <1>1, <1>2, GotoFacts DEF Steps
  <2>2. faults = {} => stored = NoKey /\ \A u \in Tasks : Launching(u) => u = t
    BY <1>1 DEF OneLaunch
  <2>3. KeyStep
    BY <1>1, <1>2, <2>2 DEF KeyStep
  <2>4. TypeOK'
    BY <1>1, <1>2, <2>1 DEF TypeOK, Steps, Running
  <2>5. task[t].opens # NoKey /\ RightRecord(task[t].opens) => RightRecord(task[t].opens)'
    BY <1>2, <2>3, FixedIsKey DEF RightRecord, Right, DeviceKey, KeyStep
  <2>6. Right(task[t].key, NoWallet)'
    BY <1>1, <1>2, KeysAreKeys DEF Right, DeviceKey
  <2>7. Good(t)'
    BY <1>1, <1>2, <2>1, <2>5, <2>6 DEF Good
  <2>8. OneLaunch'
    <3>1. \A u \in Tasks : faults' = {} => ~Launching(u)'
      BY <1>1, <1>2, <2>1, <2>2 DEF Launching
    <3>2. QED
      BY <3>1 DEF OneLaunch
  <2>9. CacheRight'
    BY <1>1, <2>3, CacheKeeps
  <2>10. QED
    BY <1>1, <1>2, <2>1, <2>3, <2>4, <2>7, <2>8, <2>9, TaskStepKeeps
<1>3. CASE /\ UNCHANGED stored /\ Goto(t, "adopt") /\ faults' = faults \cup {"write failed"}
           /\ UNCHANGED task
  <2>1. /\ pc' \in [Tasks -> Steps] /\ pc'[t] = "adopt"
        /\ \A u \in Tasks \ {t} : pc'[u] = pc[u]
    BY <1>1, <1>3, GotoFacts DEF Steps
  <2>2. KeyStep /\ faults' # {}
    BY <1>1, <1>3 DEF KeyStep
  <2>3. TypeOK'
    BY <1>1, <1>3, <2>1 DEF TypeOK, Steps, Running
  <2>4. task[t].opens # NoKey /\ RightRecord(task[t].opens) => RightRecord(task[t].opens)'
    BY <1>3, <2>2 DEF RightRecord, Right
  <2>5. Right(task[t].key, NoWallet)'
    BY <2>2 DEF Right
  <2>6. Good(t)'
    BY <1>1, <1>3, <2>1, <2>4, <2>5 DEF Good
  <2>7. CacheRight' /\ OneLaunch'
    BY <1>1, <2>2, CacheKeeps DEF OneLaunch
  <2>8. QED
    BY <1>1, <1>3, <2>1, <2>2, <2>3, <2>6, <2>7, TaskStepKeeps
<1>4. CASE UNCHANGED stored /\ Return(t) /\ UNCHANGED faults
  <2>1. /\ pc' \in [Tasks -> Steps] /\ pc'[t] = "idle"
        /\ \A u \in Tasks \ {t} : pc'[u] = pc[u] /\ task'[u] = task[u]
        /\ task' \in [Tasks -> TaskType]
    BY <1>1, <1>4, ReturnFacts
  <2>2. KeyStep
    BY <1>1, <1>4 DEF KeyStep
  <2>3. TypeOK'
    BY <1>1, <1>4, <2>1 DEF TypeOK, TaskType, Steps, Running
  <2>4. Good(t)'
    BY <1>1, <2>1 DEF Good
  <2>5. CacheRight' /\ OneLaunch'
    BY <1>1, <1>4, <2>1, <2>2, CacheKeeps, LaunchKeeps DEF Launching
  <2>6. QED
    BY <1>1, <2>1, <2>2, <2>3, <2>4, <2>5, TaskStepKeeps
<1>5. QED
  BY <1>2, <1>3, <1>4 DEF Store

\* The legacy path ends: the device's key is cached, late or not.
LEMMA AdoptKeeps ==
    ASSUME IInv, NEW t \in Tasks, Adopt(t)
    PROVE  IInv'
<1>1. /\ TypeOK /\ OneLaunch /\ Good(t) /\ pc[t] = "adopt" /\ task[t] \in TaskType
      /\ UNCHANGED <<platform, active, stored, drawn, task, records, lost, faults>>
      /\ cache' = task[t].key /\ holders' = {t} /\ stray' = ~task[t].calm
      /\ task[t].owner = NoWallet /\ task[t].key \in SomeKey /\ Right(task[t].key, NoWallet)
      /\ task[t].key \in LegacyKeys
      /\ task[t].calm => active = NoWallet
  BY KeysAreKeys DEF IInv, TypeOK, TaskType, Adopt, Good
<1>2. /\ pc' \in [Tasks -> Steps] /\ pc'[t] = "use" /\ \A u \in Tasks \ {t} : pc'[u] = pc[u]
  BY <1>1, GotoFacts DEF Adopt, Steps
<1>3. TypeOK'
  <2>1. stray' \in BOOLEAN
    BY <1>1
  <2>2. holders' \subseteq Running' /\ \A u \in holders' : task'[u].key = cache'
    BY <1>1, <1>2 DEF Running
  <2>3. QED
    BY <1>1, <1>2, <2>1, <2>2 DEF TypeOK, Steps
<1>4. KeyStep
  BY <1>1 DEF KeyStep
<1>5. Right(task[t].key, NoWallet)'
  BY <1>1 DEF Right, DeviceKey
<1>6. task[t].opens # NoKey /\ RightRecord(task[t].opens) => RightRecord(task[t].opens)'
  BY <1>1 DEF RightRecord, Right, DeviceKey
<1>7. Good(t)'
  <2>1. Right(task[t].key, task[t].owner)'
    BY <1>1, <1>5 DEF Right
  <2>2. QED
    BY <1>1, <1>2, <1>6, <2>1 DEF Good
<1>8. CacheRight'
  BY <1>1, <1>5 DEF CacheRight, Right, DeviceKey
<1>9. OneLaunch'
  BY <1>1, <1>2, LaunchKeeps DEF Launching
<1>10. QED
  BY <1>1, <1>2, <1>3, <1>4, <1>7, <1>8, <1>9, TaskStepKeeps

-----------------------------------------------------------------------------
(* encrypt and decrypt, and the end of the process. *)

\* A record is made with the key as it is now: the right one, if it counts as sound.
LEMMA SealKeeps ==
    ASSUME IInv, NEW t \in Tasks, Seal(t)
    PROVE  IInv'
<1>1. /\ TypeOK /\ CacheRight /\ OneLaunch /\ Good(t) /\ pc[t] = "use" /\ task[t] \in TaskType
      /\ UNCHANGED <<platform, active, cache, stray, stored, drawn, lost, faults>>
      /\ holders' = holders \ {t} /\ task[t].key \in SomeKey \cup {Zeroed}
      /\ task[t].sound => Right(task[t].key, task[t].owner)
  BY DEF IInv, TypeOK, TaskType, Seal, Good
<1>2. /\ pc' \in [Tasks -> Steps] /\ pc'[t] = "idle"
      /\ \A u \in Tasks \ {t} : pc'[u] = pc[u] /\ task'[u] = task[u]
      /\ task' \in [Tasks -> TaskType]
  BY <1>1, ReturnFacts DEF Seal
<1>3. PICK r : /\ records' = records \cup {r}
               /\ r = [key |-> task[t].key, owner |-> task[t].owner, sound |-> task[t].sound]
  BY DEF Seal
<1>4. r \in Record /\ r.key = task[t].key /\ r.owner = task[t].owner /\ r.sound = task[t].sound
  BY <1>1, <1>3 DEF Record, TaskType
<1>5. TypeOK'
  <2>1. holders' \subseteq Running' /\ \A u \in holders' : task'[u].key = cache'
    BY <1>1, <1>2 DEF Running, TypeOK
  <2>2. records' \subseteq Record
    BY <1>1, <1>3, <1>4 DEF TypeOK
  <2>3. QED
    BY <1>1, <1>2, <2>1, <2>2 DEF TypeOK, TaskType, Steps
<1>6. KeyStep
  BY <1>1 DEF KeyStep
<1>7. RightRecord(r)'
  <2>1. r.sound => Right(r.key, r.owner)
    BY <1>1, <1>4
  <2>2. QED
    BY <1>1, <2>1 DEF RightRecord, Right, DeviceKey
<1>8. Good(t)'
  BY <1>1, <1>2 DEF Good
<1>9. CacheRight' /\ OneLaunch'
  BY <1>1, <1>2, <1>6, CacheKeeps, LaunchKeeps DEF KeyStep, Launching
<1>10. QED
  BY <1>1, <1>2, <1>3, <1>5, <1>6, <1>7, <1>8, <1>9, TaskStepKeeps

\* A record is lost only without a wallet, and after something went wrong: two
\* right keys of one owner are the same.
LEMMA UnsealKeeps ==
    ASSUME IInv, NEW t \in Tasks, Unseal(t)
    PROVE  IInv'
<1>1. /\ TypeOK /\ CacheRight /\ OneLaunch /\ Good(t) /\ pc[t] = "use" /\ task[t] \in TaskType
      /\ UNCHANGED <<platform, active, cache, stray, stored, drawn, records, faults>>
      /\ holders' = holders \ {t} /\ task[t].opens \in Record /\ RightRecord(task[t].opens)
      /\ task[t].sound => Right(task[t].key, task[t].owner)
  BY DEF IInv, TypeOK, TaskType, Unseal, Good
<1>2. /\ pc' \in [Tasks -> Steps] /\ pc'[t] = "idle"
      /\ \A u \in Tasks \ {t} : pc'[u] = pc[u] /\ task'[u] = task[u]
      /\ task' \in [Tasks -> TaskType]
  BY <1>1, ReturnFacts DEF Unseal
<1>3. \/ lost' = lost
      \/ /\ lost' = lost \cup {task[t].opens} /\ task[t].opens.sound /\ task[t].sound
         /\ task[t].opens.owner = task[t].owner /\ task[t].opens.key # task[t].key
  BY DEF Unseal
<1>4. ASSUME NEW r \in lost' \ lost PROVE r.owner = NoWallet /\ faults # {}
  <2>1. /\ r = task[t].opens /\ r.sound /\ task[t].sound
        /\ r.owner = task[t].owner /\ r.key # task[t].key
    BY <1>3, <1>4
  <2>2. Right(r.key, r.owner) /\ Right(task[t].key, r.owner)
    BY <1>1, <2>1 DEF RightRecord
  <2>3. QED
    BY <2>1, <2>2 DEF Right
<1>5. TypeOK'
  <2>1. holders' \subseteq Running' /\ \A u \in holders' : task'[u].key = cache'
    BY <1>1, <1>2 DEF Running, TypeOK
  <2>2. lost' \subseteq Record
    BY <1>1, <1>3 DEF TypeOK
  <2>3. QED
    BY <1>1, <1>2, <2>1, <2>2 DEF TypeOK, TaskType, Steps
<1>6. KeyStep
  BY <1>1 DEF KeyStep
<1>7. Good(t)'
  BY <1>1, <1>2 DEF Good
<1>8. CacheRight' /\ OneLaunch'
  BY <1>1, <1>2, <1>6, CacheKeeps, LaunchKeeps DEF KeyStep, Launching
<1>9. QED
  BY <1>1, <1>2, <1>4, <1>5, <1>6, <1>7, <1>8, TaskStepKeeps

\* After the end of the process nothing runs and nothing is cached; an uninstall
\* is something that went wrong with the device key.
LEMMA EndKeeps ==
    ASSUME IInv, Restart \/ Reinstall
    PROVE  IInv'
<1>1. /\ TypeOK /\ NothingRuns
      /\ \/ UNCHANGED <<stored, faults>>
         \/ stored' = NoKey /\ faults' = faults \cup {"erased"}
  BY DEF IInv, Restart, Reinstall
<1>2. KeyStep
  BY <1>1 DEF KeyStep, NothingRuns
<1>3. TypeOK'
  <2>1. NoTask \in TaskType
    BY DEF TaskType, NoTask
  <2>2. task' \in [Tasks -> TaskType] /\ holders' = {} /\ cache' = NoKey /\ stray' = FALSE
    BY <1>1, <2>1 DEF NothingRuns
  <2>3. stored' \in DeviceKeys \cup {NoKey}
    BY <1>1 DEF TypeOK
  <2>4. QED
    BY <1>1, <2>2, <2>3 DEF TypeOK, NothingRuns, TaskType
<1>4. RecordsRight'
  BY <1>1, <1>2, RecordPersists DEF IInv, RecordsRight, NothingRuns
<1>5. CacheRight' /\ OneLaunch' /\ \A t \in Tasks : Good(t)'
  BY <1>1 DEF NothingRuns, CacheRight, OneLaunch, Launching, Good
<1>6. LostExplained'
  BY <1>1 DEF IInv, LostExplained, NothingRuns
<1>7. QED
  BY <1>3, <1>4, <1>5, <1>6 DEF IInv

-----------------------------------------------------------------------------
(* The invariant, and what follows from it. *)

\* A first launch has nothing to be wrong about.
LEMMA InitEstablishes == Init => IInv
<1>1. SUFFICES ASSUME Init PROVE IInv
  OBVIOUS
<1>2. NoTask \in TaskType
  BY DEF TaskType, NoTask
<1>3. task \in [Tasks -> TaskType] /\ pc \in [Tasks -> Steps]
  BY <1>1, <1>2 DEF Init, Steps
<1>4. TypeOK
  BY <1>1, <1>3 DEF Init, TypeOK, TaskType, Steps
<1>5. CacheRight /\ RecordsRight /\ OneLaunch /\ LostExplained
  BY <1>1 DEF Init, CacheRight, RecordsRight, OneLaunch, Launching, LostExplained
<1>6. \A t \in Tasks : Good(t)
  BY <1>1 DEF Init, Good
<1>7. QED
  BY <1>4, <1>5, <1>6 DEF IInv

\* Every step of a call, every change of wallet and every end of the process keep it.
LEMMA StepKeeps == IInv /\ [Next]_vars => IInv'
<1>1. SUFFICES ASSUME IInv, [Next]_vars PROVE IInv'
  OBVIOUS
<1>2. ASSUME NEW w \in Wallets \cup {NoWallet}, SetActive(w) PROVE IInv'
  BY <1>1, <1>2, DropKeeps DEF SetActive
<1>3. CASE ResetKeyCache
  <2>1. active' \in Wallets \cup {NoWallet}
    BY <1>1, <1>3 DEF IInv, TypeOK, ResetKeyCache
  <2>2. QED
    BY <1>1, <1>3, <2>1, DropKeeps DEF ResetKeyCache
<1>4. ASSUME NEW t \in Tasks, NEW opens \in records \cup {NoKey}, GetKey(t, opens) PROVE IInv'
  BY <1>1, <1>4, GetCachedKeeps, DeriveKeeps, LegacyKeeps DEF GetKey
<1>5. ASSUME NEW t \in Tasks, Encrypt(t) \/ Decrypt(t) PROVE IInv'
  BY <1>1, <1>4, <1>5 DEF Encrypt, Decrypt
<1>6. ASSUME NEW t \in Tasks,
             \/ ReadStored(t) \/ Generate(t) \/ Store(t) \/ Adopt(t)
             \/ Seal(t) \/ Unseal(t)
      PROVE  IInv'
  BY <1>1, <1>6, ReadStoredKeeps, GenerateKeeps, StoreKeeps, AdoptKeeps, SealKeeps, UnsealKeeps
<1>7. CASE Restart \/ Reinstall
  BY <1>1, <1>7, EndKeeps
<1>8. CASE UNCHANGED vars
  <2>1. KeyStep /\ UNCHANGED <<active, cache, stray, holders, pc, task, records, lost, faults, stored>>
    BY <1>8 DEF vars, keys, KeyStep
  <2>2. TypeOK'
    BY <1>1, <1>8, <2>1 DEF IInv, TypeOK, Running, vars, keys
  <2>3. \A t \in Tasks : Good(t)'
    BY <1>1, <2>1, OtherKeeps DEF IInv
  <2>4. CacheRight' /\ RecordsRight' /\ OneLaunch' /\ LostExplained'
    BY <1>1, <2>1, CacheKeeps, RecordPersists, LaunchKeeps
       DEF IInv, RecordsRight, LostExplained, Launching
  <2>5. QED
    BY <2>2, <2>3, <2>4 DEF IInv
<1>9. QED
  BY <1>1, <1>2, <1>3, <1>5, <1>6, <1>7, <1>8 DEF Next

\* The invariant holds of every run of the notebook.
LEMMA Invariance == Spec => []IInv
BY InitEstablishes, StepKeeps, PTL DEF Spec

\* The types of the calls and of the cache: a call that holds the cached object sees
\* the key it has, and the cached object is never one that was wiped.
THEOREM CallsAreTyped == Spec => []TypeOK
<1>1. IInv => TypeOK
  BY DEF IInv
<1>2. QED
  BY <1>1, Invariance, PTL

\* While a wallet is active the cache never holds another wallet's key, and one of the
\* legacy path only if a getKey that a change of wallet or a reset overtook put it there.
THEOREM DerivedKeyTakesOver == Spec => []KdfTakesOver
<1>1. IInv => KdfTakesOver
  BY DEF IInv, CacheRight, Right, KdfTakesOver
<1>2. QED
  BY <1>1, Invariance, PTL

\* A record made with a wallet opens again under that wallet, across restarts,
\* reinstalls, resets and changes of wallet that overtake neither call.
THEOREM WalletRecordsStayReadable == Spec => []WalletRecordsOpen
<1>1. IInv => WalletRecordsOpen
  BY DEF IInv, LostExplained, WalletRecordsOpen
<1>2. QED
  BY <1>1, Invariance, PTL

\* A record made without a wallet opens again on the device, as long as its storage
\* neither failed nor was erased and two first launches of getKey did not overlap.
THEOREM DeviceRecordsStayReadable == Spec => []DeviceRecordsOpen
<1>1. IInv => DeviceRecordsOpen
  BY DEF IInv, LostExplained, DeviceRecordsOpen
<1>2. QED
  BY <1>1, Invariance, PTL

-----------------------------------------------------------------------------
(* The bytes of a seed, on their way to the derived key. *)

\* utf8ToMutableBytes writes one unit as one to three bytes, from which the unit
\* can be read back: no two units become the same bytes, and the buffer of four
\* bytes per unit is never too small.
THEOREM UnitsKeepTheirMeaning ==
    ASSUME NEW c \in Units
    PROVE  /\ DecodeUnit(EncodeUnit(c)) = c
           /\ Len(EncodeUnit(c)) \in 1..3
           /\ \A i \in 1..Len(EncodeUnit(c)) : EncodeUnit(c)[i] \in Byte
<1>1. CASE c < 128
  <2>1. EncodeUnit(c) = <<c>> /\ c \in Byte
    BY <1>1, SMT DEF EncodeUnit, Units, Byte, Below
  <2>2. Len(<<c>>) = 1 /\ <<c>>[1] = c
    BY SMT
  <2>3. \A i \in 1..1 : <<c>>[i] \in Byte
    BY <2>1, <2>2, SMT
  <2>4. QED
    BY <2>1, <2>2, <2>3, SMT DEF DecodeUnit
<1>2. CASE ~(c < 128) /\ c < 2048
  <2> DEFINE x == 192 + (c \div 64)
             y == 128 + (c % 64)
  <2>1. EncodeUnit(c) = <<x, y>>
    BY <1>2, SMT DEF EncodeUnit
  <2>2. x \in Byte /\ y \in Byte /\ (x - 192) * 64 + (y - 128) = c
    BY <1>2, SMT DEF Units, Byte, Below
  <2> HIDE DEF x, y
  <2>3. Len(<<x, y>>) = 2 /\ <<x, y>>[1] = x /\ <<x, y>>[2] = y
    BY SMT
  <2>4. \A i \in 1..2 : <<x, y>>[i] \in Byte
    BY <2>2, <2>3, SMT
  <2>5. QED
    BY <2>1, <2>2, <2>3, <2>4, SMT DEF DecodeUnit
<1>3. CASE ~(c < 2048)
  <2> DEFINE x == 224 + (c \div 4096)
             y == 128 + ((c \div 64) % 64)
             z == 128 + (c % 64)
  <2>1. EncodeUnit(c) = <<x, y, z>>
    BY <1>3, SMT DEF EncodeUnit, Units, Below
  <2>2. /\ x \in Byte /\ y \in Byte /\ z \in Byte
        /\ (x - 224) * 4096 + (y - 128) * 64 + (z - 128) = c
    BY <1>3, SMT DEF Units, Byte, Below
  <2> HIDE DEF x, y, z
  <2>3. /\ Len(<<x, y, z>>) = 3
        /\ <<x, y, z>>[1] = x /\ <<x, y, z>>[2] = y /\ <<x, y, z>>[3] = z
    BY SMT
  <2>4. \A i \in 1..3 : <<x, y, z>>[i] \in Byte
    BY <2>2, <2>3, SMT
  <2>5. QED
    BY <2>1, <2>2, <2>3, <2>4, SMT DEF DecodeUnit
<1>4. QED
  BY <1>1, <1>2, <1>3

\* A well-formed surrogate pair becomes the four bytes of its code point, from
\* which the pair can be read back.
THEOREM PairsKeepTheirMeaning ==
    ASSUME NEW hi \in High, NEW lo \in Low
    PROVE  /\ CodePoint(hi, lo) \in Below(1114112) /\ CodePoint(hi, lo) >= 65536
           /\ DecodePair(EncodePair(hi, lo)) = CodePoint(hi, lo)
           /\ \A i \in 1..4 : EncodePair(hi, lo)[i] \in Byte
<1> DEFINE c == CodePoint(hi, lo)
           w == 240 + (c \div 262144)
           x == 128 + ((c \div 4096) % 64)
           y == 128 + ((c \div 64) % 64)
           z == 128 + (c % 64)
<1>1. c \in Below(1114112) /\ c >= 65536
  BY SMT DEF CodePoint, High, Low, Below
<1>2. EncodePair(hi, lo) = <<w, x, y, z>>
  BY DEF EncodePair
<1> HIDE DEF c
<1>3. w \in Byte /\ x \in Byte /\ y \in Byte /\ z \in Byte
  BY <1>1, SMT DEF Byte, Below
<1>4. (w - 240) * 262144 + (x - 128) * 4096 + (y - 128) * 64 + (z - 128) = c
  BY <1>1, SMT DEF Below
<1> HIDE DEF w, x, y, z
<1>5. /\ <<w, x, y, z>>[1] = w /\ <<w, x, y, z>>[2] = x
      /\ <<w, x, y, z>>[3] = y /\ <<w, x, y, z>>[4] = z
  BY SMT
<1>6. \A i \in 1..4 : <<w, x, y, z>>[i] \in Byte
  BY <1>3, <1>5, SMT
<1>7. DecodePair(<<w, x, y, z>>) = c
  BY <1>4, <1>5, SMT DEF DecodePair
<1>8. QED
  BY <1>1, <1>2, <1>6, <1>7 DEF c

\* A word of wordsFromBytes gives back the four bytes that were packed into it.
LEMMA WordKeepsBytes ==
    ASSUME NEW b1 \in Byte, NEW b2 \in Byte, NEW b3 \in Byte, NEW b4 \in Byte
    PROVE  LET w == Word(b1, b2, b3, b4) IN
           /\ w \in Below(4294967296)
           /\ ByteOf(w, 1) = b1 /\ ByteOf(w, 2) = b2
           /\ ByteOf(w, 3) = b3 /\ ByteOf(w, 4) = b4
<1> DEFINE w == Word(b1, b2, b3, b4)
<1>1. w \in Below(4294967296)
  BY SMT DEF Word, Byte, Below
<1>2. ByteOf(w, 1) = b1 /\ ByteOf(w, 2) = b2
  BY SMT DEF Word, Byte, Below, ByteOf
<1>3. ByteOf(w, 3) = b3 /\ ByteOf(w, 4) = b4
  BY SMT DEF Word, Byte, Below, ByteOf
<1>4. QED
  BY <1>1, <1>2, <1>3

\* wordsFromBytes loses nothing: whatever the number of bytes, every one of them
\* can be read back from its word, so seeds that differ in a byte differ in a word
\* of what PBKDF2 is given.
THEOREM WordsKeepBytes ==
    ASSUME NEW bytes \in Seq(Byte), NEW i \in 1..Len(bytes)
    PROVE  LET words == wordsFromBytes(bytes) IN
           /\ (i + 3) \div 4 \in DOMAIN words
           /\ ByteOf(words[(i + 3) \div 4], ((i - 1) % 4) + 1) = bytes[i]
<1> DEFINE byte(k) == IF k <= Len(bytes) THEN bytes[k] ELSE 0
           w == (i + 3) \div 4
           n == ((i - 1) % 4) + 1
<1>1. Len(bytes) \in Nat /\ \A k \in 1..Len(bytes) : bytes[k] \in Byte
  BY SMT
<1>2. \A k \in Nat : k >= 1 => byte(k) \in Byte
  <2>1. 0 \in Byte
    BY SMT DEF Byte, Below
  <2>2. QED
    BY <1>1, <2>1, SMT
<1>3. /\ w \in 1..((Len(bytes) + 3) \div 4)
      /\ n \in 1..4 /\ i = 4 * w - 4 + n /\ w \in Nat /\ w >= 1
  BY <1>1, SMT
<1>4. DOMAIN wordsFromBytes(bytes) = 1..((Len(bytes) + 3) \div 4)
  BY DEF wordsFromBytes
<1>5. wordsFromBytes(bytes)[w] =
          Word(byte(4 * w - 3), byte(4 * w - 2), byte(4 * w - 1), byte(4 * w))
  BY <1>3 DEF wordsFromBytes
<1> HIDE DEF w, n
<1>6. /\ byte(4 * w - 3) \in Byte /\ byte(4 * w - 2) \in Byte
      /\ byte(4 * w - 1) \in Byte /\ byte(4 * w) \in Byte
  <2>1. /\ 4 * w - 3 \in Nat /\ 4 * w - 2 \in Nat /\ 4 * w - 1 \in Nat /\ 4 * w \in Nat
        /\ 4 * w - 3 >= 1 /\ 4 * w - 2 >= 1 /\ 4 * w - 1 >= 1 /\ 4 * w >= 1
    BY <1>3, SMT
  <2> HIDE DEF byte
  <2>2. QED
    BY <1>2, <2>1
<1>7. byte(i) = bytes[i]
  BY <1>1, SMT
<1> HIDE DEF byte
<1>8. /\ ByteOf(wordsFromBytes(bytes)[w], 1) = byte(4 * w - 3)
      /\ ByteOf(wordsFromBytes(bytes)[w], 2) = byte(4 * w - 2)
      /\ ByteOf(wordsFromBytes(bytes)[w], 3) = byte(4 * w - 1)
      /\ ByteOf(wordsFromBytes(bytes)[w], 4) = byte(4 * w)
  BY <1>5, <1>6, WordKeepsBytes
<1>9. ByteOf(wordsFromBytes(bytes)[w], n) = byte(i)
  <2>1. n = 1 \/ n = 2 \/ n = 3 \/ n = 4
    BY <1>3, SMT
  <2>2. CASE n = 1
    BY <1>3, <1>8, <2>2, SMT
  <2>3. CASE n = 2
    BY <1>3, <1>8, <2>3, SMT
  <2>4. CASE n = 3
    BY <1>3, <1>8, <2>4, SMT
  <2>5. CASE n = 4
    BY <1>3, <1>8, <2>5, SMT
  <2>6. QED
    BY <2>1, <2>2, <2>3, <2>4, <2>5
<1>10. QED
  BY <1>3, <1>4, <1>7, <1>9 DEF w, n
=============================================================================

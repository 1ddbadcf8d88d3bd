--------------------------- MODULE NotebookCrypto ---------------------------
(***************************************************************************)
(* The key of the encrypted notebook (src/src/notebook/crypto.ts).         *)
(*                                                                         *)
(* With a wallet, the AES key is derived from its seed; without one, it is *)
(* a random key kept on the device.  Either is cached, and every call of   *)
(* encrypt and decrypt gets a reference to the cached object.  A change of *)
(* wallet and resetKeyCache zero that object and drop it, while calls that *)
(* hold it are suspended: AES then runs, without an error, on an empty     *)
(* key.  One action per await; text is abstracted, and a record opens      *)
(* under the key it was made with.                                         *)
(***************************************************************************)
EXTENDS Integers, FiniteSets

CONSTANTS
    Wallets,       \* wallets, one seed each
    Tasks,         \* calls of encrypt and decrypt that may overlap
    DeviceKeys,    \* the random keys that generateMasterKeyBase64 may draw
    NoWallet,      \* no active wallet
    NoKey,         \* no key cached, stored or held
    FixedKey,      \* the key of a browser without localStorage
    Zeroed,        \* a key that was wiped
    MaxRecords     \* bound on the records made

VARIABLES
    platform,      \* "native", "web", or "bare": a browser without localStorage
    active,        \* _activeWalletForCrypto
    cache,         \* what _keyWordArrayCache holds
    holders,       \* the calls whose key is the cached object itself
    stored,        \* the item under MASTER_KEY_STORE_KEY
    drawn,         \* device keys generated so far
    pc,            \* the await each call is suspended at
    task,          \* the local variables of each call
    records,       \* the records made
    \* Auxiliary: they tell how a state came about, and no action reads them.
    stray,         \* the cache was filled by a call that a wallet change overtook
    lost,          \* records that a sound call of decrypt could not open
    faults         \* what went wrong with the device key so far

keys == <<active, cache, holders, stray>>
vars == <<platform, keys, stored, drawn, pc, task, records, lost, faults>>

\* PBKDF2 of the seed: the same key on every device and after every restart.
DerivedKey(w) == <<"kdf", w>>

\* What the legacy path ends with, without a wallet.
LegacyKeys == DeviceKeys \cup {FixedKey}

SomeKey == {DerivedKey(w) : w \in Wallets} \cup LegacyKeys

\* null is not a key.
ASSUME KeyAssumption == NoKey \notin SomeKey

\* `owner' is the wallet that was active when the call began; a call is sound if
\* no wallet change or reset happened since, and the cache was not stray.
NoTask == [key |-> NoKey, owner |-> NoWallet, sound |-> FALSE, calm |-> FALSE, opens |-> NoKey]

Record == [key: SomeKey \cup {Zeroed}, owner: Wallets \cup {NoWallet}, sound: BOOLEAN]

Running == {t \in Tasks : pc[t] # "idle"}

-----------------------------------------------------------------------------
(* The cache. *)

\* wipeWordArray on the cached object, seen by every call that holds it.
Disturbed(x) == [x EXCEPT !.sound = FALSE, !.calm = FALSE]
DropCache ==
    /\ cache' = NoKey /\ holders' = {} /\ stray' = FALSE
    /\ task' = [t \in Tasks |->
          LET x == IF t \in Running THEN Disturbed(task[t]) ELSE task[t] IN
          IF t \in holders THEN [x EXCEPT !.key = Zeroed] ELSE x]

\* setActiveWalletForCrypto; the same seed again changes nothing.
SetActive_OnLogout(w) ==      \* mutant: dropped only when the wallet is cleared
    /\ w # active
    /\ IF w = NoWallet THEN DropCache ELSE UNCHANGED <<cache, holders, stray, task>>
    /\ active' = w
    /\ UNCHANGED <<platform, stored, drawn, pc, records, lost, faults>>
SetActive(w) ==
    /\ w # active
    /\ DropCache
    /\ active' = w
    /\ UNCHANGED <<platform, stored, drawn, pc, records, lost, faults>>

\* resetKeyCache.
ResetKeyCache_KeepsObject ==    \* mutant: zeroes the cached object, keeps the reference
    /\ cache' = (IF cache = NoKey THEN NoKey ELSE Zeroed)
    /\ task' = [t \in Tasks |-> IF t \in holders THEN [task[t] EXCEPT !.key = Zeroed] ELSE task[t]]
    /\ UNCHANGED <<platform, active, holders, stray, stored, drawn, pc, records, lost, faults>>
ResetKeyCache ==
    /\ DropCache
    /\ UNCHANGED <<platform, active, stored, drawn, pc, records, lost, faults>>

-----------------------------------------------------------------------------
(* getKey, called by encrypt and decrypt (`opens' is the record's key). *)

Goto(t, step) == pc' = [pc EXCEPT ![t] = step]

Return(t) == Goto(t, "idle") /\ task' = [task EXCEPT ![t] = NoTask]

Call(t, k, opens) ==
    task' = [task EXCEPT ![t] =
        [key |-> k, owner |-> active, sound |-> ~stray, calm |-> TRUE, opens |-> opens]]

GetCached(t, opens) ==
    /\ cache # NoKey
    /\ Call(t, cache, opens) /\ holders' = holders \cup {t}
    /\ Goto(t, "use")
    /\ UNCHANGED <<active, cache, stray>>

Derive(t, opens) ==
    /\ cache = NoKey /\ active # NoWallet
    /\ cache' = DerivedKey(active) /\ stray' = FALSE
    /\ Call(t, DerivedKey(active), opens) /\ holders' = {t}
    /\ Goto(t, "use")
    /\ UNCHANGED active

\* readOrCreateMasterKey found nothing to read.
Missed(t) ==
    /\ Goto(t, "generate")
    /\ faults' = faults
          \cup (IF stored # NoKey THEN {"read failed"} ELSE {})
          \cup (IF \E u \in Tasks : pc[u] \in {"generate", "store"} THEN {"two at once"} ELSE {})

\* The legacy path; a browser reads at once, the device is awaited.
Legacy(t, opens) ==
    /\ cache = NoKey /\ active = NoWallet
    /\ CASE platform = "bare" -> Call(t, FixedKey, opens) /\ Goto(t, "adopt") /\ UNCHANGED faults
         [] platform = "web" /\ stored # NoKey ->
                Call(t, stored, opens) /\ Goto(t, "adopt") /\ UNCHANGED faults
         [] platform = "web" /\ stored = NoKey -> Call(t, NoKey, opens) /\ Missed(t)
         [] OTHER -> Call(t, NoKey, opens) /\ Goto(t, "read") /\ UNCHANGED faults
    /\ UNCHANGED keys

GetKey(t, opens) ==
    /\ pc[t] = "idle"
    /\ \/ GetCached(t, opens) /\ UNCHANGED faults
       \/ Derive(t, opens) /\ UNCHANGED faults
       \/ Legacy(t, opens)
    /\ UNCHANGED <<platform, stored, drawn, records, lost>>

\* A read that throws is taken for a first launch.
ReadStored(t) ==
    /\ pc[t] = "read"
    /\ \/ /\ stored # NoKey
          /\ task' = [task EXCEPT ![t].key = stored] /\ Goto(t, "adopt")
          /\ UNCHANGED faults
       \/ Missed(t) /\ UNCHANGED task
    /\ UNCHANGED <<platform, keys, stored, drawn, records, lost>>

Generate(t) ==
    /\ pc[t] = "generate"
    /\ \E k \in DeviceKeys \ drawn :
          task' = [task EXCEPT ![t].key = k] /\ drawn' = drawn \cup {k}
    /\ Goto(t, "store")
    /\ UNCHANGED <<platform, keys, stored, records, lost, faults>>

\* A write that throws leaves a device with the key in memory only; in a browser
\* it rejects the call.
Store_NotSaved(t) ==    \* mutant: the key is never written
    /\ pc[t] = "store"
    /\ Goto(t, "adopt")
    /\ UNCHANGED <<platform, keys, stored, drawn, task, records, lost, faults>>
Store(t) ==
    /\ pc[t] = "store"
    /\ \/ stored' = task[t].key /\ Goto(t, "adopt") /\ UNCHANGED <<task, faults>>
       \/ /\ UNCHANGED stored
          /\ IF platform = "native"
             THEN Goto(t, "adopt") /\ faults' = faults \cup {"write failed"} /\ UNCHANGED task
             ELSE Return(t) /\ UNCHANGED faults
    /\ UNCHANGED <<platform, keys, drawn, records, lost>>

\* The end of the legacy path, whoever is active by now; an object that is
\* replaced here is not wiped.
Adopt_WipesOld(t) ==    \* mutant: the key that is replaced is zeroed
    /\ pc[t] = "adopt"
    /\ cache' = task[t].key /\ holders' = {t} /\ stray' = ~task[t].calm
    /\ task' = [u \in Tasks |->
          IF u \in holders /\ u # t THEN [task[u] EXCEPT !.key = Zeroed] ELSE task[u]]
    /\ Goto(t, "use")
    /\ UNCHANGED <<platform, active, stored, drawn, records, lost, faults>>
Adopt(t) ==
    /\ pc[t] = "adopt"
    /\ cache' = task[t].key /\ holders' = {t} /\ stray' = ~task[t].calm
    /\ Goto(t, "use")
    /\ UNCHANGED <<platform, active, stored, drawn, task, records, lost, faults>>

-----------------------------------------------------------------------------
(* encrypt and decrypt. *)

Encrypt(t) == GetKey(t, NoKey)

\* After the random IV: AES with the key as it is now.
Seal(t) ==
    /\ pc[t] = "use" /\ task[t].opens = NoKey
    /\ records' = records \cup {[key |-> task[t].key, owner |-> task[t].owner, sound |-> task[t].sound]}
    /\ Cardinality(records') <= MaxRecords
    /\ Return(t) /\ holders' = holders \ {t}
    /\ UNCHANGED <<platform, active, cache, stray, stored, drawn, lost, faults>>

\* A call that opens a record; one under another key gives "" or throws.
Decrypt(t) == \E r \in records : GetKey(t, r)

Unseal(t) ==
    /\ pc[t] = "use" /\ task[t].opens # NoKey
    /\ LET r == task[t].opens
           expected == r.sound /\ task[t].sound /\ r.owner = task[t].owner IN
       lost' = IF expected /\ r.key # task[t].key THEN lost \cup {r} ELSE lost
    /\ Return(t) /\ holders' = holders \ {t}
    /\ UNCHANGED <<platform, active, cache, stray, stored, drawn, records, faults>>

-----------------------------------------------------------------------------
(* The process ends; an uninstall erases the device key as well, and the     *)
(* records come back from a backup.                                          *)

NothingRuns ==
    /\ active' = NoWallet /\ cache' = NoKey /\ holders' = {} /\ stray' = FALSE
    /\ pc' = [t \in Tasks |-> "idle"] /\ task' = [t \in Tasks |-> NoTask]
    /\ UNCHANGED <<platform, drawn, records, lost>>

Restart == NothingRuns /\ UNCHANGED <<stored, faults>>

Reinstall == NothingRuns /\ stored' = NoKey /\ faults' = faults \cup {"erased"}

-----------------------------------------------------------------------------

Init ==
    /\ platform \in {"native", "web", "bare"}
    /\ active = NoWallet /\ cache = NoKey /\ holders = {} /\ stray = FALSE
    /\ stored = NoKey /\ drawn = {}
    /\ pc = [t \in Tasks |-> "idle"] /\ task = [t \in Tasks |-> NoTask]
    /\ records = {} /\ lost = {} /\ faults = {}

Next ==
    \/ \E w \in Wallets \cup {NoWallet} : SetActive(w)
    \/ ResetKeyCache
    \/ \E t \in Tasks :
        \/ Encrypt(t) \/ Decrypt(t)
        \/ ReadStored(t) \/ Generate(t) \/ Store(t) \/ Adopt(t)
        \/ Seal(t) \/ Unseal(t)
    \/ Restart \/ Reinstall

Spec == Init /\ [][Next]_vars

-----------------------------------------------------------------------------
(* Properties. *)

\* Type invariant; the cached object is never a wiped one, and the calls that
\* hold it see the key it has.
TypeOK ==
    /\ platform \in {"native", "web", "bare"}
    /\ active \in Wallets \cup {NoWallet} /\ cache \in SomeKey \cup {NoKey}
    /\ holders \subseteq Running /\ stray \in BOOLEAN
    /\ stored \in DeviceKeys \cup {NoKey} /\ drawn \subseteq DeviceKeys
    /\ pc \in [Tasks -> {"idle", "read", "generate", "store", "adopt", "use"}]
    /\ task \in [Tasks -> [key: SomeKey \cup {NoKey, Zeroed}, owner: Wallets \cup {NoWallet},
                           sound: BOOLEAN, calm: BOOLEAN, opens: Record \cup {NoKey}]]
    /\ records \subseteq Record /\ lost \subseteq Record
    /\ \A t \in holders : task[t].key = cache

\* The derived key takes over when a wallet is set: while one is active, the
\* cache never holds another wallet's key, and a key of the legacy path only if a
\* call of getKey that began before the last change of wallet, or reset, put it there.
KdfTakesOver ==
    active # NoWallet /\ cache # NoKey =>
        cache = DerivedKey(active) \/ (stray /\ cache \in LegacyKeys)

\* A record made with a wallet opens again under that wallet, after restarts,
\* reinstalls, resets and changes of wallet, unless the change overtook the call
\* that made the record or the one that reads it, or left the cache stray.
WalletRecordsOpen == \A r \in lost : r.owner = NoWallet

\* The same for records made without a wallet, as long as the device's storage
\* neither failed nor was erased and two first launches of getKey did not overlap:
\* every launch reads the same key.
DeviceRecordsOpen == \A r \in lost : r.owner = NoWallet => faults # {}
=============================================================================

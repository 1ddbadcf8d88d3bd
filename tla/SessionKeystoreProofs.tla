----------------------- MODULE SessionKeystoreProofs ------------------------
(***************************************************************************)
(* Proofs about SessionKeystore, for any wallets, any number of calls and  *)
(* any idle time: no seed becomes unreadable behind its flag, and no       *)
(* cached seed is missing from the device.                                 *)
(*                                                                         *)
(* Neither is inductive.  The flag is written one await after the item, so *)
(* the invariant says what every call knows at each await: a call that is  *)
(* about to write a fresh wallet is alone with it, and a call that is      *)
(* about to set the flag or to cache the seed has the item on the device.  *)
(***************************************************************************)
EXTENDS SessionKeystore, TLAPS

Reading  == {"read_flag", "read_auth", "read_legacy"}
Writing  == {"write_auth", "write_plain"}
Removing == {"erase", "unmark"}
Holding  == {"migrate", "mark", "warm"}    \* the call has the seed in hand

Steps == {"idle"} \cup Reading \cup Writing \cup Removing \cup Holding

\* The part of the type invariant the proofs need.
Types ==
    /\ book \in [Wallets -> {"unknown", "added", "removed"}]
    /\ secret \in [Wallets -> {"none", "plain", "auth"}]
    /\ flag \in [Wallets -> BOOLEAN]
    /\ cache \subseteq Wallets
    /\ pc \in [Tasks -> Steps]
    /\ task \in [Tasks -> [id: Wallets \cup {None}, wasLocked: BOOLEAN]]
    /\ \A t \in Tasks : pc[t] # "idle" => Id(t) \in Wallets

\* A wallet nobody added has nothing on the device, and calls only read it.
Untouched ==
    \A w \in Wallets : book[w] = "unknown" =>
        /\ secret[w] = "none" /\ ~flag[w] /\ w \notin cache
        /\ \A t \in Tasks : Id(t) = w => pc[t] \in {"idle"} \cup Reading

\* The call that adds a wallet finds nothing of it on the device, and no other
\* call has its seed.
WriterAlone ==
    \A t \in Tasks : pc[t] \in Writing =>
        /\ secret[Id(t)] = "none" /\ ~flag[Id(t)]
        /\ \A u \in Tasks \ {t} : Id(u) = Id(t) => pc[u] \notin Writing \cup Holding

\* Before the flag is set the item is bound, or was removed since.
MarkedIsBound == \A t \in Tasks : pc[t] = "mark" => secret[Id(t)] # "plain"

\* A seed in hand is on the device, unless the user is removing the wallet.
HeldIsStored ==
    \A t \in Tasks :
        /\ pc[t] \in Holding /\ book[Id(t)] = "added" => secret[Id(t)] # "none"
        /\ pc[t] \in Removing => book[Id(t)] = "removed"

\* The inductive invariant.
IInv == Types /\ Untouched /\ WriterAlone /\ MarkedIsBound /\ HeldIsStored
        /\ FlagMeansBound /\ CachedIsStored

-----------------------------------------------------------------------------
(* What each step of a call keeps. *)

\* getWalletSeed reads the AUTH_FLAG and chooses between the two read APIs.
LEMMA ReadFlagKeeps ==
    ASSUME IInv, NEW t \in Tasks, ReadFlag(t)
    PROVE  IInv'
  <1>1. Types'
    BY DEF IInv, Types, ReadFlag, Id, Steps, Reading, Goto, storage, session
  <1>2. Untouched'
    BY DEF IInv, Untouched, ReadFlag, Id, Reading, Goto, storage, session
  <1>3. WriterAlone'
    BY DEF IInv, WriterAlone, ReadFlag, Id, Writing, Holding, Goto, storage
  <1>4. MarkedIsBound'
    BY DEF IInv, MarkedIsBound, ReadFlag, Id, Goto, storage
  <1>5. HeldIsStored'
    BY DEF IInv, HeldIsStored, ReadFlag, Id, Removing, Holding, Goto, storage
  <1>6. FlagMeansBound'
    BY DEF IInv, FlagMeansBound, ReadFlag, storage
  <1>7. CachedIsStored'
    BY DEF IInv, CachedIsStored, ReadFlag, storage, session
  <1>. QED  BY <1>1, <1>2, <1>3, <1>4, <1>5, <1>6, <1>7 DEF IInv

\* secureGetAuthenticated gives the call a seed only when the item is on the
\* device; a cancelled prompt ends the call.
LEMMA ReadAuthenticatedKeeps ==
    ASSUME IInv, NEW t \in Tasks, ReadAuthenticated(t)
    PROVE  IInv'
  <1>1. Types'
    <2>1. CASE Return(t)
      BY <2>1 DEF IInv, Types, ReadAuthenticated, Id, Steps, Goto, Return, NoTask, storage,
           session
    <2>2. CASE ~Return(t)
      BY <2>2 DEF IInv, Types, ReadAuthenticated, Id, Steps, Holding, Goto, storage,
           session
    <2>. QED  BY <2>1, <2>2
  <1>2. Untouched'
    BY DEF IInv, Types, Untouched, ReadAuthenticated, Id, Goto, Return, storage, session
  <1>3. WriterAlone'
    BY DEF IInv, Types, WriterAlone, ReadAuthenticated, Id, Writing, Holding, Goto, Return,
         storage, session, clock
  <1>4. MarkedIsBound'
    BY DEF IInv, Types, MarkedIsBound, ReadAuthenticated, Id, Goto, Return, storage
  <1>5. HeldIsStored'
    BY DEF IInv, Types, HeldIsStored, ReadAuthenticated, Id, Removing, Holding, Goto,
         Return, storage
  <1>6. FlagMeansBound'
    BY DEF IInv, FlagMeansBound, ReadAuthenticated, storage
  <1>7. CachedIsStored'
    BY DEF IInv, CachedIsStored, ReadAuthenticated, storage, session
  <1>. QED  BY <1>1, <1>2, <1>3, <1>4, <1>5, <1>6, <1>7 DEF IInv

\* secureGet gives the call a seed that is on the device.  The call that adds a
\* wallet is still alone: it finds nothing to read.
LEMMA ReadLegacyKeeps ==
    ASSUME IInv, NEW t \in Tasks, ReadLegacy(t)
    PROVE  IInv'
  <1>1. Types'
    <2>1. CASE Return(t)
      BY <2>1 DEF IInv, Types, ReadLegacy, Id, Steps, Goto, Return, NoTask, storage,
           session
    <2>2. CASE ~Return(t)
      BY <2>2 DEF IInv, Types, ReadLegacy, Id, Steps, Holding, Goto, storage, session
    <2>. QED  BY <2>1, <2>2
  <1>2. Untouched'
    BY DEF IInv, Types, Untouched, ReadLegacy, Id, Goto, Return, storage, session
  <1>3. WriterAlone'
    BY DEF IInv, Types, WriterAlone, ReadLegacy, Id, Writing, Holding, Goto, Return,
         storage
  <1>4. MarkedIsBound'
    BY DEF IInv, Types, MarkedIsBound, ReadLegacy, Id, Goto, Return, storage
  <1>5. HeldIsStored'
    BY DEF IInv, Types, HeldIsStored, ReadLegacy, Id, Removing, Holding, Goto, Return,
         storage
  <1>6. FlagMeansBound'
    BY DEF IInv, FlagMeansBound, ReadLegacy, storage
  <1>7. CachedIsStored'
    BY DEF IInv, CachedIsStored, ReadLegacy, storage, session
  <1>. QED  BY <1>1, <1>2, <1>3, <1>4, <1>5, <1>6, <1>7 DEF IInv

\* getWalletSeed rewrites the item as a bound one before it goes on to the flag;
\* a failed rewrite goes on without it.
LEMMA MigrateKeeps ==
    ASSUME IInv, NEW t \in Tasks, Migrate(t)
    PROVE  IInv'
  <1>1. Types'
    BY DEF IInv, Types, Migrate, Id, Steps, Holding, Goto, session
  <1>2. Untouched'
    BY DEF IInv, Types, Untouched, Migrate, Id, Reading, Goto, session
  <1>3. WriterAlone'
    BY DEF IInv, Types, WriterAlone, Migrate, Id, Steps, Reading, Writing, Removing, Goto
  <1>4. MarkedIsBound'
    BY DEF IInv, Types, MarkedIsBound, Migrate, Id, Goto
  <1>5. HeldIsStored'
    BY DEF IInv, Types, HeldIsStored, Migrate, Id, Removing, Holding, Goto
  <1>6. FlagMeansBound'
    BY DEF IInv, Types, FlagMeansBound, Migrate
  <1>7. CachedIsStored'
    BY DEF IInv, Types, CachedIsStored, Migrate, session
  <1>. QED  BY <1>1, <1>2, <1>3, <1>4, <1>5, <1>6, <1>7 DEF IInv

\* The flag is set after an await, when other calls may have written too: none
\* of them has stored the item plainly since.
LEMMA MarkKeeps ==
    ASSUME IInv, NEW t \in Tasks, Mark(t)
    PROVE  IInv'
  <1>1. Types'
    BY DEF IInv, Types, Mark, Id, Steps, Holding, Goto, session
  <1>2. Untouched'
    BY DEF IInv, Types, Untouched, Mark, Id, Reading, Goto, session
  <1>3. WriterAlone'
    BY DEF IInv, Types, WriterAlone, Mark, Id, Steps, Reading, Writing, Removing, Goto
  <1>4. MarkedIsBound'
    BY DEF IInv, MarkedIsBound, Mark, Id, Goto
  <1>5. HeldIsStored'
    BY DEF IInv, Types, HeldIsStored, Mark, Id, Steps, Reading, Writing, Removing, Goto
  <1>6. FlagMeansBound'
    BY DEF IInv, Types, MarkedIsBound, FlagMeansBound, Mark
  <1>7. CachedIsStored'
    BY DEF IInv, CachedIsStored, Mark, session
  <1>. QED  BY <1>1, <1>2, <1>3, <1>4, <1>5, <1>6, <1>7 DEF IInv

\* The seed that is cached was in hand, so it is on the device unless the wallet
\* is being removed.
LEMMA WarmKeeps ==
    ASSUME IInv, NEW t \in Tasks, Warm(t)
    PROVE  IInv'
  <1>1. Types'
    BY DEF IInv, Types, Warm, Id, Steps, Goto, Return, NoTask, storage
  <1>2. Untouched'
    BY DEF IInv, Types, Untouched, Warm, Id, Reading, Goto, Return, storage
  <1>3. WriterAlone'
    BY DEF IInv, Types, WriterAlone, Warm, Id, Writing, Holding, Goto, Return, storage
  <1>4. MarkedIsBound'
    BY DEF IInv, MarkedIsBound, Warm, Id, Goto, Return, storage
  <1>5. HeldIsStored'
    BY DEF IInv, Types, HeldIsStored, Warm, Id, Removing, Holding, Goto, Return, storage
  <1>6. FlagMeansBound'
    BY DEF IInv, FlagMeansBound, Warm, storage
  <1>7. CachedIsStored'
    BY DEF IInv, Types, HeldIsStored, CachedIsStored, Warm, Steps, Reading, Writing,
         storage
  <1>. QED  BY <1>1, <1>2, <1>3, <1>4, <1>5, <1>6, <1>7 DEF IInv

\* setWalletSeed binds a wallet that was fresh, and goes on to the flag only
\* when that succeeded.
LEMMA WriteAuthenticatedKeeps ==
    ASSUME IInv, NEW t \in Tasks, WriteAuthenticated(t)
    PROVE  IInv'
  <1>1. Types'
    BY DEF IInv, Types, WriteAuthenticated, Id, Steps, Writing, Holding, Goto, session
  <1>2. Untouched'
    BY DEF IInv, Types, Untouched, WriteAuthenticated, Id, Reading, Goto, session
  <1>3. WriterAlone'
    BY DEF IInv, Types, WriterAlone, WriteAuthenticated, Id, Writing, Goto
  <1>4. MarkedIsBound'
    BY DEF IInv, Types, MarkedIsBound, WriteAuthenticated, Id, Goto
  <1>5. HeldIsStored'
    BY DEF IInv, Types, HeldIsStored, WriteAuthenticated, Id, Removing, Holding, Goto
  <1>6. FlagMeansBound'
    BY DEF IInv, Types, FlagMeansBound, WriteAuthenticated
  <1>7. CachedIsStored'
    BY DEF IInv, Types, CachedIsStored, WriteAuthenticated, session
  <1>. QED  BY <1>1, <1>2, <1>3, <1>4, <1>5, <1>6, <1>7 DEF IInv

\* The fallback stores the item plainly.  The wallet has no flag, and no other
\* call is about to set it: the writer is alone.
LEMMA WritePlainKeeps ==
    ASSUME IInv, NEW t \in Tasks, WritePlain(t)
    PROVE  IInv'
  <1>1. Types'
    <2>1. CASE Return(t)
      BY <2>1 DEF IInv, Types, WritePlain, Id, Steps, Goto, Return, NoTask, session
    <2>2. CASE ~Return(t)
      BY <2>2 DEF IInv, Types, WritePlain, Id, Steps, Holding, Goto, session
    <2>. QED  BY <2>1, <2>2
  <1>2. Untouched'
    BY DEF IInv, Types, Untouched, WritePlain, Id, Reading, Goto, Return, session
  <1>3. WriterAlone'
    BY DEF IInv, Types, WriterAlone, WritePlain, Id, Writing, Holding, Goto, Return, NoTask
  <1>4. MarkedIsBound'
    BY DEF IInv, Types, WriterAlone, MarkedIsBound, WritePlain, Id, Steps, Reading,
         Writing, Removing, Goto, Return
  <1>5. HeldIsStored'
    BY DEF IInv, Types, HeldIsStored, WritePlain, Id, Removing, Holding, Goto, Return
  <1>6. FlagMeansBound'
    BY DEF IInv, Types, WriterAlone, FlagMeansBound, WritePlain, Writing
  <1>7. CachedIsStored'
    BY DEF IInv, Types, CachedIsStored, WritePlain, session
  <1>. QED  BY <1>1, <1>2, <1>3, <1>4, <1>5, <1>6, <1>7 DEF IInv

\* removeWalletSeed erases the item of a removed wallet only.
LEMMA EraseKeeps ==
    ASSUME IInv, NEW t \in Tasks, Erase(t)
    PROVE  IInv'
  <1>1. Types'
    BY DEF IInv, Types, Erase, Id, Steps, Removing, Goto, session
  <1>2. Untouched'
    BY DEF IInv, Types, Untouched, Erase, Id, Reading, Goto, session
  <1>3. WriterAlone'
    BY DEF IInv, Types, WriterAlone, Erase, Id, Writing, Holding, Goto
  <1>4. MarkedIsBound'
    BY DEF IInv, Types, MarkedIsBound, Erase, Id, Goto
  <1>5. HeldIsStored'
    BY DEF IInv, Types, HeldIsStored, Erase, Id, Steps, Reading, Writing, Holding, Goto
  <1>6. FlagMeansBound'
    BY DEF IInv, Types, FlagMeansBound, Erase
  <1>7. CachedIsStored'
    BY DEF IInv, Types, HeldIsStored, CachedIsStored, Erase, Removing, session
  <1>. QED  BY <1>1, <1>2, <1>3, <1>4, <1>5, <1>6, <1>7 DEF IInv

\* removeWalletSeed clears the flag; that an item may be left behind is no harm.
LEMMA UnmarkKeeps ==
    ASSUME IInv, NEW t \in Tasks, Unmark(t)
    PROVE  IInv'
  <1>1. Types'
    BY DEF IInv, Types, Unmark, Id, Steps, Goto, Return, NoTask, session
  <1>2. Untouched'
    BY DEF IInv, Types, Untouched, Unmark, Id, Goto, Return, session
  <1>3. WriterAlone'
    BY DEF IInv, Types, WriterAlone, Unmark, Id, Writing, Holding, Goto, Return
  <1>4. MarkedIsBound'
    BY DEF IInv, MarkedIsBound, Unmark, Id, Goto, Return
  <1>5. HeldIsStored'
    BY DEF IInv, Types, HeldIsStored, Unmark, Id, Removing, Holding, Goto, Return
  <1>6. FlagMeansBound'
    BY DEF IInv, Types, FlagMeansBound, Unmark
  <1>7. CachedIsStored'
    BY DEF IInv, CachedIsStored, Unmark, session
  <1>. QED  BY <1>1, <1>2, <1>3, <1>4, <1>5, <1>6, <1>7 DEF IInv

\* A call that starts to read knows nothing yet.
LEMMA GetMissKeeps ==
    ASSUME IInv, NEW t \in Tasks, NEW w \in Wallets, GetMiss(t, w)
    PROVE  IInv'
  <1>1. Types'
    BY DEF IInv, Types, GetMiss, Id, Steps, Reading, Goto, Begin, storage, session
  <1>2. Untouched'
    BY DEF IInv, Untouched, GetMiss, Id, Reading, Goto, Begin, storage, session
  <1>3. WriterAlone'
    BY DEF IInv, WriterAlone, GetMiss, Id, Writing, Holding, Goto, Begin, storage
  <1>4. MarkedIsBound'
    BY DEF IInv, MarkedIsBound, GetMiss, Id, Goto, Begin, storage
  <1>5. HeldIsStored'
    BY DEF IInv, HeldIsStored, GetMiss, Id, Removing, Holding, Goto, Begin, storage
  <1>6. FlagMeansBound'
    BY DEF IInv, FlagMeansBound, GetMiss, storage
  <1>7. CachedIsStored'
    BY DEF IInv, CachedIsStored, GetMiss, storage, session
  <1>. QED  BY <1>1, <1>2, <1>3, <1>4, <1>5, <1>6, <1>7 DEF IInv

\* setWalletSeed starts on a wallet nobody touched: no other call can hold its
\* seed or be writing it.
LEMMA SetKeeps ==
    ASSUME IInv, NEW t \in Tasks, NEW w \in Wallets, Set(t, w)
    PROVE  IInv'
  <1>1. Types'
    BY DEF IInv, Types, Set, Id, Steps, Writing, Goto, Begin, session
  <1>2. Untouched'
    BY DEF IInv, Types, Untouched, Set, Id, Goto, Begin, session
  <1>3. WriterAlone'
    BY DEF IInv, Types, Untouched, WriterAlone, Set, Id, Reading, Writing, Holding, Goto,
         Begin
  <1>4. MarkedIsBound'
    BY DEF IInv, MarkedIsBound, Set, Id, Goto, Begin
  <1>5. HeldIsStored'
    BY DEF IInv, Untouched, HeldIsStored, Set, Id, Reading, Removing, Holding, Goto, Begin
  <1>6. FlagMeansBound'
    BY DEF IInv, FlagMeansBound, Set
  <1>7. CachedIsStored'
    BY DEF IInv, Untouched, CachedIsStored, Set, session
  <1>. QED  BY <1>1, <1>2, <1>3, <1>4, <1>5, <1>6, <1>7 DEF IInv

\* removeWalletSeed takes the wallet out of the cache before its first await.
LEMMA RemoveKeeps ==
    ASSUME IInv, NEW t \in Tasks, NEW w \in Wallets, Remove(t, w)
    PROVE  IInv'
  <1>1. Types'
    BY DEF IInv, Types, Remove, Id, Steps, Removing, Goto, Begin, Wiped
  <1>2. Untouched'
    BY DEF IInv, Types, Untouched, Remove, Id, Goto, Begin, Wiped
  <1>3. WriterAlone'
    BY DEF IInv, WriterAlone, Remove, Id, Writing, Holding, Goto, Begin
  <1>4. MarkedIsBound'
    BY DEF IInv, MarkedIsBound, Remove, Id, Goto, Begin
  <1>5. HeldIsStored'
    BY DEF IInv, Types, HeldIsStored, Remove, Id, Goto, Begin
  <1>6. FlagMeansBound'
    BY DEF IInv, FlagMeansBound, Remove
  <1>7. CachedIsStored'
    BY DEF IInv, CachedIsStored, Remove, Wiped
  <1>. QED  BY <1>1, <1>2, <1>3, <1>4, <1>5, <1>6, <1>7 DEF IInv

\* A step that leaves the storage and the calls alone and caches nothing new
\* (a cached read, dropWallet, lockNow, the listener, the clock) keeps IInv.
LEMMA QuietStepKeeps ==
    ASSUME IInv, UNCHANGED <<storage, calls>>, cache' \subseteq cache
    PROVE  IInv'
  <1>. USE DEF storage, calls, Id
  <1>1. Types'
    BY DEF IInv, Types
  <1>2. Untouched'
    BY DEF IInv, Untouched
  <1>3. WriterAlone'
    BY DEF IInv, WriterAlone
  <1>4. MarkedIsBound'
    BY DEF IInv, MarkedIsBound
  <1>5. HeldIsStored'
    BY DEF IInv, HeldIsStored
  <1>6. FlagMeansBound'
    BY DEF IInv, FlagMeansBound
  <1>7. CachedIsStored'
    BY DEF IInv, CachedIsStored
  <1>. QED  BY <1>1, <1>2, <1>3, <1>4, <1>5, <1>6, <1>7 DEF IInv

\* The process may end at any await: what it leaves in the storage satisfies
\* IInv with an empty cache and no call under way.
LEMMA RestartKeeps ==
    ASSUME IInv, Restart
    PROVE  IInv'
  <1>1. /\ cache' = {} /\ UNCHANGED <<book, secret, flag>>
        /\ \A t \in Tasks : pc'[t] = "idle" /\ task'[t] = NoTask
        /\ pc' \in [Tasks -> Steps]
        /\ task' \in [Tasks -> [id: Wallets \cup {None}, wasLocked: BOOLEAN]]
    BY DEF Restart, storage, NoTask, Steps
  <1>2. Types'
    BY <1>1 DEF IInv, Types
  <1>3. Untouched'
    BY <1>1 DEF IInv, Untouched
  <1>4. WriterAlone' /\ MarkedIsBound' /\ HeldIsStored'
    BY <1>1 DEF WriterAlone, MarkedIsBound, HeldIsStored, Writing, Holding, Removing
  <1>5. FlagMeansBound' /\ CachedIsStored'
    BY <1>1 DEF IInv, FlagMeansBound, CachedIsStored
  <1>. QED  BY <1>2, <1>3, <1>4, <1>5 DEF IInv

-----------------------------------------------------------------------------

\* A device with the wallets of an earlier version of the app satisfies IInv.
LEMMA InitIInv == Init => IInv
  <1>. SUFFICES ASSUME Init PROVE IInv
    OBVIOUS
  <1>1. /\ cache = {}
        /\ \A t \in Tasks : pc[t] = "idle"
        /\ secret \in [Wallets -> {"none", "plain"}]
        /\ \A w \in Wallets : ~flag[w]
        /\ \A w \in Wallets : book[w] = IF secret[w] = "plain" THEN "added" ELSE "unknown"
    BY DEF Init
  <1>2. Types
    BY DEF Init, Types, Steps, NoTask
  <1>3. Untouched
    BY <1>1 DEF Untouched
  <1>4. WriterAlone /\ MarkedIsBound /\ HeldIsStored
    BY <1>1 DEF WriterAlone, MarkedIsBound, HeldIsStored, Writing, Holding, Removing
  <1>5. FlagMeansBound /\ CachedIsStored
    BY <1>1 DEF FlagMeansBound, CachedIsStored
  <1>. QED  BY <1>2, <1>3, <1>4, <1>5 DEF IInv

\* IInv is inductive: every step of every call, of the user, of the listener
\* and of the clock keeps it.
LEMMA NextKeeps == IInv /\ [Next]_vars => IInv'
  <1>. SUFFICES ASSUME IInv, [Next]_vars PROVE IInv'
    OBVIOUS
  <1>1. ASSUME NEW t \in Tasks, NEW w \in Wallets,
               GetMiss(t, w) \/ Set(t, w) \/ Remove(t, w)
        PROVE  IInv'
    BY <1>1, GetMissKeeps, SetKeeps, RemoveKeeps
  <1>2. ASSUME NEW t \in Tasks,
               ReadFlag(t) \/ ReadAuthenticated(t) \/ ReadLegacy(t) \/ Migrate(t)
                   \/ Mark(t) \/ Warm(t)
        PROVE  IInv'
    BY <1>2, ReadFlagKeeps, ReadAuthenticatedKeeps, ReadLegacyKeeps, MigrateKeeps,
       MarkKeeps, WarmKeeps
  <1>3. ASSUME NEW t \in Tasks,
               WriteAuthenticated(t) \/ WritePlain(t) \/ Erase(t) \/ Unmark(t)
        PROVE  IInv'
    BY <1>3, WriteAuthenticatedKeeps, WritePlainKeeps, EraseKeeps, UnmarkKeeps
  <1>4. ASSUME NEW t \in Tasks, NEW w \in Wallets, GetCached(t, w)
        PROVE  IInv'
    BY <1>4, QuietStepKeeps DEF GetCached, session
  <1>5. ASSUME NEW w \in Wallets, DropWallet(w)
        PROVE  IInv'
    BY <1>5, QuietStepKeeps DEF DropWallet, Wiped
  <1>6. CASE UserLocks \/ AppReturns
    BY <1>6, QuietStepKeeps DEF UserLocks, AppReturns, LockNow, session
  <1>7. CASE AppLeaves \/ Tick
    BY <1>7, QuietStepKeeps DEF AppLeaves, Tick, session
  <1>8. CASE Restart
    BY <1>8, RestartKeeps
  <1>9. CASE UNCHANGED vars
    BY <1>9, QuietStepKeeps DEF vars, session
  <1>. QED  BY <1>1, <1>2, <1>3, <1>4, <1>5, <1>6, <1>7, <1>8, <1>9 DEF Next

\* Every state of every behaviour of the key store satisfies IInv.
LEMMA SpecIInv == Spec => []IInv
  BY InitIInv, NextKeeps, PTL DEF Spec

\* For any wallets and any calls that overlap, fail or are cut short by the end
\* of the process: a wallet whose AUTH_FLAG is set is never stored plainly, so
\* getWalletSeed can read every seed it finds flagged.
THEOREM FlaggedSeedsAreBound == Spec => []FlagMeansBound
  <1>1. IInv => FlagMeansBound
    BY DEF IInv
  <1>. QED  BY <1>1, SpecIInv, PTL

\* For any wallets and any overlapping calls: a seed in sessionCache, of a
\* wallet the user is not removing, is in the secure storage too.
THEOREM CachedSeedsAreStored == Spec => []CachedIsStored
  <1>1. IInv => CachedIsStored
    BY DEF IInv
  <1>. QED  BY <1>1, SpecIInv, PTL

-----------------------------------------------------------------------------
(* The rest of the type invariant. *)

IdleCallsHaveNone == \A t \in Tasks : pc[t] = "idle" => Id(t) = None

ClockOK ==
    /\ sinceTouch \in Ages /\ sinceAway \in Ages \cup {None} /\ away \in Ages \cup {None}
    /\ sinceAway = None <=> away = None

\* A call that returns has its variables cleared, and only such a call is idle.
LEMMA CallsReturnClean ==
    ASSUME IInv, IdleCallsHaveNone, [Next]_vars
    PROVE  IdleCallsHaveNone'
<1>1. \A t \in Tasks : pc[t] = "idle" => task[t].id = None
  BY DEF IdleCallsHaveNone, Id
<1>2. /\ pc \in [Tasks -> Steps] /\ task \in [Tasks -> [id: Wallets \cup {None}, wasLocked: BOOLEAN]]
  BY DEF IInv, Types
<1>3. ASSUME UNCHANGED <<pc, task>> PROVE IdleCallsHaveNone'
  BY <1>1, <1>3 DEF IdleCallsHaveNone, Id
<1>4. ASSUME NEW t \in Tasks, NEW step, step # "idle", Goto(t, step),
             \A u \in Tasks : u # t => task'[u] = task[u]
      PROVE  IdleCallsHaveNone'
  BY <1>1, <1>2, <1>4 DEF Goto, IdleCallsHaveNone, Id
<1>5. ASSUME NEW t \in Tasks, Return(t) PROVE IdleCallsHaveNone'
  <2>1. \A u \in Tasks : u # t => pc'[u] = pc[u] /\ task'[u] = task[u]
    BY <1>2, <1>5 DEF Return, Goto
  <2>2. task'[t].id = None
    BY <1>2, <1>5 DEF Return, NoTask
  <2>3. QED
    BY <1>1, <2>1, <2>2 DEF IdleCallsHaveNone, Id
<1>6. ASSUME NEW t \in Tasks, NEW w \in Wallets, GetMiss(t, w) \/ Set(t, w) \/ Remove(t, w)
      PROVE  IdleCallsHaveNone'
  <2>1. PICK step \in {"read_flag", "write_auth", "erase"} : Begin(t, w, step)
    BY <1>6 DEF GetMiss, Set, Remove
  <2>2. \A u \in Tasks : u # t => task'[u] = task[u]
    BY <1>2, <2>1 DEF Begin
  <2>3. QED
    BY <1>4, <2>1, <2>2 DEF Begin
<1>7. ASSUME NEW t \in Tasks,
             ReadFlag(t) \/ ReadAuthenticated(t) \/ ReadLegacy(t) \/ Migrate(t) \/ Mark(t)
                \/ Warm(t) \/ WriteAuthenticated(t) \/ WritePlain(t) \/ Erase(t) \/ Unmark(t)
      PROVE  IdleCallsHaveNone'
  <2>1. \/ Return(t)
        \/ /\ task' = task
           /\ \E step \in Steps \ {"idle"} : Goto(t, step)
    BY <1>7 DEF ReadFlag, ReadAuthenticated, ReadLegacy, Migrate, Mark, Warm,
                WriteAuthenticated, WritePlain, Erase, Unmark,
                Steps, Reading, Writing, Removing, Holding
  <2>2. QED
    BY <1>4, <1>5, <2>1
<1>8. ASSUME NEW t \in Tasks, NEW w \in Wallets, GetCached(t, w) PROVE IdleCallsHaveNone'
  BY <1>3, <1>8 DEF GetCached, calls
<1>9. CASE (\E w \in Wallets : DropWallet(w)) \/ UserLocks \/ AppLeaves \/ AppReturns \/ Tick
  BY <1>3, <1>9 DEF DropWallet, UserLocks, AppLeaves, AppReturns, Tick, calls
<1>10. CASE Restart
  BY <1>10 DEF Restart, NoTask, IdleCallsHaveNone, Id
<1>11. CASE UNCHANGED vars
  BY <1>3, <1>11 DEF vars, calls
<1>12. QED
  BY <1>6, <1>7, <1>8, <1>9, <1>10, <1>11 DEF Next

\* The clock counts up to the idle time, and the app holds a time of leaving exactly
\* while it is away.
LEMMA ClockStays ==
    ASSUME ClockOK, [Next]_vars
    PROVE  ClockOK'
<1> USE IdleAssumption, NoneAssumption
<1>1. CASE UNCHANGED clock
  BY <1>1 DEF ClockOK, clock
<1>2. CASE Touched
  BY <1>2 DEF ClockOK, Touched, Ages
<1>3. CASE AppLeaves
  BY <1>3 DEF ClockOK, AppLeaves, Ages
<1>4. CASE AppReturns
  BY <1>4 DEF ClockOK, AppReturns
<1>5. CASE Tick
  <2>1. \A age \in Ages \cup {None} : /\ Older(age) \in Ages \cup {None}
                                      /\ Older(age) = None <=> age = None
                                      /\ age \in Ages => Older(age) \in Ages
    BY DEF Older, Ages
  <2>2. QED
    BY <1>5, <2>1 DEF ClockOK, Tick
<1>6. CASE Restart
  BY <1>6 DEF ClockOK, Restart, Ages
<1>7. QED
  BY <1>1, <1>2, <1>3, <1>4, <1>5, <1>6
     DEF Next, vars, GetCached, GetMiss, Set, Remove, ReadFlag, ReadAuthenticated, ReadLegacy,
         Migrate, Mark, Warm, WriteAuthenticated, WritePlain, Erase, Unmark, DropWallet,
         UserLocks

\* Listeners hear a boolean.
LEMMA ListenersHear ==
    ASSUME told \in BOOLEAN, [Next]_vars
    PROVE  told' \in BOOLEAN
<1>1. \A changed : NotifiedIf(changed) => told' \in BOOLEAN
  <2>1. (cache' # {}) \in BOOLEAN
    OBVIOUS
  <2>2. QED
    BY <2>1 DEF NotifiedIf
<1>2. CASE told' = told
  BY <1>2
<1>3. CASE Restart
  BY <1>3 DEF Restart
<1>4. ASSUME NEW t \in Tasks, Warm(t) PROVE told' \in BOOLEAN
  BY <1>1, <1>4 DEF Warm
<1>5. ASSUME LockNow PROVE told' \in BOOLEAN
  BY <1>1, <1>5 DEF LockNow
<1>6. QED
  BY <1>2, <1>3, <1>4, <1>5
     DEF Next, vars, session, GetCached, GetMiss, Set, Remove, ReadFlag, ReadAuthenticated,
         ReadLegacy, Migrate, Mark, WriteAuthenticated, WritePlain, Erase, Unmark, DropWallet,
         Wiped, UserLocks, AppLeaves, AppReturns, Tick

\* Storage, session, calls and clock are well typed: a call has a wallet exactly
\* while it is under way, and a time of leaving exists exactly while the app is away.
THEOREM KeystoreIsTyped == Spec => []TypeOK
<1> DEFINE Rest == IdleCallsHaveNone /\ ClockOK /\ told \in BOOLEAN
<1>1. Init => Rest
  <2> SUFFICES ASSUME Init PROVE Rest
    OBVIOUS
  <2>1. IdleCallsHaveNone
    BY DEF Init, IdleCallsHaveNone, Id, NoTask
  <2>2. ClockOK
    BY IdleAssumption DEF Init, ClockOK, Ages
  <2>3. told \in BOOLEAN
    BY DEF Init
  <2>4. QED
    BY <2>1, <2>2, <2>3
<1>2. IInv /\ Rest /\ [Next]_vars => Rest'
  BY CallsReturnClean, ClockStays, ListenersHear
<1>3. IInv /\ Rest => TypeOK
  BY NoneAssumption DEF IInv, Types, IdleCallsHaveNone, ClockOK, TypeOK, Steps, Reading, Writing,
     Removing, Holding
<1> HIDE DEF Rest
<1>4. QED
  BY <1>1, <1>2, <1>3, SpecIInv, PTL DEF Spec

\* When the AppState listener sees the app return after IDLE_LOCK_MS without use, the
\* cache is empty after that step: no other step ends the absence, but a restart.
THEOREM AwayMeansLocked == Spec => LocksWhileAway
<1> DEFINE Locks == away = Idle /\ sinceTouch = Idle /\ away' = None => cache' = {}
<1>1. [Next]_vars => Locks
  <2> SUFFICES ASSUME [Next]_vars, away = Idle, sinceTouch = Idle, away' = None
               PROVE  cache' = {}
    OBVIOUS
  <2>1. Idle # None
    BY IdleAssumption, NoneAssumption
  <2>2. CASE AppReturns
    BY <2>2 DEF AppReturns, LockNow
  <2>3. CASE Restart
    BY <2>3 DEF Restart
  <2>4. CASE AppLeaves \/ Tick
    BY <2>1, <2>4 DEF AppLeaves, Tick, Older
  <2>5. CASE away' = away
    BY <2>1, <2>5
  <2>6. QED
    BY <2>2, <2>3, <2>4, <2>5
       DEF Next, vars, clock, Touched, GetCached, GetMiss, Set, Remove, ReadFlag,
           ReadAuthenticated, ReadLegacy, Migrate, Mark, Warm, WriteAuthenticated, WritePlain,
           Erase, Unmark, DropWallet, UserLocks
<1>2. [Next]_vars => [Locks]_vars
  BY <1>1
<1> HIDE DEF Locks
<1>3. Spec => [][Locks]_vars
  BY <1>2, PTL DEF Spec
<1>4. QED
  BY <1>3 DEF LocksWhileAway, Locks
=============================================================================

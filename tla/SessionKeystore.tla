-------------------------- MODULE SessionKeystore ---------------------------
(***************************************************************************)
(* The session cache of wallet seeds (src/src/security/session-keystore.ts)*)
(* over the device's secure storage.                                       *)
(*                                                                         *)
(* getWalletSeed, setWalletSeed and removeWalletSeed await the storage     *)
(* several times, so calls overlap with each other, with lockNow, with     *)
(* dropWallet and with the AppState listener, and the process may end at   *)
(* any await.  An awaited call takes effect in one step; what the code     *)
(* does to the cache once it resumes is another step (Warm).  The storage  *)
(* shim reports a failure as a value; it does not throw.                   *)
(*                                                                         *)
(* Wallet ids are fresh: setWalletSeed is called once per wallet, when it  *)
(* is added (wallet-book, outside src/, generates the id).                 *)
(***************************************************************************)
EXTENDS Integers, FiniteSets

CONSTANTS
    Wallets,     \* wallet ids
    Tasks,       \* calls that may overlap
    None,        \* no time stamp, no wallet
    Idle         \* IDLE_LOCK_MS, in ticks of the clock

ASSUME IdleAssumption == Idle \in Nat \ {0}
ASSUME NoneAssumption == None \notin Wallets \cup 0..Idle

VARIABLES
    book,          \* what the user did with each wallet: nothing, added, removed
    secret,        \* SecureStore: absent, written plainly, or bound to authentication
    flag,          \* the AUTH_FLAG of each wallet
    cache,         \* sessionCache (its keys)
    told,          \* what the lock listeners last saw of isUnlocked()
    pc,            \* the await each call is suspended at
    task,          \* the local variables of each call
    sinceTouch,    \* now - lastActivityMs, up to Idle
    sinceAway,     \* now - _backgroundedAtMs, up to Idle, or None
    away           \* time since the app last left the foreground, up to Idle; None in front

storage == <<book, secret, flag>>
session == <<cache, told>>
calls   == <<pc, task>>
clock   == <<sinceTouch, sinceAway, away>>
vars    == <<storage, session, calls, clock>>

NoTask == [id |-> None, wasLocked |-> FALSE]

-----------------------------------------------------------------------------
(* The cache, its time stamp and its listeners. *)

IsUnlocked == cache # {}

Touched == sinceTouch' = 0 /\ UNCHANGED <<sinceAway, away>>

\* notifyLockChange: a listener reads isUnlocked() when it is called.
NotifiedIf(changed) == told' = IF changed THEN cache' # {} ELSE told

\* lockNow.
LockNow == cache' = {} /\ NotifiedIf(IsUnlocked)

\* wipeCacheEntry, which tells nobody.
Wiped(w) == cache' = cache \ {w} /\ UNCHANGED told

Goto(t, step) == pc' = [pc EXCEPT ![t] = step]

Return(t) == Goto(t, "idle") /\ task' = [task EXCEPT ![t] = NoTask]

Begin(t, w, step) ==
    /\ pc[t] = "idle"
    /\ Goto(t, step)
    /\ task' = [task EXCEPT ![t] = [id |-> w, wasLocked |-> ~IsUnlocked]]

Id(t) == task[t].id

-----------------------------------------------------------------------------
(* getWalletSeed. *)

GetCached(t, w) ==
    /\ pc[t] = "idle" /\ w \in cache
    /\ Touched
    /\ UNCHANGED <<storage, session, calls>>

GetMiss(t, w) ==
    /\ w \notin cache
    /\ Begin(t, w, "read_flag")
    /\ UNCHANGED <<storage, session, clock>>

ReadFlag(t) ==
    /\ pc[t] = "read_flag"
    /\ Goto(t, IF flag[Id(t)] THEN "read_auth" ELSE "read_legacy")
    /\ UNCHANGED <<storage, session, task, clock>>

\* secureGetAuthenticated: the user is prompted, and may cancel.
ReadAuthenticated(t) ==
    /\ pc[t] = "read_auth"
    /\ \/ secret[Id(t)] = "auth" /\ Goto(t, "warm") /\ UNCHANGED task
       \/ Return(t)
    /\ UNCHANGED <<storage, session, clock>>

\* secureGet: an item that is bound to authentication may be refused.
ReadLegacy(t) ==
    /\ pc[t] = "read_legacy"
    /\ \/ secret[Id(t)] # "none" /\ Goto(t, "migrate") /\ UNCHANGED task
       \/ secret[Id(t)] # "plain" /\ Return(t)
    /\ UNCHANGED <<storage, session, clock>>

\* The rewrite may fail; the seed that was read is used all the same.
Migrate_FlagAnyway(t) ==    \* mutant: no `if (ok)'
    /\ pc[t] = "migrate"
    /\ secret' \in {secret, [secret EXCEPT ![Id(t)] = "auth"]}
    /\ Goto(t, "mark")
    /\ UNCHANGED <<book, flag, session, task, clock>>
Migrate(t) ==
    /\ pc[t] = "migrate"
    /\ \/ secret' = [secret EXCEPT ![Id(t)] = "auth"] /\ Goto(t, "mark")
       \/ UNCHANGED secret /\ Goto(t, "warm")
    /\ UNCHANGED <<book, flag, session, task, clock>>

\* setItem of the flag, by getWalletSeed and by setWalletSeed; it may fail.
Mark(t) ==
    /\ pc[t] = "mark"
    /\ flag' \in {flag, [flag EXCEPT ![Id(t)] = TRUE]}
    /\ Goto(t, "warm")
    /\ UNCHANGED <<book, secret, session, task, clock>>

\* Both calls end by caching the seed; listeners are told if the cache was
\* empty when the call began.
Warm(t) ==
    /\ pc[t] = "warm"
    /\ cache' = cache \cup {Id(t)}
    /\ Touched
    /\ NotifiedIf(task[t].wasLocked)
    /\ Return(t)
    /\ UNCHANGED storage

-----------------------------------------------------------------------------
(* setWalletSeed. *)

Set(t, w) ==
    /\ book[w] = "unknown"
    /\ Begin(t, w, "write_auth")
    /\ book' = [book EXCEPT ![w] = "added"]
    /\ UNCHANGED <<secret, flag, session, clock>>

WriteAuthenticated(t) ==
    /\ pc[t] = "write_auth"
    /\ \/ secret' = [secret EXCEPT ![Id(t)] = "auth"] /\ Goto(t, "mark")
       \/ UNCHANGED secret /\ Goto(t, "write_plain")
    /\ UNCHANGED <<book, flag, session, task, clock>>

\* The fallback; when it fails too, the seed is not cached.
WritePlain_Unchecked(t) ==    \* mutant: no `if (fallbackOk)'
    /\ pc[t] = "write_plain"
    /\ secret' \in {secret, [secret EXCEPT ![Id(t)] = "plain"]}
    /\ Goto(t, "warm")
    /\ UNCHANGED <<book, flag, session, task, clock>>
WritePlain(t) ==
    /\ pc[t] = "write_plain"
    /\ \/ secret' = [secret EXCEPT ![Id(t)] = "plain"] /\ Goto(t, "warm") /\ UNCHANGED task
       \/ UNCHANGED secret /\ Return(t)
    /\ UNCHANGED <<book, flag, session, clock>>

-----------------------------------------------------------------------------
(* removeWalletSeed and dropWallet. *)

Remove(t, w) ==
    /\ book[w] = "added"
    /\ Begin(t, w, "erase")
    /\ book' = [book EXCEPT ![w] = "removed"]
    /\ Wiped(w)
    /\ UNCHANGED <<secret, flag, clock>>

\* secureRemove and removeItem, whose outcome nobody looks at.
Erase(t) ==
    /\ pc[t] = "erase"
    /\ secret' \in {secret, [secret EXCEPT ![Id(t)] = "none"]}
    /\ Goto(t, "unmark")
    /\ UNCHANGED <<book, flag, session, task, clock>>

Unmark(t) ==
    /\ pc[t] = "unmark"
    /\ flag' \in {flag, [flag EXCEPT ![Id(t)] = FALSE]}
    /\ Return(t)
    /\ UNCHANGED <<book, secret, session, clock>>

DropWallet(w) ==
    /\ w \in cache
    /\ Wiped(w)
    /\ UNCHANGED <<storage, calls, clock>>

UserLocks == LockNow /\ UNCHANGED <<storage, calls, clock>>

-----------------------------------------------------------------------------
(* installIdleLock: the AppState listener, and the clock. *)

\* `background' or `inactive': the time is stamped again at each of them.
AppLeaves ==
    /\ sinceAway' = 0
    /\ away' = IF away = None THEN 0 ELSE away
    /\ UNCHANGED <<storage, session, calls, sinceTouch>>

\* Any other event checks both clocks, whether or not the app had left.
AppReturns_BackgroundOnly ==    \* mutant: no ambient check
    /\ IF sinceAway = Idle THEN LockNow ELSE UNCHANGED session
    /\ sinceAway' = None /\ away' = None
    /\ UNCHANGED <<storage, calls, sinceTouch>>
AppReturns_KeepsStamp ==    \* mutant: _backgroundedAtMs is not reset
    /\ IF sinceAway = Idle \/ sinceTouch = Idle THEN LockNow ELSE UNCHANGED session
    /\ away' = None
    /\ UNCHANGED <<storage, calls, sinceTouch, sinceAway>>
AppReturns ==
    /\ IF sinceAway = Idle \/ sinceTouch = Idle THEN LockNow ELSE UNCHANGED session
    /\ sinceAway' = None /\ away' = None
    /\ UNCHANGED <<storage, calls, sinceTouch>>

Older(age) == IF age = None \/ age = Idle THEN age ELSE age + 1

Tick ==
    /\ sinceTouch' = Older(sinceTouch)
    /\ sinceAway' = Older(sinceAway)
    /\ away' = Older(away)
    /\ UNCHANGED <<storage, session, calls>>

\* The process ends and is started again.
Restart ==
    /\ cache' = {} /\ told' = FALSE
    /\ pc' = [t \in Tasks |-> "idle"] /\ task' = [t \in Tasks |-> NoTask]
    /\ sinceTouch' = 0 /\ sinceAway' = None /\ away' = None
    /\ UNCHANGED storage

-----------------------------------------------------------------------------

\* A wallet added before seeds were bound to authentication is stored plainly.
Init ==
    /\ secret \in [Wallets -> {"none", "plain"}]
    /\ book = [w \in Wallets |-> IF secret[w] = "plain" THEN "added" ELSE "unknown"]
    /\ flag = [w \in Wallets |-> FALSE]
    /\ cache = {} /\ told = FALSE
    /\ pc = [t \in Tasks |-> "idle"] /\ task = [t \in Tasks |-> NoTask]
    /\ sinceTouch = 0 /\ sinceAway = None /\ away = None

Next ==
    \/ \E t \in Tasks :
        \/ \E w \in Wallets :
            \/ GetCached(t, w) \/ GetMiss(t, w) \/ Set(t, w) \/ Remove(t, w)
        \/ ReadFlag(t) \/ ReadAuthenticated(t) \/ ReadLegacy(t)
        \/ Migrate(t) \/ Mark(t) \/ Warm(t)
        \/ WriteAuthenticated(t) \/ WritePlain(t)
        \/ Erase(t) \/ Unmark(t)
    \/ \E w \in Wallets : DropWallet(w)
    \/ UserLocks \/ AppLeaves \/ AppReturns
    \/ Tick \/ Restart

Spec == Init /\ [][Next]_vars

-----------------------------------------------------------------------------
(* Properties. *)

Ages == 0..Idle

\* Type invariant of the storage, the session and the calls under way; the app
\* holds a time of leaving exactly while it is away.
TypeOK ==
    /\ book \in [Wallets -> {"unknown", "added", "removed"}]
    /\ secret \in [Wallets -> {"none", "plain", "auth"}] /\ flag \in [Wallets -> BOOLEAN]
    /\ cache \subseteq Wallets /\ told \in BOOLEAN
    /\ pc \in [Tasks -> {"idle", "read_flag", "read_auth", "read_legacy", "migrate", "mark",
                         "warm", "write_auth", "write_plain", "erase", "unmark"}]
    /\ task \in [Tasks -> [id: Wallets \cup {None}, wasLocked: BOOLEAN]]
    /\ \A t \in Tasks : pc[t] = "idle" <=> Id(t) = None
    /\ sinceTouch \in Ages /\ sinceAway \in Ages \cup {None} /\ away \in Ages \cup {None}
    /\ sinceAway = None <=> away = None

\* A wallet whose flag is set is never stored plainly, whatever calls overlap,
\* fail or are cut short: getWalletSeed then reads it with the authenticated
\* API only, and could not read it.
FlagMeansBound == \A w \in Wallets : flag[w] => secret[w] # "plain"

\* A seed the app holds in its cache is on the device too, unless the user is
\* removing the wallet: a wallet that can sign now is not lost by a restart.
CachedIsStored == \A w \in cache : book[w] = "added" => secret[w] # "none"

\* The app that was away for IDLE_LOCK_MS or more, while no seed was used,
\* comes back locked, however often the OS moved it between `inactive' and
\* `background' in between.
LocksWhileAway ==
    [][away = Idle /\ sinceTouch = Idle /\ away' = None => cache' = {}]_vars

\* The comment on the lock listeners: they are notified whenever the cache
\* flips between empty and non-empty.  The code does not keep this, and no run
\* lists it (README, section 5).
ListenersKnow == told = IsUnlocked
=============================================================================

----------------------------- MODULE VaultSync ------------------------------
(***************************************************************************)
(* Where the vaults on the dashboard come from: listVaults(), getVault()   *)
(* and the snapshots they send to the backend (src/src/api/                *)
(* soroban-client.ts), for the vaults of one owner on one network, which   *)
(* the user may leave for another one and come back to.                    *)
(*                                                                         *)
(* A list is put together from four sources that disagree: the contract    *)
(* (simulate), its events, the device's cache and the backend's rows.  The *)
(* backend is written by messages nobody waits for: they are lost, and     *)
(* arrive in any order.  One action per await, and each await goes to the  *)
(* network that is active by then.  The device's cache is keyed by the     *)
(* owner alone, and the list of events may hold those of either network    *)
(* once there was a switch (EventCache), so both are shared.               *)
(*                                                                         *)
(* A row keeps what the sources tell apart: a status (`live' stands for    *)
(* locked and unlocked), a balance, and whether its unlock time is known.  *)
(***************************************************************************)
EXTENDS Integers, FiniteSets

CONSTANTS
    Vaults,        \* the owner's vaults
    Lists,         \* calls of listVaults that may overlap
    None,          \* an absent row, cache or value
    Foreign,       \* an amount that the other network's vault of that number has a part in
    MaxBalance,    \* bound on the balance of a vault
    MaxSent,       \* bound on the snapshots on their way to the backend
    MaxSentAfter,  \* the same, once there was a switch of the network
    MaxSwitches    \* bound on the switches of the network

ASSUME BoundAssumption == MaxBalance \in Nat \ {0} /\ MaxSent \in Nat /\ MaxSwitches \in Nat
ASSUME NoneAssumption == None \notin 0..MaxBalance    \* undefined is no balance
ASSUME ForeignAssumption == Foreign \notin 0..MaxBalance \cup {None}

VARIABLES
    switches,          \* how often the user switched between this network and the other
    chain,             \* the vaults on chain
    backend,           \* the rows of vault_meta
    sent,              \* requests to the backend under way
    cache,             \* the vaults cached on the device
    frozen,            \* _frozenSnapshots
    simulateBroken,    \* simulatePathBroken
    blind,             \* auxiliary: vaults that may be called live with a zero, because they
                       \* were woken up without a decoded balance or there was a switch
    pc,                \* the await each list is suspended at
    list,              \* the local variables of each list
    shown              \* what this step returned to the dashboard, if it did

local  == <<cache, frozen, simulateBroken, pc, list>>
device == <<local, blind, switches>>
vars   == <<chain, backend, sent, device, shown>>

Statuses == {"live", "withdrawn", "archived"}
Balances == 0..MaxBalance \cup {Foreign}
Row  == [status: Statuses, balance: Balances, dated: BOOLEAN]
Meta == [status: {"none", "live", "withdrawn"}, balance: Balances \cup {None}, dated: BOOLEAN]
Snapshot == [id: Vaults, status: {"none", "live", "withdrawn"},
             balance: Balances \cup {None}, dated: BOOLEAN]

\* Rows by vault; a vault without one is not in the list.
Rows(S) == UNION {[ids -> S] : ids \in SUBSET Vaults}
NoRows  == [v \in {} |-> None]
Quiet   == shown' = None

NoList == [cached |-> NoRows, metas |-> NoRows, todo |-> {}, rows |-> NoRows, source |-> "none"]

-----------------------------------------------------------------------------
(* The chain, the backend and the process, around the app. *)

Here     == switches % 2 = 0    \* this network is active
Switched == switches > 0        \* the other one has been

Fits(messages) == Cardinality(messages) <= IF Switched THEN MaxSentAfter ELSE MaxSent

\* setActiveNetwork.  From now on a zero may be the other network's.
Switch ==
    /\ switches < MaxSwitches /\ Cardinality(sent) <= MaxSentAfter
    /\ switches' = switches + 1
    /\ blind' = Vaults
    /\ Quiet /\ UNCHANGED <<chain, backend, sent, local>>

\* A vault: not created, open or withdrawn; whether its ledger entry has been
\* archived (TTL).
OnChain(v, stage) == chain[v].stage = stage
Created == {v \in Vaults : ~OnChain(v, "none")}

CreateVault(v) ==
    /\ OnChain(v, "none")
    /\ chain' = [chain EXCEPT ![v].stage = "open", ![v].balance = 1]
    /\ \/ Here /\ sent' = sent \cup {[id |-> v, status |-> "none", balance |-> None, dated |-> FALSE]}
       \/ UNCHANGED sent    \* created elsewhere, or the mirror never left
    /\ Fits(sent')
    /\ Quiet /\ UNCHANGED <<backend, device>>

Deposit(v) ==
    /\ OnChain(v, "open") /\ ~chain[v].archived /\ chain[v].balance < MaxBalance
    /\ chain' = [chain EXCEPT ![v].balance = @ + 1]
    /\ Quiet /\ UNCHANGED <<backend, sent, device>>

\* The record keeps the balance that was paid out, as history.
Withdraw(v) ==
    /\ OnChain(v, "open") /\ ~chain[v].archived
    /\ chain' = [chain EXCEPT ![v].stage = "withdrawn"]
    /\ Quiet /\ UNCHANGED <<backend, sent, device>>

Archive(v) ==
    /\ ~OnChain(v, "none") /\ ~chain[v].archived
    /\ chain' = [chain EXCEPT ![v].archived = TRUE]
    /\ Quiet /\ UNCHANGED <<backend, sent, device>>

Restore(v) ==
    /\ chain[v].archived
    /\ chain' = [chain EXCEPT ![v].archived = FALSE]
    /\ Quiet /\ UNCHANGED <<backend, sent, device>>

\* A PUT of metadata makes the row; a PATCH writes the fields it carries.
Written(m, row) ==
    IF m.status = "none" THEN row
    ELSE [status |-> m.status, balance |-> IF m.balance = None THEN row.balance ELSE m.balance,
          dated |-> m.dated \/ row.dated]

NewRow == [status |-> "none", balance |-> None, dated |-> FALSE]

Deliver(m) ==
    /\ m \in sent
    /\ sent' = sent \ {m}
    /\ backend' = [v \in DOMAIN backend \cup {m.id} |->
                      IF v # m.id THEN backend[v]
                      ELSE Written(m, IF v \in DOMAIN backend THEN backend[v] ELSE NewRow)]
    /\ Quiet /\ UNCHANGED <<chain, device>>

Lose(m) ==
    /\ m \in sent
    /\ sent' = sent \ {m}
    /\ Quiet /\ UNCHANGED <<chain, backend, device>>

\* The process dies; a new device or a reinstall has no cache either.
Restart ==
    /\ frozen' = {} /\ simulateBroken' = FALSE
    /\ pc' = [l \in Lists |-> "idle"] /\ list' = [l \in Lists |-> NoList]
    /\ cache' \in {cache, NoRows}
    /\ Quiet /\ UNCHANGED <<chain, backend, sent, blind, switches>>

-----------------------------------------------------------------------------
(* Rows. *)

\* decodeVault / toVault: what get_vault returns.
FromContract(v) ==
    IF OnChain(v, "withdrawn") THEN [status |-> "withdrawn", balance |-> 0, dated |-> TRUE]
    ELSE [status |-> "live", balance |-> chain[v].balance, dated |-> TRUE]

\* The amounts that a source may name: a balance that the vault has had and, once
\* there was a switch, one of the other network's vault.
Amounts(v) == (1..chain[v].balance) \cup (IF Switched THEN {Foreign} ELSE {})

\* What the other network's contract returns of its vault, and what that network's
\* backend may say of it, which the same device writes to.
ForeignRows == {[status |-> "withdrawn", balance |-> 0, dated |-> TRUE],
                [status |-> "live", balance |-> Foreign, dated |-> TRUE]}
ForeignMetas(v) ==
    {NewRow, [status |-> "live", balance |-> None, dated |-> FALSE]} \cup
    {[status |-> "live", balance |-> b, dated |-> TRUE] : b \in Amounts(v)} \cup
    {[status |-> s, balance |-> 0, dated |-> d] : s \in {"live", "withdrawn"}, d \in BOOLEAN}

HasBalance(v, metas) == v \in DOMAIN metas /\ metas[v].balance # None
Says(v, metas, status) == v \in DOMAIN metas /\ metas[v].status = status

\* aggregateVaultsFromEvents: the backend's balance and unlock time win, and so
\* does its word that the vault is withdrawn.  `b', `withdrawn' and `dated' are what
\* the replayed events say.
FromEvents_BackendRevives(v, metas, b, withdrawn, dated) ==    \* mutant: MongoDB wins always
    [status |-> IF withdrawn /\ ~Says(v, metas, "live") THEN "withdrawn" ELSE "live",
     balance |-> IF HasBalance(v, metas) THEN metas[v].balance ELSE b,
     dated |-> dated \/ (v \in DOMAIN metas /\ metas[v].dated)]
FromEvents(v, metas, b, withdrawn, dated) ==
    LET gone == withdrawn \/ Says(v, metas, "withdrawn") IN
    [status |-> IF gone THEN "withdrawn" ELSE "live",
     balance |-> IF gone THEN 0 ELSE IF HasBalance(v, metas) THEN metas[v].balance ELSE b,
     dated |-> dated \/ (v \in DOMAIN metas /\ metas[v].dated)]

\* mergeVaults: fresh rows win, cached ones stay.
Merged(cached, fresh) ==
    [v \in DOMAIN cached \cup DOMAIN fresh |->
        IF v \in DOMAIN fresh THEN fresh[v] ELSE cached[v]]

\* The sanitisation pass of listVaults, on a row without an unlock time.
Rescued(row, m) ==
    [status |-> IF m.status = "withdrawn" THEN "withdrawn" ELSE "live",
     balance |-> IF m.balance = None THEN row.balance ELSE m.balance,
     dated |-> m.dated \/ row.dated]
Sanitised_BackendFirst(v, row, metas) ==    \* mutant: rescues any row
    IF HasBalance(v, metas) THEN Rescued(row, metas[v]) ELSE row
Sanitised(v, row, metas) ==
    IF row.status = "archived" \/ row.dated THEN row
    ELSE IF v \in DOMAIN metas /\ (metas[v].dated \/ metas[v].balance \notin {None, 0})
    THEN Rescued(row, metas[v])
    ELSE [status |-> "archived", balance |-> 0, dated |-> FALSE]

\* Rows still archived that the backend does not know are dropped.
Kept(rows, metas) ==
    {v \in DOMAIN rows : Sanitised(v, rows[v], metas).status = "archived" => v \in DOMAIN metas}
LiveRows(rows, metas) == [v \in Kept(rows, metas) |-> Sanitised(v, rows[v], metas)]

\* buildArchivedOverlayFromMetas: a row for every vault the backend knows and
\* the live rows lack; one the backend calls live is taken for withdrawn.
OverlayRow_NoFallback(m) ==    \* mutant: no `?? "0"'
    [status |-> IF m.status = "none" THEN "archived" ELSE "withdrawn",
     balance |-> IF m.status = "live" THEN 0 ELSE m.balance, dated |-> m.dated]
OverlayRow(m) ==
    IF m.status = "none"
    THEN [status |-> "archived", balance |-> IF m.balance = None THEN 0 ELSE m.balance, dated |-> m.dated]
    ELSE [status |-> "withdrawn",
          balance |-> IF m.status = "live" \/ m.balance = None THEN 0 ELSE m.balance,
          dated |-> m.dated]
Overlay_ActiveOnly(metas, live) ==    \* mutant: active_only=true in the URL
    [v \in {w \in DOMAIN metas \ live : metas[w].status # "withdrawn"} |-> OverlayRow(metas[v])]
Overlay(metas, live) == [v \in DOMAIN metas \ live |-> OverlayRow(metas[v])]

\* dismissVaultMeta, for each row of the overlay that the backend calls live.
Healed(metas, live) ==
    {[id |-> v, status |-> "withdrawn", balance |-> 0, dated |-> FALSE] :
        v \in {w \in DOMAIN metas \ live : metas[w].status = "live"}}

\* pushSnapshotToBackend, for each live or withdrawn row with an unlock time;
\* a withdrawn one is sent once per session.
Pushed(rows) ==
    {[id |-> v, status |-> rows[v].status, balance |-> rows[v].balance, dated |-> TRUE] :
        v \in {w \in DOMAIN rows : /\ rows[w].status \in {"live", "withdrawn"} /\ rows[w].dated
                                   /\ ~(rows[w].status = "withdrawn" /\ w \in frozen)}}
FrozenBy(rows) == {v \in DOMAIN rows : rows[v].status = "withdrawn" /\ rows[v].dated}

-----------------------------------------------------------------------------
(* The steps of listVaults. *)

Goto(l, step) == pc' = [pc EXCEPT ![l] = step]

\* The simulate path is tried unless it broke earlier in the session.
Start(l) ==
    /\ pc[l] = "idle"
    /\ Goto(l, "metas")
    /\ list' = [list EXCEPT ![l].cached = cache]
    /\ Quiet /\ UNCHANGED <<chain, backend, sent, cache, frozen, simulateBroken, blind, switches>>

\* The backend's rows, or none when it cannot be reached.
ForeignBackends == {m \in Rows(Meta) : \A v \in DOMAIN m : m[v] \in ForeignMetas(v)}

FetchMetas(l) ==
    /\ pc[l] = "metas"
    /\ \E metas \in IF Here THEN {backend, NoRows} ELSE ForeignBackends :
          list' = [list EXCEPT ![l].metas = metas]
    /\ Goto(l, IF simulateBroken THEN "events" ELSE "list_owned")
    /\ Quiet /\ UNCHANGED <<chain, backend, sent, cache, frozen, simulateBroken, blind, switches>>

ListOwned(l) ==
    /\ pc[l] = "list_owned"
    /\ \E ids \in IF Here THEN {Created} ELSE SUBSET Vaults :
          /\ list' = [list EXCEPT ![l].todo = ids, ![l].source = "simulate"]
          /\ Goto(l, IF ids = {} THEN "finish" ELSE "get_vault")
    /\ Quiet /\ UNCHANGED <<chain, backend, sent, cache, frozen, simulateBroken, blind, switches>>

\* One get_vault of the Promise.all, which ends with the last; an archived entry
\* cannot be read.
GetOne(l, v) ==
    /\ pc[l] = "get_vault" /\ v \in list[l].todo
    /\ Here => v \in Created /\ ~chain[v].archived
    /\ \E row \in IF Here THEN {FromContract(v)} ELSE ForeignRows :
          list' = [list EXCEPT ![l].todo = @ \ {v},
                               ![l].rows = Merged(@, [w \in {v} |-> row])]
    /\ Goto(l, IF list[l].todo = {v} THEN "finish" ELSE "get_vault")
    /\ Quiet /\ UNCHANGED <<chain, backend, sent, cache, frozen, simulateBroken, blind, switches>>

\* Any read that throws ends the simulate path: the network, an archived entry,
\* or a decoding error, which disables it for the session.
SimulateThrows(l) ==
    /\ pc[l] \in {"list_owned", "get_vault"}
    /\ list' = [list EXCEPT ![l].todo = {}, ![l].rows = NoRows, ![l].source = "none"]
    /\ simulateBroken' \in {simulateBroken, TRUE}
    /\ Goto(l, "events")
    /\ Quiet /\ UNCHANGED <<chain, backend, sent, cache, frozen, blind, switches>>

\* The events path: a row for every vault whose creation the server retains
\* (any of them may have aged out), as recent as the event cache, with or without
\* an unlock time that the parser can read; or no rows, when it throws too.  After a
\* switch the list of events may be the other network's, or mix the two: it is
\* filtered by the owner alone.
Events(l) ==
    /\ pc[l] = "events"
    /\ \/ \E seen \in SUBSET (IF Switched THEN Vaults ELSE Created) :
         \E b \in [seen -> Balances], gone, dated \in SUBSET seen :
            /\ \A v \in seen : b[v] \in Amounts(v)
            /\ ~Switched => \A v \in gone : OnChain(v, "withdrawn")
            /\ list' = [list EXCEPT
                   ![l].rows = [v \in seen |-> FromEvents(v, list[l].metas, b[v], v \in gone,
                                                          v \in dated)],
                   ![l].source = IF seen = {} THEN "none" ELSE "events"]
       \/ UNCHANGED list
    /\ Goto(l, "finish")
    /\ Quiet /\ UNCHANGED <<chain, backend, sent, cache, frozen, simulateBroken, blind, switches>>

\* The rest of listVaults, which does not wait for anything: merge with the
\* cache, save it, sanitise, push snapshots, overlay, heal, return.  While the
\* other network is active, it writes that one's backend rows and dashboard.
Finish(l) ==
    /\ pc[l] = "finish"
    /\ LET me     == list[l]
           merged == Merged(me.cached, me.rows)
           live   == LiveRows(merged, me.metas) IN
       /\ cache' \in IF me.source = "none" THEN {cache} ELSE {cache, merged}
       /\ sent' = IF Here THEN sent \cup Pushed(live) \cup Healed(me.metas, DOMAIN live) ELSE sent
       /\ Fits(sent')
       /\ frozen' = frozen \cup FrozenBy(live)
       /\ shown' = IF ~Here THEN None ELSE
                   [rows |-> Merged(Overlay(me.metas, DOMAIN live), live),
                    metas |-> DOMAIN me.metas, read |-> me.rows, source |-> me.source]
    /\ Goto(l, "idle")
    /\ list' = [list EXCEPT ![l] = NoList]
    /\ UNCHANGED <<chain, backend, simulateBroken, blind, switches>>

\* getVault, when the contract, the events and the cache all lack the vault: it
\* builds the overlay of all the owner's rows, as if none of them were live.
GetVaultFromBackend(v) ==
    /\ Here /\ v \notin DOMAIN cache
    /\ sent' = sent \cup Healed(backend, {})
    /\ Fits(sent')
    /\ Quiet /\ UNCHANGED <<chain, backend, device>>

\* The end of wakeUpVault, at which the entry is live: a snapshot says so, with
\* the balance that was simulated when it began, unless it could not be decoded.
WakeUp(v) ==
    /\ Here /\ v \in Created /\ ~chain[v].archived
    /\ \E b \in {None} \cup 0..chain[v].balance :
          /\ b = 0 => OnChain(v, "withdrawn")
          /\ sent' = sent \cup {[id |-> v, status |-> "live", balance |-> b, dated |-> b # None]}
          /\ blind' = IF b = None THEN blind \cup {v} ELSE blind
    /\ Fits(sent')
    /\ Quiet /\ UNCHANGED <<chain, backend, local, switches>>

\* A call that began on the other network (metadata of a creation, a wake-up, a heal)
\* ends after the switch back: it writes the other vault's word into this one's row.
ForeignCall(v) ==
    /\ Here /\ Switched
    /\ \E m \in {r \in ForeignMetas(v) : r.dated <=> r.status = "live" /\ r.balance # None} :
          sent' = sent \cup {[id |-> v, status |-> m.status, balance |-> m.balance, dated |-> m.dated]}
    /\ Fits(sent')
    /\ Quiet /\ UNCHANGED <<chain, backend, device>>

-----------------------------------------------------------------------------

Init ==
    /\ chain = [v \in Vaults |-> [stage |-> "none", balance |-> 0, archived |-> FALSE]]
    /\ backend = NoRows /\ sent = {}
    /\ cache = NoRows /\ frozen = {} /\ simulateBroken = FALSE
    /\ blind = {} /\ switches = 0
    /\ pc = [l \in Lists |-> "idle"] /\ list = [l \in Lists |-> NoList]
    /\ shown = None

Next ==
    \/ \E v \in Vaults :
        \/ CreateVault(v) \/ Deposit(v) \/ Withdraw(v)
        \/ Archive(v) \/ Restore(v)
        \/ GetVaultFromBackend(v)
        \/ WakeUp(v) \/ ForeignCall(v)
    \/ \E m \in sent : Deliver(m) \/ Lose(m)
    \/ \E l \in Lists :
        \/ Start(l) \/ FetchMetas(l) \/ ListOwned(l)
        \/ \E v \in Vaults : GetOne(l, v)
        \/ SimulateThrows(l) \/ Events(l) \/ Finish(l)
    \/ Switch \/ Restart

Spec == Init /\ [][Next]_vars

-----------------------------------------------------------------------------
(* Properties. *)

AreRows(r, S) == \A v \in DOMAIN r : v \in Vaults /\ r[v] \in S

\* Type invariant of the sources of a list and of the lists under way.
TypeOK ==
    /\ chain \in [Vaults -> [stage: {"none", "open", "withdrawn"}, balance: 0..MaxBalance,
                             archived: BOOLEAN]]
    /\ AreRows(backend, Meta) /\ sent \subseteq Snapshot
    /\ AreRows(cache, Row) /\ frozen \subseteq Vaults
    /\ blind \subseteq Vaults /\ simulateBroken \in BOOLEAN /\ switches \in 0..MaxSwitches
    /\ pc \in [Lists -> {"idle", "metas", "list_owned", "get_vault", "events", "finish"}]
    /\ \A l \in Lists : /\ AreRows(list[l].cached, Row) /\ AreRows(list[l].rows, Row)
                        /\ AreRows(list[l].metas, Meta) /\ list[l].todo \subseteq Vaults
                        /\ list[l].source \in {"none", "simulate", "events"}
    /\ shown # None => AreRows(shown.rows, Row)

\* A balance that the vault once had on chain; zero for one that was withdrawn, or
\* that was woken up blindly, after a heal put a zero in its row; and, once the user
\* has switched networks, any zero and any amount of the other network's vault.
Held(v, b) ==
    \/ b \in 1..chain[v].balance
    \/ b = 0 /\ (OnChain(v, "withdrawn") \/ v \in blind)
    \/ b = Foreign /\ Switched

\* A vault that the dashboard shows as locked or unlocked, or the backend calls
\* live, has a balance that it once had on chain: mixing four sources of
\* different age, and wake-ups that report late, never makes one up.  Only a switch
\* of the network can bring in a balance of the other network's vault, or its zero.
NothingInvented ==
    /\ shown # None => \A v \in DOMAIN shown.rows :
           shown.rows[v].status = "live" => Held(v, shown.rows[v].balance)
    /\ \A v \in DOMAIN backend :
           backend[v].status = "live" => backend[v].balance = None \/ Held(v, backend[v].balance)

\* No vault drops off the dashboard that the contract listed or the backend
\* knows, whichever source failed.
NothingDropsOff ==
    shown # None =>
        /\ shown.metas \subseteq DOMAIN shown.rows
        /\ shown.source = "simulate" => DOMAIN shown.read \subseteq DOMAIN shown.rows

\* When the contract answered, no older source shows through: every vault it
\* returned has the status and the balance that it returned.
ContractWins ==
    shown # None /\ shown.source = "simulate" =>
        \A v \in DOMAIN shown.read : shown.rows[v] = shown.read[v]

\* The comment on the auto-heal: a row is turned to withdrawn when the entry no
\* longer exists on chain (archived or withdrawn).
HealedOnlyWhenGone ==
    \A v \in DOMAIN backend :
        backend[v].status = "withdrawn" => OnChain(v, "withdrawn") \/ chain[v].archived
=============================================================================

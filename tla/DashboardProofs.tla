-------------------------- MODULE DashboardProofs ---------------------------
(***************************************************************************)
(* Proofs about what the dashboard shows, for any vaults, lists that       *)
(* overlap, balances and messages under way: the rows of VaultSync, and    *)
(* the balance of Horizon.                                                 *)
(*                                                                         *)
(* The argument for the rows is that every balance anywhere (in a message, *)
(* a row of the backend, the cache, a list under way) is one that the      *)
(* chain once held, or comes from the other network, once there was a      *)
(* switch.  What the chain once held it goes on having held, and a switch  *)
(* is never undone, so no delay, loss or reordering can spoil it.          *)
(***************************************************************************)
EXTENDS VaultSync, Horizon, TLAPS

USE BoundAssumption, NoneAssumption, ForeignAssumption

ChainType == [Vaults -> [stage: {"none", "open", "withdrawn"}, balance: 0..MaxBalance,
                         archived: BOOLEAN]]
ListType == [cached: Rows(Row), metas: Rows(Meta), todo: SUBSET Vaults, rows: Rows(Row),
             source: {"none", "simulate", "events"}]
Awaits == {"idle", "metas", "list_owned", "get_vault", "events", "finish"}

\* What excuses an odd balance: the vaults woken up blindly, and whether the user has
\* ever switched networks.
Marks == <<blind, Switched>>

\* Held, for a chain c and marks w.
HeldIn(c, w, v, b) ==
    \/ b \in 1..c[v].balance
    \/ b = 0 /\ (c[v].stage = "withdrawn" \/ v \in w[1])
    \/ b = Foreign /\ w[2]

\* A row on the device shows a balance as locked only if it was held, and no other
\* balance but zero.
RowHeld(c, w, v, row) ==
    /\ row.balance = 0 \/ HeldIn(c, w, v, row.balance)
    /\ row.status = "live" => HeldIn(c, w, v, row.balance)

\* A row of the backend, which may lack a balance; it has one if it has a date, and
\* lacks both until the first snapshot.
MetaHeld(c, w, v, m) ==
    /\ m.balance \in {None, 0} \/ HeldIn(c, w, v, m.balance)
    /\ m.status = "live" /\ m.balance # None => HeldIn(c, w, v, m.balance)
    /\ m.dated => m.balance # None
    /\ m.status = "none" => m.balance = None

\* A snapshot: one that calls a vault live without a balance comes from a blind
\* wake-up.
SnapshotHeld(c, w, m) ==
    /\ MetaHeld(c, w, m.id, m)
    /\ m.status = "live" /\ m.balance = None => m.id \in w[1]

RowsHeld(c, w, r)  == \A v \in DOMAIN r : RowHeld(c, w, v, r[v])
MetasHeld(c, w, r) == \A v \in DOMAIN r : MetaHeld(c, w, v, r[v])

\* Rows as get_vault returns them.
Contractual(r) == \A v \in DOMAIN r : r[v].status # "archived" /\ r[v].dated

\* A list: what it reads off the contract, it keeps as it read it.
ListSound(c, w, step, x) ==
    /\ RowsHeld(c, w, x.cached) /\ RowsHeld(c, w, x.rows) /\ MetasHeld(c, w, x.metas)
    /\ step \in {"idle", "metas", "list_owned", "get_vault"} \/ x.source = "simulate"
           => Contractual(x.rows)

\* A vault has a balance from its creation on.
ChainSound(c) == \A v \in Vaults : IF c[v].stage = "none" THEN c[v].balance = 0
                                                          ELSE c[v].balance >= 1

\* What was returned.
ShownRight(c, w, x) ==
    x # None =>
        /\ x.rows \in Rows(Row)
        /\ RowsHeld(c, w, x.rows)
        /\ x.metas \subseteq DOMAIN x.rows
        /\ x.source = "simulate" => /\ DOMAIN x.read \subseteq DOMAIN x.rows
                                    /\ \A v \in DOMAIN x.read : x.rows[v] = x.read[v]

Typed ==
    /\ chain \in ChainType
    /\ backend \in Rows(Meta) /\ sent \subseteq Snapshot
    /\ cache \in Rows(Row) /\ frozen \subseteq Vaults
    /\ blind \subseteq Vaults /\ simulateBroken \in BOOLEAN /\ switches \in 0..MaxSwitches
    /\ Switched => blind = Vaults
    /\ pc \in [Lists -> Awaits]
    /\ list \in [Lists -> ListType]

IInv ==
    /\ Typed
    /\ ChainSound(chain)
    /\ MetasHeld(chain, Marks, backend)
    /\ \A m \in sent : SnapshotHeld(chain, Marks, m)
    /\ RowsHeld(chain, Marks, cache)
    /\ \A l \in Lists : ListSound(chain, Marks, pc[l], list[l])
    /\ ShownRight(chain, Marks, shown)

-----------------------------------------------------------------------------
(* Rows. *)

\* Rows are typed one by one.
LEMMA RowsFacts ==
    ASSUME NEW S, NEW r \in Rows(S)
    PROVE  DOMAIN r \subseteq Vaults /\ r \in [DOMAIN r -> S]
BY DEF Rows

LEMMA RowsMake ==
    ASSUME NEW S, NEW D \in SUBSET Vaults, NEW r \in [D -> S]
    PROVE  r \in Rows(S)
BY DEF Rows

\* The list that is empty.
LEMMA NoRowsFacts ==
    ASSUME NEW S
    PROVE  NoRows \in Rows(S) /\ DOMAIN NoRows = {}
<1>1. DOMAIN NoRows = {} /\ NoRows \in [{} -> S]
  BY DEF NoRows
<1>2. QED
  BY <1>1, RowsMake

\* mergeVaults: the fresh row if there is one, the cached one otherwise.
LEMMA MergedFacts ==
    ASSUME NEW S, NEW a \in Rows(S), NEW b \in Rows(S)
    PROVE  /\ Merged(a, b) \in Rows(S)
           /\ DOMAIN Merged(a, b) = DOMAIN a \cup DOMAIN b
           /\ \A v \in DOMAIN b : Merged(a, b)[v] = b[v]
           /\ \A v \in DOMAIN a : Merged(a, b)[v] = a[v] \/ v \in DOMAIN b
<1>1. /\ DOMAIN a \subseteq Vaults /\ a \in [DOMAIN a -> S]
      /\ DOMAIN b \subseteq Vaults /\ b \in [DOMAIN b -> S]
  BY RowsFacts
<1>2. Merged(a, b) \in [DOMAIN a \cup DOMAIN b -> S]
  BY <1>1 DEF Merged
<1>3. Merged(a, b) \in Rows(S)
  BY <1>1, <1>2, RowsMake
<1>4. QED
  BY <1>2, <1>3 DEF Merged

LEMMA MergedRows ==
    \A a, b \in Rows(Row) :
        /\ Merged(a, b) \in Rows(Row)
        /\ DOMAIN Merged(a, b) = DOMAIN a \cup DOMAIN b
        /\ \A v \in DOMAIN b : Merged(a, b)[v] = b[v]
        /\ \A v \in DOMAIN a : Merged(a, b)[v] = a[v] \/ v \in DOMAIN b
BY MergedFacts

\* Merging makes up no balance.
LEMMA MergedHeld ==
    ASSUME NEW c, NEW w, NEW a \in Rows(Row), NEW b \in Rows(Row),
           RowsHeld(c, w, a), RowsHeld(c, w, b)
    PROVE  RowsHeld(c, w, Merged(a, b))
<1> DEFINE r == Merged(a, b)
<1>1. /\ DOMAIN r = DOMAIN a \cup DOMAIN b
      /\ \A v \in DOMAIN b : r[v] = b[v]
      /\ \A v \in DOMAIN a : r[v] = a[v] \/ v \in DOMAIN b
  BY MergedFacts
<1> HIDE DEF r
<1>2. SUFFICES ASSUME NEW v \in DOMAIN r PROVE RowHeld(c, w, v, r[v])
  BY DEF RowsHeld, r
<1>3. (v \in DOMAIN b /\ r[v] = b[v]) \/ (v \in DOMAIN a /\ r[v] = a[v])
  BY <1>1, <1>2
<1>4. QED
  BY <1>3 DEF RowsHeld

\* The fields of a row of the backend, and of one on the device.
LEMMA MetaFields ==
    ASSUME NEW m \in Meta
    PROVE  /\ m.status \in {"none", "live", "withdrawn"}
           /\ m.balance \in {None} \cup Balances /\ m.dated \in BOOLEAN
BY DEF Meta

LEMMA RowFields ==
    ASSUME NEW row \in Row
    PROVE  row.status \in Statuses /\ row.balance \in Balances /\ row.dated \in BOOLEAN
BY DEF Row

LEMMA RowMake ==
    ASSUME NEW st \in Statuses, NEW b \in Balances, NEW d \in BOOLEAN
    PROVE  [status |-> st, balance |-> b, dated |-> d] \in Row
BY DEF Row

\* A rescued row has the backend's balance where it has one; where it has none, the
\* backend calls the vault withdrawn or the row stays out.
LEMMA SanitisedSound ==
    ASSUME NEW c, NEW w, NEW v \in Vaults, NEW row \in Row, NEW metas \in Rows(Meta),
           RowHeld(c, w, v, row), MetasHeld(c, w, metas)
    PROVE  /\ Sanitised(v, row, metas) \in Row
           /\ RowHeld(c, w, v, Sanitised(v, row, metas))
           /\ row.status # "archived" /\ row.dated => Sanitised(v, row, metas) = row
<1> DEFINE m == metas[v]
<1>1. CASE row.status = "archived" \/ row.dated
  BY <1>1 DEF Sanitised
<1>2. CASE /\ ~(row.status = "archived" \/ row.dated)
           /\ v \in DOMAIN metas /\ (metas[v].dated \/ metas[v].balance \notin {None, 0})
  <2>1. m \in Meta /\ MetaHeld(c, w, v, m)
    BY <1>2, RowsFacts DEF MetasHeld
  <2>2. m.balance # None /\ m.status # "none"
    BY <1>2, <2>1 DEF MetaHeld
  <2>3. m.balance \in Balances /\ m.dated \in BOOLEAN /\ m.status \in {"live", "withdrawn"}
    BY <2>1, <2>2, MetaFields
  <2> DEFINE st == IF m.status = "withdrawn" THEN "withdrawn" ELSE "live"
             r  == [status |-> st, balance |-> m.balance, dated |-> m.dated \/ row.dated]
  <2>4. Sanitised(v, row, metas) = r
    BY <1>2, <2>2 DEF Sanitised, Rescued
  <2>5. st \in Statuses /\ (m.dated \/ row.dated) \in BOOLEAN
    BY DEF Statuses
  <2> HIDE DEF m
  <2>6. r \in Row
    BY <2>3, <2>5, RowMake
  <2>7. r.status = m.status /\ r.balance = m.balance
    BY <2>3
  <2>8. RowHeld(c, w, v, r)
    BY <2>1, <2>2, <2>3, <2>7 DEF MetaHeld, RowHeld
  <2>9. QED
    BY <1>2, <2>4, <2>6, <2>8
<1>3. CASE /\ ~(row.status = "archived" \/ row.dated)
           /\ ~(v \in DOMAIN metas /\ (metas[v].dated \/ metas[v].balance \notin {None, 0}))
  <2>1. Sanitised(v, row, metas) = [status |-> "archived", balance |-> 0, dated |-> FALSE]
    BY <1>3 DEF Sanitised
  <2>2. [status |-> "archived", balance |-> 0, dated |-> FALSE] \in Row
    BY DEF Row, Statuses, Balances
  <2>3. QED
    BY <1>3, <2>1, <2>2 DEF RowHeld
<1>4. QED
  BY <1>1, <1>2, <1>3

\* A row of the overlay shows nothing as locked.
LEMMA OverlaySound ==
    ASSUME NEW c, NEW w, NEW v \in Vaults, NEW m \in Meta, MetaHeld(c, w, v, m)
    PROVE  OverlayRow(m) \in Row /\ RowHeld(c, w, v, OverlayRow(m))
<1>1. /\ m.status \in {"none", "live", "withdrawn"}
      /\ m.balance \in {None} \cup Balances /\ m.dated \in BOOLEAN
  BY MetaFields
<1>2. 0 \in Balances
  BY DEF Balances
<1> DEFINE b == IF m.status = "none" THEN IF m.balance = None THEN 0 ELSE m.balance
                ELSE IF m.status = "live" \/ m.balance = None THEN 0 ELSE m.balance
           st == IF m.status = "none" THEN "archived" ELSE "withdrawn"
<1>3. OverlayRow(m) = [status |-> st, balance |-> b, dated |-> m.dated]
  BY DEF OverlayRow
<1>4. b \in Balances /\ st \in Statuses
  BY <1>1, <1>2 DEF Statuses
<1>5. b = 0 \/ HeldIn(c, w, v, b)
  BY DEF MetaHeld
<1>6. st # "live"
  OBVIOUS
<1> HIDE DEF b, st
<1>7. QED
  BY <1>1, <1>3, <1>4, <1>5, <1>6, RowMake DEF RowHeld

\* The rows that stay in the list: all that the contract returned, as it did.
LEMMA LiveRowsSound ==
    ASSUME NEW c, NEW w, NEW rows \in Rows(Row), NEW metas \in Rows(Meta),
           RowsHeld(c, w, rows), MetasHeld(c, w, metas)
    PROVE  LET live == LiveRows(rows, metas) IN
           /\ live \in Rows(Row) /\ RowsHeld(c, w, live)
           /\ \A v \in DOMAIN rows : rows[v].status # "archived" /\ rows[v].dated
                  => v \in DOMAIN live /\ live[v] = rows[v]
<1> DEFINE live == LiveRows(rows, metas)
           D    == Kept(rows, metas)
<1>1. DOMAIN rows \subseteq Vaults /\ \A v \in DOMAIN rows : rows[v] \in Row
  BY RowsFacts
<1>2. \A v \in DOMAIN rows :
          /\ Sanitised(v, rows[v], metas) \in Row
          /\ RowHeld(c, w, v, Sanitised(v, rows[v], metas))
          /\ rows[v].status # "archived" /\ rows[v].dated
                 => Sanitised(v, rows[v], metas) = rows[v]
  BY <1>1, SanitisedSound DEF RowsHeld
<1>3. DOMAIN live = D /\ \A v \in D : live[v] = Sanitised(v, rows[v], metas)
  BY DEF LiveRows
<1>4. D \subseteq DOMAIN rows /\ D \in SUBSET Vaults
  BY <1>1 DEF Kept
<1>5. live \in [D -> Row]
  BY <1>2, <1>4 DEF LiveRows
<1>6. live \in Rows(Row)
  BY <1>4, <1>5, RowsMake
<1>7. \A v \in DOMAIN rows : rows[v].status # "archived" /\ rows[v].dated => v \in D
  BY <1>2 DEF Kept
<1> HIDE DEF D
<1>8. RowsHeld(c, w, live)
  BY <1>2, <1>3, <1>4 DEF RowsHeld
<1>9. QED
  BY <1>2, <1>3, <1>6, <1>7, <1>8

\* The overlay has a row for each vault the backend knows and the live rows lack.
LEMMA OverlayRowsSound ==
    ASSUME NEW c, NEW w, NEW live, NEW metas \in Rows(Meta), MetasHeld(c, w, metas)
    PROVE  /\ Overlay(metas, live) \in Rows(Row) /\ RowsHeld(c, w, Overlay(metas, live))
           /\ DOMAIN Overlay(metas, live) = DOMAIN metas \ live
<1> DEFINE r == Overlay(metas, live)
           D == DOMAIN metas \ live
<1>1. D \in SUBSET Vaults /\ \A v \in D : v \in Vaults /\ metas[v] \in Meta /\ MetaHeld(c, w, v, metas[v])
  BY RowsFacts DEF MetasHeld
<1>2. \A v \in D : OverlayRow(metas[v]) \in Row /\ RowHeld(c, w, v, OverlayRow(metas[v]))
  BY <1>1, OverlaySound
<1>3. DOMAIN r = D /\ \A v \in D : r[v] = OverlayRow(metas[v])
  BY DEF Overlay
<1>4. r \in [D -> Row]
  BY <1>2 DEF Overlay
<1>5. r \in Rows(Row)
  BY <1>1, <1>4, RowsMake
<1>6. RowsHeld(c, w, r)
  BY <1>2, <1>3 DEF RowsHeld
<1>7. QED
  BY <1>3, <1>5, <1>6

\* A snapshot of a list carries what its row shows.
LEMMA PushedSound ==
    ASSUME NEW c, NEW w, NEW rows \in Rows(Row), RowsHeld(c, w, rows)
    PROVE  Pushed(rows) \subseteq Snapshot /\ \A m \in Pushed(rows) : SnapshotHeld(c, w, m)
<1>1. SUFFICES ASSUME NEW m \in Pushed(rows)
               PROVE  m \in Snapshot /\ SnapshotHeld(c, w, m)
  OBVIOUS
<1>2. PICK v \in DOMAIN rows :
          /\ rows[v].status \in {"live", "withdrawn"}
          /\ m = [id |-> v, status |-> rows[v].status, balance |-> rows[v].balance, dated |-> TRUE]
  BY DEF Pushed
<1>3. v \in Vaults /\ rows[v] \in Row /\ RowHeld(c, w, v, rows[v])
  BY RowsFacts DEF RowsHeld
<1>4. rows[v].balance \in Balances
  BY <1>3, RowFields
<1>5. /\ m.id = v /\ m.status = rows[v].status /\ m.balance = rows[v].balance
      /\ m \in Snapshot
  BY <1>2, <1>3, <1>4 DEF Snapshot
<1>6. m.balance # None /\ m.status # "none"
  BY <1>2, <1>4, <1>5 DEF Balances
<1>7. QED
  BY <1>3, <1>5, <1>6 DEF RowHeld, SnapshotHeld, MetaHeld

\* The heal writes a zero, and calls the vault withdrawn.
LEMMA HealedSound ==
    ASSUME NEW c, NEW w, NEW live, NEW metas \in Rows(Meta)
    PROVE  /\ Healed(metas, live) \subseteq Snapshot
           /\ \A m \in Healed(metas, live) : SnapshotHeld(c, w, m)
<1>1. SUFFICES ASSUME NEW m \in Healed(metas, live)
               PROVE  m \in Snapshot /\ SnapshotHeld(c, w, m)
  OBVIOUS
<1>2. PICK v \in DOMAIN metas :
          m = [id |-> v, status |-> "withdrawn", balance |-> 0, dated |-> FALSE]
  BY DEF Healed
<1>3. v \in Vaults /\ 0 \in Balances
  BY RowsFacts DEF Balances
<1>4. m.id = v /\ m.status = "withdrawn" /\ m.balance = 0 /\ m.dated = FALSE
  BY <1>2
<1>5. m \in Snapshot
  BY <1>2, <1>3 DEF Snapshot
<1>6. QED
  BY <1>3, <1>4, <1>5 DEF SnapshotHeld, MetaHeld

-----------------------------------------------------------------------------
(* The chain goes on having held what it once held. *)

Grown(c, w, c2, w2) ==
    /\ w[1] \subseteq w2[1] /\ (w[2] => w2[2])
    /\ \A v \in Vaults : /\ c[v].balance <= c2[v].balance
                         /\ c[v].stage = "withdrawn" => c2[v].stage = "withdrawn"
                         /\ c[v].stage # "none" => c2[v].stage # "none"

LEMMA ChainFields ==
    ASSUME NEW c \in ChainType, NEW v \in Vaults
    PROVE  /\ c[v].stage \in {"none", "open", "withdrawn"} /\ c[v].balance \in 0..MaxBalance
           /\ c[v].archived \in BOOLEAN
BY DEF ChainType

LEMMA HeldGrows ==
    ASSUME NEW c \in ChainType, NEW c2 \in ChainType, NEW w, NEW w2, Grown(c, w, c2, w2),
           NEW v \in Vaults, NEW b, HeldIn(c, w, v, b)
    PROVE  HeldIn(c2, w2, v, b)
<1>1. c[v].balance \in 0..MaxBalance /\ c2[v].balance \in 0..MaxBalance
  BY ChainFields
<1>2. c[v].balance <= c2[v].balance
  BY DEF Grown
<1>3. CASE b \in 1..c[v].balance
  BY <1>1, <1>2, <1>3 DEF HeldIn
<1>4. CASE b = 0 /\ (c[v].stage = "withdrawn" \/ v \in w[1])
  BY <1>4 DEF HeldIn, Grown
<1>5. CASE b = Foreign /\ w[2]
  BY <1>5 DEF HeldIn, Grown
<1>6. QED
  BY <1>3, <1>4, <1>5 DEF HeldIn

\* So does every row, message and list under way.
LEMMA RowsGrow ==
    ASSUME NEW c \in ChainType, NEW c2 \in ChainType, NEW w, NEW w2, Grown(c, w, c2, w2)
    PROVE  /\ \A r \in Rows(Row) : RowsHeld(c, w, r) => RowsHeld(c2, w2, r)
           /\ \A r \in Rows(Meta) : MetasHeld(c, w, r) => MetasHeld(c2, w2, r)
           /\ \A m \in Snapshot : SnapshotHeld(c, w, m) => SnapshotHeld(c2, w2, m)
<1>1. \A v \in Vaults : \A b : HeldIn(c, w, v, b) => HeldIn(c2, w2, v, b)
  BY HeldGrows
<1>2. ASSUME NEW r \in Rows(Row), RowsHeld(c, w, r) PROVE RowsHeld(c2, w2, r)
  <2>1. DOMAIN r \subseteq Vaults
    BY RowsFacts
  <2>2. QED
    BY <1>1, <1>2, <2>1 DEF RowsHeld, RowHeld
<1>3. \A v \in Vaults : \A m : MetaHeld(c, w, v, m) => MetaHeld(c2, w2, v, m)
  BY <1>1 DEF MetaHeld
<1>4. ASSUME NEW r \in Rows(Meta), MetasHeld(c, w, r) PROVE MetasHeld(c2, w2, r)
  <2>1. DOMAIN r \subseteq Vaults
    BY RowsFacts
  <2>2. QED
    BY <1>3, <1>4, <2>1 DEF MetasHeld
<1>5. ASSUME NEW m \in Snapshot, SnapshotHeld(c, w, m) PROVE SnapshotHeld(c2, w2, m)
  <2>1. m.id \in Vaults /\ w[1] \subseteq w2[1]
    BY DEF Snapshot, Grown
  <2>2. QED
    BY <1>3, <1>5, <2>1 DEF SnapshotHeld
<1>6. QED
  BY <1>2, <1>4, <1>5

LEMMA ListFields ==
    ASSUME NEW x \in ListType
    PROVE  /\ x.cached \in Rows(Row) /\ x.rows \in Rows(Row) /\ x.metas \in Rows(Meta)
           /\ x.todo \subseteq Vaults /\ x.source \in {"none", "simulate", "events"}
BY DEF ListType

LEMMA ListGrows ==
    ASSUME NEW c \in ChainType, NEW c2 \in ChainType, NEW w, NEW w2, Grown(c, w, c2, w2),
           NEW step, NEW x \in ListType, ListSound(c, w, step, x)
    PROVE  ListSound(c2, w2, step, x)
<1>1. /\ x.cached \in Rows(Row) /\ x.rows \in Rows(Row) /\ x.metas \in Rows(Meta)
      /\ x.todo \subseteq Vaults
  BY ListFields
<1>2. /\ RowsHeld(c2, w2, x.cached) /\ RowsHeld(c2, w2, x.rows) /\ MetasHeld(c2, w2, x.metas)
  BY <1>1, RowsGrow DEF ListSound
<1>3. QED
  BY <1>2 DEF ListSound

-----------------------------------------------------------------------------
(* The invariant. *)

LEMMA InitInv == Init => IInv
<1> SUFFICES ASSUME Init PROVE IInv
  OBVIOUS
<1>1. DOMAIN NoRows = {} /\ NoRows \in Rows(Row) /\ NoRows \in Rows(Meta)
  BY NoRowsFacts
<1>2. /\ DOMAIN backend = {} /\ backend \in Rows(Meta)
      /\ DOMAIN cache = {} /\ cache \in Rows(Row)
  BY <1>1 DEF Init
<1>3. /\ chain \in ChainType
      /\ ChainSound(chain)
  BY DEF Init, ChainType, ChainSound
<1>4. /\ NoList \in ListType /\ NoList.cached = NoRows /\ NoList.metas = NoRows
      /\ NoList.rows = NoRows /\ NoList.todo = {}
  BY <1>1 DEF NoList, ListType
<1>5. ListSound(chain, Marks, "idle", NoList)
  BY <1>1, <1>4 DEF ListSound, RowsHeld, MetasHeld, Contractual
<1>6. /\ pc \in [Lists -> Awaits] /\ list \in [Lists -> ListType]
      /\ \A l \in Lists : pc[l] = "idle" /\ list[l] = NoList
  BY <1>4 DEF Init, Awaits
<1>here. switches \in 0..MaxSwitches /\ ~Switched
  BY DEF Init, Switched
<1>7. Typed
  BY <1>2, <1>3, <1>6, <1>here DEF Typed, Init
<1>8. \A l \in Lists : ListSound(chain, Marks, pc[l], list[l])
  BY <1>5, <1>6
<1>9. MetasHeld(chain, Marks, backend) /\ RowsHeld(chain, Marks, cache)
  BY <1>2 DEF MetasHeld, RowsHeld
<1>10. sent = {} /\ ShownRight(chain, Marks, shown)
  BY DEF Init, ShownRight
<1>11. QED
  BY <1>3, <1>7, <1>8, <1>9, <1>10 DEF IInv

\* What the chain, the network and the backend do, and a wake-up: balances grow,
\* messages come and go.
LEMMA WorldStep ==
    ASSUME IInv, chain' \in ChainType, ChainSound(chain'), Grown(chain, Marks, chain', Marks'),
           blind' \subseteq Vaults, switches' \in 0..MaxSwitches, Switched' => blind' = Vaults,
           sent' \subseteq Snapshot,
           \A m \in sent' : m \in sent \/ SnapshotHeld(chain', Marks', m),
           UNCHANGED <<backend, local>>, shown' = None
    PROVE  IInv'
<1>1. /\ chain \in ChainType /\ backend \in Rows(Meta) /\ cache \in Rows(Row)
      /\ sent \subseteq Snapshot /\ list \in [Lists -> ListType]
      /\ frozen \subseteq Vaults /\ simulateBroken \in BOOLEAN /\ pc \in [Lists -> Awaits]
  BY DEF IInv, Typed
<1>2. /\ backend' = backend /\ cache' = cache /\ frozen' = frozen /\ pc' = pc /\ list' = list
      /\ simulateBroken' = simulateBroken
  BY DEF local
<1>3. Typed'
  BY <1>1, <1>2 DEF Typed
<1>4. MetasHeld(chain', Marks', backend') /\ RowsHeld(chain', Marks', cache')
  BY <1>1, <1>2, RowsGrow DEF IInv
<1>5. \A m \in sent : SnapshotHeld(chain', Marks', m)
  BY <1>1, RowsGrow DEF IInv
<1>6. \A m \in sent' : SnapshotHeld(chain', Marks', m)
  BY <1>5
<1>7. ASSUME NEW l \in Lists PROVE ListSound(chain', Marks', pc'[l], list'[l])
  <2>1. list[l] \in ListType /\ ListSound(chain, Marks, pc[l], list[l])
    BY <1>1 DEF IInv
  <2>2. ListSound(chain', Marks', pc[l], list[l])
    BY <1>1, <2>1, ListGrows
  <2>3. QED
    BY <1>2, <2>2
<1>8. ShownRight(chain', Marks', shown')
  BY DEF ShownRight
<1>9. QED
  BY <1>3, <1>4, <1>6, <1>7, <1>8 DEF IInv

\* A step of one list changes only its own variables and, maybe, what the session
\* knows of the simulate path.
LEMMA ListStep ==
    ASSUME IInv, NEW l \in Lists, NEW x \in ListType, NEW step \in Awaits,
           ListSound(chain, Marks, step, x),
           pc' = [pc EXCEPT ![l] = step], list' = [list EXCEPT ![l] = x],
           UNCHANGED <<chain, backend, sent, cache, frozen, blind, switches>>,
           simulateBroken' \in BOOLEAN, shown' = None
    PROVE  IInv'
<1>0. Marks' = Marks
  BY DEF Marks, Switched
<1>1. /\ pc' \in [Lists -> Awaits] /\ list' \in [Lists -> ListType]
      /\ pc'[l] = step /\ list'[l] = x
      /\ \A k \in Lists : k # l => pc'[k] = pc[k] /\ list'[k] = list[k]
  BY DEF IInv, Typed
<1>2. Typed'
  BY <1>1 DEF IInv, Typed, Switched
<1>3. ASSUME NEW k \in Lists PROVE ListSound(chain', Marks', pc'[k], list'[k])
  <2>1. CASE k = l
    BY <1>0, <1>1, <2>1
  <2>2. CASE k # l
    BY <1>0, <1>1, <2>2 DEF IInv
  <2>3. QED
    BY <2>1, <2>2
<1>4. ShownRight(chain', Marks', shown')
  BY DEF ShownRight
<1>5. QED
  BY <1>0, <1>2, <1>3, <1>4 DEF IInv

LEMMA ChainOrNetwork ==
    ASSUME IInv, NEW v \in Vaults,
           \/ CreateVault(v) \/ Deposit(v) \/ Withdraw(v) \/ Archive(v) \/ Restore(v)
    PROVE  IInv'
<1>1. /\ chain \in ChainType /\ sent \subseteq Snapshot /\ blind \subseteq Vaults
      /\ switches \in 0..MaxSwitches /\ (Switched => blind = Vaults) /\ ChainSound(chain)
  BY DEF IInv, Typed
<1>2. \A u \in Vaults : /\ chain[u].stage \in {"none", "open", "withdrawn"}
                        /\ chain[u].balance \in 0..MaxBalance
  BY <1>1, ChainFields
<1>3. ASSUME NEW c2 \in ChainType, chain' = c2,
             \A u \in Vaults : u # v => c2[u] = chain[u],
             chain[v].balance <= c2[v].balance,
             chain[v].stage = "withdrawn" => c2[v].stage = "withdrawn",
             chain[v].stage # "none" => c2[v].stage # "none",
             IF c2[v].stage = "none" THEN c2[v].balance = 0 ELSE c2[v].balance >= 1
      PROVE  ChainSound(chain') /\ (Marks' = Marks => Grown(chain, Marks, chain', Marks'))
  <2>1. \A u \in Vaults : chain[u].balance <= chain[u].balance
    BY <1>2
  <2>2. QED
    BY <1>1, <1>3, <2>1 DEF ChainSound, Grown
<1>4. CASE CreateVault(v)
  <2>1. chain' = [chain EXCEPT ![v].stage = "open", ![v].balance = 1]
    BY <1>4 DEF CreateVault
  <2> DEFINE m == [id |-> v, status |-> "none", balance |-> None, dated |-> FALSE]
  <2>2. sent' \subseteq sent \cup {m} /\ UNCHANGED <<backend, local, blind, switches>> /\ shown' = None
    BY <1>4 DEF CreateVault, Quiet, device
  <2>same. Marks' = Marks /\ Switched' = Switched
    BY <2>2 DEF Marks, Switched
  <2>3. chain[v].stage = "none" /\ chain[v].balance = 0
    BY <1>1, <1>4 DEF CreateVault, OnChain, ChainSound
  <2>4. /\ chain' \in ChainType
        /\ \A w \in Vaults : w # v => chain'[w] = chain[w]
        /\ chain'[v].stage = "open" /\ chain'[v].balance = 1
    <3> DEFINE c == [chain[v] EXCEPT !.stage = "open", !.balance = 1]
               T == [stage: {"none", "open", "withdrawn"}, balance: 0..MaxBalance,
                     archived: BOOLEAN]
    <3>1. c \in T
      <4>1. chain[v] \in T /\ 1 \in 0..MaxBalance
        BY <1>1 DEF ChainType
      <4>2. QED
        BY <4>1
    <3>2. c.stage = "open" /\ c.balance = 1
      <4>1. chain[v] \in T
        BY <1>1 DEF ChainType
      <4>2. QED
        BY <4>1
    <3>3. chain' = [chain EXCEPT ![v] = c]
      BY <2>1
    <3>4. chain \in [Vaults -> T]
      BY <1>1 DEF ChainType
    <3> HIDE DEF c, T
    <3>5. chain' \in [Vaults -> T] /\ chain'[v] = c /\ \A w \in Vaults : w # v => chain'[w] = chain[w]
      BY <3>1, <3>3, <3>4
    <3>6. QED
      BY <3>2, <3>5 DEF ChainType, T
  <2>5. ChainSound(chain') /\ Grown(chain, Marks, chain', Marks')
    BY <1>3, <2>same, <2>3, <2>4
  <2>6. m.id = v /\ m.status = "none" /\ m.balance = None /\ m.dated = FALSE
    OBVIOUS
  <2>7. m \in Snapshot
    BY DEF Snapshot
  <2> HIDE DEF m
  <2>8. SnapshotHeld(chain', Marks', m)
    BY <2>6 DEF SnapshotHeld, MetaHeld
  <2>9. sent' \subseteq Snapshot /\ \A k \in sent' : k \in sent \/ SnapshotHeld(chain', Marks', k)
    BY <1>1, <2>2, <2>7, <2>8
  <2>10. QED
    BY <1>1, <2>2, <2>same, <2>4, <2>5, <2>9, WorldStep
<1>5. ASSUME UNCHANGED <<backend, sent, local, blind, switches>>, shown' = None,
             chain' \in ChainType, \A w \in Vaults : w # v => chain'[w] = chain[w],
             chain[v].balance <= chain'[v].balance,
             chain[v].stage = "withdrawn" => chain'[v].stage = "withdrawn",
             chain[v].stage # "none" => chain'[v].stage # "none",
             IF chain'[v].stage = "none" THEN chain'[v].balance = 0 ELSE chain'[v].balance >= 1
      PROVE  IInv'
  <2>1. Marks' = Marks /\ Switched' = Switched
    BY <1>5 DEF Marks, Switched
  <2>2. ChainSound(chain') /\ Grown(chain, Marks, chain', Marks')
    BY <1>3, <1>5, <2>1
  <2>3. QED
    BY <1>1, <1>5, <2>1, <2>2, WorldStep
<1>6. /\ chain[v].balance <= chain[v].balance
      /\ IF chain[v].stage = "none" THEN chain[v].balance = 0 ELSE chain[v].balance >= 1
  BY <1>1, <1>2 DEF ChainSound
<1>7. CASE Deposit(v)
  <2>1. /\ chain' = [chain EXCEPT ![v].balance = @ + 1]
        /\ chain[v].stage = "open" /\ chain[v].balance < MaxBalance
        /\ UNCHANGED <<backend, sent, local, blind, switches>> /\ shown' = None
    BY <1>7 DEF Deposit, OnChain, Quiet, device
  <2>2. /\ chain' \in ChainType /\ \A w \in Vaults : w # v => chain'[w] = chain[w]
        /\ chain'[v].stage = chain[v].stage /\ chain'[v].balance = chain[v].balance + 1
    BY <1>1, <2>1 DEF ChainType
  <2>3. chain[v].balance <= chain'[v].balance /\ chain'[v].balance >= 1
    BY <1>2, <2>2
  <2>4. QED
    BY <1>5, <2>1, <2>2, <2>3
<1>8. CASE Withdraw(v)
  <2>1. /\ chain' = [chain EXCEPT ![v].stage = "withdrawn"] /\ chain[v].stage = "open"
        /\ UNCHANGED <<backend, sent, local, blind, switches>> /\ shown' = None
    BY <1>8 DEF Withdraw, OnChain, Quiet, device
  <2>2. /\ chain' \in ChainType /\ \A w \in Vaults : w # v => chain'[w] = chain[w]
        /\ chain'[v].stage = "withdrawn" /\ chain'[v].balance = chain[v].balance
    BY <1>1, <2>1 DEF ChainType
  <2>3. QED
    BY <1>5, <1>6, <2>1, <2>2
<1>9. CASE Archive(v) \/ Restore(v)
  <2>1. PICK a \in BOOLEAN : chain' = [chain EXCEPT ![v].archived = a]
    BY <1>9 DEF Archive, Restore
  <2>2. UNCHANGED <<backend, sent, local, blind, switches>> /\ shown' = None
    BY <1>9 DEF Archive, Restore, Quiet, device
  <2>3. /\ chain' \in ChainType /\ \A w \in Vaults : w # v => chain'[w] = chain[w]
        /\ chain'[v].stage = chain[v].stage /\ chain'[v].balance = chain[v].balance
    BY <1>1, <2>1 DEF ChainType
  <2>4. QED
    BY <1>5, <1>6, <2>2, <2>3
<1>10. QED
  BY <1>4, <1>7, <1>8, <1>9

\* A snapshot that arrives late, or after another one, makes up no balance either.
LEMMA WrittenSound ==
    ASSUME NEW c, NEW w, NEW m \in Snapshot, SnapshotHeld(c, w, m),
           NEW row \in Meta, MetaHeld(c, w, m.id, row)
    PROVE  Written(m, row) \in Meta /\ MetaHeld(c, w, m.id, Written(m, row))
<1> DEFINE v == m.id
           b == IF m.balance = None THEN row.balance ELSE m.balance
           d == m.dated \/ row.dated
           r == [status |-> m.status, balance |-> b, dated |-> d]
<1>1. CASE m.status = "none"
  BY <1>1 DEF Written
<1>2. CASE m.status # "none"
  <2>1. m.status \in {"none", "live", "withdrawn"} /\ m.dated \in BOOLEAN
        /\ m.balance \in {None} \cup Balances
    BY DEF Snapshot
  <2>2. row.dated \in BOOLEAN /\ row.balance \in {None} \cup Balances
    BY MetaFields
  <2>3. Written(m, row) = r
    BY <1>2 DEF Written
  <2>4. b \in {None} \cup Balances /\ d \in BOOLEAN
    BY <2>1, <2>2
  <2>5. r \in Meta /\ r.status = m.status /\ r.balance = b /\ r.dated = d
    BY <2>1, <2>4 DEF Meta
  <2>6. b \in {None, 0} \/ HeldIn(c, w, v, b)
    BY DEF SnapshotHeld, MetaHeld
  <2>7. ASSUME m.status = "live", b # None PROVE HeldIn(c, w, v, b)
    <3>1. CASE m.balance = None
      <4>1. v \in w[1]
        BY <2>7, <3>1 DEF SnapshotHeld
      <4>2. CASE b = 0
        BY <4>1, <4>2 DEF HeldIn
      <4>3. CASE b # 0
        BY <2>6, <2>7, <4>3
      <4>4. QED
        BY <4>2, <4>3
    <3>2. CASE m.balance # None
      BY <2>7, <3>2 DEF SnapshotHeld, MetaHeld
    <3>3. QED
      BY <3>1, <3>2
  <2>8. d => b # None
    BY DEF SnapshotHeld, MetaHeld
  <2> HIDE DEF r, b, d
  <2>9. MetaHeld(c, w, v, r)
    BY <1>2, <2>5, <2>6, <2>7, <2>8 DEF MetaHeld
  <2>10. QED
    BY <2>3, <2>5, <2>9
<1>3. QED
  BY <1>1, <1>2

LEMMA DeliverStep ==
    ASSUME IInv, NEW m \in sent, Deliver(m)
    PROVE  IInv'
<1>1. /\ sent' = sent \ {m} /\ UNCHANGED <<chain, device>> /\ shown' = None
      /\ backend' = [v \in DOMAIN backend \cup {m.id} |->
                      IF v # m.id THEN backend[v]
                      ELSE Written(m, IF v \in DOMAIN backend THEN backend[v] ELSE NewRow)]
  BY DEF Deliver, Quiet
<1>2. m \in Snapshot /\ m.id \in Vaults /\ SnapshotHeld(chain, Marks, m)
  BY DEF IInv, Typed, Snapshot
<1>3. /\ backend \in Rows(Meta) /\ MetasHeld(chain, Marks, backend)
      /\ DOMAIN backend \subseteq Vaults
      /\ \A v \in DOMAIN backend : backend[v] \in Meta /\ MetaHeld(chain, Marks, v, backend[v])
  <2>1. backend \in Rows(Meta) /\ MetasHeld(chain, Marks, backend)
    BY DEF IInv, Typed
  <2>2. QED
    BY <2>1, RowsFacts DEF MetasHeld
<1> DEFINE old == IF m.id \in DOMAIN backend THEN backend[m.id] ELSE NewRow
           D   == DOMAIN backend \cup {m.id}
<1>4. old \in Meta /\ MetaHeld(chain, Marks, m.id, old)
  <2>1. NewRow \in Meta /\ NewRow.status = "none" /\ NewRow.balance = None /\ ~NewRow.dated
    BY DEF NewRow, Meta
  <2>2. MetaHeld(chain, Marks, m.id, NewRow)
    BY <2>1 DEF MetaHeld
  <2>3. QED
    BY <1>3, <2>1, <2>2
<1>5. Written(m, old) \in Meta /\ MetaHeld(chain, Marks, m.id, Written(m, old))
  BY <1>2, <1>4, WrittenSound
<1>6. /\ DOMAIN backend' = D /\ backend'[m.id] = Written(m, old)
      /\ \A v \in D : v # m.id => v \in DOMAIN backend /\ backend'[v] = backend[v]
      /\ backend' \in [D -> {backend'[v] : v \in D}]
  BY <1>1
<1> HIDE DEF old
<1>7. \A v \in D : backend'[v] \in Meta /\ MetaHeld(chain, Marks, v, backend'[v])
  BY <1>3, <1>5, <1>6
<1>8. backend' \in [D -> Meta] /\ D \in SUBSET Vaults
  BY <1>2, <1>3, <1>6, <1>7
<1>9. backend' \in Rows(Meta)
  BY <1>8, RowsMake
<1>10. MetasHeld(chain, Marks, backend')
  BY <1>6, <1>7 DEF MetasHeld
<1>11. /\ chain' = chain /\ blind' = blind /\ cache' = cache /\ frozen' = frozen
       /\ pc' = pc /\ list' = list /\ simulateBroken' = simulateBroken
       /\ switches' = switches /\ Marks' = Marks
  BY <1>1 DEF device, local, Marks, Switched
<1>12. Typed'
  BY <1>1, <1>9, <1>11 DEF IInv, Typed, Switched
<1>13. ShownRight(chain', Marks', shown')
  BY <1>1 DEF ShownRight
<1>14. QED
  BY <1>1, <1>10, <1>11, <1>12, <1>13 DEF IInv

LEMMA LoseStep ==
    ASSUME IInv, NEW m \in sent, Lose(m)
    PROVE  IInv'
<1>1. /\ sent' = sent \ {m} /\ UNCHANGED <<chain, backend, local, blind, switches>> /\ shown' = None
  BY DEF Lose, Quiet, device
<1>2. Typed' /\ Marks' = Marks
  BY <1>1 DEF IInv, Typed, local, Marks, Switched
<1>3. ShownRight(chain', Marks', shown')
  BY <1>1 DEF ShownRight
<1>4. QED
  BY <1>1, <1>2, <1>3 DEF IInv, local

LEMMA RestartStep == IInv /\ Restart => IInv'
<1> SUFFICES ASSUME IInv, Restart PROVE IInv'
  OBVIOUS
<1>1. /\ frozen' = {} /\ simulateBroken' = FALSE
      /\ pc' = [l \in Lists |-> "idle"] /\ list' = [l \in Lists |-> NoList]
      /\ cache' \in {cache, NoRows} /\ shown' = None
      /\ chain' = chain /\ backend' = backend /\ sent' = sent /\ blind' = blind
      /\ switches' = switches /\ Marks' = Marks
  BY DEF Restart, Quiet, Marks, Switched
<1>2. DOMAIN NoRows = {} /\ NoRows \in Rows(Row) /\ NoRows \in Rows(Meta)
  BY NoRowsFacts
<1>3. cache' \in Rows(Row) /\ RowsHeld(chain, Marks, cache')
  BY <1>1, <1>2 DEF IInv, Typed, RowsHeld
<1>4. /\ NoList \in ListType /\ NoList.cached = NoRows /\ NoList.metas = NoRows
      /\ NoList.rows = NoRows /\ NoList.todo = {}
  BY <1>2 DEF NoList, ListType
<1>5. ListSound(chain, Marks, "idle", NoList)
  BY <1>2, <1>4 DEF ListSound, RowsHeld, MetasHeld, Contractual
<1>6. pc' \in [Lists -> Awaits] /\ list' \in [Lists -> ListType]
  BY <1>1, <1>4 DEF Awaits
<1>7. Typed'
  BY <1>1, <1>3, <1>6 DEF IInv, Typed, Switched
<1>8. \A l \in Lists : ListSound(chain', Marks', pc'[l], list'[l])
  BY <1>1, <1>5
<1>9. ShownRight(chain', Marks', shown')
  BY <1>1 DEF ShownRight
<1>10. QED
  BY <1>1, <1>3, <1>7, <1>8, <1>9 DEF IInv

LEMMA StaysGrown ==
    ASSUME NEW c \in ChainType, NEW w, NEW w2, w[1] \subseteq w2[1], w[2] => w2[2]
    PROVE  Grown(c, w, c, w2)
<1>1. \A v \in Vaults : c[v].balance <= c[v].balance
  BY ChainFields
<1>2. QED
  BY <1>1 DEF Grown

LEMMA GetVaultStep ==
    ASSUME IInv, NEW v \in Vaults, GetVaultFromBackend(v)
    PROVE  IInv'
<1>1. /\ sent' = sent \cup Healed(backend, {}) /\ UNCHANGED <<chain, backend, local, blind, switches>>
      /\ shown' = None
  BY DEF GetVaultFromBackend, Quiet, device
<1>2. /\ chain \in ChainType /\ blind \subseteq Vaults /\ sent \subseteq Snapshot
      /\ backend \in Rows(Meta) /\ ChainSound(chain) /\ switches \in 0..MaxSwitches
      /\ (Switched => blind = Vaults)
  BY DEF IInv, Typed
<1>same. Marks' = Marks /\ Switched' = Switched
  BY <1>1 DEF Marks, Switched
<1>3. /\ Healed(backend, {}) \subseteq Snapshot
      /\ \A m \in Healed(backend, {}) : SnapshotHeld(chain, Marks, m)
  BY <1>2, HealedSound
<1>4. Grown(chain, Marks, chain, Marks)
  BY <1>2, StaysGrown
<1>5. QED
  BY <1>1, <1>2, <1>same, <1>3, <1>4, WorldStep

LEMMA WakeUpStep ==
    ASSUME IInv, NEW v \in Vaults, WakeUp(v)
    PROVE  IInv'
<1>1. PICK b \in {None} \cup 0..chain[v].balance :
          /\ b = 0 => OnChain(v, "withdrawn")
          /\ sent' = sent \cup {[id |-> v, status |-> "live", balance |-> b, dated |-> b # None]}
          /\ blind' = IF b = None THEN blind \cup {v} ELSE blind
  BY DEF WakeUp
<1>2. UNCHANGED <<chain, backend, local, switches>> /\ shown' = None /\ Switched' = Switched
  BY DEF WakeUp, Quiet, Switched
<1>3. /\ chain \in ChainType /\ blind \subseteq Vaults /\ sent \subseteq Snapshot
      /\ ChainSound(chain) /\ switches \in 0..MaxSwitches /\ (Switched => blind = Vaults)
  BY DEF IInv, Typed
<1>4. chain[v].balance \in 0..MaxBalance
  BY <1>3, ChainFields
<1> DEFINE d == b # None
           m == [id |-> v, status |-> "live", balance |-> b, dated |-> d]
<1>5. d \in BOOLEAN /\ b \in {None} \cup Balances
  BY <1>1, <1>4 DEF Balances
<1>6. m.id = v /\ m.status = "live" /\ m.balance = b /\ m.dated = d
  OBVIOUS
<1>7. m \in Snapshot
  BY <1>5 DEF Snapshot
<1>8. /\ blind \subseteq blind' /\ blind' \subseteq Vaults /\ (b = None => v \in blind')
      /\ (Switched' => blind' = Vaults) /\ Marks[1] = blind /\ Marks'[1] = blind'
      /\ (Marks[2] => Marks'[2])
  BY <1>1, <1>2, <1>3 DEF Marks
<1>9. b # None => HeldIn(chain, Marks', v, b)
  BY <1>1, <1>4 DEF HeldIn, OnChain
<1>10. sent' = sent \cup {m}
  BY <1>1
<1> HIDE DEF m
<1>11. SnapshotHeld(chain, Marks', m)
  BY <1>6, <1>8, <1>9 DEF SnapshotHeld, MetaHeld
<1>12. Grown(chain, Marks, chain, Marks')
  BY <1>3, <1>8, StaysGrown
<1>13. /\ chain' = chain /\ sent' \subseteq Snapshot
       /\ \A k \in sent' : k \in sent \/ SnapshotHeld(chain', Marks', k)
  BY <1>2, <1>3, <1>7, <1>10, <1>11
<1>14. QED
  BY <1>2, <1>3, <1>8, <1>12, <1>13, WorldStep

\* The user switches networks: from now on a zero may be the other network's.
LEMMA SwitchStep ==
    ASSUME IInv, Switch
    PROVE  IInv'
<1>1. /\ switches' = switches + 1 /\ switches < MaxSwitches /\ blind' = Vaults
      /\ UNCHANGED <<chain, backend, sent, local>> /\ shown' = None
  BY DEF Switch, Quiet
<1>2. /\ chain \in ChainType /\ sent \subseteq Snapshot /\ blind \subseteq Vaults
      /\ switches \in 0..MaxSwitches /\ ChainSound(chain)
  BY DEF IInv, Typed
<1>3. switches' \in 0..MaxSwitches /\ Switched'
  BY <1>1, <1>2 DEF Switched
<1>4. Marks[1] \subseteq Marks'[1] /\ (Marks[2] => Marks'[2])
  BY <1>1, <1>2, <1>3 DEF Marks
<1>5. Grown(chain, Marks, chain, Marks')
  BY <1>2, <1>4, StaysGrown
<1>6. QED
  BY <1>1, <1>2, <1>3, <1>5, WorldStep

\* Once there was a switch, what the other network's backend says is excused.
LEMMA ForeignMetaSound ==
    ASSUME IInv, Switched, NEW v \in Vaults, NEW m \in ForeignMetas(v)
    PROVE  m \in Meta /\ MetaHeld(chain, Marks, v, m)
<1>1. blind = Vaults /\ chain[v].balance \in 0..MaxBalance
  BY ChainFields DEF IInv, Typed
<1>2. \A b \in Amounts(v) \cup {0} : b \in Balances /\ b # None /\ HeldIn(chain, Marks, v, b)
  BY <1>1 DEF Amounts, Balances, HeldIn, Marks
<1>3. CASE m.balance = None /\ m.dated = FALSE /\ m.status \in {"none", "live"} /\ m \in Meta
  BY <1>3 DEF MetaHeld
<1>4. ASSUME NEW b \in Amounts(v) \cup {0}, NEW st \in {"live", "withdrawn"}, NEW d \in BOOLEAN,
             m = [status |-> st, balance |-> b, dated |-> d]
      PROVE  m \in Meta /\ MetaHeld(chain, Marks, v, m)
  <2>1. m.status = st /\ m.balance = b /\ m.dated = d
    BY <1>4
  <2>2. m \in Meta
    BY <1>2, <1>4 DEF Meta
  <2>3. QED
    BY <1>2, <2>1, <2>2 DEF MetaHeld
<1>5. CASE m \in {NewRow, [status |-> "live", balance |-> None, dated |-> FALSE]}
  <2>1. /\ m.balance = None /\ m.dated = FALSE /\ m.status \in {"none", "live"}
        /\ m = [status |-> m.status, balance |-> None, dated |-> FALSE]
    BY <1>5 DEF NewRow
  <2>2. m \in Meta
    BY <2>1 DEF Meta
  <2>3. QED
    BY <1>3, <2>1, <2>2
<1>6. CASE m \in {[status |-> "live", balance |-> b, dated |-> TRUE] : b \in Amounts(v)}
  BY <1>4, <1>6
<1>7. CASE m \in {[status |-> s, balance |-> 0, dated |-> d] : s \in {"live", "withdrawn"}, d \in BOOLEAN}
  BY <1>4, <1>7
<1>8. QED
  BY <1>5, <1>6, <1>7 DEF ForeignMetas

\* So is a call of the other network that ends after the switch back.
LEMMA ForeignCallStep ==
    ASSUME IInv, NEW v \in Vaults, ForeignCall(v)
    PROVE  IInv'
<1>1. PICK m \in ForeignMetas(v) :
          sent' = sent \cup {[id |-> v, status |-> m.status, balance |-> m.balance, dated |-> m.dated]}
  BY DEF ForeignCall
<1>2. UNCHANGED <<chain, backend, local, blind, switches>> /\ shown' = None /\ Switched
  BY DEF ForeignCall, Quiet, device
<1>3. /\ chain \in ChainType /\ sent \subseteq Snapshot /\ blind = Vaults
      /\ switches \in 0..MaxSwitches /\ ChainSound(chain)
  BY <1>2 DEF IInv, Typed
<1>4. m \in Meta /\ MetaHeld(chain, Marks, v, m)
  BY <1>2, ForeignMetaSound
<1> DEFINE k == [id |-> v, status |-> m.status, balance |-> m.balance, dated |-> m.dated]
<1>5. k.id = v /\ k.status = m.status /\ k.balance = m.balance /\ k.dated = m.dated
  OBVIOUS
<1>6. k \in Snapshot
  BY <1>4, MetaFields DEF Snapshot
<1>7. sent' = sent \cup {k}
  BY <1>1
<1> HIDE DEF k
<1>8. Marks' = Marks /\ Switched' = Switched /\ v \in Marks[1]
  BY <1>2, <1>3 DEF Marks, Switched
<1>9. SnapshotHeld(chain, Marks, k)
  BY <1>4, <1>5, <1>8 DEF SnapshotHeld, MetaHeld
<1>10. Grown(chain, Marks, chain, Marks)
  BY <1>3, StaysGrown
<1>11. sent' \subseteq Snapshot /\ \A x \in sent' : x \in sent \/ SnapshotHeld(chain, Marks, x)
  BY <1>3, <1>6, <1>7, <1>9
<1>12. QED
  BY <1>2, <1>3, <1>8, <1>10, <1>11, WorldStep

\* What a list has before its step.
LEMMA ListHas ==
    ASSUME IInv, NEW l \in Lists
    PROVE  /\ list[l] \in ListType /\ list[l].cached \in Rows(Row) /\ list[l].rows \in Rows(Row)
           /\ list[l].metas \in Rows(Meta) /\ list[l].todo \subseteq Vaults
           /\ list[l].source \in {"none", "simulate", "events"}
           /\ ListSound(chain, Marks, pc[l], list[l])
           /\ pc \in [Lists -> Awaits] /\ list \in [Lists -> ListType]
<1>1. list[l] \in ListType /\ pc \in [Lists -> Awaits] /\ list \in [Lists -> ListType]
  BY DEF IInv, Typed
<1>2. QED
  BY <1>1, ListFields DEF IInv

\* While this network is not active, there was a switch.
LEMMA AwayIsSwitched == IInv /\ ~Here => Switched
BY DEF IInv, Typed, Here, Switched

LEMMA ReadSteps ==
    ASSUME IInv, NEW l \in Lists, Start(l) \/ FetchMetas(l) \/ ListOwned(l)
    PROVE  IInv'
<1> DEFINE y == list[l]
<1>1. /\ y \in ListType /\ y.cached \in Rows(Row) /\ y.rows \in Rows(Row)
      /\ y.metas \in Rows(Meta) /\ y.todo \subseteq Vaults
      /\ y.source \in {"none", "simulate", "events"}
      /\ ListSound(chain, Marks, pc[l], y)
  BY ListHas
<1>2. /\ UNCHANGED <<chain, backend, sent, cache, frozen, blind, switches>> /\ shown' = None
      /\ simulateBroken' \in BOOLEAN
  BY DEF Start, FetchMetas, ListOwned, Quiet, IInv, Typed
<1>3. /\ cache \in Rows(Row) /\ RowsHeld(chain, Marks, cache)
      /\ backend \in Rows(Meta) /\ MetasHeld(chain, Marks, backend)
  BY DEF IInv, Typed
<1>4. NoRows \in Rows(Meta) /\ MetasHeld(chain, Marks, NoRows)
  BY NoRowsFacts DEF MetasHeld
<1>5. ASSUME NEW x, NEW step,
             x.cached \in Rows(Row), RowsHeld(chain, Marks, x.cached),
             x.metas \in Rows(Meta), MetasHeld(chain, Marks, x.metas),
             x.rows = y.rows, Contractual(y.rows)
      PROVE  ListSound(chain, Marks, step, x)
  BY <1>1, <1>5 DEF ListSound
<1>6. RowsHeld(chain, Marks, y.cached) /\ MetasHeld(chain, Marks, y.metas)
  BY <1>1 DEF ListSound
<1>7. pc[l] \in {"idle", "metas", "list_owned", "get_vault"} => Contractual(y.rows)
  BY <1>1 DEF ListSound
<1>8. CASE Start(l)
  <2> DEFINE x == [y EXCEPT !.cached = cache]
  <2>1. /\ pc[l] = "idle" /\ pc' = [pc EXCEPT ![l] = "metas"] /\ list' = [list EXCEPT ![l] = x]
    BY <1>8 DEF Start, Goto
  <2>2. /\ x \in ListType /\ x.cached = cache /\ x.metas = y.metas /\ x.rows = y.rows
    BY <1>1, <1>3 DEF ListType
  <2> HIDE DEF x, y
  <2>3. ListSound(chain, Marks, "metas", x)
    BY <1>1, <1>3, <1>5, <1>6, <1>7, <2>1, <2>2
  <2>4. QED
    BY <1>2, <2>1, <2>2, <2>3, ListStep DEF Awaits
<1>9. CASE FetchMetas(l)
  <2>1. PICK metas \in IF Here THEN {backend, NoRows} ELSE ForeignBackends :
            list' = [list EXCEPT ![l].metas = metas]
    BY <1>9 DEF FetchMetas
  <2> DEFINE x    == [y EXCEPT !.metas = metas]
             step == IF simulateBroken THEN "events" ELSE "list_owned"
  <2>2. /\ pc[l] = "metas" /\ pc' = [pc EXCEPT ![l] = step] /\ list' = [list EXCEPT ![l] = x]
    BY <1>9, <2>1 DEF FetchMetas, Goto
  <2>3. metas \in Rows(Meta) /\ MetasHeld(chain, Marks, metas)
    <3>1. CASE Here
      BY <1>3, <1>4, <2>1, <3>1
    <3>2. CASE ~Here
      <4>1. metas \in Rows(Meta) /\ \A v \in DOMAIN metas : metas[v] \in ForeignMetas(v)
        BY <2>1, <3>2 DEF ForeignBackends
      <4>2. DOMAIN metas \subseteq Vaults /\ Switched
        BY <3>2, <4>1, RowsFacts, AwayIsSwitched
      <4>3. \A v \in DOMAIN metas : MetaHeld(chain, Marks, v, metas[v])
        BY <4>1, <4>2, ForeignMetaSound
      <4>4. QED
        BY <4>1, <4>3 DEF MetasHeld
    <3>3. QED
      BY <3>1, <3>2
  <2>4. /\ x \in ListType /\ x.cached = y.cached /\ x.metas = metas /\ x.rows = y.rows
    BY <1>1, <2>3 DEF ListType
  <2>5. step \in Awaits
    BY DEF Awaits
  <2> HIDE DEF x, y, step
  <2>6. ListSound(chain, Marks, step, x)
    BY <1>1, <1>5, <1>6, <1>7, <2>2, <2>3, <2>4
  <2>7. QED
    BY <1>2, <2>2, <2>4, <2>5, <2>6, ListStep
<1>10. CASE ListOwned(l)
  <2>1. PICK ids \in IF Here THEN {Created} ELSE SUBSET Vaults :
            /\ list' = [list EXCEPT ![l].todo = ids, ![l].source = "simulate"]
            /\ Goto(l, IF ids = {} THEN "finish" ELSE "get_vault")
    BY <1>10 DEF ListOwned
  <2> DEFINE x    == [y EXCEPT !.todo = ids, !.source = "simulate"]
             step == IF ids = {} THEN "finish" ELSE "get_vault"
  <2>2. /\ pc[l] = "list_owned" /\ pc' = [pc EXCEPT ![l] = step] /\ list' = [list EXCEPT ![l] = x]
    BY <1>10, <2>1, ListHas DEF ListOwned, Goto
  <2>3. ids \subseteq Vaults
    BY <2>1 DEF Created
  <2>4. /\ x \in ListType /\ x.cached = y.cached /\ x.metas = y.metas /\ x.rows = y.rows
    BY <1>1, <2>3 DEF ListType
  <2>5. step \in Awaits
    BY DEF Awaits
  <2> HIDE DEF x, y, step
  <2>6. ListSound(chain, Marks, step, x)
    BY <1>1, <1>5, <1>6, <1>7, <2>2, <2>4
  <2>7. QED
    BY <1>2, <2>2, <2>4, <2>5, <2>6, ListStep
<1>11. QED
  BY <1>8, <1>9, <1>10

\* get_vault of one vault: the row is the contract's, or the other network's.
LEMMA GetOneStep ==
    ASSUME IInv, NEW l \in Lists, NEW v \in Vaults, GetOne(l, v)
    PROVE  IInv'
<1>0. PICK f \in IF Here THEN {FromContract(v)} ELSE ForeignRows :
          list' = [list EXCEPT ![l].todo = @ \ {v},
                               ![l].rows = Merged(@, [w \in {v} |-> f])]
  BY DEF GetOne
<1> DEFINE y   == list[l]
           one == [w \in {v} |-> f]
           step == IF y.todo = {v} THEN "finish" ELSE "get_vault"
           x   == [y EXCEPT !.todo = y.todo \ {v}, !.rows = Merged(y.rows, one)]
<1>1. /\ y \in ListType /\ y.cached \in Rows(Row) /\ y.rows \in Rows(Row)
      /\ y.metas \in Rows(Meta) /\ y.todo \subseteq Vaults
      /\ ListSound(chain, Marks, pc[l], y)
      /\ pc \in [Lists -> Awaits] /\ list \in [Lists -> ListType]
  BY ListHas
<1>2. /\ UNCHANGED <<chain, backend, sent, cache, frozen, blind, switches>> /\ shown' = None
      /\ simulateBroken' \in BOOLEAN
      /\ pc[l] = "get_vault" /\ v \in y.todo /\ pc' = [pc EXCEPT ![l] = step]
      /\ list' = [list EXCEPT ![l].todo = @ \ {v}, ![l].rows = Merged(@, one)]
  BY <1>0 DEF GetOne, Goto, Quiet, IInv, Typed
<1>3. Here => chain[v].balance \in 0..MaxBalance /\ chain[v].balance >= 1
  BY ChainFields DEF GetOne, Created, OnChain, ChainSound, IInv, Typed
<1>4. /\ f \in Row /\ RowHeld(chain, Marks, v, f) /\ f.status # "archived" /\ f.dated
  <2>1. CASE Here /\ OnChain(v, "withdrawn")
    <3>1. f = [status |-> "withdrawn", balance |-> 0, dated |-> TRUE]
      BY <1>0, <2>1 DEF FromContract
    <3>2. f \in Row
      BY <3>1 DEF Row, Statuses, Balances
    <3>3. QED
      BY <3>1, <3>2 DEF RowHeld
  <2>2. CASE Here /\ ~OnChain(v, "withdrawn")
    <3>1. f = [status |-> "live", balance |-> chain[v].balance, dated |-> TRUE]
      BY <1>0, <2>2 DEF FromContract
    <3>2. f \in Row
      BY <1>3, <2>2, <3>1 DEF Row, Statuses, Balances
    <3>3. f.status = "live" /\ f.balance = chain[v].balance /\ f.dated = TRUE
      BY <3>1
    <3>4. HeldIn(chain, Marks, v, f.balance)
      BY <1>3, <2>2, <3>3 DEF HeldIn
    <3>5. QED
      BY <3>2, <3>3, <3>4 DEF RowHeld
  <2>3. CASE ~Here
    <3>1. f \in ForeignRows /\ Switched
      BY <1>0, <2>3, AwayIsSwitched
    <3>2. HeldIn(chain, Marks, v, Foreign)
      BY <3>1 DEF HeldIn, Marks
    <3>3. CASE f = [status |-> "withdrawn", balance |-> 0, dated |-> TRUE]
      <4>1. f \in Row /\ f.status = "withdrawn" /\ f.balance = 0 /\ f.dated = TRUE
        BY <3>3 DEF Row, Statuses, Balances
      <4>2. QED
        BY <4>1 DEF RowHeld
    <3>4. CASE f = [status |-> "live", balance |-> Foreign, dated |-> TRUE]
      <4>1. f \in Row /\ f.status = "live" /\ f.balance = Foreign /\ f.dated = TRUE
        BY <3>4 DEF Row, Statuses, Balances
      <4>2. QED
        BY <3>2, <4>1 DEF RowHeld
    <3>5. QED
      BY <3>1, <3>3, <3>4 DEF ForeignRows
  <2>4. QED
    BY <2>1, <2>2, <2>3
<1>5. DOMAIN one = {v} /\ one[v] = f /\ one \in [{v} -> Row]
  BY <1>4
<1> HIDE DEF one
<1>6. one \in Rows(Row)
  BY <1>5, RowsMake
<1>7. RowsHeld(chain, Marks, one)
  BY <1>4, <1>5 DEF RowsHeld
<1> DEFINE r == Merged(y.rows, one)
<1>8. /\ r \in Rows(Row) /\ DOMAIN r = DOMAIN y.rows \cup DOMAIN one
      /\ \A w \in DOMAIN one : r[w] = one[w]
      /\ \A w \in DOMAIN y.rows : r[w] = y.rows[w] \/ w \in DOMAIN one
  <2>1. y.rows \in Rows(Row)
    BY <1>1
  <2> HIDE DEF y
  <2>2. QED
    BY <1>6, <2>1, MergedRows
<1>9. RowsHeld(chain, Marks, y.rows) /\ Contractual(y.rows)
  BY <1>1, <1>2 DEF ListSound
<1>10. RowsHeld(chain, Marks, r)
  BY <1>1, <1>6, <1>7, <1>9, MergedHeld
<1>11. Contractual(r)
  <2> HIDE DEF r, y
  <2>1. SUFFICES ASSUME NEW w \in DOMAIN r PROVE r[w].status # "archived" /\ r[w].dated
    BY DEF Contractual
  <2>2. CASE w = v
    BY <1>4, <1>5, <1>8, <2>2
  <2>3. CASE w # v
    BY <1>5, <1>8, <1>9, <2>3 DEF Contractual
  <2>4. QED
    BY <2>2, <2>3
<1>12. /\ x \in ListType /\ x.cached = y.cached /\ x.metas = y.metas
       /\ x.todo \subseteq y.todo /\ x.rows = r
  <2> HIDE DEF r
  <2>1. x = [y EXCEPT !.todo = y.todo \ {v}, !.rows = r]
    BY <1>1 DEF r, ListType
  <2>2. QED
    BY <1>1, <1>8, <2>1 DEF ListType
<1>13. /\ pc' = [pc EXCEPT ![l] = step] /\ step \in Awaits
       /\ list' = [list EXCEPT ![l] = x]
  BY <1>1, <1>2 DEF Awaits
<1> HIDE DEF x, y, r, step
<1>14. ListSound(chain, Marks, step, x)
  BY <1>1, <1>10, <1>11, <1>12 DEF ListSound
<1>15. QED
  BY <1>2, <1>12, <1>13, <1>14, ListStep

\* A row made of events and of the backend's row: the balance is the backend's, or
\* the events' of a vault the backend lacks a balance for.
LEMMA FromEventsSound ==
    ASSUME chain \in ChainType, NEW v \in Vaults, NEW metas \in Rows(Meta),
           MetasHeld(chain, Marks, metas), NEW b \in Amounts(v),
           NEW withdrawn \in BOOLEAN, NEW dated \in BOOLEAN
    PROVE  /\ FromEvents(v, metas, b, withdrawn, dated) \in Row
           /\ RowHeld(chain, Marks, v, FromEvents(v, metas, b, withdrawn, dated))
<1> DEFINE gone == withdrawn \/ Says(v, metas, "withdrawn")
           st  == IF gone THEN "withdrawn" ELSE "live"
           bal == IF gone THEN 0 ELSE IF HasBalance(v, metas) THEN metas[v].balance ELSE b
           d   == dated \/ (v \in DOMAIN metas /\ metas[v].dated)
<1>1. FromEvents(v, metas, b, withdrawn, dated) = [status |-> st, balance |-> bal, dated |-> d]
  BY DEF FromEvents
<1>2. st \in Statuses /\ d \in BOOLEAN
  BY DEF Statuses
<1>3. chain[v].balance \in 0..MaxBalance
  BY ChainFields
<1>4. bal \in Balances /\ (bal = 0 \/ HeldIn(chain, Marks, v, bal))
      /\ (st = "live" => HeldIn(chain, Marks, v, bal))
  <2>1. CASE gone
    BY <2>1 DEF Balances
  <2>2. CASE ~gone /\ HasBalance(v, metas)
    <3>1. v \in DOMAIN metas /\ metas[v].balance # None /\ metas[v].status # "withdrawn"
      BY <2>2 DEF HasBalance, Says
    <3>2. metas[v] \in Meta /\ MetaHeld(chain, Marks, v, metas[v])
      BY <3>1, RowsFacts DEF MetasHeld
    <3>3. /\ metas[v].status = "live" /\ metas[v].balance \in Balances
      BY <3>1, <3>2, MetaFields DEF MetaHeld
    <3>4. QED
      BY <2>2, <3>1, <3>2, <3>3 DEF MetaHeld
  <2>3. CASE ~gone /\ ~HasBalance(v, metas)
    <3>1. bal = b /\ HeldIn(chain, Marks, v, b) /\ b \in Balances
      BY <1>3, <2>3 DEF HeldIn, Amounts, Marks, Balances
    <3>2. QED
      BY <3>1
  <2>4. QED
    BY <2>1, <2>2, <2>3
<1> HIDE DEF st, bal, d
<1>5. QED
  BY <1>1, <1>2, <1>4, RowMake DEF RowHeld

LEMMA SimulateThrowsStep ==
    ASSUME IInv, NEW l \in Lists, SimulateThrows(l)
    PROVE  IInv'
<1> DEFINE y == list[l]
           x == [y EXCEPT !.todo = {}, !.rows = NoRows, !.source = "none"]
<1>1. /\ y \in ListType /\ ListSound(chain, Marks, pc[l], y)
  BY ListHas
<1>2. /\ UNCHANGED <<chain, backend, sent, cache, frozen, blind, switches>> /\ shown' = None
      /\ simulateBroken' \in BOOLEAN /\ pc' = [pc EXCEPT ![l] = "events"]
      /\ list' = [list EXCEPT ![l] = x]
  BY DEF SimulateThrows, Goto, Quiet, IInv, Typed
<1>3. NoRows \in Rows(Row) /\ DOMAIN NoRows = {}
  BY NoRowsFacts
<1>4. /\ x \in ListType /\ x.cached = y.cached /\ x.metas = y.metas
      /\ x.todo = {} /\ x.rows = NoRows /\ x.source = "none"
  BY <1>1, <1>3 DEF ListType
<1> HIDE DEF x, y
<1>5. ListSound(chain, Marks, "events", x)
  BY <1>1, <1>3, <1>4 DEF ListSound, RowsHeld, Contractual
<1>6. QED
  BY <1>2, <1>4, <1>5, ListStep DEF Awaits

LEMMA EventsStep ==
    ASSUME IInv, NEW l \in Lists, Events(l)
    PROVE  IInv'
<1> DEFINE y == list[l]
<1>1. /\ y \in ListType /\ y.metas \in Rows(Meta) /\ ListSound(chain, Marks, pc[l], y)
      /\ list \in [Lists -> ListType]
  BY ListHas
<1>2. /\ UNCHANGED <<chain, backend, sent, cache, frozen, blind, switches>> /\ shown' = None
      /\ simulateBroken' \in BOOLEAN
      /\ pc[l] = "events" /\ pc' = [pc EXCEPT ![l] = "finish"]
  BY DEF Events, Goto, Quiet, IInv, Typed
<1>3. CASE list' = list
  <2>1. list' = [list EXCEPT ![l] = y]
    BY <1>1, <1>3
  <2> HIDE DEF y
  <2>2. ListSound(chain, Marks, "finish", y)
    BY <1>1, <1>2 DEF ListSound
  <2>3. QED
    BY <1>1, <1>2, <2>1, <2>2, ListStep DEF Awaits
<1>4. CASE \E seen \in SUBSET (IF Switched THEN Vaults ELSE Created) :
         \E b \in [seen -> Balances], gone, dated \in SUBSET seen :
            /\ \A v \in seen : b[v] \in Amounts(v)
            /\ ~Switched => \A v \in gone : OnChain(v, "withdrawn")
            /\ list' = [list EXCEPT
                   ![l].rows = [v \in seen |-> FromEvents(v, list[l].metas, b[v], v \in gone,
                                                          v \in dated)],
                   ![l].source = IF seen = {} THEN "none" ELSE "events"]
  <2>1. PICK seen \in SUBSET (IF Switched THEN Vaults ELSE Created) :
         \E b \in [seen -> Balances], gone, dated \in SUBSET seen :
            /\ \A v \in seen : b[v] \in Amounts(v)
            /\ ~Switched => \A v \in gone : OnChain(v, "withdrawn")
            /\ list' = [list EXCEPT
                   ![l].rows = [v \in seen |-> FromEvents(v, list[l].metas, b[v], v \in gone,
                                                          v \in dated)],
                   ![l].source = IF seen = {} THEN "none" ELSE "events"]
    BY <1>4
  <2>2. PICK b \in [seen -> Balances], gone, dated \in SUBSET seen :
            /\ \A v \in seen : b[v] \in Amounts(v)
            /\ ~Switched => \A v \in gone : OnChain(v, "withdrawn")
            /\ list' = [list EXCEPT
                   ![l].rows = [v \in seen |-> FromEvents(v, list[l].metas, b[v], v \in gone,
                                                          v \in dated)],
                   ![l].source = IF seen = {} THEN "none" ELSE "events"]
    BY <2>1
  <2>own. seen \in SUBSET Vaults
    BY <2>1 DEF Created
  <2> DEFINE r == [v \in seen |-> FromEvents(v, y.metas, b[v], v \in gone, v \in dated)]
             s == IF seen = {} THEN "none" ELSE "events"
             x == [y EXCEPT !.rows = r, !.source = s]
  <2>3. chain \in ChainType /\ MetasHeld(chain, Marks, y.metas)
    BY <1>1 DEF IInv, Typed, ListSound
  <2>4. ASSUME NEW v \in seen
        PROVE  /\ FromEvents(v, y.metas, b[v], v \in gone, v \in dated) \in Row
               /\ RowHeld(chain, Marks, v, FromEvents(v, y.metas, b[v], v \in gone, v \in dated))
    <3>1. v \in Vaults /\ b[v] \in Amounts(v)
      BY <2>2, <2>own
    <3>2. (v \in gone) \in BOOLEAN /\ (v \in dated) \in BOOLEAN
      OBVIOUS
    <3> HIDE DEF y
    <3>4. QED
      BY <1>1, <2>3, <3>1, <3>2, FromEventsSound
  <2>5. r \in [seen -> Row] /\ seen \in SUBSET Vaults
    BY <2>4, <2>own
  <2>6. r \in Rows(Row)
    BY <2>5, RowsMake
  <2>7. RowsHeld(chain, Marks, r)
    BY <2>4 DEF RowsHeld
  <2>8. s \in {"none", "events"} /\ list' = [list EXCEPT ![l] = x]
    BY <2>2
  <2> HIDE DEF r, s
  <2>9. /\ x \in ListType /\ x.cached = y.cached /\ x.metas = y.metas
        /\ x.todo = y.todo /\ x.rows = r /\ x.source = s
    BY <1>1, <2>6, <2>8 DEF ListType
  <2> HIDE DEF x, y
  <2>10. ListSound(chain, Marks, "finish", x)
    BY <1>1, <2>7, <2>8, <2>9 DEF ListSound
  <2>11. QED
    BY <1>2, <2>8, <2>9, <2>10, ListStep DEF Awaits
<1>5. QED
  BY <1>3, <1>4 DEF Events

\* The end of listVaults: what it caches, sends and returns was held, the rows of
\* the contract are returned as they were read, and none of the backend's is lost.
LEMMA FinishStep ==
    ASSUME IInv, NEW l \in Lists, Finish(l)
    PROVE  IInv'
<1> DEFINE me      == list[l]
           merged  == Merged(me.cached, me.rows)
           live    == LiveRows(merged, me.metas)
           overlay == Overlay(me.metas, DOMAIN live)
           rows    == Merged(overlay, live)
           end     == [rows |-> rows, metas |-> DOMAIN me.metas, read |-> me.rows,
                       source |-> me.source]
<1>1. /\ me.cached \in Rows(Row) /\ me.rows \in Rows(Row) /\ me.metas \in Rows(Meta)
      /\ ListSound(chain, Marks, pc[l], me)
      /\ pc \in [Lists -> Awaits] /\ list \in [Lists -> ListType]
  BY ListHas
<1>2. /\ cache' \in {cache, merged}
      /\ sent' \subseteq sent \cup Pushed(live) \cup Healed(me.metas, DOMAIN live)
      /\ frozen' = frozen \cup FrozenBy(live) /\ shown' \in {None, end}
      /\ pc' = [pc EXCEPT ![l] = "idle"] /\ list' = [list EXCEPT ![l] = NoList]
      /\ chain' = chain /\ backend' = backend /\ simulateBroken' = simulateBroken
      /\ blind' = blind /\ switches' = switches
  BY DEF Finish, Goto
<1>same. Marks' = Marks
  BY <1>2 DEF Marks, Switched
<1>3. /\ RowsHeld(chain, Marks, me.cached) /\ RowsHeld(chain, Marks, me.rows)
      /\ MetasHeld(chain, Marks, me.metas)
      /\ me.source = "simulate" => Contractual(me.rows)
  BY <1>1 DEF ListSound
<1> HIDE DEF me
<1>4. /\ merged \in Rows(Row) /\ RowsHeld(chain, Marks, merged)
      /\ \A v \in DOMAIN me.rows : v \in DOMAIN merged /\ merged[v] = me.rows[v]
  <2>1. /\ merged \in Rows(Row) /\ DOMAIN merged = DOMAIN me.cached \cup DOMAIN me.rows
        /\ \A v \in DOMAIN me.rows : merged[v] = me.rows[v]
    BY <1>1, MergedRows
  <2>2. RowsHeld(chain, Marks, merged)
    BY <1>1, <1>3, MergedHeld
  <2> HIDE DEF merged
  <2>3. QED
    BY <2>1, <2>2
<1> HIDE DEF merged
<1>5. /\ live \in Rows(Row) /\ RowsHeld(chain, Marks, live)
      /\ \A v \in DOMAIN merged : merged[v].status # "archived" /\ merged[v].dated
             => v \in DOMAIN live /\ live[v] = merged[v]
  BY <1>1, <1>3, <1>4, LiveRowsSound
<1> HIDE DEF live
<1>6. /\ overlay \in Rows(Row) /\ RowsHeld(chain, Marks, overlay)
      /\ DOMAIN overlay = DOMAIN me.metas \ DOMAIN live
  <2> DEFINE known == me.metas
             D     == DOMAIN live
  <2>1. known \in Rows(Meta) /\ MetasHeld(chain, Marks, known)
    BY <1>1, <1>3
  <2> HIDE DEF known, D
  <2>2. /\ Overlay(known, D) \in Rows(Row) /\ RowsHeld(chain, Marks, Overlay(known, D))
        /\ DOMAIN Overlay(known, D) = DOMAIN known \ D
    BY <2>1, OverlayRowsSound
  <2>3. QED
    BY <2>2 DEF known, D
<1> HIDE DEF overlay
<1>7. /\ rows \in Rows(Row) /\ RowsHeld(chain, Marks, rows)
      /\ DOMAIN rows = DOMAIN overlay \cup DOMAIN live
      /\ \A v \in DOMAIN live : rows[v] = live[v]
  BY <1>5, <1>6, MergedRows, MergedHeld
<1> HIDE DEF rows
<1>8. ASSUME me.source = "simulate", NEW v \in DOMAIN me.rows
      PROVE  v \in DOMAIN rows /\ rows[v] = me.rows[v]
  BY <1>3, <1>4, <1>5, <1>7, <1>8 DEF Contractual
<1>9. ShownRight(chain, Marks, end)
  <2>1. end.rows = rows /\ end.metas = DOMAIN me.metas /\ end.read = me.rows /\ end.source = me.source
    OBVIOUS
  <2>2. DOMAIN me.metas \subseteq DOMAIN rows
    BY <1>6, <1>7
  <2> HIDE DEF end
  <2>3. QED
    BY <1>7, <1>8, <2>1, <2>2 DEF ShownRight
<1> HIDE DEF end
<1>10. cache' \in Rows(Row) /\ RowsHeld(chain, Marks, cache')
  BY <1>2, <1>4 DEF IInv, Typed
<1>11. /\ sent' \subseteq Snapshot /\ \A m \in sent' : SnapshotHeld(chain, Marks, m)
  <2>1. Pushed(live) \subseteq Snapshot /\ \A m \in Pushed(live) : SnapshotHeld(chain, Marks, m)
    BY <1>5, PushedSound
  <2>2. /\ Healed(me.metas, DOMAIN live) \subseteq Snapshot
        /\ \A m \in Healed(me.metas, DOMAIN live) : SnapshotHeld(chain, Marks, m)
    BY <1>1, HealedSound
  <2>3. QED
    BY <1>2, <2>1, <2>2 DEF IInv, Typed
<1>12. frozen' \subseteq Vaults
  BY <1>2, <1>5, RowsFacts DEF FrozenBy, IInv, Typed
<1>13. DOMAIN NoRows = {} /\ NoRows \in Rows(Row) /\ NoRows \in Rows(Meta)
  BY NoRowsFacts
<1>14. /\ NoList \in ListType /\ NoList.cached = NoRows /\ NoList.metas = NoRows
       /\ NoList.rows = NoRows /\ NoList.todo = {}
  BY <1>13 DEF NoList, ListType
<1>15. ListSound(chain, Marks, "idle", NoList)
  BY <1>13, <1>14 DEF ListSound, RowsHeld, MetasHeld, Contractual
<1>16. /\ pc' \in [Lists -> Awaits] /\ list' \in [Lists -> ListType]
       /\ \A k \in Lists : \/ pc'[k] = "idle" /\ list'[k] = NoList
                           \/ pc'[k] = pc[k] /\ list'[k] = list[k]
  BY <1>1, <1>2, <1>14 DEF Awaits
<1>17. Typed'
  BY <1>2, <1>10, <1>11, <1>12, <1>16 DEF IInv, Typed, Switched
<1>18. \A k \in Lists : ListSound(chain', Marks', pc'[k], list'[k])
  BY <1>2, <1>same, <1>15, <1>16 DEF IInv
<1>19. ShownRight(chain', Marks', shown')
  BY <1>2, <1>same, <1>9 DEF ShownRight
<1>21. QED
  BY <1>2, <1>same, <1>10, <1>11, <1>17, <1>18, <1>19 DEF IInv

LEMMA StepInv == IInv /\ [Next]_vars => IInv'
<1> SUFFICES ASSUME IInv, [Next]_vars PROVE IInv'
  OBVIOUS
<1>1. ASSUME NEW v \in Vaults,
             \/ CreateVault(v) \/ Deposit(v) \/ Withdraw(v) \/ Archive(v) \/ Restore(v)
      PROVE  IInv'
  BY <1>1, ChainOrNetwork
<1>2. ASSUME NEW v \in Vaults, GetVaultFromBackend(v) PROVE IInv'
  BY <1>2, GetVaultStep
<1>3. ASSUME NEW v \in Vaults, WakeUp(v) \/ ForeignCall(v) PROVE IInv'
  BY <1>3, WakeUpStep, ForeignCallStep
<1>4. ASSUME NEW m \in sent, Deliver(m) \/ Lose(m) PROVE IInv'
  BY <1>4, DeliverStep, LoseStep
<1>5. ASSUME NEW l \in Lists, Start(l) \/ FetchMetas(l) \/ ListOwned(l) PROVE IInv'
  BY <1>5, ReadSteps
<1>6. ASSUME NEW l \in Lists, NEW v \in Vaults, GetOne(l, v) PROVE IInv'
  BY <1>6, GetOneStep
<1>7. ASSUME NEW l \in Lists, SimulateThrows(l) PROVE IInv'
  BY <1>7, SimulateThrowsStep
<1>8. ASSUME NEW l \in Lists, Events(l) PROVE IInv'
  BY <1>8, EventsStep
<1>9. ASSUME NEW l \in Lists, Finish(l) PROVE IInv'
  BY <1>9, FinishStep
<1>10. CASE Switch \/ Restart
  BY <1>10, SwitchStep, RestartStep
<1>11. CASE UNCHANGED vars
  <2>1. UNCHANGED <<chain, backend, sent, cache, frozen, simulateBroken, blind, switches, pc, list, shown>>
    BY <1>11 DEF vars, device, local
  <2>2. Typed' /\ Marks' = Marks
    BY <2>1 DEF IInv, Typed, Marks, Switched
  <2>3. QED
    BY <2>1, <2>2 DEF IInv
<1>12. QED
  BY <1>1, <1>2, <1>3, <1>4, <1>5, <1>6, <1>7, <1>8, <1>9, <1>10, <1>11 DEF Next

THEOREM Invariance == Spec => []IInv
BY InitInv, StepInv, PTL DEF Spec

-----------------------------------------------------------------------------
(* What follows from it. *)

\* Every source of a list, the messages under way and what is shown are well typed,
\* for any number of vaults and of lists that overlap.
THEOREM SourcesAreTyped == Spec => []TypeOK
<1>1. IInv => TypeOK
  <2> SUFFICES ASSUME IInv PROVE TypeOK
    OBVIOUS
  <2>1. \A l \in Lists : /\ list[l].cached \in Rows(Row) /\ list[l].rows \in Rows(Row)
                         /\ list[l].metas \in Rows(Meta) /\ list[l].todo \subseteq Vaults
                         /\ list[l].source \in {"none", "simulate", "events"}
    BY ListHas
  <2>2. shown # None => shown.rows \in Rows(Row)
    BY DEF IInv, ShownRight
  <2>3. \A S : \A r \in Rows(S) : AreRows(r, S)
    BY RowsFacts DEF AreRows
  <2>4. QED
    BY <2>1, <2>2, <2>3 DEF IInv, Typed, TypeOK, ChainType, Awaits
<1>2. QED
  BY <1>1, Invariance, PTL

\* What listVaults shows as locked or unlocked, and what the backend calls live, has
\* a balance that the chain once held, whatever the age and order of the sources;
\* only a switch of the network brings in another, that of the other network's vault.
THEOREM BalancesAreReal == Spec => []NothingInvented
<1>1. IInv => NothingInvented
  <2> SUFFICES ASSUME IInv PROVE NothingInvented
    OBVIOUS
  <2>1. \A v, b : HeldIn(chain, Marks, v, b) => Held(v, b)
    BY DEF HeldIn, Marks, Held, OnChain
  <2>2. ASSUME shown # None
        PROVE  \A v \in DOMAIN shown.rows :
                   shown.rows[v].status = "live" => Held(v, shown.rows[v].balance)
    BY <2>1, <2>2 DEF IInv, ShownRight, RowsHeld, RowHeld
  <2>3. \A v \in DOMAIN backend :
           backend[v].status = "live" => backend[v].balance = None \/ Held(v, backend[v].balance)
    BY <2>1 DEF IInv, MetasHeld, MetaHeld
  <2>4. QED
    BY <2>2, <2>3 DEF NothingInvented
<1>2. QED
  BY <1>1, Invariance, PTL

\* listVaults drops no vault that the contract listed or the backend knows.
THEOREM NoVaultIsLost == Spec => []NothingDropsOff
<1>1. IInv => NothingDropsOff
  BY DEF IInv, ShownRight, NothingDropsOff
<1>2. QED
  BY <1>1, Invariance, PTL

\* When the simulate path of listVaults answered, its rows are shown as they are.
THEOREM ContractIsTheWord == Spec => []ContractWins
<1>1. IInv => ContractWins
  BY DEF IInv, ShownRight, ContractWins
<1>2. QED
  BY <1>1, Invariance, PTL

-----------------------------------------------------------------------------
(* The balance that horizon.ts shows. *)

\* computeReserveXlm is the protocol's reserve: no clamp of it ever bites on an
\* account of the ledger.
LEMMA ReserveIsProtocols ==
    ASSUME NEW a \in Account, OnLedger(a)
    PROVE  /\ ReserveOf(a) = (BaseUnits + a.subentries + a.sponsoring - a.sponsored) * BaseReserve
           /\ ReserveOf(a) \in Nat
BY SMT DEF Account, OnLedger, ReserveOf, computeReserveXlm, FloorAtZero, BaseUnits, BaseReserve

\* What is shown as available is what the protocol lets the owner send, less the
\* offers to buy: it is never more than allowed, so sending it does not fail, and
\* it is less than the documented maximum exactly by those offers.
THEOREM SpendableIsAllowed ==
    ASSUME NEW a \in Account, OnLedger(a)
    PROVE  /\ Spendable(a) \in Nat
           /\ Spendable(a) = FloorAtZero(Allowed(a) - a.buying)
           /\ Allowed(a) >= 0 => Spendable(a) <= Allowed(a)
<1>1. ReserveOf(a) = (BaseUnits + a.subentries + a.sponsoring - a.sponsored) * BaseReserve
  BY ReserveIsProtocols
<1>2. /\ a.balance \in Nat /\ a.selling \in Nat /\ a.buying \in Nat
      /\ (BaseUnits + a.subentries + a.sponsoring - a.sponsored) * BaseReserve \in Int
  BY SMT DEF Account, BaseUnits, BaseReserve
<1>3. QED
  BY <1>1, <1>2, SMT DEF Spendable, Allowed, FloorAtZero

\* The reserve is an amount for any account, on the ledger or not: the clamps see to it.
LEMMA ReserveIsNat ==
    ASSUME NEW a \in Account
    PROVE  ReserveOf(a) \in Nat
BY SMT DEF Account, ReserveOf, computeReserveXlm, FloorAtZero, BaseUnits, BaseReserve

\* The three numbers on the balance screen and the total above them, whatever comes
\* back: with something to spend they add up to the total, a funded account with
\* nothing to spend has all of its total bound, and any other answer (no account, an
\* error status, a request that throws, a body that cannot be read) shows zeros.
THEOREM BalanceAddsUp ==
    ASSUME NEW a \in Account, NEW res \in Response
    PROVE  LET b == fetchHorizonBalance(res, a) IN
           /\ b.spendable > 0 => b.spendable + b.reserve + b.liabilities = b.total
           /\ b.spendable = 0 => b.reserve + b.liabilities >= b.total
           /\ b.spendable >= 0
           /\ b.state # "funded" => b.total = 0 /\ b.reserve = 0 /\ b.liabilities = 0
<1>1. ReserveOf(a) \in Nat
  BY ReserveIsNat
<1>2. a.balance \in Nat /\ a.selling \in Nat /\ a.buying \in Nat
  BY DEF Account
<1> DEFINE b == fetchHorizonBalance(res, a)
<1>3. CASE StateOf(res) = "funded"
  <2>1. /\ b.state = "funded" /\ b.total = a.balance /\ b.reserve = ReserveOf(a)
        /\ b.liabilities = a.selling + a.buying /\ b.spendable = Spendable(a)
    BY <1>3 DEF fetchHorizonBalance
  <2> HIDE DEF b
  <2>2. Spendable(a) = FloorAtZero(a.balance - ReserveOf(a) - (a.selling + a.buying))
    BY DEF Spendable
  <2>3. QED
    BY <1>1, <1>2, <2>1, <2>2, SMT DEF FloorAtZero, b
<1>4. CASE StateOf(res) # "funded"
  <2>1. b.total = 0 /\ b.reserve = 0 /\ b.liabilities = 0 /\ b.spendable = 0
    BY <1>4 DEF fetchHorizonBalance, emptyResult
  <2>2. QED
    BY <2>1
<1>5. QED
  BY <1>3, <1>4
=============================================================================

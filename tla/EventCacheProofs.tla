-------------------------- MODULE EventCacheProofs --------------------------
(***************************************************************************)
(* Proofs, for any finite set of networks, any overlapping fetches, page   *)
(* limit and times to live, of the safety properties of EventCache.        *)
(*                                                                         *)
(* A copy that no switch overtook is of one network, and has every event   *)
(* of the window of ledgers before it was fetched (up to the page limit):  *)
(* the pages fetched so far are the events from startLedger on, one by     *)
(* one.  A copy from disk is dated anew when it enters memory, so what is  *)
(* in memory was fetched up to DiskTTL before its date; MemTTL adds to     *)
(* that before it is thrown away.                                          *)
(***************************************************************************)
EXTENDS EventCache, FiniteSetTheorems, TLAPS

USE NetworkAssumption, TimeAssumption, PageAssumption

Steps == {"idle", "latest", "page", "disk"}

FetchType == [began: 0..MaxClock, cursor: 0..MaxEvents, has: SUBSET Events,
              page: 0..(MaxPages - 1), key: Networks \cup {None}, spanned: BOOLEAN]

AnswerType == [net: Networks, has: SUBSET Events, fetched: 0..MaxClock,
               skipped: 0..MaxEvents, spanned: BOOLEAN, began: 0..MaxClock]

History == [Networks -> Seq(0..MaxClock)]

\* Does a copy or an answer have what network n had published when it was fetched,
\* but for the events out of the window and those past the page limit?
Covers(c, n, history) ==
    \A k \in 1..Len(history[n]) :
        \/ history[n][k] >= c.fetched
        \/ k <= c.skipped /\ history[n][k] + Window < c.fetched
        \/ k > c.skipped /\ <<n, k>> \in c.has
        \/ k > c.skipped + MaxPages

\* A copy of network n's events, fetched up to `slack' before its date.
GoodCopy(c, n, slack, history, now) ==
    /\ c.fetched <= c.at /\ c.at <= now /\ c.at <= c.fetched + slack
    /\ Foreign(c, n) => c.spanned
    /\ ~c.spanned => Covers(c, n, history)

\* The events before the first page of fetch x were out of the window by now, and
\* each page since has the next event.
Walks(x, net, history, now) ==
    /\ x.page <= x.cursor /\ x.cursor - x.page <= Len(history[net])
    /\ \A k \in 1..(x.cursor - x.page) : history[net][k] + Window < now
    /\ \A k \in (x.cursor - x.page + 1)..x.cursor : <<net, k>> \in x.has

\* A fetch x that no switch overtook has walked the active network's events.
GoodFetch(x, step, net, history, now) ==
    /\ step = "idle" => x = NoFetch
    /\ step # "page" => x.page = 0
    /\ x.began <= now
    /\ Foreign(x, net) => x.spanned
    /\ step = "page" /\ ~x.spanned => Walks(x, net, history, now)

CacheGood == eventCache # None => GoodCopy(eventCache, active, DiskTTL, published, clock)
DiskGood  == \A n \in Networks : disk[n] # None => GoodCopy(disk[n], n, 0, published, clock)
IoGood    == \A i \in DOMAIN io :
                io[i].copy # None => GoodCopy(io[i].copy, io[i].key, 0, published, clock)
FetchGood == \A f \in Fetches : GoodFetch(fetch[f], pc[f], active, published, clock)

\* What a screen is shown.
AnswerGood ==
    /\ answer # None /\ Foreign(answer, answer.net) => answer.spanned
    /\ StalenessBounded

\* No network publishes more than the bound on the events.
FewEvents == \A n \in Networks : Len(published[n]) <= MaxEvents

IInv == TypeOK /\ CacheGood /\ DiskGood /\ IoGood /\ FetchGood /\ AnswerGood /\ FewEvents

-----------------------------------------------------------------------------
(* The parts of the type invariant. *)

CopiesType == /\ eventCache \in Copy \cup {None} /\ disk \in [Networks -> Copy \cup {None}]
              /\ io \in Seq([key: Networks, copy: Copy \cup {None}])
FetchesType == /\ pc \in [Fetches -> Steps] /\ fetch \in [Fetches -> FetchType]
               /\ \A f \in Fetches : pc[f] = "disk" => fetch[f].key \in Networks
WorldType == active \in Networks /\ published \in History /\ clock \in 0..MaxClock

\* The copies, the fetches, the answer, and the network and time around them.
LEMMA TypeParts ==
    /\ TypeOK => CopiesType /\ FetchesType /\ WorldType /\ answer \in {None} \cup AnswerType
    /\ CopiesType' /\ FetchesType' /\ WorldType' /\ answer' \in {None} \cup AnswerType => TypeOK'
<1>1. TypeOK <=> CopiesType /\ FetchesType /\ WorldType /\ answer \in {None} \cup AnswerType
  BY DEF TypeOK, CopiesType, FetchesType, WorldType, Steps, FetchType, AnswerType, History
<1>2. TypeOK' <=> CopiesType' /\ FetchesType' /\ WorldType' /\ answer' \in {None} \cup AnswerType
  BY DEF TypeOK, CopiesType, FetchesType, WorldType, Steps, FetchType, AnswerType, History
<1>3. QED
  BY <1>1, <1>2

-----------------------------------------------------------------------------
(* What a step leaves alone stays good. *)

\* The copies, as long as no time passes and nothing is published.
LEMMA CopiesStay ==
    ASSUME IInv, UNCHANGED <<published, clock>>
    PROVE  /\ UNCHANGED <<eventCache, active>> => CacheGood'
           /\ UNCHANGED disk => DiskGood'
           /\ UNCHANGED io => IoGood'
           /\ FewEvents'
BY DEF IInv, CacheGood, DiskGood, IoGood, FewEvents

\* The fetches that are not the one that moves.
LEMMA FetchesStay ==
    ASSUME IInv, UNCHANGED <<active, published, clock>>, NEW f \in Fetches,
           \A g \in Fetches \ {f} : pc'[g] = pc[g] /\ fetch'[g] = fetch[g],
           GoodFetch(fetch'[f], pc'[f], active, published, clock)
    PROVE  FetchGood'
BY DEF IInv, FetchGood

\* A step that answers no screen.
LEMMA NoAnswerIsGood == NoAnswer => AnswerGood' /\ answer' \in {None} \cup AnswerType
BY DEF NoAnswer, AnswerGood, StalenessBounded

\* An answer that shows a copy of the active network, fetched recently enough.
LEMMA AnswerFacts ==
    ASSUME TypeOK, NEW c \in Copy, NEW spanned \in BOOLEAN, NEW began \in 0..MaxClock,
           Answer(c, spanned, began), UNCHANGED published,
           Foreign(c, active) => spanned,
           began < c.fetched + MemTTL + DiskTTL,
           ~spanned => Covers(c, active, published)
    PROVE  AnswerGood' /\ answer' \in {None} \cup AnswerType
<1>1. PICK a : a = [net |-> active, has |-> c.has, fetched |-> c.fetched,
                    skipped |-> c.skipped, spanned |-> spanned, began |-> began]
  OBVIOUS
<1>2. /\ a \in AnswerType /\ answer' = a /\ a.net = active /\ a.has = c.has
      /\ a.fetched = c.fetched /\ a.skipped = c.skipped /\ a.spanned = spanned
      /\ a.began = began
  BY <1>1 DEF TypeOK, Copy, AnswerType, Answer
<1>3. Foreign(answer', answer'.net) => answer'.spanned
  BY <1>2 DEF Foreign
<1>4. StalenessBounded'
  <2>1. SUFFICES ASSUME ~spanned
                 PROVE  /\ a.began < a.fetched + MemTTL + DiskTTL
                        /\ Covers(a, active, published)
    BY <1>2 DEF StalenessBounded, Covers
  <2>2. Covers(a, active, published)
    BY <1>2, <2>1 DEF Covers
  <2>3. QED
    BY <1>2, <2>2
<1>5. QED
  BY <1>2, <1>3, <1>4 DEF AnswerGood

\* The await a fetch moves to, and a fetch that is over.
LEMMA OverFacts ==
    ASSUME FetchesType, WorldType, NEW f \in Fetches, Over(f)
    PROVE  /\ FetchesType'
           /\ \A g \in Fetches \ {f} : pc'[g] = pc[g] /\ fetch'[g] = fetch[g]
           /\ GoodFetch(fetch'[f], pc'[f], active, published, clock)
<1>1. NoFetch \in FetchType
  BY DEF NoFetch, FetchType
<1>2. pc' = [pc EXCEPT ![f] = "idle"] /\ fetch' = [fetch EXCEPT ![f] = NoFetch]
  BY DEF Over, Goto
<1>3. pc' \in [Fetches -> Steps] /\ fetch' \in [Fetches -> FetchType]
  BY <1>1, <1>2 DEF FetchesType, Steps
<1>4. /\ pc'[f] = "idle" /\ fetch'[f] = NoFetch
      /\ \A g \in Fetches \ {f} : pc'[g] = pc[g] /\ fetch'[g] = fetch[g]
  BY <1>2 DEF FetchesType
<1>5. FetchesType'
  BY <1>3, <1>4 DEF FetchesType
<1>6. GoodFetch(NoFetch, "idle", active, published, clock)
  BY DEF GoodFetch, NoFetch, Foreign, WorldType
<1>7. QED
  BY <1>4, <1>5, <1>6

\* A fetch that goes on as x.
LEMMA OnFacts ==
    ASSUME FetchesType, NEW f \in Fetches, NEW x \in FetchType, NEW step \in Steps,
           pc' = [pc EXCEPT ![f] = step], fetch' = [fetch EXCEPT ![f] = x],
           step = "disk" => x.key \in Networks
    PROVE  /\ FetchesType' /\ pc'[f] = step /\ fetch'[f] = x
           /\ \A g \in Fetches \ {f} : pc'[g] = pc[g] /\ fetch'[g] = fetch[g]
<1>1. pc' \in [Fetches -> Steps] /\ fetch' \in [Fetches -> FetchType]
  BY DEF FetchesType
<1>2. /\ pc'[f] = step /\ fetch'[f] = x
      /\ \A g \in Fetches \ {f} : pc'[g] = pc[g] /\ fetch'[g] = fetch[g]
  BY DEF FetchesType
<1>3. QED
  BY <1>1, <1>2 DEF FetchesType

-----------------------------------------------------------------------------
(* The steps of a fetch. *)

\* A fetch that moves without touching a copy, and answers nothing.
LEMMA QuietFetchKeeps ==
    ASSUME IInv, NEW f \in Fetches,
           UNCHANGED <<active, eventCache, disk, io, published, clock>>, NoAnswer,
           FetchesType', GoodFetch(fetch'[f], pc'[f], active, published, clock),
           \A g \in Fetches \ {f} : pc'[g] = pc[g] /\ fetch'[g] = fetch[g]
    PROVE  IInv'
<1>1. CopiesType /\ WorldType
  BY TypeParts DEF IInv
<1>2. CopiesType' /\ WorldType'
  BY <1>1 DEF CopiesType, WorldType
<1>3. TypeOK' /\ AnswerGood'
  BY <1>2, NoAnswerIsGood, TypeParts
<1>4. FetchGood'
  BY FetchesStay
<1>5. QED
  BY <1>3, <1>4, CopiesStay DEF IInv

\* The copy in memory is young enough: it was fetched less than MemTTL + DiskTTL ago.
LEMMA HitKeeps ==
    ASSUME IInv, NEW f \in Fetches, Hit(f)
    PROVE  IInv'
<1>1. /\ TypeOK /\ CopiesType /\ WorldType /\ FetchesType
      /\ eventCache \in Copy /\ clock - eventCache.at < MemTTL
      /\ GoodCopy(eventCache, active, DiskTTL, published, clock)
      /\ Answer(eventCache, eventCache.spanned, clock)
      /\ UNCHANGED <<active, eventCache, disk, io, pc, fetch, published, clock>>
  BY TypeParts DEF IInv, Hit, Fresh, CacheGood, CopiesType
<1>2. /\ eventCache.at \in 0..MaxClock /\ eventCache.fetched \in 0..MaxClock
      /\ eventCache.spanned \in BOOLEAN /\ clock \in 0..MaxClock
  BY <1>1 DEF Copy, WorldType
<1>3. /\ Foreign(eventCache, active) => eventCache.spanned
      /\ ~eventCache.spanned => Covers(eventCache, active, published)
      /\ eventCache.at <= eventCache.fetched + DiskTTL
  BY <1>1 DEF GoodCopy
<1>4. clock < eventCache.fetched + MemTTL + DiskTTL
  BY <1>1, <1>2, <1>3
<1>5. AnswerGood' /\ answer' \in {None} \cup AnswerType
  BY <1>1, <1>2, <1>3, <1>4, AnswerFacts
<1>6. CopiesType' /\ WorldType' /\ FetchesType' /\ FetchGood'
  BY <1>1 DEF IInv, CopiesType, WorldType, FetchesType, FetchGood
<1>7. QED
  BY <1>1, <1>5, <1>6, CopiesStay, TypeParts DEF IInv

\* A fetch starts with nothing, at the time it is.
LEMMA BeginKeeps ==
    ASSUME IInv, NEW f \in Fetches, Begin(f)
    PROVE  IInv'
<1>1. /\ FetchesType /\ WorldType /\ pc[f] = "idle" /\ fetch[f] = NoFetch
      /\ pc' = [pc EXCEPT ![f] = "latest"] /\ fetch' = [fetch EXCEPT ![f].began = clock]
      /\ UNCHANGED <<active, eventCache, disk, io, published, clock>> /\ NoAnswer
  BY TypeParts DEF IInv, Begin, Goto, FetchGood, GoodFetch
<1>2. PICK x : x = [NoFetch EXCEPT !.began = clock]
  OBVIOUS
<1>3. x \in FetchType /\ fetch' = [fetch EXCEPT ![f] = x]
  <2>1. x = [fetch[f] EXCEPT !.began = clock]
    BY <1>1, <1>2
  <2>2. NoFetch \in FetchType /\ clock \in 0..MaxClock
    BY <1>1 DEF NoFetch, FetchType, WorldType
  <2>3. x \in FetchType
    BY <1>2, <2>2 DEF FetchType
  <2>4. QED
    BY <1>1, <2>1, <2>3 DEF FetchesType
<1>4. /\ FetchesType' /\ pc'[f] = "latest" /\ fetch'[f] = x
      /\ \A g \in Fetches \ {f} : pc'[g] = pc[g] /\ fetch'[g] = fetch[g]
  BY <1>1, <1>3, OnFacts DEF Steps
<1>5. GoodFetch(x, "latest", active, published, clock)
  BY <1>1, <1>2 DEF GoodFetch, NoFetch, Foreign, WorldType
<1>6. QED
  BY <1>1, <1>4, <1>5, QuietFetchKeeps

\* The start ledger is known: the events before it are out of the window.
LEMMA LatestKeeps ==
    ASSUME IInv, NEW f \in Fetches, Latest(f)
    PROVE  IInv'
<1>1. /\ FetchesType /\ WorldType /\ fetch[f] \in FetchType /\ pc[f] = "latest"
      /\ GoodFetch(fetch[f], pc[f], active, published, clock)
      /\ Len(published[active]) <= MaxEvents
      /\ pc' = [pc EXCEPT ![f] = "page"]
      /\ UNCHANGED <<active, eventCache, disk, io, published, clock>> /\ NoAnswer
  BY TypeParts DEF IInv, Latest, Goto, FetchGood, FetchesType, FewEvents, WorldType
<1>2. PICK p \in 0..Len(published[active]) :
        Precede(p, startLedger) /\ fetch' = [fetch EXCEPT ![f].cursor = p]
  BY DEF Latest
<1>3. PICK x : x = [fetch[f] EXCEPT !.cursor = p]
  OBVIOUS
<1>4. /\ Len(published[active]) \in Nat /\ published[active] \in Seq(0..MaxClock)
      /\ clock \in 0..MaxClock
  BY <1>1 DEF WorldType, History
<1>5. /\ x \in FetchType /\ fetch' = [fetch EXCEPT ![f] = x]
      /\ x.began = fetch[f].began /\ x.has = fetch[f].has /\ x.page = fetch[f].page
      /\ x.spanned = fetch[f].spanned /\ x.cursor = p
  <2>1. p \in 0..MaxEvents
    BY <1>1, <1>2, <1>4
  <2>2. QED
    BY <1>1, <1>2, <1>3, <2>1 DEF FetchType, FetchesType
<1>6. /\ FetchesType' /\ pc'[f] = "page" /\ fetch'[f] = x
      /\ \A g \in Fetches \ {f} : pc'[g] = pc[g] /\ fetch'[g] = fetch[g]
  BY <1>1, <1>5, OnFacts DEF Steps
<1>7. Walks(x, active, published, clock)
  <2>1. x.page = 0 /\ x.cursor = p /\ p \in Nat /\ p <= Len(published[active])
    BY <1>1, <1>2, <1>4, <1>5 DEF GoodFetch
  <2>2. ASSUME NEW k \in 1..p PROVE published[active][k] + Window < clock
    <3>1. k \in 1..Len(published[active]) /\ published[active][k] \in Nat
      BY <1>2, <1>4, <2>1
    <3>2. published[active][k] < startLedger
      BY <1>2, <2>1, <3>1 DEF Precede
    <3>3. QED
      BY <1>4, <3>1, <3>2 DEF startLedger
  <2>3. QED
    BY <2>1, <2>2 DEF Walks
<1>8. GoodFetch(x, "page", active, published, clock)
  BY <1>1, <1>5, <1>7 DEF GoodFetch, Foreign
<1>9. QED
  BY <1>1, <1>6, <1>8, QuietFetchKeeps

\* The disk is asked for the copy of the network that is active by then.
LEMMA UnreachableKeeps ==
    ASSUME IInv, NEW f \in Fetches, Unreachable(f)
    PROVE  IInv'
<1>1. /\ FetchesType /\ WorldType /\ fetch[f] \in FetchType
      /\ GoodFetch(fetch[f], pc[f], active, published, clock)
      /\ pc' = [pc EXCEPT ![f] = "disk"]
      /\ UNCHANGED <<active, eventCache, disk, io, published, clock>> /\ NoAnswer
  BY TypeParts DEF IInv, Unreachable, Goto, FetchGood, FetchesType
<1>2. PICK x : x = [fetch[f] EXCEPT !.cursor = 0, !.has = {}, !.page = 0, !.key = active]
  OBVIOUS
<1>3. fetch' = [fetch EXCEPT ![f] = x]
  BY <1>2 DEF Unreachable
<1>4. /\ x \in FetchType /\ x.key \in Networks
      /\ x.began = fetch[f].began /\ x.has = {} /\ x.page = 0
  <2>1. active \in Networks /\ 0 \in 0..(MaxPages - 1) /\ 0 \in 0..MaxEvents
    BY <1>1 DEF WorldType
  <2>2. QED
    BY <1>1, <1>2, <2>1 DEF FetchType
<1>5. /\ FetchesType' /\ pc'[f] = "disk" /\ fetch'[f] = x
      /\ \A g \in Fetches \ {f} : pc'[g] = pc[g] /\ fetch'[g] = fetch[g]
  BY <1>1, <1>3, <1>4, OnFacts DEF Steps
<1>6. GoodFetch(x, "disk", active, published, clock)
  BY <1>1, <1>4 DEF GoodFetch, Foreign
<1>7. QED
  BY <1>1, <1>5, <1>6, QuietFetchKeeps

\* The next page holds the next event, when there is one, of the active network.
LEMMA GotFacts ==
    ASSUME IInv, NEW f \in Fetches, pc[f] = "page"
    PROVE  /\ Got(f) \in SUBSET Events
           /\ (\E e \in Got(f) : e[1] # active) => fetch[f].spanned
           /\ ~fetch[f].spanned =>
                /\ Walks(fetch[f], active, published, clock)
                /\ \A k \in (fetch[f].cursor - fetch[f].page + 1)..NextEvent(f) :
                      k <= Len(published[active]) => <<active, k>> \in Got(f)
<1>1. /\ FetchesType /\ WorldType /\ fetch[f] \in FetchType
      /\ GoodFetch(fetch[f], "page", active, published, clock)
      /\ Len(published[active]) <= MaxEvents
  BY TypeParts DEF IInv, FetchGood, FetchesType, FewEvents, WorldType
<1>2. /\ fetch[f].page \in 0..(MaxPages - 1) /\ fetch[f].has \in SUBSET Events
      /\ fetch[f].cursor \in 0..MaxEvents
      /\ Len(published[active]) \in Nat /\ active \in Networks
  BY <1>1 DEF FetchType, WorldType, History
<1>3. Got(f) = fetch[f].has \cup (IF fetch[f].cursor + 1 <= Len(published[active])
                                  THEN {<<active, fetch[f].cursor + 1>>} ELSE {})
  BY DEF Got, NextEvent
<1>4. Got(f) \in SUBSET Events
  BY <1>1, <1>2, <1>3 DEF Events
<1>5. ASSUME NEW e \in Got(f), e[1] # active PROVE fetch[f].spanned
  <2>1. e \in fetch[f].has
    BY <1>3, <1>5
  <2>2. QED
    BY <1>1, <1>5, <2>1 DEF GoodFetch, Foreign
<1>6. ASSUME ~fetch[f].spanned PROVE Walks(fetch[f], active, published, clock)
  BY <1>1, <1>6 DEF GoodFetch
<1>7. ASSUME ~fetch[f].spanned,
             NEW k \in (fetch[f].cursor - fetch[f].page + 1)..NextEvent(f),
             k <= Len(published[active])
      PROVE  <<active, k>> \in Got(f)
  <2>1. CASE k = fetch[f].cursor + 1
    BY <1>3, <1>7, <2>1
  <2>2. CASE k # fetch[f].cursor + 1
    <3>1. k \in (fetch[f].cursor - fetch[f].page + 1)..fetch[f].cursor
      BY <1>2, <1>7, <2>2 DEF NextEvent
    <3>2. QED
      BY <1>3, <1>6, <1>7, <3>1 DEF Walks
  <2>3. QED
    BY <2>1, <2>2
<1>8. QED
  BY <1>4, <1>5, <1>6, <1>7

\* So the last page makes the list cover the window, as far as the page limit goes.
LEMMA LastPageCovers ==
    ASSUME IInv, NEW f \in Fetches, pc[f] = "page", LastPage(f), ~fetch[f].spanned,
           NEW c \in Copy, c.has = Got(f), c.skipped = Skipped(f), c.fetched = clock
    PROVE  Covers(c, active, published)
<1>1. /\ fetch[f].page \in 0..(MaxPages - 1) /\ Len(published[active]) \in Nat
      /\ fetch[f].cursor \in 0..MaxEvents /\ published[active] \in Seq(0..MaxClock)
      /\ clock \in 0..MaxClock
  BY DEF IInv, TypeOK
<1>2. /\ Walks(fetch[f], active, published, clock)
      /\ \A k \in (fetch[f].cursor - fetch[f].page + 1)..NextEvent(f) :
            k <= Len(published[active]) => <<active, k>> \in Got(f)
      /\ c.skipped = fetch[f].cursor - fetch[f].page /\ c.skipped \in Nat
  BY <1>1, GotFacts DEF Skipped, Walks
<1>3. ASSUME NEW k \in 1..Len(published[active])
      PROVE  \/ k <= c.skipped /\ published[active][k] + Window < c.fetched
             \/ k > c.skipped /\ <<active, k>> \in c.has
             \/ k > c.skipped + MaxPages
  <2>1. CASE k <= c.skipped
    BY <1>2, <2>1 DEF Walks
  <2>2. CASE k > c.skipped /\ k <= fetch[f].cursor + 1
    <3>1. k \in (fetch[f].cursor - fetch[f].page + 1)..NextEvent(f) /\ k <= Len(published[active])
      BY <1>1, <1>2, <1>3, <2>2 DEF NextEvent
    <3>2. <<active, k>> \in Got(f)
      BY <1>2, <3>1
    <3>3. QED
      BY <2>2, <3>2
  <2>3. CASE k > fetch[f].cursor + 1
    <3>1. fetch[f].page + 1 = MaxPages
      BY <1>1, <1>3, <2>3 DEF LastPage, NextEvent
    <3>2. c.skipped = fetch[f].cursor - fetch[f].page
      BY <1>2
    <3>3. c.skipped + MaxPages = fetch[f].cursor + 1
      BY <1>1, <3>1, <3>2
    <3>4. QED
      BY <2>3, <3>3
  <2>4. k \in Nat /\ c.skipped \in Nat /\ fetch[f].cursor \in Nat
    <3>1. fetch[f].cursor \in Nat
      BY <1>1
    <3>2. k \in Nat
      BY <1>1, <1>3
    <3>3. QED
      BY <1>2, <3>1, <3>2
  <2>5. k <= c.skipped \/ (k > c.skipped /\ k <= fetch[f].cursor + 1) \/ k > fetch[f].cursor + 1
    BY ONLY <2>4
  <2>6. QED
    BY <2>1, <2>2, <2>3, <2>5
<1>4. QED
  BY <1>3 DEF Covers

\* A page that is not the last one.
LEMMA NextPageKeeps ==
    ASSUME IInv, NEW f \in Fetches, NextPage(f)
    PROVE  IInv'
<1>1. /\ FetchesType /\ WorldType /\ fetch[f] \in FetchType
      /\ GoodFetch(fetch[f], pc[f], active, published, clock) /\ pc[f] = "page" /\ ~LastPage(f)
      /\ Len(published[active]) <= MaxEvents
      /\ fetch' = [fetch EXCEPT ![f].has = Got(f), ![f].cursor = @ + 1, ![f].page = @ + 1]
      /\ UNCHANGED <<active, eventCache, disk, io, pc, published, clock>> /\ NoAnswer
  BY TypeParts DEF IInv, NextPage, FetchGood, FetchesType, FewEvents, WorldType
<1>2. PICK x : x = [fetch[f] EXCEPT !.has = Got(f), !.cursor = @ + 1, !.page = @ + 1]
  OBVIOUS
<1>3. /\ fetch[f].page \in 0..(MaxPages - 1) /\ fetch[f].page + 1 \in 0..(MaxPages - 1)
      /\ fetch[f].cursor \in 0..MaxEvents /\ fetch[f].cursor + 1 \in 0..MaxEvents
      /\ fetch[f].cursor + 1 <= Len(published[active]) /\ Len(published[active]) \in Nat
  <2>1. /\ fetch[f].page \in 0..(MaxPages - 1) /\ Len(published[active]) \in Nat
        /\ fetch[f].cursor \in 0..MaxEvents
    BY <1>1 DEF FetchType, WorldType, History
  <2>2. fetch[f].cursor + 1 <= Len(published[active]) /\ fetch[f].page + 1 # MaxPages
    BY <1>1, <2>1 DEF LastPage, NextEvent
  <2>3. fetch[f].cursor + 1 <= MaxEvents
    BY <1>1, <2>1, <2>2
  <2>4. QED
    BY <2>1, <2>2, <2>3
<1>4. x \in FetchType
  <2>1. Got(f) \in SUBSET Events
    BY <1>1, GotFacts
  <2>2. QED
    BY <1>1, <1>2, <1>3, <2>1 DEF FetchType
<1>5. fetch' = [fetch EXCEPT ![f] = x]
  BY <1>1, <1>2 DEF FetchesType
<1>6. /\ x.began = fetch[f].began /\ x.has = Got(f) /\ x.page = fetch[f].page + 1
      /\ x.cursor = fetch[f].cursor + 1 /\ x.spanned = fetch[f].spanned
  BY <1>1, <1>2 DEF FetchType
<1>7. /\ FetchesType' /\ pc'[f] = "page" /\ fetch'[f] = x
      /\ \A g \in Fetches \ {f} : pc'[g] = pc[g] /\ fetch'[g] = fetch[g]
  <2>1. pc' = [pc EXCEPT ![f] = "page"]
    BY <1>1 DEF FetchesType
  <2>2. QED
    BY <1>1, <1>4, <1>5, <2>1, OnFacts DEF Steps
<1>8. ASSUME ~x.spanned PROVE Walks(x, active, published, clock)
  <2>1. /\ Walks(fetch[f], active, published, clock)
        /\ \A k \in (fetch[f].cursor - fetch[f].page + 1)..NextEvent(f) :
              k <= Len(published[active]) => <<active, k>> \in Got(f)
    BY <1>1, <1>6, <1>8, GotFacts
  <2>2. /\ x.cursor - x.page = fetch[f].cursor - fetch[f].page /\ x.cursor = NextEvent(f)
        /\ x.page <= x.cursor /\ x.cursor <= Len(published[active]) /\ x.cursor \in Nat
    <3>1. fetch[f].page <= fetch[f].cursor
      BY <2>1 DEF Walks
    <3>2. fetch[f].page \in Nat /\ fetch[f].cursor \in Nat
      BY <1>3
    <3>3. fetch[f].cursor + 1 - (fetch[f].page + 1) = fetch[f].cursor - fetch[f].page
      BY <3>2
    <3>4. QED
      BY <1>3, <1>6, <3>1, <3>2, <3>3 DEF NextEvent
  <2>3. \A k \in (x.cursor - x.page + 1)..x.cursor : <<active, k>> \in x.has
    BY <1>3, <1>6, <2>1, <2>2
  <2>4. QED
    BY <2>1, <2>2, <2>3 DEF Walks
<1>9. GoodFetch(x, "page", active, published, clock)
  BY <1>1, <1>6, <1>8, GotFacts DEF GoodFetch, Foreign
<1>10. QED
  BY <1>1, <1>7, <1>9, QuietFetchKeeps

\* The whole list is cached and shown, and its copy on disk is under way.
LEMMA FinishKeeps ==
    ASSUME IInv, NEW f \in Fetches, Finish(f)
    PROVE  IInv'
<1>1. /\ TypeOK /\ CopiesType /\ FetchesType /\ WorldType /\ fetch[f] \in FetchType
      /\ pc[f] = "page" /\ LastPage(f) /\ Over(f)
      /\ UNCHANGED <<active, disk, published, clock>>
      /\ fetch[f].began \in 0..MaxClock /\ fetch[f].spanned \in BOOLEAN
      /\ fetch[f].began <= clock /\ clock \in 0..MaxClock /\ active \in Networks
  BY TypeParts DEF IInv, Finish, FetchesType, WorldType, FetchType, FetchGood, GoodFetch
<1>2. PICK c : /\ c = [at |-> clock, fetched |-> clock, skipped |-> Skipped(f),
                       has |-> Got(f), spanned |-> fetch[f].spanned]
               /\ eventCache' = c /\ io' = Append(io, [key |-> active, copy |-> c])
               /\ Answer(c, c.spanned, fetch[f].began)
  BY DEF Finish
<1>3. Skipped(f) \in 0..MaxEvents
  <2>1. fetch[f].cursor \in 0..MaxEvents /\ fetch[f].page \in 0..(MaxPages - 1)
    BY <1>1 DEF FetchType
  <2>2. ~fetch[f].spanned => fetch[f].page <= fetch[f].cursor
    BY <1>1, GotFacts DEF Walks
  <2>3. QED
    BY <2>1, <2>2 DEF Skipped
<1>4. /\ c \in Copy /\ c.at = clock /\ c.fetched = clock /\ c.skipped = Skipped(f)
      /\ c.has = Got(f) /\ c.spanned = fetch[f].spanned
  BY <1>1, <1>2, <1>3, GotFacts DEF Copy
<1>5. /\ Foreign(c, active) => c.spanned
      /\ ~c.spanned => Covers(c, active, published)
  BY <1>1, <1>4, GotFacts, LastPageCovers DEF Foreign
<1>6. GoodCopy(c, active, DiskTTL, published, clock) /\ GoodCopy(c, active, 0, published, clock)
  BY <1>1, <1>4, <1>5 DEF GoodCopy
<1>7. AnswerGood' /\ answer' \in {None} \cup AnswerType
  <2>1. fetch[f].began < c.fetched + MemTTL + DiskTTL
    BY <1>1, <1>4
  <2>2. QED
    BY <1>1, <1>2, <1>4, <1>5, <2>1, AnswerFacts
<1>8. /\ FetchesType' /\ FetchGood'
  BY <1>1, OverFacts, FetchesStay
<1>9. [key |-> active, copy |-> c] \in [key: Networks, copy: Copy \cup {None}]
  BY <1>1, <1>4
<1>10. CopiesType' /\ WorldType'
  BY <1>1, <1>2, <1>4, <1>9 DEF CopiesType, WorldType
<1>11. CacheGood'
  BY <1>1, <1>2, <1>6 DEF CacheGood
<1>12. IoGood'
  <2>1. ASSUME NEW i \in DOMAIN io', io'[i].copy # None
        PROVE  GoodCopy(io'[i].copy, io'[i].key, 0, published, clock)
    <3>1. CASE i \in DOMAIN io
      <4>1. io'[i] = io[i]
        BY <1>1, <1>2, <1>9, <3>1 DEF CopiesType
      <4>2. QED
        BY <2>1, <3>1, <4>1 DEF IInv, IoGood
    <3>2. CASE i \notin DOMAIN io
      <4>1. io'[i] = [key |-> active, copy |-> c]
        BY <1>1, <1>2, <1>9, <2>1, <3>2 DEF CopiesType
      <4>2. QED
        BY <1>6, <4>1
    <3>3. QED
      BY <3>1, <3>2
  <2>2. QED
    BY <1>1, <2>1 DEF IoGood
<1>13. QED
  BY <1>1, <1>7, <1>8, <1>10, <1>11, <1>12, CopiesStay, TypeParts DEF IInv

\* A copy from disk enters memory with the date of now: it was fetched before.
LEMMA FromDiskKeeps ==
    ASSUME IInv, NEW f \in Fetches, FromDisk(f)
    PROVE  IInv'
<1>1. /\ TypeOK /\ CopiesType /\ FetchesType /\ WorldType /\ fetch[f] \in FetchType
      /\ fetch[f].key = active /\ disk[active] # None /\ clock - disk[active].at <= DiskTTL
      /\ Over(f) /\ UNCHANGED <<active, disk, io, published, clock>>
      /\ fetch[f].began \in 0..MaxClock /\ fetch[f].spanned \in BOOLEAN
      /\ clock \in 0..MaxClock /\ active \in Networks
      /\ published[active] \in Seq(0..MaxClock)
  BY TypeParts DEF IInv, FromDisk, Usable, FetchesType, WorldType, FetchType, History
<1>2. PICK c \in Copy : c = disk[active]
  BY <1>1 DEF CopiesType
<1>3. /\ eventCache' = [c EXCEPT !.at = clock]
      /\ Answer(c, c.spanned \/ fetch[f].spanned, fetch[f].began)
  BY <1>1, <1>2 DEF FromDisk
<1>4. /\ c.at \in 0..MaxClock /\ c.fetched \in 0..MaxClock /\ c.spanned \in BOOLEAN
      /\ eventCache' \in Copy /\ eventCache'.at = clock /\ eventCache'.has = c.has
      /\ eventCache'.fetched = c.fetched /\ eventCache'.skipped = c.skipped
      /\ eventCache'.spanned = c.spanned
  BY <1>1, <1>2, <1>3 DEF Copy
<1>5. GoodCopy(c, active, 0, published, clock) /\ fetch[f].began <= clock
  BY <1>1, <1>2 DEF IInv, DiskGood, FetchGood, GoodFetch
<1>6. /\ Foreign(c, active) => c.spanned
      /\ ~c.spanned => Covers(c, active, published)
      /\ c.fetched = c.at /\ clock <= c.fetched + DiskTTL
  BY <1>1, <1>2, <1>4, <1>5 DEF GoodCopy
<1>7. fetch[f].began < c.fetched + MemTTL + DiskTTL
  BY <1>1, <1>4, <1>5, <1>6
<1>8. AnswerGood' /\ answer' \in {None} \cup AnswerType
  <2>1. (c.spanned \/ fetch[f].spanned) \in BOOLEAN
    OBVIOUS
  <2>2. QED
    BY <1>1, <1>3, <1>6, <1>7, <2>1, AnswerFacts
<1>9. CacheGood'
  <2>1. /\ Foreign(eventCache', active) => eventCache'.spanned
        /\ ~eventCache'.spanned => Covers(eventCache', active, published)
    BY <1>4, <1>6 DEF Foreign, Covers
  <2>2. GoodCopy(eventCache', active, DiskTTL, published, clock)
    BY <1>1, <1>4, <1>5, <1>6, <2>1 DEF GoodCopy
  <2>3. QED
    BY <1>1, <2>2 DEF CacheGood
<1>10. FetchesType' /\ FetchGood'
  BY <1>1, OverFacts, FetchesStay
<1>11. CopiesType' /\ WorldType'
  BY <1>1, <1>4 DEF CopiesType, WorldType
<1>12. QED
  BY <1>1, <1>8, <1>9, <1>10, <1>11, CopiesStay, TypeParts DEF IInv

\* Nothing usable: the fetch throws.
LEMMA ThrowKeeps ==
    ASSUME IInv, NEW f \in Fetches, Throw(f)
    PROVE  IInv'
<1>1. /\ FetchesType /\ WorldType /\ Over(f) /\ NoAnswer
      /\ UNCHANGED <<active, eventCache, disk, io, published, clock>>
  BY TypeParts DEF IInv, Throw
<1>2. QED
  BY <1>1, OverFacts, QuietFetchKeeps

-----------------------------------------------------------------------------
(* What happens around the fetches. *)

\* A switch drops the copy in memory and overtakes every fetch under way.
LEMMA SwitchKeeps ==
    ASSUME IInv, NEW n \in Networks, Switch(n)
    PROVE  IInv'
<1>1. /\ TypeOK /\ CopiesType /\ FetchesType /\ WorldType /\ FetchGood /\ active' = n
      /\ eventCache' = None /\ NoAnswer /\ UNCHANGED <<disk, io, pc, published, clock>>
  BY TypeParts DEF IInv, Switch
<1>2. PICK p \in [{f \in Fetches : pc[f] = "page"} -> 0..MaxEvents] :
        fetch' = [f \in Fetches |->
                     [fetch[f] EXCEPT !.spanned = pc[f] # "idle",
                                      !.cursor = IF pc[f] = "page" THEN p[f] ELSE @]]
  BY DEF Switch, Overtaken
<1>3. ASSUME NEW f \in Fetches
      PROVE  /\ fetch'[f] \in FetchType /\ fetch'[f].key = fetch[f].key
             /\ GoodFetch(fetch'[f], pc[f], n, published, clock)
  <2>1. fetch[f] \in FetchType /\ GoodFetch(fetch[f], pc[f], active, published, clock)
    BY <1>1 DEF FetchesType, FetchGood
  <2>2. PICK q \in 0..MaxEvents : q = IF pc[f] = "page" THEN p[f] ELSE fetch[f].cursor
    BY <2>1 DEF FetchType
  <2>3. fetch'[f] = [fetch[f] EXCEPT !.spanned = pc[f] # "idle", !.cursor = q]
    BY <1>2, <2>2
  <2>4. CASE pc[f] = "idle"
    <3>1. fetch[f] = NoFetch /\ (pc[f] # "idle") = FALSE /\ q = NoFetch.cursor
      BY <2>1, <2>2, <2>4 DEF GoodFetch
    <3>2. fetch'[f] = [NoFetch EXCEPT !.spanned = FALSE, !.cursor = NoFetch.cursor]
      BY <2>3, <3>1
    <3>3. fetch'[f] = NoFetch
      BY <3>2 DEF NoFetch
    <3>4. QED
      BY <2>1, <2>4, <3>1, <3>3 DEF GoodFetch, NoFetch, Foreign
  <2>5. CASE pc[f] # "idle"
    <3>1. /\ fetch'[f] \in FetchType /\ fetch'[f].key = fetch[f].key /\ fetch'[f].spanned
          /\ fetch'[f].began = fetch[f].began /\ fetch'[f].page = fetch[f].page
      BY <2>1, <2>2, <2>3, <2>5 DEF FetchType
    <3>2. QED
      BY <2>1, <2>5, <3>1 DEF GoodFetch
  <2>6. QED
    BY <2>4, <2>5
<1>4. FetchesType' /\ FetchGood'
  BY <1>1, <1>2, <1>3 DEF FetchesType, FetchGood
<1>5. CopiesType' /\ WorldType' /\ CacheGood'
  BY <1>1 DEF CopiesType, WorldType, CacheGood
<1>6. QED
  BY <1>1, <1>4, <1>5, CopiesStay, NoAnswerIsGood, TypeParts DEF IInv

\* A wake-up drops the copies of the active network.
LEMMA InvalidateKeeps ==
    ASSUME IInv, Invalidate
    PROVE  IInv'
<1>1. /\ TypeOK /\ CopiesType /\ FetchesType /\ WorldType /\ NoAnswer
      /\ eventCache' = None /\ io' = Append(io, [key |-> active, copy |-> None])
      /\ UNCHANGED <<active, disk, pc, fetch, published, clock>>
  BY TypeParts DEF IInv, Invalidate
<1>2. [key |-> active, copy |-> None] \in [key: Networks, copy: Copy \cup {None}]
  BY <1>1 DEF WorldType
<1>3. CopiesType' /\ WorldType' /\ FetchesType'
  BY <1>1, <1>2 DEF CopiesType, WorldType, FetchesType
<1>4. CacheGood' /\ FetchGood'
  BY <1>1 DEF IInv, CacheGood, FetchGood
<1>5. IoGood'
  <2>1. ASSUME NEW i \in DOMAIN io', io'[i].copy # None
        PROVE  i \in DOMAIN io /\ io'[i] = io[i]
    BY <1>1, <1>2, <2>1 DEF CopiesType
  <2>2. QED
    BY <1>1, <2>1 DEF IInv, IoGood
<1>6. QED
  BY <1>1, <1>3, <1>4, <1>5, CopiesStay, NoAnswerIsGood, TypeParts DEF IInv

\* The items of a queue.
LEMMA ItemFacts ==
    ASSUME NEW S, NEW s \in Seq(S)
    PROVE  \A i \in DOMAIN s : s[i] \in S
OBVIOUS

\* Taking the first item moves the others up.
LEMMA TailFacts ==
    ASSUME NEW S, NEW s \in Seq(S), s # <<>>
    PROVE  /\ Tail(s) \in Seq(S) /\ 1 \in DOMAIN s /\ s[1] \in S
           /\ \A i \in DOMAIN Tail(s) : i + 1 \in DOMAIN s /\ Tail(s)[i] = s[i + 1]
<1>1. Len(s) \in Nat \ {0} /\ DOMAIN s = 1..Len(s)
  OBVIOUS
<1>2. 1 \in DOMAIN s
  BY <1>1
<1>3. Tail(s) \in Seq(S) /\ DOMAIN Tail(s) = 1..(Len(s) - 1)
  OBVIOUS
<1>4. ASSUME NEW i \in DOMAIN Tail(s) PROVE i + 1 \in DOMAIN s /\ Tail(s)[i] = s[i + 1]
  BY <1>1, <1>3
<1>5. QED
  BY <1>2, <1>3, <1>4, ItemFacts

\* The oldest storage operation is carried out, or fails.
LEMMA StoreKeeps ==
    ASSUME IInv, Store
    PROVE  IInv'
<1>1. /\ TypeOK /\ CopiesType /\ FetchesType /\ WorldType /\ NoAnswer
      /\ io # <<>> /\ io' = Tail(io)
      /\ disk' = disk \/ disk' = [disk EXCEPT ![io[1].key] = io[1].copy]
      /\ UNCHANGED <<active, eventCache, pc, fetch, published, clock>>
  BY TypeParts DEF IInv, Store
<1>2. /\ 1 \in DOMAIN io /\ io[1] \in [key: Networks, copy: Copy \cup {None}]
      /\ io' \in Seq([key: Networks, copy: Copy \cup {None}])
      /\ \A i \in DOMAIN io' : i + 1 \in DOMAIN io /\ io'[i] = io[i + 1]
  <2>1. io \in Seq([key: Networks, copy: Copy \cup {None}])
    BY <1>1 DEF CopiesType
  <2>2. /\ io' \in Seq([key: Networks, copy: Copy \cup {None}])
        /\ 1 \in DOMAIN io /\ io[1] \in [key: Networks, copy: Copy \cup {None}]
        /\ \A i \in DOMAIN io' : i + 1 \in DOMAIN io /\ io'[i] = io[i + 1]
    BY <1>1, <2>1, TailFacts
  <2>3. QED
    BY <2>2
<1>3. CopiesType' /\ WorldType' /\ FetchesType'
  BY <1>1, <1>2 DEF CopiesType, WorldType, FetchesType
<1>4. DiskGood'
  <2>1. ASSUME NEW n \in Networks, disk'[n] # None
        PROVE  GoodCopy(disk'[n], n, 0, published, clock)
    <3>1. CASE disk'[n] = disk[n]
      BY <2>1, <3>1 DEF IInv, DiskGood
    <3>2. CASE disk'[n] # disk[n]
      <4>1. n = io[1].key /\ disk'[n] = io[1].copy
        BY <1>1, <1>2, <3>2 DEF CopiesType
      <4>2. QED
        BY <1>2, <2>1, <4>1 DEF IInv, IoGood
    <3>3. QED
      BY <3>1, <3>2
  <2>2. QED
    BY <1>1, <2>1 DEF DiskGood
<1>5. IoGood'
  BY <1>1, <1>2 DEF IInv, IoGood
<1>6. FetchGood'
  BY <1>1 DEF IInv, FetchGood
<1>7. QED
  BY <1>1, <1>3, <1>4, <1>5, <1>6, CopiesStay, NoAnswerIsGood, TypeParts DEF IInv

\* The process dies; what was written stays.
LEMMA RestartKeeps ==
    ASSUME IInv, Restart
    PROVE  IInv'
<1>1. /\ TypeOK /\ CopiesType /\ FetchesType /\ WorldType /\ NoAnswer
      /\ eventCache' = None /\ io' = <<>> /\ pc' = [f \in Fetches |-> "idle"]
      /\ fetch' = [f \in Fetches |-> NoFetch] /\ UNCHANGED <<active, disk, published, clock>>
  BY TypeParts DEF IInv, Restart
<1>2. NoFetch \in FetchType
  BY DEF NoFetch, FetchType
<1>3. FetchesType'
  BY <1>1, <1>2 DEF FetchesType, Steps
<1>4. CopiesType' /\ WorldType' /\ CacheGood' /\ IoGood'
  BY <1>1 DEF CopiesType, WorldType, CacheGood, IoGood
<1>5. GoodFetch(NoFetch, "idle", active, published, clock)
  BY <1>1 DEF GoodFetch, NoFetch, Foreign, WorldType
<1>6. FetchGood'
  BY <1>1, <1>5 DEF FetchGood
<1>7. QED
  BY <1>1, <1>3, <1>4, <1>6, CopiesStay, NoAnswerIsGood, TypeParts DEF IInv

\* How what was published, and the time, may move on.
Later(history, history2, now, now2) ==
    /\ now <= now2
    /\ \A n \in Networks :
        /\ Len(history[n]) <= Len(history2[n])
        /\ \A k \in 1..Len(history[n]) : history2[n][k] = history[n][k]
        /\ \A k \in (Len(history[n]) + 1)..Len(history2[n]) : history2[n][k] >= now

\* A copy does not get worse with time: what is published later is not older than it.
LEMMA CopyAges ==
    ASSUME NEW c \in Copy, NEW n \in Networks, NEW slack \in Nat,
           NEW history \in History, NEW history2 \in History, NEW now \in Nat, NEW now2 \in Nat,
           Later(history, history2, now, now2), GoodCopy(c, n, slack, history, now)
    PROVE  GoodCopy(c, n, slack, history2, now2)
<1>1. c.at \in Nat /\ c.fetched \in Nat /\ c.fetched <= c.at /\ c.at <= now /\ c.at <= now2
  BY DEF Copy, GoodCopy, Later
<1>2. ASSUME ~c.spanned PROVE Covers(c, n, history2)
  <2>1. SUFFICES ASSUME NEW k \in 1..Len(history2[n]), ~(history2[n][k] >= c.fetched)
                 PROVE  \/ k <= c.skipped /\ history2[n][k] + Window < c.fetched
                        \/ k > c.skipped /\ <<n, k>> \in c.has
                        \/ k > c.skipped + MaxPages
    BY DEF Covers
  <2>2. Len(history[n]) \in Nat /\ Len(history2[n]) \in Nat /\ history2[n][k] \in Nat
    BY <2>1 DEF History
  <2>3. k \in 1..Len(history[n])
    <3>1. SUFFICES ASSUME k \in (Len(history[n]) + 1)..Len(history2[n]) PROVE FALSE
      BY <2>1, <2>2
    <3>2. history2[n][k] >= now
      BY <3>1 DEF Later
    <3>3. QED
      BY <1>1, <2>1, <2>2, <3>2
  <2>4. history[n][k] = history2[n][k]
    BY <2>3 DEF Later
  <2>5. QED
    BY <1>2, <2>1, <2>3, <2>4 DEF GoodCopy, Covers
<1>3. QED
  BY <1>1, <1>2 DEF GoodCopy

\* Nor does a fetch under way.
LEMMA FetchAges ==
    ASSUME NEW x \in FetchType, NEW step, NEW n \in Networks,
           NEW history \in History, NEW history2 \in History, NEW now \in Nat, NEW now2 \in Nat,
           Later(history, history2, now, now2), GoodFetch(x, step, n, history, now)
    PROVE  GoodFetch(x, step, n, history2, now2)
<1>1. x.began \in Nat /\ x.cursor \in Nat /\ x.page \in Nat
  BY DEF FetchType
<1>2. ASSUME Walks(x, n, history, now) PROVE Walks(x, n, history2, now2)
  <2>1. Len(history[n]) \in Nat /\ Len(history2[n]) \in Nat /\ Len(history[n]) <= Len(history2[n])
    BY DEF History, Later
  <2>2. x.page <= x.cursor /\ x.cursor - x.page <= Len(history[n])
    BY <1>2 DEF Walks
  <2>3. ASSUME NEW k \in 1..(x.cursor - x.page) PROVE history2[n][k] + Window < now2
    <3>1. k \in 1..Len(history[n])
      BY <1>1, <2>1, <2>2
    <3>2. history2[n][k] = history[n][k] /\ history[n][k] \in Nat /\ now <= now2
      BY <3>1 DEF Later, History
    <3>3. history[n][k] + Window < now
      BY <1>2 DEF Walks
    <3>4. QED
      BY <3>2, <3>3
  <2>4. QED
    BY <1>1, <1>2, <2>1, <2>2, <2>3 DEF Walks
<1>3. QED
  BY <1>1, <1>2 DEF GoodFetch, Later

\* Publishing an event, or a tick, keeps the copies and the fetches.
LEMMA TimeKeeps ==
    ASSUME IInv, UNCHANGED <<active, eventCache, disk, io, pc, fetch>>, NoAnswer,
           WorldType', FewEvents', Later(published, published', clock, clock')
    PROVE  IInv'
<1>1. /\ CopiesType /\ FetchesType /\ WorldType
      /\ published \in History /\ published' \in History
      /\ clock \in Nat /\ clock' \in Nat /\ active \in Networks /\ clock <= clock'
  BY TypeParts DEF IInv, WorldType, Later
<1>2. CopiesType' /\ FetchesType'
  BY <1>1 DEF CopiesType, FetchesType
<1>3. CacheGood'
  <2>1. ASSUME eventCache # None
        PROVE  GoodCopy(eventCache, active, DiskTTL, published', clock')
    BY <1>1, <2>1, CopyAges DEF IInv, CacheGood, CopiesType
  <2>2. QED
    BY <2>1 DEF CacheGood
<1>4. DiskGood'
  <2>1. ASSUME NEW n \in Networks, disk[n] # None
        PROVE  GoodCopy(disk[n], n, 0, published', clock')
    BY <1>1, <2>1, CopyAges DEF IInv, DiskGood, CopiesType
  <2>2. QED
    BY <2>1 DEF DiskGood
<1>5. IoGood'
  <2>1. ASSUME NEW i \in DOMAIN io, io[i].copy # None
        PROVE  GoodCopy(io[i].copy, io[i].key, 0, published', clock')
    <3>1. io[i] \in [key: Networks, copy: Copy \cup {None}]
      BY <1>1, <2>1, ItemFacts DEF CopiesType
    <3>2. io[i].copy \in Copy /\ io[i].key \in Networks
      BY <2>1, <3>1
    <3>3. QED
      BY <1>1, <2>1, <3>2, CopyAges DEF IInv, IoGood
  <2>2. QED
    BY <2>1 DEF IoGood
<1>6. FetchGood'
  <2>1. ASSUME NEW f \in Fetches
        PROVE  GoodFetch(fetch[f], pc[f], active, published', clock')
    <3>1. fetch[f] \in FetchType /\ GoodFetch(fetch[f], pc[f], active, published, clock)
      BY <1>1 DEF IInv, FetchGood, FetchesType
    <3>2. QED
      BY <1>1, <3>1, FetchAges
  <2>2. QED
    BY <2>1 DEF FetchGood
<1>7. QED
  BY <1>2, <1>3, <1>4, <1>5, <1>6, NoAnswerIsGood, TypeParts DEF IInv

\* A network that published as many events as all may publish no more.
LEMMA PublishIsBounded ==
    ASSUME IInv, NEW n \in Networks,
           Cardinality({e \in Events : e[2] <= Len(published[e[1]])}) < MaxEvents
    PROVE  Len(published[n]) < MaxEvents
<1> DEFINE All == {e \in Events : e[2] <= Len(published[e[1]])}
           number == [k \in 1..MaxEvents |-> <<n, k>>]
<1>1. SUFFICES ASSUME Len(published[n]) = MaxEvents PROVE FALSE
  BY DEF IInv, FewEvents, TypeOK
<1>2. IsFiniteSet(1..MaxEvents) /\ Cardinality(1..MaxEvents) = MaxEvents
  BY FS_Interval
<1>3. IsFiniteSet(All)
  <2>1. IsFiniteSet(Events)
    BY <1>2, FS_Product DEF Events
  <2>2. All \in SUBSET Events
    OBVIOUS
  <2>3. QED
    BY <2>1, <2>2, FS_Subset
<1>4. number \in Injection(1..MaxEvents, All)
  BY <1>1 DEF Events, Injection, IsInjective
<1>5. MaxEvents <= Cardinality(All)
  BY <1>2, <1>3, <1>4, FS_Injection
<1>6. Cardinality(All) \in Nat
  BY <1>3, FS_CardinalityType
<1>7. QED
  BY <1>5, <1>6

\* A network publishes an event, at the time it is.
LEMMA PublishKeeps ==
    ASSUME IInv, NEW n \in Networks, Publish(n)
    PROVE  IInv'
<1>1. /\ WorldType /\ published' = [published EXCEPT ![n] = Append(@, clock)]
      /\ UNCHANGED <<active, eventCache, disk, io, pc, fetch, clock>> /\ NoAnswer
      /\ Len(published[n]) < MaxEvents /\ clock \in 0..MaxClock /\ published \in History
  BY TypeParts, PublishIsBounded DEF IInv, Publish, WorldType
<1>2. ASSUME NEW m \in Networks
      PROVE  /\ published[m] \in Seq(0..MaxClock) /\ published'[m] \in Seq(0..MaxClock)
             /\ published'[m] = IF m = n THEN Append(published[n], clock) ELSE published[m]
  <2>1. published[m] \in Seq(0..MaxClock)
    BY <1>1 DEF History
  <2>2. published'[m] = IF m = n THEN Append(published[n], clock) ELSE published[m]
    BY <1>1 DEF History
  <2>3. published[n] \in Seq(0..MaxClock)
    BY <1>1 DEF History
  <2>4. Append(published[n], clock) \in Seq(0..MaxClock)
    BY <1>1, <2>3
  <2>5. published'[m] \in Seq(0..MaxClock)
    BY <2>1, <2>2, <2>4
  <2>6. QED
    BY <2>1, <2>2, <2>5
<1>3. published' \in History
  BY <1>1, <1>2 DEF History
<1>4. WorldType'
  BY <1>1, <1>3 DEF WorldType
<1>5. FewEvents'
  BY <1>1, <1>2 DEF IInv, FewEvents
<1>6. Later(published, published', clock, clock')
  <2>1. ASSUME NEW m \in Networks
        PROVE  /\ Len(published[m]) <= Len(published'[m])
               /\ \A k \in 1..Len(published[m]) : published'[m][k] = published[m][k]
               /\ \A k \in (Len(published[m]) + 1)..Len(published'[m]) : published'[m][k] >= clock
    BY <1>1, <1>2
  <2>2. QED
    BY <1>1, <2>1 DEF Later
<1>7. QED
  BY <1>1, <1>4, <1>5, <1>6, TimeKeeps

\* Time passes.
LEMMA TickKeeps ==
    ASSUME IInv, Tick
    PROVE  IInv'
<1>1. /\ WorldType /\ clock' = clock + 1 /\ clock < MaxClock /\ NoAnswer
      /\ UNCHANGED <<active, eventCache, disk, io, pc, fetch, published>>
  BY TypeParts DEF IInv, Tick
<1>2. WorldType' /\ FewEvents'
  BY <1>1 DEF IInv, WorldType, FewEvents
<1>3. Later(published, published', clock, clock')
  BY <1>1 DEF WorldType, Later, History
<1>4. QED
  BY <1>1, <1>2, <1>3, TimeKeeps

-----------------------------------------------------------------------------
(* The invariant, and what follows from it. *)

\* Nothing is cached, under way or shown when the app starts.
LEMMA InitEstablishes == Init => IInv
<1>1. SUFFICES ASSUME Init PROVE IInv
  OBVIOUS
<1>2. WorldType /\ FewEvents
  BY <1>1 DEF Init, WorldType, FewEvents, History
<1>3. CopiesType /\ CacheGood /\ DiskGood /\ IoGood
  BY <1>1 DEF Init, CopiesType, CacheGood, DiskGood, IoGood
<1>4. NoFetch \in FetchType
  BY DEF NoFetch, FetchType
<1>5. FetchesType
  BY <1>1, <1>4 DEF Init, FetchesType, Steps
<1>6. GoodFetch(NoFetch, "idle", active, published, clock)
  BY <1>2 DEF GoodFetch, NoFetch, Foreign, WorldType
<1>7. FetchGood
  BY <1>1, <1>6 DEF Init, FetchGood
<1>8. answer = None /\ AnswerGood
  BY <1>1 DEF Init, AnswerGood, StalenessBounded
<1>9. TypeOK
  BY <1>2, <1>3, <1>5, <1>8
     DEF TypeOK, CopiesType, FetchesType, WorldType, Steps, FetchType, AnswerType, History
<1>10. QED
  BY <1>2, <1>3, <1>7, <1>8, <1>9 DEF IInv

\* Every step of a fetch, of storage, of the user and of the network keeps it.
LEMMA StepKeeps == IInv /\ [Next]_vars => IInv'
<1>1. SUFFICES ASSUME IInv, [Next]_vars PROVE IInv'
  OBVIOUS
<1>2. ASSUME NEW f \in Fetches,
             \/ Hit(f) \/ Begin(f) \/ Latest(f) \/ Unreachable(f) \/ NextPage(f)
             \/ Finish(f) \/ FromDisk(f) \/ Throw(f)
      PROVE  IInv'
  BY <1>1, <1>2, HitKeeps, BeginKeeps, LatestKeeps, UnreachableKeeps, NextPageKeeps,
     FinishKeeps, FromDiskKeeps, ThrowKeeps
<1>3. ASSUME NEW n \in Networks, Switch(n) \/ Publish(n) PROVE IInv'
  BY <1>1, <1>3, SwitchKeeps, PublishKeeps
<1>4. CASE Invalidate \/ Store \/ Restart \/ Tick
  BY <1>1, <1>4, InvalidateKeeps, StoreKeeps, RestartKeeps, TickKeeps
<1>5. CASE UNCHANGED vars
  BY <1>1, <1>5 DEF vars, IInv, TypeOK, CacheGood, DiskGood, IoGood, FetchGood, AnswerGood,
        StalenessBounded, FewEvents
<1>6. QED
  BY <1>1, <1>2, <1>3, <1>4, <1>5 DEF Next

\* The invariant holds of every run of the caches.
LEMMA Invariance == Spec => []IInv
BY InitEstablishes, StepKeeps, PTL DEF Spec

\* The types of the caches and of the fetches: pages stay below MAX_PAGES, and a fetch
\* that falls back to the disk knows which contract it asks for.
THEOREM CachesAreTyped == Spec => []TypeOK
<1>1. IInv => TypeOK
  BY DEF IInv
<1>2. QED
  BY <1>1, Invariance, PTL

\* Events of another network reach memory, disk or a screen only through a fetch that
\* the switch overtook.
THEOREM BleedingNeedsOverlap == Spec => []BleedNeedsOverlap
<1>1. IInv => BleedNeedsOverlap
  BY DEF IInv, CacheGood, DiskGood, AnswerGood, GoodCopy, BleedNeedsOverlap
<1>2. QED
  BY <1>1, Invariance, PTL

\* An answer that no switch overtook was fetched less than EVENT_CACHE_MS +
\* EVENT_DISK_TTL_MS before it was asked for, and has, up to the page limit, every
\* event of the EVENT_LEDGERS_WINDOW ledgers before it was fetched.
THEOREM AnswersAreFreshEnough == Spec => []StalenessBounded
<1>1. IInv => StalenessBounded
  BY DEF IInv, AnswerGood
<1>2. QED
  BY <1>1, Invariance, PTL

=============================================================================

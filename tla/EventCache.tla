----------------------------- MODULE EventCache -----------------------------
(***************************************************************************)
(* fetchContractEvents() of src/src/api/soroban-client.ts and its two      *)
(* caches: eventCache in memory (8 s) and a copy on disk per contract      *)
(* (24 h), which answers when no RPC server does.                          *)
(*                                                                         *)
(* One action per await, so that fetches interleave with each other, with  *)
(* a switch of the active network, with invalidateAllCaches() and with     *)
(* the death of the process.  The retry of one request over the fallback   *)
(* URLs is one step here: the request is answered, or throws on all of     *)
(* them.  Events are numbered per network; a page holds the next one.      *)
(* A ledger closes with each tick of the clock, on a server that answers   *)
(* with what the ledger has by then; each network numbers its own ledgers. *)
(***************************************************************************)
EXTENDS Integers, Sequences, FiniteSets

CONSTANTS
    Networks,    \* deployments the user can switch between
    Fetches,     \* calls of fetchContractEvents that may overlap
    None,        \* no cached value
    MemTTL,      \* EVENT_CACHE_MS
    DiskTTL,     \* EVENT_DISK_TTL_MS
    Window,      \* EVENT_LEDGERS_WINDOW
    MaxPages,    \* MAX_PAGES, and MAX_EVENTS
    MaxEvents,   \* bound on the events published
    MaxClock     \* bound on the clock

ASSUME NetworkAssumption == IsFiniteSet(Networks)
ASSUME TimeAssumption == MemTTL \in Nat \ {0} /\ DiskTTL \in Nat /\ MaxClock \in Nat
ASSUME PageAssumption == Window \in Nat /\ MaxPages \in Nat \ {0} /\ MaxEvents \in Nat

VARIABLES
    active,       \* the active network
    eventCache,   \* the copy in memory
    disk,         \* the copies on disk, by contract
    io,           \* storage operations not yet carried out, in order
    pc,           \* the await each fetch is suspended at
    fetch,        \* the local variables of each fetch
    answer,       \* what this step answered to a screen, if it did
    published,    \* when each event of each network was published
    clock

vars == <<active, eventCache, disk, io, pc, fetch, answer, published, clock>>

Events == Networks \X (1..MaxEvents)

\* A list of events with its date.  The other fields are history: when its last
\* page was read, how many events were older than its startLedger, and whether
\* the network was switched while it was being fetched.
Copy == [at: 0..MaxClock, fetched: 0..MaxClock, skipped: 0..MaxEvents, has: SUBSET Events,
         spanned: BOOLEAN]

NoFetch == [began |-> 0, cursor |-> 0, has |-> {}, page |-> 0, key |-> None, spanned |-> FALSE]

-----------------------------------------------------------------------------
(* Helpers. *)

Fresh(copy, ttl) == copy # None /\ clock - copy.at < ttl

\* readDiskCache's check, on what was stored under the key it asked for.
Usable_AnyAge(key) == disk[key] # None /\ key = active    \* mutant: no TTL check
Usable(key) == disk[key] # None /\ key = active /\ clock - disk[key].at <= DiskTTL

Goto(f, step) == pc' = [pc EXCEPT ![f] = step]

\* The fetch is over: its locals are gone.
Over(f) == Goto(f, "idle") /\ fetch' = [fetch EXCEPT ![f] = NoFetch]

NoAnswer == answer' = None
Answer(copy, spanned, began) ==
    answer' = [net |-> active, has |-> copy.has, fetched |-> copy.fetched,
               skipped |-> copy.skipped, spanned |-> spanned, began |-> began]

-----------------------------------------------------------------------------
(* The steps of a fetch. *)

\* A copy in memory younger than MemTTL is the answer.
Hit(f) ==
    /\ pc[f] = "idle"
    /\ Fresh(eventCache, MemTTL)
    /\ Answer(eventCache, eventCache.spanned, clock)
    /\ UNCHANGED <<active, eventCache, disk, io, pc, fetch, published, clock>>

Begin(f) ==
    /\ pc[f] = "idle"
    /\ ~Fresh(eventCache, MemTTL)
    /\ Goto(f, "latest")
    /\ fetch' = [fetch EXCEPT ![f].began = clock]
    /\ UNCHANGED <<active, eventCache, disk, io, published, clock>>
    /\ NoAnswer

\* getLatestLedger: the first page starts a window of ledgers before the latest, at
\* the earliest with the first ledger.
startLedger == IF clock > Window THEN clock - Window ELSE 0

Precede(p, ledger) ==    \* the events before that ledger are the first p
    \A k \in 1..Len(published[active]) : k <= p <=> published[active][k] < ledger

Latest(f) ==
    /\ pc[f] = "latest"
    /\ Goto(f, "page")
    /\ \E p \in 0..Len(published[active]) :
          /\ Precede(p, startLedger)
          /\ fetch' = [fetch EXCEPT ![f].cursor = p]
    /\ UNCHANGED <<active, eventCache, disk, io, published, clock>>
    /\ NoAnswer

\* A request threw on every URL: the pages are given up, and the disk is asked for
\* the copy of the contract that is active now.
Unreachable_NoKey(f) ==    \* mutant: the contract is not looked up
    /\ pc[f] \in {"latest", "page"}
    /\ Goto(f, "disk")
    /\ UNCHANGED <<active, eventCache, disk, io, fetch, published, clock>>
    /\ NoAnswer
Unreachable(f) ==
    /\ pc[f] \in {"latest", "page"}
    /\ Goto(f, "disk")
    /\ fetch' = [fetch EXCEPT ![f] = [@ EXCEPT !.cursor = 0, !.has = {}, !.page = 0,
                                              !.key = active]]
    /\ UNCHANGED <<active, eventCache, disk, io, published, clock>>
    /\ NoAnswer

\* One page of getEvents, of the network that is active at this moment, from
\* startLedger or the cursor of the page before.
NextEvent(f) == fetch[f].cursor + 1
LastPage(f)  == NextEvent(f) > Len(published[active]) \/ fetch[f].page + 1 = MaxPages
Got(f) == fetch[f].has \cup (IF NextEvent(f) <= Len(published[active])
                             THEN {<<active, NextEvent(f)>>} ELSE {})

Skipped(f) == IF fetch[f].spanned THEN 0 ELSE fetch[f].cursor - fetch[f].page

NextPage(f) ==
    /\ pc[f] = "page" /\ ~LastPage(f)
    /\ fetch' = [fetch EXCEPT ![f].has = Got(f), ![f].cursor = @ + 1, ![f].page = @ + 1]
    /\ UNCHANGED <<active, eventCache, disk, io, pc, published, clock>>
    /\ NoAnswer

\* The last page fills the copy in memory and starts a write of the copy on disk,
\* under the contract that is active now.
Finish(f) ==
    /\ pc[f] = "page" /\ LastPage(f)
    /\ LET copy == [at |-> clock, fetched |-> clock, skipped |-> Skipped(f), has |-> Got(f),
                    spanned |-> fetch[f].spanned] IN
       /\ eventCache' = copy
       /\ io' = Append(io, [key |-> active, copy |-> copy])
       /\ Answer(copy, copy.spanned, fetch[f].began)
    /\ Over(f)
    /\ UNCHANGED <<active, disk, published, clock>>

\* readDiskCache answers: a usable copy becomes the copy in memory, dated now.
FromDisk(f) ==
    /\ pc[f] = "disk"
    /\ Usable(fetch[f].key)
    /\ LET copy == disk[fetch[f].key] IN
       /\ eventCache' = [copy EXCEPT !.at = clock]
       /\ Answer(copy, copy.spanned \/ fetch[f].spanned, fetch[f].began)
    /\ Over(f)
    /\ UNCHANGED <<active, disk, io, published, clock>>

\* Nothing usable on disk: SorobanNetworkError.
Throw(f) ==
    /\ pc[f] = "disk"
    /\ ~Usable(fetch[f].key)
    /\ Over(f)
    /\ UNCHANGED <<active, eventCache, disk, io, published, clock>>
    /\ NoAnswer

-----------------------------------------------------------------------------
(* What happens around the fetches. *)

\* A switch of the network overtakes the fetches under way: they go on with the other
\* network, where their startLedger or cursor may lie anywhere.
Overtaken ==
    \E p \in [{f \in Fetches : pc[f] = "page"} -> 0..MaxEvents] :
        fetch' = [f \in Fetches |->
                     [fetch[f] EXCEPT !.spanned = pc[f] # "idle",
                                      !.cursor = IF pc[f] = "page" THEN p[f] ELSE @]]

\* The user switches the network; subscribeActiveNetwork drops eventCache.
Switch_KeepsCache(n) ==    \* mutant: not subscribed
    /\ n # active
    /\ active' = n
    /\ Overtaken
    /\ UNCHANGED <<eventCache, disk, io, pc, published, clock>>
    /\ NoAnswer
Switch(n) ==
    /\ n # active
    /\ active' = n
    /\ eventCache' = None
    /\ Overtaken
    /\ UNCHANGED <<disk, io, pc, published, clock>>
    /\ NoAnswer

\* invalidateAllCaches(), after a wake-up.
Invalidate ==
    /\ eventCache' = None
    /\ io' = Append(io, [key |-> active, copy |-> None])
    /\ UNCHANGED <<active, disk, pc, fetch, published, clock>>
    /\ NoAnswer

\* Storage carries out the oldest operation, or fails to (both swallow errors).
Store ==
    /\ io # <<>>
    /\ io' = Tail(io)
    /\ disk' \in {disk, [disk EXCEPT ![Head(io).key] = Head(io).copy]}
    /\ UNCHANGED <<active, eventCache, pc, fetch, published, clock>>
    /\ NoAnswer

\* The process dies: memory and unfinished storage operations are lost.
Restart ==
    /\ eventCache' = None
    /\ io' = <<>>
    /\ pc' = [f \in Fetches |-> "idle"]
    /\ fetch' = [f \in Fetches |-> NoFetch]
    /\ UNCHANGED <<active, disk, published, clock>>
    /\ NoAnswer

Publish(n) ==
    /\ Cardinality({e \in Events : e[2] <= Len(published[e[1]])}) < MaxEvents
    /\ published' = [published EXCEPT ![n] = Append(@, clock)]
    /\ UNCHANGED <<active, eventCache, disk, io, pc, fetch, clock>>
    /\ NoAnswer

Tick ==
    /\ clock < MaxClock
    /\ clock' = clock + 1
    /\ UNCHANGED <<active, eventCache, disk, io, pc, fetch, published>>
    /\ NoAnswer

-----------------------------------------------------------------------------

MaxIo == 1    \* bound on the storage operations under way

Init ==
    /\ active \in Networks
    /\ eventCache = None
    /\ disk = [n \in Networks |-> None]
    /\ io = <<>>
    /\ pc = [f \in Fetches |-> "idle"]
    /\ fetch = [f \in Fetches |-> NoFetch]
    /\ answer = None
    /\ published = [n \in Networks |-> <<>>]
    /\ clock = 0

Next ==
    \/ \E f \in Fetches :
        \/ Hit(f) \/ Begin(f) \/ Latest(f) \/ Unreachable(f) \/ NextPage(f)
        \/ Len(io) < MaxIo /\ Finish(f)
        \/ FromDisk(f) \/ Throw(f)
    \/ \E n \in Networks : Switch(n) \/ Publish(n)
    \/ Len(io) < MaxIo /\ Invalidate
    \/ Store \/ Restart \/ Tick

Spec == Init /\ [][Next]_vars

-----------------------------------------------------------------------------
(* Properties. *)

Foreign(copy, n) == \E e \in copy.has : e[1] # n

\* Type invariant of the caches and of the fetches under way.
TypeOK ==
    /\ active \in Networks
    /\ eventCache \in Copy \cup {None}
    /\ disk \in [Networks -> Copy \cup {None}]
    /\ io \in Seq([key: Networks, copy: Copy \cup {None}])
    /\ pc \in [Fetches -> {"idle", "latest", "page", "disk"}]
    /\ fetch \in [Fetches -> [began: 0..MaxClock, cursor: 0..MaxEvents, has: SUBSET Events,
                              page: 0..(MaxPages - 1), key: Networks \cup {None},
                              spanned: BOOLEAN]]
    /\ \A f \in Fetches : pc[f] = "disk" => fetch[f].key \in Networks
    /\ answer \in {None} \cup [net: Networks, has: SUBSET Events, fetched: 0..MaxClock,
                            skipped: 0..MaxEvents, spanned: BOOLEAN, began: 0..MaxClock]
    /\ published \in [Networks -> Seq(0..MaxClock)]
    /\ clock \in 0..MaxClock

\* Events of another network reach a cache or a screen only through a fetch
\* that the switch overtook: never from a cache filled before it.
BleedNeedsOverlap ==
    /\ eventCache # None /\ Foreign(eventCache, active) => eventCache.spanned
    /\ \A n \in Networks : disk[n] # None /\ Foreign(disk[n], n) => disk[n].spanned
    /\ answer # None /\ Foreign(answer, answer.net) => answer.spanned

\* What an answer that no switch overtook is worth: it was fetched less than MemTTL +
\* DiskTTL before it was asked for (although a copy from disk is dated anew when it
\* enters memory), and up to the page limit it has every event that was published
\* before it was fetched, except those that were out of the window by then.
StalenessBounded ==
    answer # None /\ ~answer.spanned =>
        /\ answer.began < answer.fetched + MemTTL + DiskTTL
        /\ \A k \in 1..Len(published[answer.net]) :
               \/ published[answer.net][k] >= answer.fetched
               \/ k <= answer.skipped /\ published[answer.net][k] + Window < answer.fetched
               \/ k > answer.skipped /\ <<answer.net, k>> \in answer.has
               \/ k > answer.skipped + MaxPages

\* The comment on the subscription: a switch does not bleed the events of one
\* network into the History tab of the other.  The code does not keep this, and
\* no run lists it; BleedNeedsOverlap is what does hold (README, section 5).
NoBleed == eventCache # None => ~Foreign(eventCache, active)
=============================================================================

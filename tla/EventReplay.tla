---------------------------- MODULE EventReplay -----------------------------
(***************************************************************************)
(* How the app rebuilds vaults from contract events when it cannot call    *)
(* get_vault (src/src/api/soroban-client.ts): parseEvent, the page loop of *)
(* fetchContractEvents and the replay of aggregateVaultsFromEvents, over   *)
(* the events that the contract of XlmVault publishes.                     *)
(*                                                                         *)
(* The contract publishes one event per successful call but init; the host *)
(* discards those of a failed call.  An RPC server pages them out in the   *)
(* order of the ledger, from the oldest it retains.  The unlock time goes  *)
(* through the event's note, a calendar day: it is cut to the day, and is  *)
(* 0 outside the years the parser believes.                                *)
(***************************************************************************)
EXTENDS XlmVault, FiniteSetsExt

CONSTANTS
    Page,         \* EVENT_PAGE_LIMIT (200)
    MaxEvents,    \* MAX_EVENTS (1000)
    MaxPages,     \* MAX_PAGES (20)
    DaySeconds,   \* 86400
    KnownDates,   \* timestamps of the years 2020 to 2100
    MaxDate,      \* the last timestamp a Date can format
    MaxLog        \* bound on the events published

ASSUME PageAssumption == {Page, MaxEvents, MaxPages, DaySeconds} \subseteq Nat \ {0}
ASSUME DateAssumption == KnownDates \subseteq 0..MaxTs /\ MaxDate \in Nat /\ MaxLog \in Nat

VARIABLE log    \* the events of the contract, oldest first

replayVars == <<vars, log>>

-----------------------------------------------------------------------------
(* The contract, publishing. *)

KindOf == [create_vault |-> "create", deposit |-> "deposit",
           extend_lock |-> "extend", withdraw |-> "withdraw"]

\* The event of the call that just returned Ok; `unlock' is what create and
\* extend publish.
Event(r, v) == [kind |-> KindOf[r.call], owner |-> r.by, id |-> r.id, at |-> now,
                amount |-> IF r.call = "create_vault" THEN v.balance ELSE r.value,
                unlock |-> v.unlock]

\* The calls that publish.  Those that fail publish nothing and move nothing,
\* and neither does a payment: they are left out.
Publish(c) ==
    /\ Len(log) < MaxLog
    /\ \/ \E a \in AmountArgs, u \in 0..MaxTs : create_vault(c, a, u)
       \/ \E id \in Ids :
            \/ \E a \in AmountArgs : deposit(c, id, a)
            \/ \E s \in 0..MaxTs : extend_lock(c, id, s)
            \/ withdraw(c, id)
    /\ result'.outcome = "Ok"
    /\ log' = Append(log, Event(result', vaults'[result'.id]))

ReplayNext ==
    \/ \E c \in Owners : Publish(c)
    \/ token = NoToken /\ (\E c \in Owners, t \in Tokens : init(c, t)) /\ UNCHANGED log
    \/ Tick /\ UNCHANGED log

ReplaySpec == Init /\ log = <<>> /\ [][ReplayNext]_replayVars

-----------------------------------------------------------------------------
(* The app, reading. *)

\* The page loop stops at the first page that reaches MaxEvents, or at MaxPages.
FetchLimit == Page * Min({MaxPages, (MaxEvents + Page - 1) \div Page})

\* What fetchContractEvents returns when the server retains all but s events.
Fetched(s) == SubSeq(log, s + 1, Min({Len(log), s + FetchLimit}))

\* parseEvent formats unlock times; beyond MaxDate it throws, and the fetch with it.
Parses(events) == \A i \in DOMAIN events :
                      events[i].kind \in {"create", "extend"} => events[i].unlock <= MaxDate

\* From the u64 to the note and back (parseEvent, dateNoteToSec).
NoteToSec_Kept(t) == t    \* mutant: not cut to the day
NoteToSec(t) == IF t \in KnownDates THEN t - (t % DaySeconds) ELSE 0

Seed(e) == [balance |-> 0, unlock |-> NoteToSec(e.unlock),
            created |-> e.at, withdrawn |-> FALSE]

\* One event on the accumulator of its vault.
Applied(v, e) ==
    CASE e.kind \in {"create", "deposit"} -> [v EXCEPT !.balance = @ + e.amount]
      [] e.kind = "extend"   -> [v EXCEPT !.unlock =
                                     IF NoteToSec(e.unlock) > @ THEN NoteToSec(e.unlock) ELSE @]
      [] e.kind = "withdraw" -> [v EXCEPT !.balance = 0, !.withdrawn = TRUE]

\* A vault is seeded by its create event; events before that are skipped.
ReplayStep_SeedsAny(byId, e) ==    \* mutant: any first event seeds a vault
    [i \in DOMAIN byId \cup {e.id} |->
        IF i # e.id THEN byId[i]
        ELSE Applied(IF i \in DOMAIN byId THEN byId[i] ELSE Seed(e), e)]
ReplayStep(byId, e) ==
    IF e.id \notin DOMAIN byId /\ e.kind # "create" THEN byId
    ELSE [i \in DOMAIN byId \cup {e.id} |->
             IF i # e.id THEN byId[i]
             ELSE Applied(IF i \in DOMAIN byId THEN byId[i] ELSE Seed(e), e)]

\* aggregateVaultsFromEvents: the loop over one owner's events; byId[i] is what it
\* has built from the first i.  The sort by timestamp keeps the order of the ledger.
Aggregate(o, events) ==
    LET byId[i \in 0..Len(events)] ==
            IF i = 0 THEN [j \in {} |-> {}]
            ELSE IF events[i].owner # o THEN byId[i - 1]
            ELSE ReplayStep(byId[i - 1], events[i])
    IN  byId[Len(events)]

-----------------------------------------------------------------------------
(* Properties, for every retention window that an RPC server may have. *)

\* The number of events a server may already have dropped.
Windows == {s \in 0..Len(log) : Parses(Fetched(s))}

\* The vaults whose create event the app is shown.
Visible(o, s) == {Fetched(s)[i].id : i \in
                    {j \in DOMAIN Fetched(s) : Fetched(s)[j].kind = "create" /\ Fetched(s)[j].owner = o}}

\* Type invariant of the event log.
ReplayTypeOK ==
    log \in Seq([kind: {"create", "deposit", "extend", "withdraw"}, owner: Owners,
                 id: Ids, at: 0..MaxTs, amount: Nat, unlock: 0..MaxTs])

\* Whatever the window, replay shows an owner exactly the vaults whose creation
\* it can see, and when no newer event was cut off, with the balance and the
\* withdrawn flag that the contract stores.
ReplayMatchesChain ==
    \A s \in Windows, o \in Owners :
        /\ DOMAIN Aggregate(o, Fetched(s)) = Visible(o, s)
        /\ s + FetchLimit >= Len(log) =>
              \A id \in Visible(o, s) :
                  /\ vaults[id].owner = o
                  /\ Aggregate(o, Fetched(s))[id].balance = vaults[id].balance
                  /\ Aggregate(o, Fetched(s))[id].withdrawn = vaults[id].withdrawn

\* The unlock day shown is the day of the real unlock time (or an earlier one,
\* when the real one is out of the parser's years): never a later day.
ReplayKeepsUnlockDay ==
    \A s \in Windows, o \in Owners :
        s + FetchLimit >= Len(log) =>
            \A id \in Visible(o, s) :
                LET shown == Aggregate(o, Fetched(s))[id].unlock IN
                /\ vaults[id].unlock \in KnownDates =>
                       shown = vaults[id].unlock - (vaults[id].unlock % DaySeconds)
                /\ shown <= vaults[id].unlock

\* The comment on dateNoteToSec: the raw unlock time is carried through, the
\* note is only a last resort, so a vault is not shown open before it is.  The
\* code does not keep this, and no run lists it (README, section 5).
ReplayUnlockExact ==
    \A s \in Windows, o \in Owners :
        s + FetchLimit >= Len(log) =>
            \A id \in Visible(o, s) :
                vaults[id].unlock \in KnownDates =>
                    Aggregate(o, Fetched(s))[id].unlock = vaults[id].unlock
=============================================================================

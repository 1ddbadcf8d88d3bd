--------------------------- MODULE InvokePipeline ---------------------------
(***************************************************************************)
(* invokeContract() of src/src/api/soroban-client.ts: the pipeline every   *)
(* write of the app goes through (build, simulate, assemble, sign, send,   *)
(* poll), and recheckTransaction(), which asks again about a transaction   *)
(* the pipeline gave up on.                                                *)
(*                                                                         *)
(* One action per await: a call in flight yields to the other calls of the *)
(* app, to the network and to time exactly there.  The chain is external:  *)
(* several RPC servers that lag behind one ledger, a queue of transactions *)
(* waiting for it, sequence numbers and the 60 s time bound.               *)
(*                                                                         *)
(* Arguments of a call are left out, so a transaction is its method, its   *)
(* sequence number and the time it was built: two calls that agree on the  *)
(* three build the same envelope, hence the same hash.                     *)
(***************************************************************************)
EXTENDS Integers, Sequences

CONSTANTS
    Attempts,       \* calls of createVault / deposit / withdraw
    Methods,        \* what they invoke
    N,              \* RPC URLs: the primary one and its fallbacks
    PollAttempts,   \* POLL_ATTEMPTS (30 in the code)
    Lifetime,       \* setTimeout(60), in ticks of the clock
    MaxClock        \* bound on the clock

ASSUME MethodAssumption == Methods \subseteq {"create_vault", "deposit", "withdraw"}
ASSUME NumberAssumption == N \in Nat \ {0} /\ PollAttempts \in Nat \ {0}
ASSUME ClockAssumption  == Lifetime \in Nat /\ MaxClock \in Nat

VARIABLES
    pc,        \* the await each call is suspended at
    server,    \* the server each call captured when it started
    tries,     \* loadAccount: attempts made
    polls,     \* getTransaction: attempts made
    tx,        \* the transaction each call has built
    outcome,   \* how each call ended
    receipt,   \* the status last put on the receipt bus, by transaction
    current,   \* rpc-failover: the URL in use
    ledger,    \* the account's transactions that landed, in order
    height,    \* how much of the ledger each server has seen
    queue,     \* transactions waiting for a ledger
    accepted,  \* history: transactions a server ever took in
    clock

client == <<pc, server, tries, polls, tx, outcome, receipt, current>>
chain  == <<ledger, height, queue, accepted, clock>>
vars   == <<client, chain>>

Servers == 1..N
Txs     == [method: Methods, seq: Nat, built: 0..MaxClock]
NoTx    == [method |-> "none", seq |-> 0, built |-> 0]

\* Every way a call can end: "ok" or the error class thrown, with its phase.
Outcomes == {"running", "ok", "NetworkBuild", "NetworkSimulate", "Simulation",
             "NotConnected", "Sign", "NetworkSend", "SendError", "Duplicate",
             "OnChain", "PollTimeout", "NoValue", "ReadFailed"}

\* The errors that tell the user that nothing happened on chain.
Refusals == {"NetworkBuild", "NetworkSimulate", "Simulation", "NotConnected",
             "Sign", "SendError", "OnChain"}

-----------------------------------------------------------------------------
(* The chain, as the servers show it. *)

\* Does the vault contract accept the method after the first h landings?  A
\* withdrawn vault takes neither a deposit nor another withdraw.
Accepts(m, h) ==
    m = "create_vault" \/ ~ \E i \in 1..h : ledger[i].ok /\ ledger[i].tx.method = "withdraw"

Expired(t) == clock > t.built + Lifetime
Landed(t)  == \E i \in DOMAIN ledger : ledger[i].tx = t
Failed(t)  == \E i \in DOMAIN ledger : ledger[i].tx = t /\ ~ledger[i].ok

\* getTransaction: what server s knows of t.
Status(s, t) ==
    IF \E i \in 1..height[s] : ledger[i].tx = t
    THEN IF Failed(t) THEN "FAILED" ELSE "SUCCESS"
    ELSE "NOT_FOUND"

\* A ledger closes with a queued transaction whose turn and time it is.
Close(t) ==
    /\ t \in queue /\ t.seq = Len(ledger) + 1 /\ ~Expired(t)
    /\ ledger' = Append(ledger, [tx |-> t, ok |-> Accepts(t.method, Len(ledger))])
    /\ queue' = queue \ {t}
    /\ UNCHANGED <<client, height, accepted, clock>>

\* The network forgets a queued transaction (fee pressure, time bound).
Drop(t) ==
    /\ t \in queue
    /\ queue' = queue \ {t}
    /\ UNCHANGED <<client, ledger, height, accepted, clock>>

CatchUp(s) ==
    /\ height[s] < Len(ledger)
    /\ height' = [height EXCEPT ![s] = @ + 1]
    /\ UNCHANGED <<client, ledger, queue, accepted, clock>>

Tick ==
    /\ clock < MaxClock
    /\ clock' = clock + 1
    /\ UNCHANGED <<client, ledger, height, queue, accepted>>

-----------------------------------------------------------------------------
(* Helpers of the pipeline. *)

At(a, step)   == pc[a] = step
Goto(a, step) == pc' = [pc EXCEPT ![a] = step]
Ended(a, how) == Goto(a, "done") /\ outcome' = [outcome EXCEPT ![a] = how]
Emit(t, s)    == receipt' = [u \in DOMAIN receipt \cup {t} |->
                                IF u = t THEN s ELSE receipt[u]]

Pending(t)    == t \in DOMAIN receipt /\ receipt[t] = "pending"

\* throw: the call ends with no receipt.
Throw_NoOutcome(a, how) ==    \* mutant: swallows the error
    Goto(a, "done") /\ UNCHANGED <<outcome, server, tries, polls, tx, receipt>>
Throw(a, how) == Ended(a, how) /\ UNCHANGED <<server, tries, polls, tx, receipt>>

-----------------------------------------------------------------------------
(* The steps of a call. *)

\* invokeContract(): `const server = rpcServer()' keeps the URL of this moment.
Start(a) ==
    /\ At(a, "idle")
    /\ Goto(a, "build")
    /\ server' = [server EXCEPT ![a] = current]
    /\ UNCHANGED <<tries, polls, tx, outcome, receipt, current, chain>>

\* loadAccount(): a transport error rotates the URL and tries again, once per
\* URL; any other error, and the last one, end the call.
Build(a, m) ==
    /\ At(a, "build")
    /\ UNCHANGED chain
    /\ \/ /\ tx' = [tx EXCEPT ![a] =
                       [method |-> m, seq |-> height[current] + 1, built |-> clock]]
          /\ Goto(a, "simulate")
          /\ UNCHANGED <<server, tries, polls, outcome, receipt, current>>
       \/ /\ tries[a] + 1 < N
          /\ tries' = [tries EXCEPT ![a] = @ + 1]
          /\ current' = (current % N) + 1
          /\ UNCHANGED <<pc, server, polls, tx, outcome, receipt>>
       \/ Throw(a, "NetworkBuild") /\ UNCHANGED current

\* simulateTransaction on the captured server, then assembleTransaction.
Simulate(a) ==
    /\ At(a, "simulate")
    /\ UNCHANGED <<current, chain>>
    /\ \/ Throw(a, "NetworkSimulate")
       \/ Throw(a, "Simulation")
       \/ /\ Accepts(tx[a].method, height[server[a]])
          /\ Goto(a, "sign")
          /\ UNCHANGED <<server, tries, polls, tx, outcome, receipt>>

\* loadSigningKeypair, sign, wipeKeypair.
Sign(a) ==
    /\ At(a, "sign")
    /\ UNCHANGED <<current, chain>>
    /\ \/ Throw(a, "NotConnected")
       \/ Throw(a, "Sign")
       \/ /\ Goto(a, "send")
          /\ UNCHANGED <<server, tries, polls, tx, outcome, receipt>>

\* What the network does with t: a server takes it in when it looks valid there.
TakenIn(s, t) ==
    /\ t.seq = height[s] + 1 /\ ~Expired(t)
    /\ queue' = queue \cup {t}
    /\ accepted' = accepted \cup {t}
    /\ UNCHANGED <<ledger, height, clock>>

\* sendTransaction threw: the request or the answer was lost.
SendThrows_AsSendError(a) ==    \* mutant: classified as a rejected submission
    /\ At(a, "send")
    /\ TakenIn(server[a], tx[a]) \/ UNCHANGED chain
    /\ Throw(a, "SendError") /\ UNCHANGED current
SendThrows(a) ==
    /\ At(a, "send")
    /\ TakenIn(server[a], tx[a]) \/ UNCHANGED chain
    /\ Throw(a, "NetworkSend") /\ UNCHANGED current

\* ERROR or DUPLICATE: the call ends.
SendRejected(a) ==
    /\ At(a, "send")
    /\ \/ Throw(a, "SendError")
       \/ tx[a] \in queue /\ Throw(a, "Duplicate")
    /\ UNCHANGED <<current, chain>>

\* Any other status goes on to poll: PENDING, and TRY_AGAIN_LATER, with which
\* a server whose queue is busy declines the transaction.
SendPending(a) ==
    /\ At(a, "send")
    /\ TakenIn(server[a], tx[a])
    /\ Goto(a, "poll")
    /\ UNCHANGED <<server, tries, polls, tx, outcome, receipt, current>>

SendTryAgainLater(a) ==
    /\ At(a, "send")
    /\ Goto(a, "poll")
    /\ UNCHANGED <<server, tries, polls, tx, outcome, receipt, current, chain>>

\* One round of the poll loop; a request that throws counts as NOT_FOUND.
PollAgain(a) ==
    /\ At(a, "poll") /\ polls[a] + 1 < PollAttempts
    /\ polls' = [polls EXCEPT ![a] = @ + 1]
    /\ UNCHANGED <<pc, server, tries, tx, outcome, receipt, current, chain>>

PollAnswers_NotFoundFails(a) ==    \* mutant: NOT_FOUND is taken for FAILED
    /\ At(a, "poll")
    /\ UNCHANGED <<server, tries, polls, tx, current, chain>>
    /\ \/ /\ Status(server[a], tx[a]) = "SUCCESS"
          /\ Emit(tx[a], "success") /\ Goto(a, "read") /\ UNCHANGED outcome
       \/ /\ Status(server[a], tx[a]) # "SUCCESS"
          /\ Emit(tx[a], "failed") /\ Ended(a, "OnChain")
PollAnswers(a) ==
    /\ At(a, "poll")
    /\ UNCHANGED <<server, tries, polls, tx, current, chain>>
    /\ \/ /\ Status(server[a], tx[a]) = "SUCCESS"
          /\ Emit(tx[a], "success") /\ Goto(a, "read") /\ UNCHANGED outcome
       \/ /\ Status(server[a], tx[a]) = "FAILED"
          /\ Emit(tx[a], "failed") /\ Ended(a, "OnChain")

PollGivesUp_Silently(a) ==    \* mutant: the pending receipt is not emitted
    /\ At(a, "poll") /\ polls[a] + 1 = PollAttempts
    /\ Ended(a, "PollTimeout")
    /\ UNCHANGED <<server, tries, polls, tx, receipt, current, chain>>
PollGivesUp(a) ==
    /\ At(a, "poll") /\ polls[a] + 1 = PollAttempts
    /\ Emit(tx[a], "pending") /\ Ended(a, "PollTimeout")
    /\ UNCHANGED <<server, tries, polls, tx, current, chain>>

\* createVault, deposit and withdraw read the vault back after the write: the
\* id may be missing, and getVault may throw.
Read(a) ==
    /\ At(a, "read")
    /\ \/ Ended(a, "ok")
       \/ tx[a].method = "create_vault" /\ Ended(a, "NoValue")
       \/ Ended(a, "ReadFailed")
    /\ UNCHANGED <<server, tries, polls, tx, receipt, current, chain>>

\* recheckTransaction(), from the banner of a pending receipt: it asks the
\* server of the moment and emits only what is final.
Recheck_SuccessOnly(t) ==    \* mutant: FAILED is not reported
    /\ Pending(t)
    /\ Status(current, t) = "SUCCESS" /\ Emit(t, "success")
    /\ UNCHANGED <<pc, server, tries, polls, tx, outcome, current, chain>>
Recheck_AnySuccess(t) ==    \* mutant: whatever is found is a success
    /\ Pending(t)
    /\ Status(current, t) # "NOT_FOUND" /\ Emit(t, "success")
    /\ UNCHANGED <<pc, server, tries, polls, tx, outcome, current, chain>>
Recheck(t) ==
    /\ Pending(t)
    /\ \/ Status(current, t) = "SUCCESS" /\ Emit(t, "success")
       \/ Status(current, t) = "FAILED" /\ Emit(t, "failed")
    /\ UNCHANGED <<pc, server, tries, polls, tx, outcome, current, chain>>

-----------------------------------------------------------------------------

Init ==
    /\ pc = [a \in Attempts |-> "idle"]
    /\ server = [a \in Attempts |-> 1]
    /\ tries = [a \in Attempts |-> 0]
    /\ polls = [a \in Attempts |-> 0]
    /\ tx = [a \in Attempts |-> NoTx]
    /\ outcome = [a \in Attempts |-> "running"]
    /\ current = 1
    /\ ledger = <<>>
    /\ height = [s \in Servers |-> 0]
    /\ queue = {} /\ accepted = {}
    /\ clock = 0
    /\ receipt = [t \in {} |-> "none"]

Call(a) ==
    \/ Start(a)
    \/ \E m \in Methods : Build(a, m)
    \/ Simulate(a) \/ Sign(a)
    \/ SendThrows(a) \/ SendRejected(a) \/ SendPending(a) \/ SendTryAgainLater(a)
    \/ PollAgain(a) \/ PollAnswers(a) \/ PollGivesUp(a)
    \/ Read(a)

\* Every call has ended and nothing is left that could change what it did.
Quiet ==
    /\ \A a \in Attempts : At(a, "done")
    /\ queue = {} /\ clock = MaxClock /\ height = [s \in Servers |-> Len(ledger)]
    /\ UNCHANGED vars

Next ==
    \/ \E a \in Attempts : Call(a)
    \/ \E t \in DOMAIN receipt : Recheck(t)
    \/ \E t \in queue : Close(t) \/ Drop(t)
    \/ \E s \in Servers : CatchUp(s)
    \/ Tick
    \/ Quiet

Spec == Init /\ [][Next]_vars

(***************************************************************************)
(* Every await of a call settles (a request is answered or throws), a      *)
(* server catches up with the ledger, and the user of a pending banner     *)
(* keeps asking until the answer is final.  Starting a call, landing and   *)
(* dropping are not fair: nothing makes them happen.                       *)
(***************************************************************************)
Fairness ==
    /\ \A a \in Attempts : WF_vars(Call(a) /\ ~At(a, "idle"))
    /\ \A s \in Servers : WF_vars(CatchUp(s))
    /\ \A a \in Attempts : SF_vars(Recheck(tx[a]))

FairSpec == Spec /\ Fairness

-----------------------------------------------------------------------------
(* Properties. *)

\* Type invariant of the calls in flight and of the chain they talk to.
TypeOK ==
    /\ pc \in [Attempts -> {"idle", "build", "simulate", "sign", "send", "poll", "read", "done"}]
    /\ server \in [Attempts -> Servers] /\ current \in Servers
    /\ tries \in [Attempts -> 0..(N - 1)]
    /\ polls \in [Attempts -> 0..(PollAttempts - 1)]
    /\ tx \in [Attempts -> Txs \cup {NoTx}]
    /\ outcome \in [Attempts -> Outcomes]
    /\ \A a \in Attempts : At(a, "done") <=> outcome[a] # "running"
    /\ DOMAIN receipt \subseteq Txs
    /\ \A t \in DOMAIN receipt : receipt[t] \in {"success", "failed", "pending"}
    /\ ledger \in Seq([tx: Txs, ok: BOOLEAN])
    /\ height \in [Servers -> 0..Len(ledger)]
    /\ queue \subseteq accepted /\ accepted \subseteq Txs
    /\ clock \in 0..MaxClock

\* soroban-errors.ts: after a preflight, signing, rejected-submission or
\* on-chain failure nothing was moved.  Whatever took effect belongs to a call
\* that did not end that way (a twin with the same hash may well have).
RefusedHadNoEffect ==
    \A i \in DOMAIN ledger : ledger[i].ok =>
        \E a \in Attempts : tx[a] = ledger[i].tx /\ outcome[a] \notin Refusals

\* A transaction that landed is on the receipt bus once its calls have ended,
\* so the user can see it; only a lost answer to sendTransaction can hide it.
LandedIsReported ==
    \A i \in DOMAIN ledger :
        LET callers == {a \in Attempts : tx[a] = ledger[i].tx}
        IN  (\A a \in callers : At(a, "done")) =>
                \/ ledger[i].tx \in DOMAIN receipt
                \/ \E a \in callers : outcome[a] = "NetworkSend"

\* A final receipt says what the ledger says, whichever of the pipeline and
\* recheckTransaction put it there, and however far its server lags behind.
ReceiptsTellTruth ==
    \A t \in DOMAIN receipt :
        /\ receipt[t] = "success" => Landed(t) /\ ~Failed(t)
        /\ receipt[t] = "failed"  => Failed(t)

\* A pending receipt of a transaction that has landed gets its final status
\* from the banner's recheck, on whichever URL is in use.
PendingSettles ==
    \A a \in Attempts : (Pending(tx[a]) /\ Landed(tx[a])) ~> ~Pending(tx[a])

\* soroban-errors.ts on PollTimeoutError, and the pending receipt: the
\* transaction was submitted and may still finalize.
PendingWasSubmitted == \A t \in DOMAIN receipt : receipt[t] = "pending" => t \in accepted
=============================================================================

------------------------ MODULE InvokePipelineProofs ------------------------
(***************************************************************************)
(* Proofs, for any number of calls, servers and polls and any clock, of    *)
(* the safety properties of InvokePipeline.                                *)
(*                                                                         *)
(* A refusal is believed because a transaction that landed has a caller    *)
(* that came past sendTransaction (AcceptedHasCaller), and of the errors   *)
(* thrown there only the on-chain one is a refusal, for a transaction that *)
(* failed (OnChainFailed); that it cannot also have succeeded is due to    *)
(* the sequence numbers, which let a transaction land once (SeqInOrder).   *)
(***************************************************************************)
EXTENDS InvokePipeline, TLAPS

USE MethodAssumption, NumberAssumption, ClockAssumption

Steps == {"idle", "build", "simulate", "sign", "send", "poll", "read", "done"}

\* The ends that only a call that came past sendTransaction has.
SentEnds == {"ok", "NetworkSend", "OnChain", "PollTimeout", "NoValue", "ReadFailed"}

\* Does call a have sendTransaction behind it?
CameThrough(a) == pc[a] \in {"poll", "read"} \/ outcome[a] \in SentEnds

\* From the simulation on, a call has a transaction.
HasTx == \A a \in Attempts :
    pc[a] \in {"simulate", "sign", "send", "poll", "read"} => tx[a] \in Txs

\* The ledger takes the account's transactions in the order of their numbers.
SeqInOrder == \A i \in DOMAIN ledger : ledger[i].tx.seq = i

\* Only what a server took in lands.
LandedWasAccepted == \A i \in DOMAIN ledger : ledger[i].tx \in accepted

\* Only calls submit, and a call builds no other transaction after it submitted.
AcceptedHasCaller == \A t \in accepted : \E a \in Attempts : tx[a] = t /\ CameThrough(a)

\* A call that is told what became of its transaction, or stops asking, has put
\* it on the receipt bus.
ToldIsReported == \A a \in Attempts :
    pc[a] = "read" \/ outcome[a] \in SentEnds \ {"NetworkSend"} => tx[a] \in DOMAIN receipt

\* A SorobanOnChainError is about a transaction that failed.
OnChainFailed == \A a \in Attempts : outcome[a] = "OnChain" => Failed(tx[a])

IInv == /\ TypeOK /\ HasTx /\ SeqInOrder /\ LandedWasAccepted /\ AcceptedHasCaller
        /\ ToldIsReported /\ OnChainFailed /\ ReceiptsTellTruth

-----------------------------------------------------------------------------
(* The parts of the type invariant. *)

ChainType ==
    /\ ledger \in Seq([tx: Txs, ok: BOOLEAN])
    /\ height \in [Servers -> 0..Len(ledger)]
    /\ queue \subseteq accepted /\ accepted \subseteq Txs
    /\ clock \in 0..MaxClock

CallType ==
    /\ server \in [Attempts -> Servers] /\ current \in Servers
    /\ tries \in [Attempts -> 0..(N - 1)]
    /\ polls \in [Attempts -> 0..(PollAttempts - 1)]
    /\ tx \in [Attempts -> Txs \cup {NoTx}]

EndType ==
    /\ pc \in [Attempts -> Steps] /\ outcome \in [Attempts -> Outcomes]
    /\ \A a \in Attempts : At(a, "done") <=> outcome[a] # "running"

ReceiptType ==
    /\ DOMAIN receipt \subseteq Txs
    /\ \A t \in DOMAIN receipt : receipt[t] \in {"success", "failed", "pending"}

\* The chain, the calls, where they are or how they ended, and the receipt bus.
LEMMA TypeParts ==
    /\ TypeOK => ChainType /\ CallType /\ EndType /\ ReceiptType
    /\ ChainType' /\ CallType' /\ EndType' /\ ReceiptType' => TypeOK'
<1>1. TypeOK <=> ChainType /\ CallType /\ EndType /\ ReceiptType
  BY DEF TypeOK, ChainType, CallType, EndType, ReceiptType, Steps
<1>2. TypeOK' <=> ChainType' /\ CallType' /\ EndType' /\ ReceiptType'
  BY DEF TypeOK, ChainType, CallType, EndType, ReceiptType, Steps
<1>3. QED
  BY <1>1, <1>2

-----------------------------------------------------------------------------
(* The ledger and what the servers say of it. *)

\* No server has seen more than the ledger holds, so an answer that is not
\* NOT_FOUND is the truth, however far the server lags behind.
LEMMA StatusIsTrue ==
    ASSUME TypeOK, NEW s \in Servers, NEW t
    PROVE  /\ Status(s, t) = "SUCCESS" => Landed(t) /\ ~Failed(t)
           /\ Status(s, t) = "FAILED" => Failed(t)
<1>1. height[s] \in 0..Len(ledger) /\ DOMAIN ledger = 1..Len(ledger) /\ Len(ledger) \in Nat
  BY DEF TypeOK
<1>2. 1..height[s] \subseteq DOMAIN ledger
  BY <1>1
<1>3. CASE \E i \in 1..height[s] : ledger[i].tx = t
  BY <1>2, <1>3 DEF Status, Landed
<1>4. CASE ~ \E i \in 1..height[s] : ledger[i].tx = t
  BY <1>4 DEF Status
<1>5. QED
  BY <1>3, <1>4

\* A receipt is put on the bus, over an earlier one of the same transaction.
LEMMA EmitFacts ==
    ASSUME NEW t, NEW s, Emit(t, s)
    PROVE  /\ DOMAIN receipt' = DOMAIN receipt \cup {t}
           /\ receipt'[t] = s
           /\ \A u \in DOMAIN receipt : u # t => receipt'[u] = receipt[u]
BY DEF Emit

\* Any receipt that tells the truth may be put there.
LEMMA EmitKeepsTruth ==
    ASSUME ReceiptsTellTruth, NEW t, NEW s, Emit(t, s), UNCHANGED ledger,
           s = "success" => Landed(t) /\ ~Failed(t),
           s = "failed" => Failed(t)
    PROVE  ReceiptsTellTruth'
<1>1. ASSUME NEW u \in DOMAIN receipt'
      PROVE  /\ receipt'[u] = "success" => Landed(u) /\ ~Failed(u)
             /\ receipt'[u] = "failed" => Failed(u)
  <2>1. CASE u = t
    BY <2>1, EmitFacts
  <2>2. CASE u # t
    BY <1>1, <2>2, EmitFacts DEF ReceiptsTellTruth
  <2>3. QED
    BY <2>1, <2>2
<1>2. QED
  BY <1>1 DEF ReceiptsTellTruth, Landed, Failed

\* What one call may do: submit its own transaction, learn of its fate, report.
CallStep(a) ==
    /\ UNCHANGED ledger
    /\ \A b \in Attempts \ {a} : pc'[b] = pc[b] /\ tx'[b] = tx[b] /\ outcome'[b] = outcome[b]
    /\ pc'[a] \in {"simulate", "sign", "send", "poll", "read"} => tx'[a] \in Txs
    /\ CameThrough(a) => CameThrough(a)' /\ tx'[a] = tx[a]
    /\ \/ UNCHANGED accepted
       \/ accepted' = accepted \cup {tx[a]} /\ tx'[a] = tx[a] /\ CameThrough(a)'
    /\ DOMAIN receipt \subseteq DOMAIN receipt'
    /\ pc'[a] = "read" \/ outcome'[a] \in SentEnds \ {"NetworkSend"} =>
         tx'[a] \in DOMAIN receipt'
    /\ outcome'[a] = "OnChain" => Failed(tx'[a])

\* Such a step keeps the invariant, if it keeps the types and tells no lie.
LEMMA CallStepKeeps ==
    ASSUME IInv, NEW a \in Attempts, CallStep(a), TypeOK', ReceiptsTellTruth'
    PROVE  IInv'
<1>1. HasTx'
  BY DEF IInv, HasTx, CallStep
<1>2. SeqInOrder' /\ LandedWasAccepted'
  BY DEF IInv, SeqInOrder, LandedWasAccepted, CallStep
<1>3. AcceptedHasCaller'
  <2>1. ASSUME NEW b \in Attempts, CameThrough(b)
        PROVE  CameThrough(b)' /\ tx'[b] = tx[b]
    <3>1. CASE b = a
      BY <2>1, <3>1 DEF CallStep
    <3>2. CASE b # a
      BY <2>1, <3>2 DEF CallStep, CameThrough
    <3>3. QED
      BY <3>1, <3>2
  <2>2. ASSUME NEW t \in accepted
        PROVE  \E b \in Attempts : tx'[b] = t /\ CameThrough(b)'
    BY <2>1 DEF IInv, AcceptedHasCaller
  <2>3. CASE UNCHANGED accepted
    BY <2>2, <2>3 DEF AcceptedHasCaller
  <2>4. CASE accepted' = accepted \cup {tx[a]} /\ tx'[a] = tx[a] /\ CameThrough(a)'
    BY <2>2, <2>4 DEF AcceptedHasCaller
  <2>5. QED
    BY <2>3, <2>4 DEF CallStep
<1>4. ToldIsReported'
  BY DEF IInv, ToldIsReported, CallStep
<1>5. OnChainFailed'
  BY DEF IInv, OnChainFailed, CallStep, Failed
<1>6. QED
  BY <1>1, <1>2, <1>3, <1>4, <1>5 DEF IInv

-----------------------------------------------------------------------------
(* The steps of a call. *)

\* A call that moves on, or throws one of the errors that are not about a
\* transaction that was sent, without touching the chain or the receipts.
LEMMA QuietCallKeeps ==
    ASSUME IInv, NEW a \in Attempts, TypeOK', UNCHANGED <<ledger, accepted, receipt>>,
           \A b \in Attempts \ {a} : pc'[b] = pc[b] /\ tx'[b] = tx[b] /\ outcome'[b] = outcome[b],
           pc[a] \in {"idle", "build", "simulate", "sign", "send"},
           pc'[a] \in {"idle", "build", "simulate", "sign", "send", "poll", "done"},
           pc'[a] \in {"simulate", "sign", "send", "poll"} => tx'[a] \in Txs,
           outcome'[a] \notin SentEnds \ {"NetworkSend"}
    PROVE  IInv'
<1>1. ~CameThrough(a)
  BY DEF IInv, TypeOK, At, CameThrough, SentEnds
<1>2. CallStep(a)
  BY <1>1 DEF CallStep, SentEnds
<1>3. ReceiptsTellTruth'
  BY DEF IInv, ReceiptsTellTruth, Landed, Failed
<1>4. QED
  BY <1>2, <1>3, CallStepKeeps

\* A call that throws.
LEMMA ThrowFacts ==
    ASSUME EndType, NEW a \in Attempts, NEW how \in Outcomes \ {"running"}, Ended(a, how)
    PROVE  /\ EndType' /\ pc'[a] = "done" /\ outcome'[a] = how
           /\ \A b \in Attempts \ {a} : pc'[b] = pc[b] /\ outcome'[b] = outcome[b]
<1>1. pc' = [pc EXCEPT ![a] = "done"] /\ outcome' = [outcome EXCEPT ![a] = how]
  BY DEF Ended, Goto
<1>2. pc' \in [Attempts -> Steps] /\ outcome' \in [Attempts -> Outcomes]
  BY <1>1 DEF EndType, Steps
<1>3. QED
  BY <1>1, <1>2 DEF EndType, At

\* A call that goes on to its next await.
LEMMA GotoFacts ==
    ASSUME EndType, NEW a \in Attempts, NEW step \in Steps \ {"done"}, ~At(a, "done"),
           Goto(a, step), UNCHANGED outcome
    PROVE  /\ EndType' /\ pc'[a] = step /\ outcome'[a] = "running"
           /\ \A b \in Attempts \ {a} : pc'[b] = pc[b] /\ outcome'[b] = outcome[b]
<1>1. pc' = [pc EXCEPT ![a] = step]
  BY DEF Goto
<1>2. QED
  BY <1>1 DEF EndType, At

\* A receipt of one of the three kinds.
LEMMA EmitType ==
    ASSUME ReceiptType, NEW t \in Txs, NEW s \in {"success", "failed", "pending"}, Emit(t, s)
    PROVE  ReceiptType'
<1>1. /\ DOMAIN receipt' = DOMAIN receipt \cup {t} /\ receipt'[t] = s
      /\ \A u \in DOMAIN receipt : u # t => receipt'[u] = receipt[u]
  BY EmitFacts
<1>2. QED
  BY <1>1 DEF ReceiptType

\* What a server takes in waits for the ledger.
LEMMA TakenInFacts ==
    ASSUME ChainType, NEW s \in Servers, NEW t \in Txs, TakenIn(s, t)
    PROVE  ChainType' /\ accepted' = accepted \cup {t} /\ UNCHANGED ledger
BY DEF ChainType, TakenIn

\* A call alone does not move the chain.
LEMMA ChainUnchanged == ChainType /\ UNCHANGED chain => ChainType'
BY DEF ChainType, chain

\* A call that throws before anything was sent, or is refused by the server.
LEMMA ThrowKeeps ==
    ASSUME IInv, NEW a \in Attempts, UNCHANGED <<current, chain>>,
           pc[a] \in {"build", "simulate", "sign", "send"},
           NEW how \in {"NetworkBuild", "NetworkSimulate", "Simulation", "NotConnected",
                        "Sign", "NetworkSend", "SendError", "Duplicate"},
           Throw(a, how)
    PROVE  IInv'
<1>1. ChainType /\ CallType /\ EndType /\ ReceiptType
  BY TypeParts DEF IInv
<1>2. /\ EndType' /\ pc'[a] = "done" /\ outcome'[a] = how
      /\ \A b \in Attempts \ {a} : pc'[b] = pc[b] /\ outcome'[b] = outcome[b]
  BY <1>1, ThrowFacts DEF Throw, Outcomes
<1>3. UNCHANGED <<server, tries, polls, tx, receipt>>
  BY DEF Throw
<1>4. CallType' /\ ReceiptType' /\ ChainType'
  BY <1>1, <1>3, ChainUnchanged DEF CallType, ReceiptType
<1>5. QED
  BY <1>2, <1>3, <1>4, QuietCallKeeps, TypeParts DEF SentEnds, chain

\* A call that goes on with the transaction it has.
LEMMA AdvanceKeeps ==
    ASSUME IInv, NEW a \in Attempts, UNCHANGED <<current, chain>>,
           pc[a] \in {"simulate", "sign", "send"}, tx[a] \in Txs,
           NEW step \in {"sign", "send", "poll"}, Goto(a, step),
           UNCHANGED <<server, tries, polls, tx, outcome, receipt>>
    PROVE  IInv'
<1>1. ChainType /\ CallType /\ EndType /\ ReceiptType
  BY TypeParts DEF IInv
<1>2. /\ EndType' /\ pc'[a] = step /\ outcome'[a] = "running"
      /\ \A b \in Attempts \ {a} : pc'[b] = pc[b] /\ outcome'[b] = outcome[b]
  BY <1>1, GotoFacts DEF At, Steps
<1>3. CallType' /\ ReceiptType' /\ ChainType'
  BY <1>1, ChainUnchanged DEF CallType, ReceiptType
<1>4. QED
  BY <1>2, <1>3, QuietCallKeeps, TypeParts DEF SentEnds, chain

\* A call keeps the URL of the moment it starts.
LEMMA StartKeeps ==
    ASSUME IInv, NEW a \in Attempts, Start(a)
    PROVE  IInv'
<1>1. /\ ChainType /\ CallType /\ EndType /\ ReceiptType /\ pc[a] = "idle"
      /\ Goto(a, "build") /\ server' = [server EXCEPT ![a] = current]
      /\ UNCHANGED <<tries, polls, tx, outcome, receipt, current, chain>>
  BY TypeParts DEF IInv, Start, At
<1>2. /\ EndType' /\ pc'[a] = "build" /\ outcome'[a] = "running"
      /\ \A b \in Attempts \ {a} : pc'[b] = pc[b] /\ outcome'[b] = outcome[b]
  BY <1>1, GotoFacts DEF At, Steps
<1>3. CallType' /\ ReceiptType' /\ ChainType'
  BY <1>1, ChainUnchanged DEF CallType, ReceiptType
<1>4. QED
  BY <1>1, <1>2, <1>3, QuietCallKeeps, TypeParts DEF SentEnds, chain

\* The transaction a call builds is one of its method, after the last one its
\* server has seen.
LEMMA BuildKeeps ==
    ASSUME IInv, NEW a \in Attempts, NEW m \in Methods, Build(a, m)
    PROVE  IInv'
<1>1. /\ ChainType /\ CallType /\ EndType /\ ReceiptType /\ pc[a] = "build"
      /\ UNCHANGED chain /\ outcome[a] = "running"
  BY TypeParts DEF IInv, Build, EndType, At
<1>2. ChainType'
  BY <1>1, ChainUnchanged
<1>3. CASE /\ tx' = [tx EXCEPT ![a] =
                       [method |-> m, seq |-> height[current] + 1, built |-> clock]]
           /\ Goto(a, "simulate")
           /\ UNCHANGED <<server, tries, polls, outcome, receipt, current>>
  <2>1. /\ EndType' /\ pc'[a] = "simulate" /\ outcome'[a] = "running"
        /\ \A b \in Attempts \ {a} : pc'[b] = pc[b] /\ outcome'[b] = outcome[b]
    BY <1>1, <1>3, GotoFacts DEF At, Steps
  <2>2. [method |-> m, seq |-> height[current] + 1, built |-> clock] \in Txs
    BY <1>1 DEF ChainType, CallType, Txs
  <2>3. tx'[a] \in Txs /\ tx' \in [Attempts -> Txs \cup {NoTx}]
        /\ \A b \in Attempts \ {a} : tx'[b] = tx[b]
    BY <1>1, <1>3, <2>2 DEF CallType
  <2>4. CallType' /\ ReceiptType'
    BY <1>1, <1>3, <2>3 DEF CallType, ReceiptType
  <2>5. QED
    BY <1>1, <1>2, <1>3, <2>1, <2>3, <2>4, QuietCallKeeps, TypeParts DEF SentEnds, chain
<1>4. CASE /\ tries[a] + 1 < N /\ tries' = [tries EXCEPT ![a] = @ + 1]
           /\ current' = (current % N) + 1
           /\ UNCHANGED <<pc, server, polls, tx, outcome, receipt>>
  <2>1. current' \in Servers
    BY <1>1, <1>4 DEF CallType, Servers
  <2>2. tries' \in [Attempts -> 0..(N - 1)]
    BY <1>1, <1>4 DEF CallType
  <2>3. CallType' /\ ReceiptType' /\ EndType'
    BY <1>1, <1>4, <2>1, <2>2 DEF CallType, ReceiptType, EndType, At
  <2>4. QED
    BY <1>1, <1>2, <1>4, <2>3, QuietCallKeeps, TypeParts DEF SentEnds, chain
<1>5. CASE Throw(a, "NetworkBuild") /\ UNCHANGED current
  BY <1>1, <1>5, ThrowKeeps
<1>6. QED
  BY <1>3, <1>4, <1>5 DEF Build

\* A preflight fails, or the call goes on to sign what was simulated.
LEMMA SimulateKeeps ==
    ASSUME IInv, NEW a \in Attempts, Simulate(a)
    PROVE  IInv'
<1>1. pc[a] = "simulate" /\ UNCHANGED <<current, chain>>
  BY DEF Simulate, At
<1>2. CASE Goto(a, "sign") /\ UNCHANGED <<server, tries, polls, tx, outcome, receipt>>
  BY <1>1, <1>2, AdvanceKeeps DEF IInv, HasTx
<1>3. QED
  BY <1>1, <1>2, ThrowKeeps DEF Simulate

\* The key is not there, does not sign, or does.
LEMMA SignKeeps ==
    ASSUME IInv, NEW a \in Attempts, Sign(a)
    PROVE  IInv'
<1>1. pc[a] = "sign" /\ UNCHANGED <<current, chain>>
  BY DEF Sign, At
<1>2. CASE Goto(a, "send") /\ UNCHANGED <<server, tries, polls, tx, outcome, receipt>>
  BY <1>1, <1>2, AdvanceKeeps DEF IInv, HasTx
<1>3. QED
  BY <1>1, <1>2, ThrowKeeps DEF Sign

\* sendTransaction: what the network took in has a caller past it, whether or not
\* the answer arrived.
LEMMA SendKeeps ==
    ASSUME IInv, NEW a \in Attempts,
           SendThrows(a) \/ SendRejected(a) \/ SendPending(a) \/ SendTryAgainLater(a)
    PROVE  IInv'
<1>1. /\ ChainType /\ CallType /\ EndType /\ ReceiptType /\ pc[a] = "send"
      /\ UNCHANGED current /\ tx[a] \in Txs /\ server[a] \in Servers
      /\ ReceiptsTellTruth /\ outcome[a] = "running"
  BY TypeParts DEF IInv, HasTx, CallType, EndType, At, SendThrows, SendRejected, SendPending,
         SendTryAgainLater
<1>2. CASE UNCHANGED chain /\ Throw(a, "NetworkSend")
  BY <1>1, <1>2, ThrowKeeps
<1>3. CASE SendRejected(a)
  BY <1>1, <1>3, ThrowKeeps DEF SendRejected
<1>4. CASE SendTryAgainLater(a)
  BY <1>1, <1>4, AdvanceKeeps DEF SendTryAgainLater
<1>5. ASSUME TakenIn(server[a], tx[a]), UNCHANGED <<server, tries, polls, tx, receipt>>,
             EndType', pc'[a] = "poll" \/ outcome'[a] = "NetworkSend",
             outcome'[a] \in {"running", "NetworkSend"}, pc'[a] \in {"poll", "done"},
             \A b \in Attempts \ {a} : pc'[b] = pc[b] /\ outcome'[b] = outcome[b]
      PROVE  IInv'
  <2>1. ChainType' /\ accepted' = accepted \cup {tx[a]} /\ UNCHANGED ledger
    BY <1>1, <1>5, TakenInFacts
  <2>2. CameThrough(a)'
    BY <1>5 DEF CameThrough, SentEnds
  <2>3. CallStep(a)
    BY <1>1, <1>5, <2>1, <2>2 DEF CallStep, SentEnds
  <2>4. CallType' /\ ReceiptType' /\ ReceiptsTellTruth'
    BY <1>1, <1>5, <2>1 DEF CallType, ReceiptType, ReceiptsTellTruth, Landed, Failed
  <2>5. QED
    BY <1>5, <2>1, <2>3, <2>4, CallStepKeeps, TypeParts
<1>6. CASE TakenIn(server[a], tx[a]) /\ Throw(a, "NetworkSend")
  <2>1. /\ EndType' /\ pc'[a] = "done" /\ outcome'[a] = "NetworkSend"
        /\ \A b \in Attempts \ {a} : pc'[b] = pc[b] /\ outcome'[b] = outcome[b]
    BY <1>1, <1>6, ThrowFacts DEF Throw, Outcomes
  <2>2. QED
    BY <1>5, <1>6, <2>1 DEF Throw
<1>7. CASE SendPending(a)
  <2>1. /\ EndType' /\ pc'[a] = "poll" /\ outcome'[a] = "running"
        /\ \A b \in Attempts \ {a} : pc'[b] = pc[b] /\ outcome'[b] = outcome[b]
    BY <1>1, <1>7, GotoFacts DEF SendPending, At, Steps
  <2>2. QED
    BY <1>5, <1>7, <2>1 DEF SendPending
<1>8. QED
  BY <1>2, <1>3, <1>4, <1>6, <1>7 DEF SendThrows

\* A round of the poll loop that learns nothing.
LEMMA PollAgainKeeps ==
    ASSUME IInv, NEW a \in Attempts, PollAgain(a)
    PROVE  IInv'
<1>1. /\ ChainType /\ CallType /\ EndType /\ ReceiptType /\ pc[a] = "poll"
      /\ polls[a] + 1 < PollAttempts /\ polls' = [polls EXCEPT ![a] = @ + 1]
      /\ UNCHANGED <<pc, server, tries, tx, outcome, receipt, current, chain>>
      /\ tx[a] \in Txs /\ ReceiptsTellTruth /\ outcome[a] = "running"
  BY TypeParts DEF IInv, HasTx, EndType, PollAgain, At
<1>2. polls' \in [Attempts -> 0..(PollAttempts - 1)]
  BY <1>1 DEF CallType
<1>3. CallType' /\ EndType' /\ ReceiptType' /\ ChainType'
  BY <1>1, <1>2, ChainUnchanged DEF CallType, EndType, ReceiptType, At
<1>4. ReceiptsTellTruth' /\ CallStep(a)
  BY <1>1 DEF chain, ReceiptsTellTruth, Landed, Failed, CallStep, CameThrough, SentEnds
<1>5. QED
  BY <1>3, <1>4, CallStepKeeps, TypeParts

\* A call puts a receipt of its transaction on the bus and goes on or ends.
LEMMA ReportKeeps ==
    ASSUME IInv, NEW a \in Attempts, pc[a] = "poll",
           UNCHANGED <<server, tries, polls, tx, current, chain>>,
           NEW s \in {"success", "failed", "pending"}, Emit(tx[a], s),
           s = "success" => Landed(tx[a]) /\ ~Failed(tx[a]),
           s = "failed" => Failed(tx[a]),
           EndType', pc'[a] = "read" \/ outcome'[a] \in {"OnChain", "PollTimeout"},
           \A b \in Attempts \ {a} : pc'[b] = pc[b] /\ outcome'[b] = outcome[b],
           outcome'[a] = "OnChain" => Failed(tx[a])
    PROVE  IInv'
<1>1. /\ ChainType /\ CallType /\ EndType /\ ReceiptType
      /\ tx[a] \in Txs /\ ReceiptsTellTruth /\ UNCHANGED ledger
  BY TypeParts DEF IInv, HasTx, chain
<1>2. CallType' /\ ChainType'
  BY <1>1, ChainUnchanged DEF CallType
<1>3. ReceiptType'
  BY <1>1, EmitType
<1>4. ReceiptsTellTruth'
  BY <1>1, EmitKeepsTruth
<1>5. CallStep(a)
  <2>1. CameThrough(a)'
    BY DEF CameThrough, SentEnds
  <2>2. DOMAIN receipt' = DOMAIN receipt \cup {tx[a]} /\ UNCHANGED <<accepted, tx>>
    BY EmitFacts DEF chain
  <2>3. QED
    BY <1>1, <2>1, <2>2 DEF CallStep
<1>6. QED
  BY <1>2, <1>3, <1>4, <1>5, CallStepKeeps, TypeParts

\* getTransaction answers, and what it says is on the ledger.
LEMMA PollAnswersKeeps ==
    ASSUME IInv, NEW a \in Attempts, PollAnswers(a)
    PROVE  IInv'
<1>1. /\ EndType /\ pc[a] = "poll" /\ server[a] \in Servers /\ TypeOK
      /\ UNCHANGED <<server, tries, polls, tx, current, chain>>
  BY TypeParts DEF IInv, CallType, PollAnswers, At
<1>2. CASE /\ Status(server[a], tx[a]) = "SUCCESS"
           /\ Emit(tx[a], "success") /\ Goto(a, "read") /\ UNCHANGED outcome
  <2>1. /\ EndType' /\ pc'[a] = "read" /\ outcome'[a] = "running"
        /\ \A b \in Attempts \ {a} : pc'[b] = pc[b] /\ outcome'[b] = outcome[b]
    BY <1>1, <1>2, GotoFacts DEF At, Steps
  <2>2. Landed(tx[a]) /\ ~Failed(tx[a])
    BY <1>1, <1>2, StatusIsTrue
  <2>3. QED
    BY <1>1, <1>2, <2>1, <2>2, ReportKeeps
<1>3. CASE /\ Status(server[a], tx[a]) = "FAILED"
           /\ Emit(tx[a], "failed") /\ Ended(a, "OnChain")
  <2>1. /\ EndType' /\ pc'[a] = "done" /\ outcome'[a] = "OnChain"
        /\ \A b \in Attempts \ {a} : pc'[b] = pc[b] /\ outcome'[b] = outcome[b]
    BY <1>1, <1>3, ThrowFacts DEF Outcomes
  <2>2. Failed(tx[a])
    BY <1>1, <1>3, StatusIsTrue
  <2>3. QED
    BY <1>1, <1>3, <2>1, <2>2, ReportKeeps
<1>4. QED
  BY <1>2, <1>3 DEF PollAnswers

\* The last round of the poll loop leaves a pending receipt.
LEMMA PollGivesUpKeeps ==
    ASSUME IInv, NEW a \in Attempts, PollGivesUp(a)
    PROVE  IInv'
<1>1. /\ EndType /\ pc[a] = "poll" /\ Emit(tx[a], "pending") /\ Ended(a, "PollTimeout")
      /\ UNCHANGED <<server, tries, polls, tx, current, chain>>
  BY TypeParts DEF IInv, PollGivesUp, At
<1>2. /\ EndType' /\ pc'[a] = "done" /\ outcome'[a] = "PollTimeout"
      /\ \A b \in Attempts \ {a} : pc'[b] = pc[b] /\ outcome'[b] = outcome[b]
  BY <1>1, ThrowFacts DEF Outcomes
<1>3. QED
  BY <1>1, <1>2, ReportKeeps

\* The read-back after a write that succeeded: its receipt is on the bus already.
LEMMA ReadKeeps ==
    ASSUME IInv, NEW a \in Attempts, Read(a)
    PROVE  IInv'
<1>1. PICK how \in {"ok", "NoValue", "ReadFailed"} : Ended(a, how)
  BY DEF Read
<1>2. /\ ChainType /\ CallType /\ EndType /\ ReceiptType /\ pc[a] = "read"
      /\ UNCHANGED <<server, tries, polls, tx, receipt, current, chain>>
      /\ ReceiptsTellTruth /\ tx[a] \in DOMAIN receipt
  BY TypeParts DEF IInv, ToldIsReported, Read, At
<1>3. /\ EndType' /\ pc'[a] = "done" /\ outcome'[a] = how
      /\ \A b \in Attempts \ {a} : pc'[b] = pc[b] /\ outcome'[b] = outcome[b]
  BY <1>1, <1>2, ThrowFacts DEF Outcomes
<1>4. CallType' /\ ReceiptType' /\ ChainType'
  BY <1>2, ChainUnchanged DEF CallType, ReceiptType
<1>5. ReceiptsTellTruth' /\ CallStep(a)
  BY <1>2, <1>3 DEF chain, ReceiptsTellTruth, Landed, Failed, CallStep, CameThrough, SentEnds
<1>6. QED
  BY <1>3, <1>4, <1>5, CallStepKeeps, TypeParts

-----------------------------------------------------------------------------
(* The steps of the chain and of the banner. *)

\* A step that leaves the calls, the ledger and what was accepted alone.
LEMMA AsideKeeps ==
    ASSUME IInv, TypeOK', UNCHANGED <<pc, tx, outcome, ledger, accepted>>,
           DOMAIN receipt \subseteq DOMAIN receipt', ReceiptsTellTruth'
    PROVE  IInv'
<1>1. HasTx' /\ SeqInOrder' /\ LandedWasAccepted'
  BY DEF IInv, HasTx, SeqInOrder, LandedWasAccepted
<1>2. AcceptedHasCaller'
  BY DEF IInv, AcceptedHasCaller, CameThrough
<1>3. ToldIsReported' /\ OnChainFailed'
  BY DEF IInv, ToldIsReported, OnChainFailed, Failed
<1>4. QED
  BY <1>1, <1>2, <1>3 DEF IInv

\* recheckTransaction() puts on the bus what the server of the moment knows.
LEMMA RecheckKeeps ==
    ASSUME IInv, NEW t \in DOMAIN receipt, Recheck(t)
    PROVE  IInv'
<1>1. /\ ChainType /\ CallType /\ EndType /\ ReceiptType /\ TypeOK /\ t \in Txs
      /\ UNCHANGED <<pc, server, tries, polls, tx, outcome, current, chain>>
      /\ ReceiptsTellTruth /\ current \in Servers
  BY TypeParts DEF IInv, Recheck, CallType, ReceiptType
<1>2. PICK s \in {"success", "failed"} :
          /\ Emit(t, s)
          /\ Status(current, t) = IF s = "success" THEN "SUCCESS" ELSE "FAILED"
  BY DEF Recheck
<1>3. (s = "success" => Landed(t) /\ ~Failed(t)) /\ (s = "failed" => Failed(t))
  BY <1>1, <1>2, StatusIsTrue
<1>4. ReceiptsTellTruth' /\ ReceiptType' /\ DOMAIN receipt \subseteq DOMAIN receipt'
  BY <1>1, <1>2, <1>3, EmitKeepsTruth, EmitType, EmitFacts DEF chain
<1>5. CallType' /\ EndType' /\ ChainType'
  BY <1>1, ChainUnchanged DEF CallType, EndType, At
<1>6. QED
  BY <1>1, <1>4, <1>5, AsideKeeps, TypeParts DEF chain

\* The network drops a transaction, a server catches up, time passes, or nothing.
LEMMA ChainAsideKeeps ==
    ASSUME IInv, \/ \E t \in queue : Drop(t)
                 \/ \E s \in Servers : CatchUp(s)
                 \/ Tick
                 \/ UNCHANGED vars
    PROVE  IInv'
<1>1. /\ ChainType /\ CallType /\ EndType /\ ReceiptType /\ ReceiptsTellTruth
      /\ UNCHANGED <<client, ledger, accepted>>
  BY TypeParts DEF IInv, Drop, CatchUp, Tick, vars, chain
<1>2. CallType' /\ EndType' /\ ReceiptType' /\ ReceiptsTellTruth'
  BY <1>1 DEF CallType, EndType, ReceiptType, At, ReceiptsTellTruth, Landed, Failed, client
<1>3. ChainType'
  <2>1. CASE \E t \in queue : Drop(t)
    BY <1>1, <2>1 DEF Drop, ChainType
  <2>2. ASSUME NEW s \in Servers, CatchUp(s) PROVE ChainType'
    <3>1. height[s] + 1 \in 0..Len(ledger)
      BY <1>1, <2>2 DEF CatchUp, ChainType
    <3>2. height' \in [Servers -> 0..Len(ledger)]
      BY <1>1, <2>2, <3>1 DEF CatchUp, ChainType
    <3>3. QED
      BY <1>1, <2>2, <3>2 DEF CatchUp, ChainType
  <2>3. CASE Tick
    BY <1>1, <2>3 DEF Tick, ChainType
  <2>4. CASE UNCHANGED vars
    BY <1>1, <2>4, ChainUnchanged DEF vars
  <2>5. QED
    BY <2>1, <2>2, <2>3, <2>4
<1>4. QED
  BY <1>1, <1>2, <1>3, AsideKeeps, TypeParts DEF client

\* A ledger closes with a transaction that has not landed before: every earlier
\* one has a lower sequence number.
LEMMA CloseKeeps ==
    ASSUME IInv, NEW t \in queue, Close(t)
    PROVE  IInv'
<1>1. /\ ChainType /\ CallType /\ EndType /\ ReceiptType /\ SeqInOrder
      /\ t.seq = Len(ledger) + 1 /\ t \in accepted /\ t \in Txs /\ Len(ledger) \in Nat
      /\ UNCHANGED <<client, height, accepted, clock>> /\ queue' = queue \ {t}
  BY TypeParts DEF IInv, Close, ChainType
<1>2. PICK ok \in BOOLEAN : ledger' = Append(ledger, [tx |-> t, ok |-> ok])
  BY DEF Close, Accepts
<1>3. [tx |-> t, ok |-> ok] \in [tx: Txs, ok: BOOLEAN]
  BY <1>1
<1>4. /\ ledger' \in Seq([tx: Txs, ok: BOOLEAN]) /\ Len(ledger') = Len(ledger) + 1
      /\ DOMAIN ledger = 1..Len(ledger) /\ DOMAIN ledger' = 1..(Len(ledger) + 1)
      /\ \A i \in DOMAIN ledger : ledger'[i] = ledger[i]
      /\ ledger'[Len(ledger) + 1].tx = t
  BY <1>1, <1>2, <1>3 DEF ChainType
<1>5. ChainType'
  BY <1>1, <1>4 DEF ChainType
<1>6. CallType' /\ EndType' /\ ReceiptType' /\ HasTx'
  BY <1>1 DEF IInv, CallType, EndType, ReceiptType, At, HasTx, client
<1>7. SeqInOrder' /\ LandedWasAccepted'
  BY <1>1, <1>4 DEF IInv, SeqInOrder, LandedWasAccepted
<1>8. AcceptedHasCaller' /\ ToldIsReported'
  BY <1>1 DEF IInv, AcceptedHasCaller, CameThrough, ToldIsReported, client
<1>9. ~Landed(t)
  BY <1>1, <1>4 DEF Landed, SeqInOrder
<1>10. ASSUME NEW u
       PROVE  /\ Landed(u) => Landed(u)'
              /\ Failed(u) => Failed(u)'
              /\ Landed(u) /\ ~Failed(u) => ~Failed(u)'
  <2>1. (Landed(u) => Landed(u)') /\ (Failed(u) => Failed(u)')
    BY <1>4 DEF Landed, Failed
  <2>2. ASSUME Landed(u), Failed(u)' PROVE Failed(u)
    <3>1. u # t
      BY <1>9, <2>2
    <3>2. PICK i \in DOMAIN ledger' : ledger'[i].tx = u /\ ~ledger'[i].ok
      BY <2>2 DEF Failed
    <3>3. i \in DOMAIN ledger
      BY <1>4, <3>1, <3>2, <1>1
    <3>4. QED
      BY <1>4, <3>2, <3>3 DEF Failed
  <2>3. QED
    BY <2>1, <2>2
<1>11. OnChainFailed'
  BY <1>1, <1>4 DEF IInv, OnChainFailed, Failed, client
<1>12. ReceiptsTellTruth'
  <2>1. ReceiptsTellTruth /\ UNCHANGED receipt
    BY <1>1 DEF IInv, client
  <2>2. ASSUME NEW u \in DOMAIN receipt'
        PROVE  /\ receipt'[u] = "success" => Landed(u)' /\ ~Failed(u)'
               /\ receipt'[u] = "failed" => Failed(u)'
    BY <2>1, <2>2, <1>10 DEF ReceiptsTellTruth
  <2>3. QED
    BY <2>2 DEF ReceiptsTellTruth, Landed, Failed
<1>13. QED
  BY <1>5, <1>6, <1>7, <1>8, <1>11, <1>12, TypeParts DEF IInv

-----------------------------------------------------------------------------
(* The invariant, and what follows from it. *)

\* Nothing was built, sent or reported when the app starts.
LEMMA InitEstablishes == Init => IInv
<1>1. SUFFICES ASSUME Init PROVE IInv
  OBVIOUS
<1>2. ledger = <<>> /\ DOMAIN ledger = {} /\ Len(ledger) = 0 /\ DOMAIN receipt = {}
  BY <1>1 DEF Init
<1>3. ChainType
  BY <1>1, <1>2 DEF Init, ChainType, Servers
<1>4. CallType
  BY <1>1 DEF Init, CallType, Servers
<1>5. EndType
  BY <1>1 DEF Init, EndType, Outcomes, Steps, At
<1>6. ReceiptType /\ ReceiptsTellTruth
  BY <1>2 DEF ReceiptType, ReceiptsTellTruth
<1>7. TypeOK
  BY <1>3, <1>4, <1>5, <1>6 DEF TypeOK, ChainType, CallType, EndType, ReceiptType, Steps
<1>8. HasTx /\ ToldIsReported /\ OnChainFailed
  BY <1>1 DEF Init, HasTx, ToldIsReported, OnChainFailed, SentEnds
<1>9. SeqInOrder /\ LandedWasAccepted /\ AcceptedHasCaller
  BY <1>1, <1>2 DEF Init, SeqInOrder, LandedWasAccepted, AcceptedHasCaller
<1>10. QED
  BY <1>6, <1>7, <1>8, <1>9 DEF IInv

\* Every step of a call, of the chain and of the banner keeps the invariant.
LEMMA StepKeeps == IInv /\ [Next]_vars => IInv'
<1>1. SUFFICES ASSUME IInv, [Next]_vars PROVE IInv'
  OBVIOUS
<1>2. ASSUME NEW a \in Attempts, Call(a) PROVE IInv'
  BY <1>1, <1>2, StartKeeps, BuildKeeps, SimulateKeeps, SignKeeps, SendKeeps, PollAgainKeeps,
     PollAnswersKeeps, PollGivesUpKeeps, ReadKeeps DEF Call
<1>3. ASSUME NEW t \in DOMAIN receipt, Recheck(t) PROVE IInv'
  BY <1>1, <1>3, RecheckKeeps
<1>4. ASSUME NEW t \in queue, Close(t) PROVE IInv'
  BY <1>1, <1>4, CloseKeeps
<1>5. CASE \/ \E t \in queue : Drop(t)
           \/ \E s \in Servers : CatchUp(s)
           \/ Tick
           \/ UNCHANGED vars
  BY <1>1, <1>5, ChainAsideKeeps
<1>6. QED
  BY <1>1, <1>2, <1>3, <1>4, <1>5 DEF Next, Quiet

\* The invariant holds of every run of the pipeline.
LEMMA Invariance == Spec => []IInv
BY InitEstablishes, StepKeeps, PTL DEF Spec

\* The types of the calls in flight and of the chain: a call has an outcome exactly
\* when it is done, polls never pass POLL_ATTEMPTS, and no server is ahead of the
\* ledger.
THEOREM CallsAreTyped == Spec => []TypeOK
<1>1. IInv => TypeOK
  BY DEF IInv
<1>2. QED
  BY <1>1, Invariance, PTL

\* After an error that says nothing happened on chain (preflight, signing, rejected
\* submission, on-chain failure), nothing did: whatever took effect belongs to a call
\* that did not end that way, whichever answers were lost or late.
THEOREM RefusalsAreTrue == Spec => []RefusedHadNoEffect
<1>1. ASSUME IInv, NEW i \in DOMAIN ledger, ledger[i].ok
      PROVE  \E a \in Attempts : tx[a] = ledger[i].tx /\ outcome[a] \notin Refusals
  <2>1. PICK a \in Attempts : tx[a] = ledger[i].tx /\ CameThrough(a)
    BY <1>1 DEF IInv, LandedWasAccepted, AcceptedHasCaller
  <2>2. outcome[a] \in SentEnds \cup {"running"}
    BY <1>1, <2>1 DEF IInv, TypeOK, At, CameThrough
  <2>3. outcome[a] # "OnChain"
    <3>1. SUFFICES ASSUME outcome[a] = "OnChain" PROVE FALSE
      OBVIOUS
    <3>2. PICK j \in DOMAIN ledger : ledger[j].tx = ledger[i].tx /\ ~ledger[j].ok
      BY <1>1, <2>1, <3>1 DEF IInv, OnChainFailed, Failed
    <3>3. i = j
      BY <1>1, <3>2 DEF IInv, SeqInOrder
    <3>4. QED
      BY <1>1, <3>2, <3>3
  <2>4. QED
    BY <2>1, <2>2, <2>3 DEF SentEnds, Refusals
<1>2. IInv => RefusedHadNoEffect
  BY <1>1 DEF RefusedHadNoEffect
<1>3. QED
  BY <1>2, Invariance, PTL

\* Once the calls that built it have ended, a transaction that landed is on the
\* receipt bus, unless the answer to sendTransaction was lost.
THEOREM LandingsAreReported == Spec => []LandedIsReported
<1>1. ASSUME IInv, NEW i \in DOMAIN ledger,
             \A a \in {b \in Attempts : tx[b] = ledger[i].tx} : At(a, "done")
      PROVE  \/ ledger[i].tx \in DOMAIN receipt
             \/ \E a \in {b \in Attempts : tx[b] = ledger[i].tx} : outcome[a] = "NetworkSend"
  <2>1. PICK a \in Attempts : tx[a] = ledger[i].tx /\ CameThrough(a)
    BY <1>1 DEF IInv, LandedWasAccepted, AcceptedHasCaller
  <2>2. outcome[a] \in SentEnds
    BY <1>1, <2>1 DEF At, CameThrough
  <2>3. CASE outcome[a] = "NetworkSend"
    BY <2>1, <2>3
  <2>4. CASE outcome[a] # "NetworkSend"
    BY <1>1, <2>1, <2>2, <2>4 DEF IInv, ToldIsReported
  <2>5. QED
    BY <2>3, <2>4
<1>2. IInv => LandedIsReported
  BY <1>1 DEF LandedIsReported
<1>3. QED
  BY <1>2, Invariance, PTL

\* A final receipt says what the ledger says, whichever of the pipeline and
\* recheckTransaction put it there and however far its server lags behind.
THEOREM ReceiptsAreTrue == Spec => []ReceiptsTellTruth
<1>1. IInv => ReceiptsTellTruth
  BY DEF IInv
<1>2. QED
  BY <1>1, Invariance, PTL

=============================================================================

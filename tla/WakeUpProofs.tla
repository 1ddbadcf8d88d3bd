---------------------------- MODULE WakeUpProofs ----------------------------
(***************************************************************************)
(* Proofs, for any number of overlapping wake-ups of a vault and any       *)
(* number of polls, of the safety properties of WakeUp.                    *)
(*                                                                         *)
(* What a call may claim at its end rests on how far it has come, so the   *)
(* inductive invariant says of every await what the call has already sent, *)
(* confirmed and reported there (Stage), that a hash is only kept of a     *)
(* transaction that landed (HashesLanded), that the banner is owed nothing *)
(* but the transaction being polled (ReceiptOwed), and, for the entry,     *)
(* that nothing a call did in time can be undone but by time (KeptAlive).  *)
(***************************************************************************)
EXTENDS WakeUp, TLAPS

Awaits == {"idle", "signer", "probe", "restore", "poll_restore",
           "resimulate", "extend", "poll_extend"}

\* A call has a result only once it is over.
EndsOnce(c) == Running(c) => result[c] = Nothing

\* What a call has behind it at each await.
Stage(c) ==
    /\ pc[c] \in {"signer", "probe", "restore", "poll_restore"} =>
           hashes[c] = {} /\ receipt[c]["restore"] = "none"
    /\ pc[c] \in {"signer", "probe", "restore"} => sent[c] = {}
    /\ pc[c] = "poll_restore" => sent[c] = {"restore"}
    /\ pc[c] = "resimulate" => "restore" \in hashes[c]
    /\ Running(c) => "extend" \notin hashes[c] /\ receipt[c]["extend"] = "none"
    /\ Running(c) /\ pc[c] # "poll_extend" => "extend" \notin sent[c]

\* txHashes names transactions that landed.
HashesLanded(c) == \A k \in hashes[c] : tx[c][k] = "ok"

\* A transaction that was answered has its receipt, unless it is being polled or
\* the process died.
ReceiptOwed(c) == \A k \in sent[c] :
    \/ receipt[c][k] # "none"
    \/ pc[c] = (IF k = "restore" THEN "poll_restore" ELSE "poll_extend")
    \/ ~Running(c) /\ result[c].kind = "died"

\* The properties of WakeUp, of one call.
ReceiptTrue(c) == \A k \in Kinds :
    /\ receipt[c][k] = "success" => tx[c][k] = "ok"
    /\ receipt[c][k] = "failed" => tx[c][k] = "failed"
ResultTrue(c) ==
    /\ result[c].kind = "ok" => tx[c]["extend"] = "ok"
    /\ result[c].kind = "on_chain" =>
           \/ result[c].hash \in Kinds /\ tx[c][result[c].hash] = "failed"
           \/ result[c].hash = "restore" /\ tx[c]["restore"] = "ok" /\ "extend" \notin hashes[c]

\* Until time passes, the entry is live once the call restored it or found it
\* live, and has its long life once the extension landed.
Alive(c) ==
    /\ tx[c]["restore"] = "ok" \/ tx[c]["extend"] # "none" \/ pc[c] \in {"extend", "poll_extend"}
         => entry # "archived"
    /\ tx[c]["extend"] = "ok" => entry = "long"

\* A call that a lagging server misled sends no restore; any other keeps it alive.
KeptAlive(c) ==
    /\ misled[c] => pc[c] \in {"extend", "poll_extend", "idle"}
    /\ misled[c] \/ pc[c] \in {"signer", "probe", "restore"} => tx[c]["restore"] = "none"
    /\ ~aged[c] /\ ~misled[c] => Alive(c)

Good(c) == /\ EndsOnce(c) /\ Stage(c) /\ HashesLanded(c) /\ ReceiptOwed(c)
           /\ ReceiptTrue(c) /\ ResultTrue(c) /\ KeptAlive(c)

IInv == TypeOK /\ \A c \in Calls : Good(c)

-----------------------------------------------------------------------------
(* What the steps share. *)

\* Whatever transaction lands, a live entry stays live and a long life stays long;
\* a restore leaves the entry live, and an extension of a live entry long.
LEMMA AppliedFacts ==
    ASSUME TypeOK, NEW k \in Kinds
    PROVE  /\ Applied(k) \in {"archived", "short", "long"}
           /\ entry # "archived" => Applied(k) # "archived"
           /\ entry = "long" => Applied(k) = "long"
           /\ k = "restore" => Applied(k) # "archived"
           /\ k = "extend" /\ entry # "archived" => Applied(k) = "long"
<1>1. entry \in {"archived", "short", "long"} /\ k \in {"restore", "extend"}
  BY DEF TypeOK, Kinds
<1>2. QED
  BY <1>1 DEF Applied

\* A step of one call, which leaves the entry and the other calls as they are.
OnlyCall(c) ==
    /\ UNCHANGED entry
    /\ \A d \in Calls \ {c} :
         /\ tx'[d] = tx[d] /\ sent'[d] = sent[d] /\ aged'[d] = aged[d]
         /\ misled'[d] = misled[d]
         /\ pc'[d] = pc[d] /\ hashes'[d] = hashes[d]
         /\ receipt'[d] = receipt[d] /\ result'[d] = result[d]

\* Then only that call has to be looked at.
LEMMA OneCallSuffices ==
    ASSUME IInv, NEW c \in Calls, OnlyCall(c), TypeOK', Good(c)'
    PROVE  IInv'
<1>1. ASSUME NEW d \in Calls \ {c} PROVE Good(d)'
  BY DEF IInv, OnlyCall, Good, EndsOnce, Stage, HashesLanded, ReceiptOwed, ReceiptTrue,
         ResultTrue, KeptAlive, Alive, Running
<1>2. QED
  BY <1>1 DEF IInv

\* Going on to the next await.
LEMMA ContinueFacts ==
    ASSUME TypeOK, NEW c \in Calls, NEW step \in Awaits, Continue(c, step)
    PROVE  /\ pc'[c] = step /\ pc' \in [Calls -> Awaits]
           /\ \A d \in Calls \ {c} : pc'[d] = pc[d]
           /\ tries' \in [Calls -> Nat]
           /\ UNCHANGED <<result, signer>>
BY DEF TypeOK, Continue, Goto, Awaits

\* Every way out of a call wipes its key.
LEMMA EndFacts ==
    ASSUME TypeOK, NEW c \in Calls, NEW kind, NEW hash, End(c, kind, hash),
           [kind |-> kind, hash |-> hash] \in Ends
    PROVE  /\ pc'[c] = "idle" /\ pc' \in [Calls -> Awaits]
           /\ \A d \in Calls \ {c} : pc'[d] = pc[d]
           /\ tries' \in [Calls -> Nat]
           /\ result'[c] = [kind |-> kind, hash |-> hash] /\ result' \in [Calls -> Ends]
           /\ result'[c].kind = kind /\ result'[c].hash = hash
           /\ \A d \in Calls \ {c} : result'[d] = result[d]
           /\ signer'[c] # "key" /\ signer' \in [Calls -> {"none", "key", "wiped"}]
           /\ \A d \in Calls \ {c} : signer'[d] = signer[d]
BY DEF TypeOK, End, Goto, Awaits

\* The end that an error makes: the on-chain error names the restore only of a
\* call that has its hash.
LEMMA FailFacts ==
    ASSUME NEW c \in Calls, NEW k \in Kinds,
           NEW kind \in {"send", "network", "on_chain", "poll_timeout"}, Fail(c, k, kind)
    PROVE  \E e \in Ends :
              /\ End(c, e.kind, e.hash) /\ e = [kind |-> e.kind, hash |-> e.hash]
              /\ e.kind \notin {"ok", "none", "died"}
              /\ e.kind = "on_chain" =>
                    \/ e.hash = "restore" /\ "restore" \in hashes[c] /\ k = "extend"
                    \/ e.hash = k /\ kind = "on_chain"
<1>1. CASE k = "extend" /\ "restore" \in hashes[c]
  <2>. DEFINE e == [kind |-> "on_chain", hash |-> "restore"]
  <2>1. e \in Ends
    BY DEF Ends, Kinds
  <2>2. End(c, e.kind, e.hash)
    BY <1>1 DEF Fail
  <2>3. QED
    BY <1>1, <2>1, <2>2
<1>2. CASE ~(k = "extend" /\ "restore" \in hashes[c])
  <2>. DEFINE h == IF kind = "network" THEN "none" ELSE k
              e == [kind |-> kind, hash |-> h]
  <2>1. e \in Ends
    BY DEF Ends, Kinds
  <2>2. End(c, e.kind, e.hash)
    BY <1>2 DEF Fail
  <2>3. QED
    BY <2>1, <2>2
<1>3. QED
  BY <1>1, <1>2

-----------------------------------------------------------------------------
(* The steps of a call. *)

\* A call starts with nothing sent, recorded or reported.
LEMMA StartKeeps ==
    ASSUME IInv, NEW c \in Calls, Start(c)
    PROVE  IInv'
<1>1. TypeOK /\ UNCHANGED entry
  BY DEF IInv, Start, marks
<1>2. /\ pc'[c] = "signer" /\ tx'[c] = NoTx /\ sent'[c] = {} /\ hashes'[c] = {}
      /\ result'[c] = Nothing /\ receipt'[c] = NoTx /\ ~misled'[c]
      /\ ~aged'[c]
  BY <1>1 DEF Start, marks, Goto, TypeOK
<1>3. OnlyCall(c)
  BY <1>1 DEF Start, marks, Goto, TypeOK, OnlyCall
<1>4. NoTx["restore"] = "none" /\ NoTx["extend"] = "none" /\ \A k \in Kinds : NoTx[k] = "none"
  BY DEF NoTx, Kinds
<1>5. TypeOK'
  <2>1. NoTx \in [Kinds -> {"none", "sent", "ok", "failed"}]
        /\ NoTx \in [Kinds -> {"none", "success", "failed", "pending"}]
    BY DEF NoTx
  <2>2. Nothing \in Ends
    BY DEF Nothing, Ends
  <2>3. /\ entry' \in {"archived", "short", "long"}
        /\ tx' \in [Calls -> [Kinds -> {"none", "sent", "ok", "failed"}]]
        /\ receipt' \in [Calls -> [Kinds -> {"none", "success", "failed", "pending"}]]
        /\ result' \in [Calls -> Ends]
        /\ hashes' \in [Calls -> SUBSET Kinds] /\ sent' \in [Calls -> SUBSET Kinds]
    BY <1>1, <2>1, <2>2 DEF Start, marks, TypeOK
  <2>4. /\ pc' \in [Calls -> Awaits] /\ tries' \in [Calls -> Nat]
        /\ aged' \in [Calls -> BOOLEAN] /\ misled' \in [Calls -> BOOLEAN]
        /\ signer' \in [Calls -> {"none", "key", "wiped"}]
        /\ \A d \in Calls : signer'[d] = "key" <=> Running(d)' /\ pc'[d] # "signer"
    BY <1>1 DEF Start, marks, Goto, TypeOK, Awaits, Running
  <2>5. QED
    BY <2>3, <2>4 DEF TypeOK, Awaits
<1>6. Good(c)'
  <2>1. EndsOnce(c)' /\ Stage(c)' /\ HashesLanded(c)' /\ ReceiptOwed(c)'
    BY <1>2, <1>4 DEF EndsOnce, Stage, HashesLanded, ReceiptOwed, Running
  <2>2. ReceiptTrue(c)' /\ ResultTrue(c)' /\ KeptAlive(c)'
    BY <1>2, <1>4 DEF ReceiptTrue, ResultTrue, KeptAlive, Alive, Nothing
  <2>3. QED
    BY <2>1, <2>2 DEF Good
<1>7. QED
  BY <1>3, <1>5, <1>6, OneCallSuffices

\* A call that ends reports what its transactions support and is owed nothing.
LEMMA EndKeeps ==
    ASSUME IInv, NEW c \in Calls, NEW e \in Ends, End(c, e.kind, e.hash),
           Running(c), OnlyCall(c), UNCHANGED <<sent, aged, misled>>,
           tx' \in [Calls -> [Kinds -> {"none", "sent", "ok", "failed"}]],
           hashes' \in [Calls -> SUBSET Kinds],
           receipt' \in [Calls -> [Kinds -> {"none", "success", "failed", "pending"}]],
           HashesLanded(c)', ReceiptTrue(c)', KeptAlive(c)',
           \A k \in sent[c] : receipt'[c][k] # "none",
           e.kind = "ok" => tx'[c]["extend"] = "ok",
           e.kind = "on_chain" =>
               \/ e.hash \in Kinds /\ tx'[c][e.hash] = "failed"
               \/ e.hash = "restore" /\ tx'[c]["restore"] = "ok" /\ "extend" \notin hashes'[c]
    PROVE  IInv'
<1>1. TypeOK /\ Good(c)
  BY DEF IInv
<1>2. [kind |-> e.kind, hash |-> e.hash] \in Ends
  BY DEF Ends
<1>3. /\ pc'[c] = "idle" /\ pc' \in [Calls -> Awaits] /\ tries' \in [Calls -> Nat]
      /\ \A d \in Calls \ {c} : pc'[d] = pc[d] /\ signer'[d] = signer[d]
      /\ result'[c].kind = e.kind /\ result'[c].hash = e.hash /\ result' \in [Calls -> Ends]
      /\ signer'[c] # "key" /\ signer' \in [Calls -> {"none", "key", "wiped"}]
  BY <1>1, <1>2, EndFacts
<1>4. TypeOK'
  <2>1. ASSUME NEW d \in Calls
        PROVE  signer'[d] = "key" <=> Running(d)' /\ pc'[d] # "signer"
    <3>1. CASE d = c
      BY <1>3, <3>1 DEF Running
    <3>2. CASE d # c
      BY <1>1, <1>3, <3>2 DEF TypeOK, Running
    <3>3. QED
      BY <3>1, <3>2
  <2>2. UNCHANGED entry
    BY DEF OnlyCall
  <2>3. QED
    BY <1>1, <1>3, <2>1, <2>2 DEF TypeOK, Awaits
<1>5. Good(c)'
  <2>1. ~Running(c)'
    BY <1>3 DEF Running
  <2>2. EndsOnce(c)' /\ Stage(c)' /\ ReceiptOwed(c)'
    BY <1>3, <2>1 DEF EndsOnce, Stage, ReceiptOwed, Running
  <2>3. ResultTrue(c)'
    BY <1>3 DEF ResultTrue
  <2>4. QED
    BY <2>2, <2>3 DEF Good
<1>6. QED
  BY <1>4, <1>5, OneCallSuffices

\* What is left to show of a call that goes on.
LEMMA ContinueKeeps ==
    ASSUME IInv, NEW c \in Calls, NEW step \in Awaits \ {"idle", "signer"},
           OnlyCall(c), Continue(c, step), Running(c), pc[c] # "signer",
           tx' \in [Calls -> [Kinds -> {"none", "sent", "ok", "failed"}]],
           hashes' \in [Calls -> SUBSET Kinds], sent' \in [Calls -> SUBSET Kinds],
           receipt' \in [Calls -> [Kinds -> {"none", "success", "failed", "pending"}]],
           aged' \in [Calls -> BOOLEAN], misled' \in [Calls -> BOOLEAN],
           Stage(c)', HashesLanded(c)', ReceiptOwed(c)', ReceiptTrue(c)', KeptAlive(c)'
    PROVE  IInv'
<1>1. TypeOK /\ Good(c)
  BY DEF IInv
<1>2. /\ pc'[c] = step /\ pc' \in [Calls -> Awaits] /\ tries' \in [Calls -> Nat]
      /\ \A d \in Calls \ {c} : pc'[d] = pc[d]
      /\ UNCHANGED <<result, signer>>
  BY <1>1, ContinueFacts
<1>3. TypeOK'
  <2>1. \A d \in Calls : signer'[d] = "key" <=> Running(d)' /\ pc'[d] # "signer"
    BY <1>1, <1>2 DEF TypeOK, Running
  <2>2. UNCHANGED entry
    BY DEF OnlyCall
  <2>3. QED
    BY <1>1, <1>2, <2>1, <2>2 DEF TypeOK, Awaits
<1>4. EndsOnce(c)' /\ ResultTrue(c)'
  BY <1>1, <1>2 DEF Good, EndsOnce, ResultTrue, Nothing
<1>5. QED
  BY <1>3, <1>4, OneCallSuffices DEF Good

\* Another turn of a polling loop changes nothing but its count.
LEMMA AgainKeeps ==
    ASSUME IInv, NEW c \in Calls, Again(c),
           UNCHANGED <<entry, tx, hashes, receipt, result, signer, sent, aged, misled>>
    PROVE  IInv'
<1>1. UNCHANGED pc /\ tries' \in [Calls -> Nat]
  BY DEF Again, IInv, TypeOK
<1>2. TypeOK'
  BY <1>1 DEF IInv, TypeOK, Running
<1>3. ASSUME NEW d \in Calls PROVE Good(d)'
  BY <1>1 DEF IInv, Good, EndsOnce, Stage, HashesLanded, ReceiptOwed, ReceiptTrue,
         ResultTrue, KeptAlive, Alive, Running
<1>4. QED
  BY <1>2, <1>3 DEF IInv

\* The key is there from now on, or the call ends with nothing sent.
LEMMA LoadSignerKeeps ==
    ASSUME IInv, NEW c \in Calls, LoadSigner(c)
    PROVE  IInv'
<1>1. /\ TypeOK /\ Good(c) /\ pc[c] = "signer" /\ Running(c)
      /\ UNCHANGED <<entry, tx, hashes, receipt, sent, aged, misled>>
  BY DEF IInv, LoadSigner, marks, Running
<1>2. CASE Goto(c, "probe") /\ signer' = [signer EXCEPT ![c] = "key"] /\ UNCHANGED result
  <2>1. /\ pc'[c] = "probe" /\ pc' \in [Calls -> Awaits] /\ tries' \in [Calls -> Nat]
        /\ \A d \in Calls \ {c} : pc'[d] = pc[d]
    BY <1>1, <1>2 DEF Goto, TypeOK, Awaits
  <2>2. OnlyCall(c)
    BY <1>1, <1>2, <2>1 DEF OnlyCall
  <2>3. TypeOK'
    <3>1. signer' \in [Calls -> {"none", "key", "wiped"}]
      BY <1>1, <1>2 DEF TypeOK
    <3>2. \A d \in Calls : signer'[d] = "key" <=> Running(d)' /\ pc'[d] # "signer"
      BY <1>1, <1>2, <2>1 DEF TypeOK, Running
    <3>3. QED
      BY <1>1, <1>2, <2>1, <3>1, <3>2 DEF TypeOK, Awaits
  <2>4. EndsOnce(c)' /\ Stage(c)' /\ HashesLanded(c)' /\ ReceiptOwed(c)'
    BY <1>1, <1>2, <2>1 DEF Good, EndsOnce, Stage, HashesLanded, ReceiptOwed, Running
  <2>5. ReceiptTrue(c)' /\ ResultTrue(c)' /\ KeptAlive(c)'
    BY <1>1, <1>2, <2>1 DEF Good, ReceiptTrue, ResultTrue, KeptAlive, Alive
  <2>6. QED
    BY <2>2, <2>3, <2>4, <2>5, OneCallSuffices DEF Good
<1>3. CASE End(c, "not_connected", "none")
  <2>. DEFINE e == [kind |-> "not_connected", hash |-> "none"]
  <2>1. e \in Ends
    BY DEF Ends
  <2>2. OnlyCall(c)
    BY <1>1, <1>3, <2>1, EndFacts DEF OnlyCall
  <2>3. \A k \in sent[c] : receipt'[c][k] # "none"
    BY <1>1 DEF Good, Stage
  <2>4. HashesLanded(c)' /\ ReceiptTrue(c)' /\ KeptAlive(c)'
    BY <1>1, <1>3, <2>1, EndFacts DEF Good, HashesLanded, ReceiptTrue, KeptAlive, Alive
  <2>5. QED
    BY <1>1, <1>3, <2>1, <2>2, <2>3, <2>4, EndKeeps DEF TypeOK
<1>4. QED
  BY <1>2, <1>3 DEF LoadSigner, marks

\* The simulation decides where the call starts; a lagging answer that skips the
\* restore of an archived entry misleads it.
LEMMA ProbeKeeps ==
    ASSUME IInv, NEW c \in Calls, Probe(c)
    PROVE  IInv'
<1>1. /\ TypeOK /\ Good(c) /\ pc[c] = "probe" /\ Running(c)
      /\ UNCHANGED <<entry, tx, hashes, receipt, sent, aged>>
  BY DEF IInv, Probe, marks, Running
<1>2. /\ HashesLanded(c)' /\ ReceiptTrue(c)' /\ sent[c] = {}
  BY <1>1 DEF Good, HashesLanded, ReceiptTrue, Stage
<1>3. CASE Continue(c, "restore") /\ UNCHANGED misled
  <2>1. /\ pc'[c] = "restore" /\ \A d \in Calls \ {c} : pc'[d] = pc[d]
        /\ UNCHANGED <<result, signer>>
    BY <1>1, <1>3, ContinueFacts DEF Awaits
  <2>2. OnlyCall(c)
    BY <1>1, <1>3, <2>1 DEF OnlyCall
  <2>3. Stage(c)' /\ ReceiptOwed(c)' /\ KeptAlive(c)'
    BY <1>1, <1>2, <1>3, <2>1 DEF Good, Stage, ReceiptOwed, KeptAlive, Alive, Running
  <2>4. QED
    BY <1>1, <1>2, <1>3, <2>2, <2>3, ContinueKeeps DEF TypeOK, Awaits
<1>4. CASE Continue(c, "extend") /\ misled' = [misled EXCEPT ![c] = (entry = "archived")]
  <2>1. /\ pc'[c] = "extend" /\ \A d \in Calls \ {c} : pc'[d] = pc[d]
        /\ UNCHANGED <<result, signer>>
    BY <1>1, <1>4, ContinueFacts DEF Awaits
  <2>2. /\ misled'[c] = (entry = "archived")
        /\ \A d \in Calls \ {c} : misled'[d] = misled[d]
    BY <1>1, <1>4 DEF TypeOK
  <2>3. misled' \in [Calls -> BOOLEAN]
    BY <1>1, <1>4 DEF TypeOK
  <2>4. OnlyCall(c)
    BY <1>1, <2>1, <2>2 DEF OnlyCall
  <2>5. Stage(c)' /\ ReceiptOwed(c)'
    BY <1>1, <1>2, <2>1 DEF Good, Stage, ReceiptOwed, Running
  <2>6. KeptAlive(c)'
    BY <1>1, <2>1, <2>2 DEF Good, KeptAlive, Alive
  <2>7. QED
    BY <1>1, <1>2, <1>4, <2>3, <2>4, <2>5, <2>6, ContinueKeeps DEF TypeOK, Awaits
<1>5. ASSUME NEW kind \in {"network", "simulation"}, UNCHANGED misled, End(c, kind, "none")
      PROVE  IInv'
  <2>. DEFINE e == [kind |-> kind, hash |-> "none"]
  <2>1. e \in Ends
    BY DEF Ends
  <2>2. OnlyCall(c)
    BY <1>1, <1>5, <2>1, EndFacts DEF OnlyCall
  <2>3. KeptAlive(c)'
    BY <1>1, <1>5, <2>1, EndFacts DEF Good, KeptAlive, Alive
  <2>4. QED
    BY <1>1, <1>2, <1>5, <2>1, <2>2, <2>3, EndKeeps DEF TypeOK
<1>6. QED
  BY <1>3, <1>4, <1>5 DEF Probe, marks

\* submitOne up to the answer of the server: nothing is recorded yet.
LEMMA SubmitKeeps ==
    ASSUME IInv, NEW c \in Calls, NEW k \in Kinds, Submit(c, k)
    PROVE  IInv'
<1>1. /\ TypeOK /\ Good(c) /\ pc[c] = k /\ Running(c) /\ k \in {"restore", "extend"}
      /\ UNCHANGED <<entry, hashes, receipt, aged, misled>>
  BY DEF IInv, Submit, marks, Running, Kinds
<1>2. /\ k \notin hashes[c] /\ "extend" \notin hashes[c]
      /\ receipt[c][k] = "none" /\ receipt[c]["extend"] = "none"
      /\ \A j \in sent[c] : receipt[c][j] # "none" /\ j = "restore"
      /\ k \notin sent[c] /\ (k = "restore" => sent[c] = {})
  <2>1. CASE k = "restore"
    BY <1>1, <2>1 DEF Good, Stage
  <2>2. CASE k = "extend"
    <3>1. "extend" \notin hashes[c] /\ receipt[c]["extend"] = "none" /\ "extend" \notin sent[c]
      BY <1>1, <2>2 DEF Good, Stage
    <3>2. ASSUME NEW j \in sent[c] PROVE j = "restore" /\ receipt[c][j] # "none"
      <4>1. j = "restore"
        BY <1>1, <3>1 DEF TypeOK, Kinds
      <4>2. QED
        BY <1>1, <2>2, <4>1 DEF Good, ReceiptOwed
    <3>3. QED
      BY <2>2, <3>1, <3>2
  <2>3. QED
    BY <1>1, <2>1, <2>2
<1>3. /\ tx' \in {tx, [tx EXCEPT ![c][k] = "sent"]}
      /\ tx' \in [Calls -> [Kinds -> {"none", "sent", "ok", "failed"}]]
      /\ \A d \in Calls \ {c} : tx'[d] = tx[d]
      /\ \A j \in Kinds : j # k => tx'[c][j] = tx[c][j]
      /\ tx'[c][k] \in {tx[c][k], "sent"}
  <2>1. tx' = tx \/ tx' = [tx EXCEPT ![c][k] = "sent"]
    BY DEF Submit, marks
  <2>2. CASE tx' = tx
    BY <1>1, <2>2 DEF TypeOK
  <2>3. CASE tx' = [tx EXCEPT ![c][k] = "sent"]
    BY <1>1, <2>3 DEF TypeOK
  <2>4. QED
    BY <2>1, <2>2, <2>3
<1>4. HashesLanded(c)' /\ ReceiptTrue(c)'
  <2>1. HashesLanded(c)'
    <3>1. \A j \in hashes[c] : j \in Kinds /\ j # k
      BY <1>1, <1>2 DEF TypeOK
    <3>2. QED
      BY <1>1, <1>3, <3>1 DEF Good, HashesLanded
  <2>2. ReceiptTrue(c)'
    BY <1>1, <1>2, <1>3 DEF Good, ReceiptTrue
  <2>3. QED
    BY <2>1, <2>2
<1>5. ASSUME pc'[c] \in {"idle", "poll_restore", "poll_extend"},
             pc'[c] = "poll_extend" => k = "extend", pc'[c] = "poll_restore" => k = "restore"
      PROVE  KeptAlive(c)'
  <2>1. CASE k = "restore"
    BY <1>1, <1>3, <1>5, <2>1 DEF Good, KeptAlive, Alive, Kinds
  <2>2. CASE k = "extend"
    BY <1>1, <1>3, <1>5, <2>2 DEF Good, KeptAlive, Alive, Kinds
  <2>3. QED
    BY <1>1, <2>1, <2>2
<1>6. ASSUME NEW e \in Ends, End(c, e.kind, e.hash), UNCHANGED sent, e.kind # "ok",
             e.kind = "on_chain" => e.hash = "restore" /\ "restore" \in hashes[c]
      PROVE  IInv'
  <2>1. [kind |-> e.kind, hash |-> e.hash] \in Ends
    BY DEF Ends
  <2>2. OnlyCall(c) /\ pc'[c] = "idle"
    BY <1>1, <1>3, <1>6, <2>1, EndFacts DEF OnlyCall
  <2>3. KeptAlive(c)'
    BY <1>5, <2>2
  <2>4. "restore" \in hashes[c] => tx'[c]["restore"] = "ok"
    BY <1>1, <1>4 DEF HashesLanded
  <2>5. hashes' \in [Calls -> SUBSET Kinds]
        /\ receipt' \in [Calls -> [Kinds -> {"none", "success", "failed", "pending"}]]
        /\ \A j \in sent[c] : receipt'[c][j] # "none"
    BY <1>1, <1>2 DEF TypeOK
  <2>6. QED
    BY <1>1, <1>2, <1>3, <1>4, <1>6, <2>2, <2>3, <2>4, <2>5, EndKeeps
<1>7. ASSUME NEW kind \in {"send", "network"}, UNCHANGED sent, Fail(c, k, kind)
      PROVE  IInv'
  <2>1. PICK e \in Ends :
              /\ End(c, e.kind, e.hash) /\ e.kind \notin {"ok", "none", "died"}
              /\ e.kind = "on_chain" => e.hash = "restore" /\ "restore" \in hashes[c]
    BY <1>7, FailFacts
  <2>2. QED
    BY <1>6, <1>7, <2>1
<1>8. CASE UNCHANGED <<tx, sent>> /\ End(c, "network", "none")
  <2>. DEFINE e == [kind |-> "network", hash |-> "none"]
  <2>1. e \in Ends
    BY DEF Ends
  <2>2. QED
    BY <1>6, <1>8, <2>1
<1>9. ASSUME signer[c] = "key", sent' = [sent EXCEPT ![c] = @ \cup {k}],
             Continue(c, IF k = "restore" THEN "poll_restore" ELSE "poll_extend")
      PROVE  IInv'
  <2>. DEFINE step == IF k = "restore" THEN "poll_restore" ELSE "poll_extend"
  <2>1. /\ step \in Awaits \ {"idle", "signer"} /\ pc[c] # "signer"
    BY <1>1 DEF Awaits
  <2>2. /\ pc'[c] = step /\ \A d \in Calls \ {c} : pc'[d] = pc[d]
        /\ UNCHANGED <<result, signer>>
    BY <1>1, <1>9, <2>1, ContinueFacts
  <2>3. /\ sent' \in [Calls -> SUBSET Kinds] /\ sent'[c] = sent[c] \cup {k}
        /\ \A d \in Calls \ {c} : sent'[d] = sent[d]
    BY <1>1, <1>9 DEF TypeOK
  <2>4. OnlyCall(c)
    BY <1>1, <1>3, <2>2, <2>3 DEF OnlyCall
  <2>5. KeptAlive(c)'
    BY <1>1, <1>5, <2>2
  <2>6. Stage(c)'
    BY <1>1, <1>2, <2>2, <2>3 DEF Good, Stage, Running
  <2>7. ReceiptOwed(c)'
    BY <1>1, <1>2, <2>2, <2>3 DEF ReceiptOwed
  <2>8. /\ hashes' \in [Calls -> SUBSET Kinds] /\ aged' \in [Calls -> BOOLEAN]
          /\ misled' \in [Calls -> BOOLEAN]
        /\ receipt' \in [Calls -> [Kinds -> {"none", "success", "failed", "pending"}]]
    BY <1>1 DEF TypeOK
  <2>. HIDE DEF step
  <2>9. Continue(c, step)
    BY <1>9 DEF step
  <2>10. QED
    BY <1>1, <1>3, <1>4, <2>1, <2>3, <2>4, <2>5, <2>6, <2>7, <2>8, <2>9, ContinueKeeps
<1>10. QED
  BY <1>7, <1>8, <1>9 DEF Submit, marks

\* submitOne from the answer of the server on: a hash is recorded and success
\* reported only of a transaction that a poll saw land.
LEMMA PollKeeps ==
    ASSUME IInv, NEW c \in Calls, NEW k \in Kinds, Poll(c, k)
    PROVE  IInv'
<1>1. /\ TypeOK /\ Good(c) /\ Running(c) /\ k \in {"restore", "extend"}
      /\ pc[c] = (IF k = "restore" THEN "poll_restore" ELSE "poll_extend")
      /\ UNCHANGED <<entry, tx, sent, aged, misled>>
  BY DEF IInv, Poll, marks, Running, Kinds
<1>2. /\ "extend" \notin hashes[c] /\ receipt[c][k] = "none" /\ receipt[c]["extend"] = "none"
      /\ k = "restore" => hashes[c] = {} /\ sent[c] = {"restore"}
      /\ \A j \in sent[c] : j # k => receipt[c][j] # "none"
  <2>1. /\ "extend" \notin hashes[c] /\ receipt[c]["extend"] = "none" /\ receipt[c][k] = "none"
        /\ k = "restore" => hashes[c] = {} /\ sent[c] = {"restore"}
    BY <1>1 DEF Good, Stage
  <2>2. ASSUME NEW j \in sent[c], j # k PROVE receipt[c][j] # "none"
    <3>1. j \in {"restore", "extend"}
      BY <1>1 DEF TypeOK, Kinds
    <3>2. QED
      BY <1>1, <2>2, <3>1 DEF Good, ReceiptOwed
  <2>3. QED
    BY <2>1, <2>2
<1>3. ASSUME NEW status \in {"success", "failed", "pending"}, Emit(c, k, status),
             status = "success" => tx[c][k] = "ok",
             status = "failed" => tx[c][k] = "failed"
      PROVE  /\ receipt' \in [Calls -> [Kinds -> {"none", "success", "failed", "pending"}]]
             /\ receipt'[c][k] = status
             /\ \A j \in Kinds \ {k} : receipt'[c][j] = receipt[c][j]
             /\ \A d \in Calls \ {c} : receipt'[d] = receipt[d]
             /\ ReceiptTrue(c)' /\ \A j \in sent[c] : receipt'[c][j] # "none"
  <2>1. /\ receipt' \in [Calls -> [Kinds -> {"none", "success", "failed", "pending"}]]
        /\ receipt'[c][k] = status
        /\ \A j \in Kinds \ {k} : receipt'[c][j] = receipt[c][j]
        /\ \A d \in Calls \ {c} : receipt'[d] = receipt[d]
    BY <1>1, <1>3 DEF Emit, TypeOK
  <2>2. ReceiptTrue(c)'
    BY <1>1, <1>3, <2>1 DEF Good, ReceiptTrue
  <2>3. ASSUME NEW j \in sent[c] PROVE receipt'[c][j] # "none"
    <3>1. j \in Kinds
      BY <1>1 DEF TypeOK
    <3>2. QED
      BY <1>2, <1>3, <2>1, <3>1
  <2>4. QED
    BY <2>1, <2>2, <2>3
<1>4. ASSUME NEW e \in Ends, End(c, e.kind, e.hash),
             NEW status \in {"success", "failed", "pending"}, Emit(c, k, status),
             status = "success" => tx[c][k] = "ok",
             status = "failed" => tx[c][k] = "failed",
             hashes' \in [Calls -> SUBSET Kinds], HashesLanded(c)',
             \A d \in Calls \ {c} : hashes'[d] = hashes[d],
             e.kind = "ok" => tx[c]["extend"] = "ok",
             e.kind = "on_chain" =>
               \/ e.hash \in Kinds /\ tx[c][e.hash] = "failed"
               \/ e.hash = "restore" /\ tx[c]["restore"] = "ok" /\ "extend" \notin hashes'[c]
      PROVE  IInv'
  <2>1. [kind |-> e.kind, hash |-> e.hash] \in Ends
    BY DEF Ends
  <2>2. OnlyCall(c) /\ pc'[c] = "idle"
    BY <1>1, <1>3, <1>4, <2>1, EndFacts DEF OnlyCall
  <2>3. KeptAlive(c)'
    BY <1>1, <2>2 DEF Good, KeptAlive, Alive
  <2>4. tx' \in [Calls -> [Kinds -> {"none", "sent", "ok", "failed"}]]
    BY <1>1 DEF TypeOK
  <2>5. /\ receipt' \in [Calls -> [Kinds -> {"none", "success", "failed", "pending"}]]
        /\ ReceiptTrue(c)' /\ \A j \in sent[c] : receipt'[c][j] # "none"
    BY <1>3, <1>4
  <2>6. /\ e.kind = "ok" => tx'[c]["extend"] = "ok"
        /\ e.kind = "on_chain" =>
             \/ e.hash \in Kinds /\ tx'[c][e.hash] = "failed"
             \/ e.hash = "restore" /\ tx'[c]["restore"] = "ok" /\ "extend" \notin hashes'[c]
    BY <1>1, <1>4
  <2>7. QED
    BY <1>1, <1>4, <2>2, <2>3, <2>4, <2>5, <2>6, EndKeeps
<1>5. ASSUME NEW status \in {"failed", "pending"}, Emit(c, k, status),
             NEW kind \in {"on_chain", "poll_timeout"}, Fail(c, k, kind), UNCHANGED hashes,
             status = "failed" \/ kind = "on_chain" => tx[c][k] = "failed"
      PROVE  IInv'
  <2>1. PICK e \in Ends :
              /\ End(c, e.kind, e.hash) /\ e.kind \notin {"ok", "none", "died"}
              /\ e.kind = "on_chain" =>
                    \/ e.hash = "restore" /\ "restore" \in hashes[c]
                    \/ e.hash = k /\ kind = "on_chain"
    BY <1>5, FailFacts
  <2>2. /\ hashes' \in [Calls -> SUBSET Kinds] /\ \A d \in Calls \ {c} : hashes'[d] = hashes[d]
        /\ "extend" \notin hashes'[c]
    BY <1>1, <1>2, <1>5 DEF TypeOK
  <2>3. HashesLanded(c)' /\ ("restore" \in hashes[c] => tx[c]["restore"] = "ok")
    BY <1>1, <1>5 DEF Good, HashesLanded
  <2>4. QED
    BY <1>4, <1>5, <2>1, <2>2, <2>3
<1>6. CASE tx[c][k] = "ok" /\ Confirmed(c, k)
  <2>1. /\ Emit(c, k, "success") /\ hashes' = [hashes EXCEPT ![c] = @ \cup {k}]
        /\ k = "restore" => Continue(c, "resimulate")
        /\ k # "restore" => End(c, "ok", "none")
    BY <1>6 DEF Confirmed
  <2>2. /\ hashes' \in [Calls -> SUBSET Kinds] /\ hashes'[c] = hashes[c] \cup {k}
        /\ \A d \in Calls \ {c} : hashes'[d] = hashes[d]
    BY <1>1, <2>1 DEF TypeOK
  <2>3. HashesLanded(c)'
    BY <1>1, <1>6, <2>2 DEF Good, HashesLanded
  <2>4. CASE k = "extend"
    <3>. DEFINE e == [kind |-> "ok", hash |-> "none"]
    <3>1. e \in Ends
      BY DEF Ends
    <3>2. QED
      BY <1>4, <1>6, <2>1, <2>2, <2>3, <2>4, <3>1
  <2>5. CASE k = "restore"
    <3>1. /\ pc'[c] = "resimulate" /\ \A d \in Calls \ {c} : pc'[d] = pc[d]
          /\ UNCHANGED <<result, signer>> /\ pc[c] = "poll_restore"
      BY <1>1, <2>1, <2>5, ContinueFacts DEF Awaits
    <3>2. /\ receipt' \in [Calls -> [Kinds -> {"none", "success", "failed", "pending"}]]
          /\ receipt'[c]["extend"] = "none"
          /\ \A d \in Calls \ {c} : receipt'[d] = receipt[d]
          /\ ReceiptTrue(c)' /\ \A j \in sent[c] : receipt'[c][j] # "none"
      BY <1>2, <1>3, <1>6, <2>1, <2>5 DEF Kinds
    <3>3. OnlyCall(c)
      BY <1>1, <2>2, <3>1, <3>2 DEF OnlyCall
    <3>4. Stage(c)'
      BY <1>1, <1>2, <2>2, <2>5, <3>1, <3>2 DEF Stage, Running
    <3>5. ReceiptOwed(c)' /\ KeptAlive(c)'
      BY <1>1, <3>1, <3>2 DEF Good, ReceiptOwed, KeptAlive, Alive
    <3>6. /\ tx' \in [Calls -> [Kinds -> {"none", "sent", "ok", "failed"}]]
          /\ sent' \in [Calls -> SUBSET Kinds] /\ aged' \in [Calls -> BOOLEAN]
          /\ misled' \in [Calls -> BOOLEAN]
      BY <1>1 DEF TypeOK
    <3>7. QED
      BY <1>1, <2>1, <2>2, <2>3, <2>5, <3>1, <3>2, <3>3, <3>4, <3>5, <3>6, ContinueKeeps
         DEF Awaits
  <2>6. QED
    BY <1>1, <2>4, <2>5
<1>7. CASE Again(c) /\ UNCHANGED <<receipt, hashes, result, signer>>
  BY <1>1, <1>7, AgainKeeps
<1>8. QED
  BY <1>5, <1>6, <1>7 DEF Poll, marks, TimedOut

\* The extension follows the restore whatever the re-simulations say.
LEMMA ReSimulateKeeps ==
    ASSUME IInv, NEW c \in Calls, ReSimulate(c)
    PROVE  IInv'
<1>1. /\ TypeOK /\ Good(c) /\ Running(c) /\ pc[c] = "resimulate"
      /\ UNCHANGED <<entry, tx, hashes, receipt, sent, aged, misled>>
  BY DEF IInv, ReSimulate, marks, Running
<1>2. CASE Again(c) /\ UNCHANGED <<result, signer>>
  BY <1>1, <1>2, AgainKeeps
<1>3. CASE Continue(c, "extend")
  <2>1. /\ pc'[c] = "extend" /\ \A d \in Calls \ {c} : pc'[d] = pc[d]
        /\ UNCHANGED <<result, signer>>
    BY <1>1, <1>3, ContinueFacts DEF Awaits
  <2>2. OnlyCall(c)
    BY <1>1, <2>1 DEF OnlyCall
  <2>3. tx[c]["restore"] = "ok"
    BY <1>1 DEF Good, Stage, HashesLanded
  <2>4. Stage(c)' /\ HashesLanded(c)' /\ ReceiptOwed(c)'
    BY <1>1, <2>1 DEF Good, Stage, HashesLanded, ReceiptOwed, Running
  <2>5. ReceiptTrue(c)' /\ KeptAlive(c)'
    BY <1>1, <2>1, <2>3 DEF Good, ReceiptTrue, KeptAlive, Alive
  <2>6. QED
    BY <1>1, <1>3, <2>2, <2>4, <2>5, ContinueKeeps DEF TypeOK, Awaits
<1>4. QED
  BY <1>2, <1>3 DEF ReSimulate, marks

-----------------------------------------------------------------------------
(* The ledger, and the end of the process. *)

\* A transaction lands, or fails, only once, whatever its call is doing by then.
LEMMA LandKeeps ==
    ASSUME IInv, NEW c \in Calls, NEW k \in Kinds, Land(c, k)
    PROVE  IInv'
<1>1. /\ TypeOK /\ tx[c][k] = "sent" /\ k \in {"restore", "extend"}
      /\ UNCHANGED <<pc, tries, hashes, signer, receipt, result, sent, aged, misled>>
  BY DEF IInv, Land, marks, locals, Kinds
<1>2. PICK fate \in {"ok", "failed"} :
         /\ tx' = [tx EXCEPT ![c][k] = fate]
         /\ entry' = IF fate = "ok" THEN Applied(k) ELSE entry
  BY DEF Land, marks
<1>3. /\ tx' \in [Calls -> [Kinds -> {"none", "sent", "ok", "failed"}]]
      /\ tx'[c][k] = fate
      /\ \A j \in Kinds \ {k} : tx'[c][j] = tx[c][j]
      /\ \A d \in Calls \ {c} : tx'[d] = tx[d]
  BY <1>1, <1>2 DEF TypeOK
<1>4. /\ entry' \in {"archived", "short", "long"}
      /\ entry # "archived" => entry' # "archived"
      /\ entry = "long" => entry' = "long"
      /\ fate = "ok" /\ k = "restore" => entry' # "archived"
      /\ fate = "ok" /\ k = "extend" /\ entry # "archived" => entry' = "long"
  BY <1>1, <1>2, AppliedFacts DEF TypeOK
<1>5. TypeOK'
  BY <1>1, <1>3, <1>4 DEF TypeOK, Running
<1>6. ASSUME NEW d \in Calls PROVE Good(d)'
  <2>1. Good(d)
    BY DEF IInv
  <2>2. EndsOnce(d)' /\ Stage(d)' /\ ReceiptOwed(d)'
    BY <1>1, <2>1 DEF Good, EndsOnce, Stage, ReceiptOwed, Running
  <2>3. CASE d # c
    <3>1. HashesLanded(d)' /\ ReceiptTrue(d)' /\ ResultTrue(d)'
      BY <1>1, <1>3, <2>1, <2>3 DEF Good, HashesLanded, ReceiptTrue, ResultTrue
    <3>2. KeptAlive(d)'
      BY <1>1, <1>3, <1>4, <2>1, <2>3 DEF Good, KeptAlive, Alive
    <3>3. QED
      BY <2>2, <3>1, <3>2 DEF Good
  <2>4. CASE d = c
    <3>1. \A j \in Kinds : tx[c][j] \in {"ok", "failed"} => tx'[c][j] = tx[c][j]
      BY <1>1, <1>3
    <3>2. HashesLanded(c)' /\ ReceiptTrue(c)'
      BY <1>1, <2>1, <2>4, <3>1 DEF Good, HashesLanded, ReceiptTrue, TypeOK
    <3>3. ResultTrue(c)'
      <4>1. ResultTrue(c) /\ "restore" \in Kinds /\ "extend" \in Kinds
        BY <2>1, <2>4 DEF Good, Kinds
      <4>2. QED
        BY <1>1, <3>1, <4>1 DEF ResultTrue
    <3>4. KeptAlive(c)'
      <4>1. CASE k = "restore"
        BY <1>1, <1>3, <1>4, <2>1, <2>4, <4>1 DEF Good, KeptAlive, Alive, Kinds
      <4>2. CASE k = "extend"
        BY <1>1, <1>3, <1>4, <2>1, <2>4, <4>2 DEF Good, KeptAlive, Alive, Kinds
      <4>3. QED
        BY <1>1, <4>1, <4>2
    <3>5. QED
      BY <2>2, <2>4, <3>2, <3>3, <3>4 DEF Good
  <2>5. QED
    BY <2>3, <2>4
<1>7. QED
  BY <1>5, <1>6 DEF IInv

\* Somebody else's transaction takes no life from the entry.
LEMMA ElsewhereKeeps ==
    ASSUME IInv, NEW k \in Kinds, Elsewhere(k)
    PROVE  IInv'
<1>1. /\ TypeOK /\ entry' = Applied(k)
      /\ UNCHANGED <<tx, pc, tries, hashes, signer, receipt, result, sent, aged, misled>>
  BY DEF IInv, Elsewhere, marks, locals
<1>2. /\ entry' \in {"archived", "short", "long"}
      /\ entry # "archived" => entry' # "archived"
      /\ entry = "long" => entry' = "long"
  BY <1>1, AppliedFacts
<1>3. TypeOK'
  BY <1>1, <1>2 DEF TypeOK, Running
<1>4. ASSUME NEW d \in Calls PROVE Good(d)'
  <2>1. Good(d)
    BY DEF IInv
  <2>2. KeptAlive(d)'
    BY <1>1, <1>2, <2>1 DEF Good, KeptAlive, Alive
  <2>3. QED
    BY <1>1, <2>1, <2>2 DEF Good, EndsOnce, Stage, HashesLanded, ReceiptOwed, ReceiptTrue,
                           ResultTrue, Running
<1>5. QED
  BY <1>3, <1>4 DEF IInv

\* Time that passes voids what was said of the entry, for every call.
LEMMA AgeKeeps ==
    ASSUME IInv, Age
    PROVE  IInv'
<1>1. /\ TypeOK /\ aged' = [c \in Calls |-> TRUE] /\ entry' \in {"archived", "short", "long"}
      /\ UNCHANGED <<tx, pc, tries, hashes, signer, receipt, result, sent, misled>>
  BY DEF IInv, Age, marks, locals
<1>2. TypeOK'
  BY <1>1 DEF TypeOK, Running
<1>3. ASSUME NEW d \in Calls PROVE Good(d)'
  <2>1. Good(d) /\ aged'[d]
    BY <1>1 DEF IInv
  <2>2. QED
    BY <1>1, <2>1 DEF Good, EndsOnce, Stage, HashesLanded, ReceiptOwed, ReceiptTrue,
                      ResultTrue, KeptAlive, Alive, Running
<1>4. QED
  BY <1>2, <1>3 DEF IInv

\* A process that ends takes its keys along and leaves its transactions behind.
LEMMA DieKeeps ==
    ASSUME IInv, Die
    PROVE  IInv'
<1>. DEFINE died == [kind |-> "died", hash |-> "none"]
<1>1. /\ TypeOK /\ UNCHANGED <<entry, tx, hashes, receipt, sent, aged, misled>>
      /\ result' = [c \in Calls |-> IF Running(c) THEN died ELSE result[c]]
      /\ pc' = [c \in Calls |-> "idle"] /\ tries' = [c \in Calls |-> 0]
      /\ signer' = [c \in Calls |-> IF Running(c) THEN "none" ELSE signer[c]]
  BY DEF IInv, Die, marks
<1>2. died \in Ends /\ died.kind = "died"
  BY DEF Ends
<1>. HIDE DEF died
<1>3. TypeOK'
  <2>1. result' \in [Calls -> Ends]
    BY <1>1, <1>2 DEF TypeOK
  <2>2. /\ signer' \in [Calls -> {"none", "key", "wiped"}]
        /\ \A d \in Calls : signer'[d] # "key" /\ ~Running(d)'
    BY <1>1 DEF TypeOK, Running
  <2>3. QED
    BY <1>1, <2>1, <2>2 DEF TypeOK
<1>4. ASSUME NEW d \in Calls PROVE Good(d)'
  <2>1. Good(d) /\ pc'[d] = "idle" /\ ~Running(d)'
    BY <1>1 DEF IInv, Running
  <2>2. EndsOnce(d)' /\ Stage(d)' /\ HashesLanded(d)' /\ ReceiptTrue(d)' /\ KeptAlive(d)'
    BY <1>1, <2>1 DEF Good, EndsOnce, Stage, HashesLanded, ReceiptTrue, KeptAlive, Alive
  <2>3. CASE Running(d)
    <3>1. result'[d].kind = "died"
      BY <1>1, <1>2, <2>3
    <3>2. QED
      BY <2>1, <2>2, <3>1 DEF Good, ReceiptOwed, ResultTrue
  <2>4. CASE ~Running(d)
    <3>1. result'[d] = result[d] /\ pc[d] = pc'[d]
      BY <1>1, <2>1, <2>4 DEF Running
    <3>2. QED
      BY <1>1, <2>1, <2>2, <2>4, <3>1 DEF Good, ReceiptOwed, ResultTrue, Running
  <2>5. QED
    BY <2>3, <2>4
<1>5. QED
  BY <1>3, <1>4 DEF IInv

-----------------------------------------------------------------------------
(* The theorems. *)

\* No call has begun, whatever the life of the entry.
LEMMA InitEstablishes == Init => IInv
<1> SUFFICES ASSUME Init PROVE IInv
  OBVIOUS
<1>1. NoTx["restore"] = "none" /\ NoTx["extend"] = "none" /\ \A k \in Kinds : NoTx[k] = "none"
  BY DEF NoTx, Kinds
<1>2. /\ NoTx \in [Kinds -> {"none", "sent", "ok", "failed"}]
      /\ NoTx \in [Kinds -> {"none", "success", "failed", "pending"}]
      /\ Nothing \in Ends
  BY DEF NoTx, Nothing, Ends
<1>3. TypeOK
  BY <1>2 DEF Init, marks, TypeOK, Running
<1>4. ASSUME NEW c \in Calls PROVE Good(c)
  <2>1. EndsOnce(c) /\ Stage(c) /\ HashesLanded(c) /\ ReceiptOwed(c)
    BY <1>1 DEF Init, marks, EndsOnce, Stage, HashesLanded, ReceiptOwed, Running
  <2>2. ReceiptTrue(c) /\ ResultTrue(c) /\ KeptAlive(c)
    BY <1>1 DEF Init, marks, ReceiptTrue, ResultTrue, KeptAlive, Alive, Nothing
  <2>3. QED
    BY <2>1, <2>2 DEF Good
<1>5. QED
  BY <1>3, <1>4 DEF IInv

\* One step at a time: a call, the ledger, the clock or the end of the process.
LEMMA StepKeeps == IInv /\ [Next]_vars => IInv'
<1> SUFFICES ASSUME IInv, [Next]_vars PROVE IInv'
  OBVIOUS
<1>1. ASSUME NEW c \in Calls, Step(c) PROVE IInv'
  BY <1>1, LoadSignerKeeps, ProbeKeeps, SubmitKeeps, PollKeeps, ReSimulateKeeps DEF Step
<1>2. CASE UNCHANGED vars
  <2>1. TypeOK'
    BY <1>2 DEF IInv, TypeOK, vars, locals, marks, Running
  <2>2. ASSUME NEW c \in Calls PROVE Good(c)'
    BY <1>2 DEF IInv, Good, EndsOnce, Stage, HashesLanded, ReceiptOwed, ReceiptTrue,
                ResultTrue, KeptAlive, Alive, Running, vars, locals, marks
  <2>3. QED
    BY <2>1, <2>2 DEF IInv
<1>3. QED
  BY <1>1, <1>2, StartKeeps, LandKeeps, ElsewhereKeeps, AgeKeeps, DieKeeps DEF Next

\* The inductive invariant holds throughout.
LEMMA Invariance == Spec => []IInv
BY InitEstablishes, StepKeeps, PTL DEF Spec

\* The signing key of a wake-up exists exactly while the call may have to sign:
\* it survives to the second signature, and every way out, errors of any await
\* included, wipes it.
THEOREM KeyOnlyWhileSigning == Spec => []TypeOK
<1>1. IInv => TypeOK
  BY DEF IInv
<1>2. QED
  BY <1>1, Invariance, PTL

\* A wake-up that reports success left the entry with its long life, unless time
\* passed since it began or a server showed it an archived entry as live: an extension
\* that lands on a live entry is what `ok' means.  A call that sent a restore is never
\* misled.
THEOREM SuccessMeansAwake == Spec => []WokenUp
<1>1. IInv => WokenUp
  BY DEF IInv, Good, ResultTrue, KeptAlive, Alive, WokenUp
<1>2. QED
  BY <1>1, Invariance, PTL

\* A restore whose extension did not follow is never reported as success, and an
\* on-chain error names a transaction that failed or that restore.
THEOREM HalfDoneIsReported == Spec => []HalfDoneIsAnError
<1>1. IInv => HalfDoneIsAnError
  BY DEF IInv, Good, ResultTrue, HalfDoneIsAnError
<1>2. QED
  BY <1>1, Invariance, PTL

\* Every transaction the server answered for has its receipt by the end of the
\* call, and no receipt says more than what became of it.
THEOREM ReceiptsComplete == Spec => []EveryTxHasReceipt
<1>1. IInv => EveryTxHasReceipt
  <2>. SUFFICES ASSUME IInv, NEW c \in Calls
                PROVE  /\ ~Running(c) /\ result[c].kind # "died" =>
                              \A k \in sent[c] : receipt[c][k] # "none"
                       /\ ReceiptTrue(c)
    BY DEF EveryTxHasReceipt, ReceiptTrue
  <2>1. Good(c)
    BY DEF IInv
  <2>2. QED
    BY <2>1 DEF Good, ReceiptOwed, ReceiptTrue, Running
<1>2. QED
  BY <1>1, Invariance, PTL
=============================================================================

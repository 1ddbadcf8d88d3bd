------------------------------- MODULE WakeUp -------------------------------
(***************************************************************************)
(* wakeUpVault() of src/src/api/soroban-client.ts: two transactions, signed*)
(* with one key, that bring the archived ledger entry of a vault back and  *)
(* then give it a long life.                                               *)
(*                                                                         *)
(* The simulation of a read says whether the entry must be restored first. *)
(* A restored entry has a short life, so the second transaction matters as *)
(* much as the first, and either may be refused, be lost, fail, or land    *)
(* after the call gave up on it.  One action per await.                    *)
(*                                                                         *)
(* Either answer of the simulation carries the footprint that the second   *)
(* transaction needs (the SDK's restore response extends the success       *)
(* response), so the footprint is left out.  What a wake-up does to the    *)
(* caches of the app at its end is in EventCache and VaultSync.            *)
(***************************************************************************)
EXTENDS Integers, FiniteSets

CONSTANTS
    Calls,           \* calls of wakeUpVault for one vault that may overlap
    PollAttempts,    \* POLL_ATTEMPTS
    ReSimAttempts    \* RE_SIM_ATTEMPTS

ASSUME AttemptsAssumption == PollAttempts \in Nat \ {0} /\ ReSimAttempts \in Nat \ {0}

VARIABLES
    entry,       \* the ledger entry: archived, or its life is short or long
    tx,          \* what became of the two transactions of each call
    pc,          \* the await each call is suspended at
    tries,       \* iterations of the loop the call is in
    hashes,      \* txHashes; `restored' and `extended' say what is in it
    signer,      \* the Keypair: none, its key, or zeros
    receipt,     \* the receipts emitted for the two transactions
    result,      \* how each call ended
    sent,        \* auxiliary: the transactions whose sending the server answered
    aged,        \* auxiliary: the entry came closer to its end since the call began
    misled       \* auxiliary: a lagging server showed the call an archived entry as live

locals == <<pc, tries, hashes, signer, receipt, result>>
marks  == <<sent, aged, misled>>
vars   == <<entry, tx, locals, marks>>

Kinds == {"restore", "extend"}
Ends  == [kind: {"none", "ok", "not_connected", "network", "simulation", "send",
                 "on_chain", "poll_timeout", "died"},
          hash: Kinds \cup {"none"}]
Nothing == [kind |-> "none", hash |-> "none"]
NoTx    == [k \in Kinds |-> "none"]

Running(c) == pc[c] # "idle"

-----------------------------------------------------------------------------
(* The ledger. *)

\* RestoreFootprint gives an archived entry a short life; ExtendFootprintTtl
\* gives a live one a long life, and passes over an archived one.
Applied(k) ==
    CASE k = "restore" /\ entry = "archived" -> "short"
      [] k = "extend" /\ entry # "archived" -> "long"
      [] OTHER -> entry

Land(c, k) ==
    /\ tx[c][k] = "sent"
    /\ \/ tx' = [tx EXCEPT ![c][k] = "ok"] /\ entry' = Applied(k)
       \/ tx' = [tx EXCEPT ![c][k] = "failed"] /\ UNCHANGED entry
    /\ UNCHANGED <<locals, marks>>

\* Somebody else's transaction, or one of a call that is over.
Elsewhere(k) ==
    /\ entry' = Applied(k)
    /\ UNCHANGED <<tx, locals, marks>>

Age ==
    /\ entry # "archived"
    /\ entry' = IF entry = "long" THEN "short" ELSE "archived"
    /\ aged' = [c \in Calls |-> TRUE]
    /\ UNCHANGED <<tx, locals, sent, misled>>

-----------------------------------------------------------------------------
(* A call. *)

Goto(c, step) == pc' = [pc EXCEPT ![c] = step] /\ tries' = [tries EXCEPT ![c] = 0]

Again(c) == tries' = [tries EXCEPT ![c] = @ + 1] /\ UNCHANGED pc

\* Every way out goes through the `finally' that wipes the key.
End(c, kind, hash) ==
    /\ Goto(c, "idle")
    /\ result' = [result EXCEPT ![c] = [kind |-> kind, hash |-> hash]]
    /\ signer' = [signer EXCEPT ![c] = IF @ = "key" THEN "wiped" ELSE @]

Continue(c, step) == Goto(c, step) /\ UNCHANGED <<result, signer>>

\* What wakeUpVault makes of an error of submitOne: once restored, an extension
\* that did not go through is reported as SorobanOnChainError, whatever it was.
Fail_Silent(c, k, kind) ==    \* mutant: a failed extension is only logged
    IF k = "extend" /\ "restore" \in hashes[c]
    THEN End(c, "ok", "none")
    ELSE End(c, kind, IF kind = "network" THEN "none" ELSE k)
Fail(c, k, kind) ==
    IF k = "extend" /\ "restore" \in hashes[c]
    THEN End(c, "on_chain", "restore")
    ELSE End(c, kind, IF kind = "network" THEN "none" ELSE k)

Start(c) ==
    /\ pc[c] = "idle"
    /\ Goto(c, "signer")
    /\ tx' = [tx EXCEPT ![c] = NoTx] /\ sent' = [sent EXCEPT ![c] = {}]
    /\ hashes' = [hashes EXCEPT ![c] = {}]
    /\ signer' = [signer EXCEPT ![c] = "none"] /\ result' = [result EXCEPT ![c] = Nothing]
    /\ receipt' = [receipt EXCEPT ![c] = NoTx]
    /\ aged' = [aged EXCEPT ![c] = FALSE] /\ misled' = [misled EXCEPT ![c] = FALSE]
    /\ UNCHANGED entry

\* No wallet, or a seed that is no key.
LoadSigner(c) ==
    /\ pc[c] = "signer"
    /\ \/ Goto(c, "probe") /\ signer' = [signer EXCEPT ![c] = "key"] /\ UNCHANGED result
       \/ End(c, "not_connected", "none")
    /\ UNCHANGED <<entry, tx, hashes, receipt, marks>>

\* Step A: the account and the simulation; no vault is an error.  A server that
\* lags shows the entry as it was before it was restored, or before it was archived,
\* which may be long before the call.
Probe(c) ==
    /\ pc[c] = "probe"
    /\ \/ Continue(c, "restore") /\ UNCHANGED misled    \* restorePreamble
       \/ Continue(c, "extend") /\ misled' = [misled EXCEPT ![c] = (entry = "archived")]
       \/ UNCHANGED misled /\ (End(c, "network", "none") \/ End(c, "simulation", "none"))
    /\ UNCHANGED <<entry, tx, hashes, receipt, sent, aged>>

\* loadAccount and the first half of submitOne; an error of sign() ends it like a
\* refusal.  A server that answers TRY_AGAIN_LATER took nothing in, and is polled
\* all the same; a send that throws may have reached it.  Zeros sign nothing that
\* a server accepts.
Submit_WipesKey(c, k) ==    \* mutant: the key is wiped after each signature
    /\ pc[c] = k
    /\ \/ /\ signer[c] = "key"
          /\ Goto(c, IF k = "restore" THEN "poll_restore" ELSE "poll_extend")
          /\ signer' = [signer EXCEPT ![c] = "wiped"]
          /\ tx' = [tx EXCEPT ![c][k] = "sent"] /\ sent' = [sent EXCEPT ![c] = @ \cup {k}]
          /\ UNCHANGED result
       \/ UNCHANGED <<tx, sent>> /\ Fail(c, k, "send")
    /\ UNCHANGED <<entry, hashes, receipt, aged, misled>>
Submit(c, k) ==
    /\ pc[c] = k
    /\ \/ /\ signer[c] = "key"
          /\ Continue(c, IF k = "restore" THEN "poll_restore" ELSE "poll_extend")
          /\ tx' \in {tx, [tx EXCEPT ![c][k] = "sent"]}
          /\ sent' = [sent EXCEPT ![c] = @ \cup {k}]
       \/ UNCHANGED <<tx, sent>> /\ Fail(c, k, "send")
       \/ tx' \in {tx, [tx EXCEPT ![c][k] = "sent"]} /\ UNCHANGED sent /\ Fail(c, k, "network")
       \/ UNCHANGED <<tx, sent>> /\ End(c, "network", "none")    \* loadAccount
    /\ UNCHANGED <<entry, hashes, receipt, aged, misled>>

\* The second half of submitOne: a poll sees the transaction, or does not.
Emit(c, k, status) == receipt' = [receipt EXCEPT ![c][k] = status]

Confirmed(c, k) ==
    /\ Emit(c, k, "success")
    /\ hashes' = [hashes EXCEPT ![c] = @ \cup {k}]
    /\ IF k = "restore" THEN Continue(c, "resimulate") ELSE End(c, "ok", "none")

TimedOut_GoesOn(c, k) ==    \* mutant: a timeout is taken for success
    /\ Emit(c, k, "pending")
    /\ hashes' = [hashes EXCEPT ![c] = @ \cup {k}]
    /\ IF k = "restore" THEN Continue(c, "resimulate") ELSE End(c, "ok", "none")
TimedOut_Silent(c, k) ==    \* mutant: no receipt for a timeout
    UNCHANGED <<receipt, hashes>> /\ Fail(c, k, "poll_timeout")
TimedOut(c, k) == Emit(c, k, "pending") /\ UNCHANGED hashes /\ Fail(c, k, "poll_timeout")

Poll(c, k) ==
    /\ pc[c] = (IF k = "restore" THEN "poll_restore" ELSE "poll_extend")
    /\ \/ tx[c][k] = "ok" /\ Confirmed(c, k)
       \/ tx[c][k] = "failed" /\ Emit(c, k, "failed") /\ UNCHANGED hashes /\ Fail(c, k, "on_chain")
       \/ tries[c] + 1 < PollAttempts /\ Again(c) /\ UNCHANGED <<receipt, hashes, result, signer>>
       \/ tries[c] + 1 = PollAttempts /\ TimedOut(c, k)
    /\ UNCHANGED <<entry, tx, marks>>

\* The re-simulations after a restore; the extension follows whatever they say.
ReSimulate_Forever(c) ==    \* mutant: until the entry shows up as live
    /\ pc[c] = "resimulate"
    /\ entry # "archived"
    /\ Continue(c, "extend")
    /\ UNCHANGED <<entry, tx, hashes, receipt, marks>>
ReSimulate(c) ==
    /\ pc[c] = "resimulate"
    /\ \/ tries[c] + 1 < ReSimAttempts /\ Again(c) /\ UNCHANGED <<result, signer>>
       \/ /\ entry # "archived" \/ tries[c] + 1 = ReSimAttempts
          /\ Continue(c, "extend")
    /\ UNCHANGED <<entry, tx, hashes, receipt, marks>>

\* The process ends; what it sent is still under way.
Die ==
    /\ \E c \in Calls : Running(c)
    /\ result' = [c \in Calls |-> IF Running(c) THEN [kind |-> "died", hash |-> "none"] ELSE result[c]]
    /\ pc' = [c \in Calls |-> "idle"] /\ tries' = [c \in Calls |-> 0]
    /\ signer' = [c \in Calls |-> IF Running(c) THEN "none" ELSE signer[c]]
    /\ UNCHANGED <<entry, tx, hashes, receipt, marks>>

-----------------------------------------------------------------------------

Init ==
    /\ entry \in {"archived", "short", "long"}
    /\ tx = [c \in Calls |-> NoTx] /\ sent = [c \in Calls |-> {}]
    /\ pc = [c \in Calls |-> "idle"] /\ tries = [c \in Calls |-> 0]
    /\ hashes = [c \in Calls |-> {}]
    /\ signer = [c \in Calls |-> "none"] /\ receipt = [c \in Calls |-> NoTx]
    /\ result = [c \in Calls |-> Nothing] /\ aged = [c \in Calls |-> FALSE]
    /\ misled = [c \in Calls |-> FALSE]

Step(c) ==
    \/ LoadSigner(c) \/ Probe(c) \/ ReSimulate(c)
    \/ \E k \in Kinds : Submit(c, k) \/ Poll(c, k)

Next ==
    \/ \E c \in Calls : Start(c) \/ Step(c) \/ \E k \in Kinds : Land(c, k)
    \/ \E k \in Kinds : Elsewhere(k)
    \/ Age \/ Die

Spec == Init /\ [][Next]_vars

\* The event loop resumes every call: each await ends, with an answer or an error.
FairSpec == Spec /\ \A c \in Calls : WF_vars(Step(c))

-----------------------------------------------------------------------------
(* Properties. *)

\* Type invariant; the key is there exactly while a call may have to sign, so that
\* wiping it never breaks the second signature and never leaves it behind.
TypeOK ==
    /\ entry \in {"archived", "short", "long"}
    /\ tx \in [Calls -> [Kinds -> {"none", "sent", "ok", "failed"}]]
    /\ pc \in [Calls -> {"idle", "signer", "probe", "restore", "poll_restore",
                         "resimulate", "extend", "poll_extend"}]
    /\ tries \in [Calls -> Nat]
    /\ hashes \in [Calls -> SUBSET Kinds] /\ sent \in [Calls -> SUBSET Kinds]
    /\ receipt \in [Calls -> [Kinds -> {"none", "success", "failed", "pending"}]]
    /\ result \in [Calls -> Ends] /\ aged \in [Calls -> BOOLEAN] /\ misled \in [Calls -> BOOLEAN]
    /\ signer \in [Calls -> {"none", "key", "wiped"}]
    /\ \A c \in Calls : signer[c] = "key" <=> Running(c) /\ pc[c] # "signer"

\* A wake-up that reports success did what it says: unless time passed since it
\* began, the entry has a long life, restored by this call if need be.  There is one
\* exception: a call that was shown an archived entry as live sends no restore, the
\* network passes over its extension, and that counts as success.  Whatever the
\* servers show, the success of a call that sent a restore is true.
WokenUp == \A c \in Calls :
    result[c].kind = "ok" /\ ~aged[c] =>
        entry = "long" \/ (misled[c] /\ tx[c]["restore"] = "none")

\* The "double handshake": a call that restored the entry reports success only if
\* its extension landed too, and a SorobanOnChainError names either a transaction
\* that failed or the restore of a wake-up left half done.
HalfDoneIsAnError == \A c \in Calls :
    /\ result[c].kind = "ok" => tx[c]["extend"] = "ok"
    /\ result[c].kind = "on_chain" =>
           \/ result[c].hash \in Kinds /\ tx[c][result[c].hash] = "failed"
           \/ result[c].hash = "restore" /\ tx[c]["restore"] = "ok" /\ "extend" \notin hashes[c]

\* Every transaction whose sending was answered ends with a receipt for the banner,
\* and a receipt never says more than what happened, unless the process died.
EveryTxHasReceipt == \A c \in Calls :
    /\ ~Running(c) /\ result[c].kind # "died" => \A k \in sent[c] : receipt[c][k] # "none"
    /\ \A k \in Kinds : /\ receipt[c][k] = "success" => tx[c][k] = "ok"
                        /\ receipt[c][k] = "failed" => tx[c][k] = "failed"

\* Whatever the network does, a wake-up comes to an end.
WakeUpEnds == \A c \in Calls : Running(c) ~> ~Running(c)
=============================================================================

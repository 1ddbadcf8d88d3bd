------------------------------ MODULE Horizon -------------------------------
(***************************************************************************)
(* The balance shown as "Available" (src/src/wallet/horizon.ts): what      *)
(* remains of an account's lumens after the reserve and the liabilities.   *)
(*                                                                         *)
(* Amounts are in stroops (the code divides by ten million, in doubles).   *)
(* A field that the response lacks counts as zero, and so does a total or  *)
(* a liability that is no finite number: Account is what is left then.     *)
(***************************************************************************)
EXTENDS Integers

\* BASE_RESERVE_XLM and ACCOUNT_BASE_UNITS.
BaseReserve == 5000000
BaseUnits   == 2

\* Horizon's answer about an account.
Account == [balance: Nat, selling: Nat, buying: Nat,
            subentries: Nat, sponsoring: Nat, sponsored: Nat]

FloorAtZero(x) == IF x > 0 THEN x ELSE 0

computeReserveXlm(subentries, sponsoring, sponsored) ==
    FloorAtZero(BaseUnits + FloorAtZero(subentries) + FloorAtZero(sponsoring)
                  - FloorAtZero(sponsored)) * BaseReserve

ReserveOf(a) == computeReserveXlm(a.subentries, a.sponsoring, a.sponsored)

Spendable(a) == FloorAtZero(a.balance - ReserveOf(a) - (a.selling + a.buying))

\* How a request ends: whether it is answered, the status, and whether the body can be
\* read as an account.
Response == [arrives: BOOLEAN, status: Nat, readable: BOOLEAN]
IsOk(res) == res.status \in 200..299

\* What fetchHorizonBalance returns for a response with the account `a'; whatever
\* throws is caught and ends as an error.
StateOf(res) ==
    IF res.arrives /\ res.status = 404 THEN "unfunded"
    ELSE IF res.arrives /\ IsOk(res) /\ res.readable THEN "funded" ELSE "error"

emptyResult(state) ==
    [state |-> state, total |-> 0, reserve |-> 0, liabilities |-> 0, spendable |-> 0]

fetchHorizonBalance(res, a) ==
    IF StateOf(res) = "funded"
    THEN [state |-> "funded", total |-> a.balance, reserve |-> ReserveOf(a),
          liabilities |-> a.selling + a.buying, spendable |-> Spendable(a)]
    ELSE emptyResult(StateOf(res))

-----------------------------------------------------------------------------
(* The protocol's side: what a payment may take out of an account.           *)

\* The ledger keeps the sponsored entries within the account's own.
OnLedger(a) == a.sponsored <= BaseUnits + a.subentries + a.sponsoring

\* The balance above the minimum balance and the open offers to sell; offers to
\* buy bind what the account may still receive, not what it may send.
Allowed(a) ==
    a.balance - a.selling - (BaseUnits + a.subentries + a.sponsoring - a.sponsored) * BaseReserve
=============================================================================

----------------------------- MODULE MCXlmVault -----------------------------
(* Instances of XlmVault and of its refinement of TimeLock for TLC. *)
EXTENDS XlmVaultTimeLock, TLC

CONSTANTS alice, bob, vault, xlm, usd

\* A unit of xlm each: either owner can fill a vault, and a payment between them
\* lets one fill two, or one twice.  Nobody holds the second token: init may still
\* be called with it.
OneTokenFunds ==
    [t \in Tokens |-> IF t = xlm THEN (alice :> 1 @@ bob :> 1) ELSE (alice :> 0 @@ bob :> 0)]

\* i128 amounts may be zero or negative.
SignedUnits == {-1, 0, 1}
=============================================================================

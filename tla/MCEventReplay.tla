--------------------------- MODULE MCEventReplay ----------------------------
(* Instances of EventReplay for TLC. *)
EXTENDS EventReplay, TLC

CONSTANTS alice, bob, vault, xlm

\* Three units of xlm between two owners.
UnevenFunds == [t \in Tokens |-> (alice :> 2 @@ bob :> 1)]
=============================================================================

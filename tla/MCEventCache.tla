---------------------------- MODULE MCEventCache ----------------------------
(* Instances of EventCache for TLC. *)
EXTENDS EventCache, TLC

CONSTANTS testnet, mainnet, f1, f2    \* f1, f2: two screens that read events

\* Neither networks nor fetches are told apart (Init allows both networks).
Symmetry == Permutations(Networks) \cup Permutations(Fetches)
=============================================================================

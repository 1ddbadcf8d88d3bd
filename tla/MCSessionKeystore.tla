------------------------ MODULE MCSessionKeystore -------------------------
(* SessionKeystore on two wallets and two overlapping calls. *)
EXTENDS SessionKeystore, TLC

Alike == Permutations(Wallets) \cup Permutations(Tasks)
=============================================================================

---------------------------- MODULE MCBiometric -----------------------------
(* Biometric on a small instance: calls and secrets are interchangeable.    *)
EXTENDS Biometric, TLC

Interchangeable == Permutations(Calls) \cup Permutations(Secrets)
=============================================================================

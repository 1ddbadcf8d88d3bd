-------------------------- MODULE MCNotebookCrypto --------------------------
(* NotebookCrypto on a small instance: wallets, calls and device keys are   *)
(* interchangeable.                                                         *)
EXTENDS NotebookCrypto, TLC

Interchangeable ==
    Permutations(Wallets) \cup Permutations(Tasks) \cup Permutations(DeviceKeys)
=============================================================================

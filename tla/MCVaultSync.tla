---------------------------- MODULE MCVaultSync -----------------------------
(* Instances of VaultSync for TLC. *)
EXTENDS VaultSync

CONSTANTS v0, v1, l1, l2    \* vaults, and overlapping refreshes of the dashboard
=============================================================================

-------------------------- MODULE MCInvokePipeline --------------------------
(* Instances of InvokePipeline for TLC. *)
EXTENDS InvokePipeline

CONSTANTS a1, a2    \* two calls, from two screens or from a retry
=============================================================================

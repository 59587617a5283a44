----------------------------- MODULE MCRuntime ------------------------------
(* The task queue of the runtime, for TLC. *)
EXTENDS Runtime
=============================================================================

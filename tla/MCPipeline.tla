---------------------------- MODULE MCPipeline ------------------------------
(* A chain of two services behind InFlight with a limit of one. *)
EXTENDS Pipeline
MCChained ==
    {[limit |-> 1, chain |-> TRUE, state |-> FALSE, callers |-> Callers, closings |-> 0, cancels |-> 0]}
=============================================================================

----------------------------- MODULE Connection -----------------------------
(***************************************************************************)
(* What a connection promises its user: the order of its phases, and that  *)
(* a graceful close loses no byte it accepted unless it had to give up.    *)
(*                                                                         *)
(*   open --> closing --> stopped                                          *)
(*      \---------\----------\---> terminated                              *)
(***************************************************************************)
EXTENDS Naturals

VARIABLES
    phase,      \* "open", "closing", "stopped" or "terminated"
    pending,    \* bytes accepted and not yet handed to the socket
    excused,    \* the close may give up: its timeout elapsed, its filter stalls
    filtered    \* a filter may add bytes of its own

vars == <<phase, pending, excused, filtered>>

Init ==
    /\ phase = "open" /\ pending = 0
    /\ excused \in BOOLEAN /\ filtered \in BOOLEAN

\* Bytes are accepted and sent; after the close began none are accepted.
Exchange ==
    /\ UNCHANGED phase
    /\ pending' \in Nat
    /\ phase # "open" /\ ~filtered => pending' <= pending

BeginClose == phase = "open" /\ phase' = "closing" /\ pending' \in Nat

FinishClose ==
    /\ phase = "closing" /\ phase' = "stopped"
    /\ pending' \in Nat
    /\ pending' = 0 \/ excused'

Terminate == phase # "terminated" /\ phase' = "terminated" /\ pending' \in Nat

Next ==
    /\ Exchange \/ BeginClose \/ FinishClose \/ Terminate
    /\ excused' \in BOOLEAN /\ UNCHANGED filtered

Spec == Init /\ [][Next]_vars
=============================================================================

----------------------------- MODULE MCDispatcher -----------------------------
(***************************************************************************)
(* Profiles of the dispatcher for TLC.                                     *)
(***************************************************************************)
EXTENDS Dispatcher

P(ka, rate, bytes, answers, unready, faults, others, idle, talk) ==
  [ka |-> ka, rate |-> rate, bytes |-> bytes, answers |-> answers, unready |-> unready,
   faults |-> faults, others |-> others, idle |-> idle, talk |-> talk]

\* A peer that falls silent; frames that arrive in pieces, also with a read rate of zero
\* seconds; a slow reader of the answers; a service and a peer that fail.
MCProfiles ==
  { P(1, <<>>, 2, {"some"}, 1, {}, 1, 1, 1),
    P(1, <<1, 2, 0>>, 3, {}, 0, {}, 0, 1, 0),
    P(1, <<0, 1, 0>>, 3, {}, 0, {}, 0, 0, 0),
    P(0, <<1, 0, 0>>, 4, {"some"}, 0, {"gone"}, 1, 0, 2),
    P(0, <<>>, 4, {"some", "unencodable"}, 1, {"gone"}, 0, 0, 3),
    P(1, <<>>, 2, {"err"}, 1, {"malformed", "sick"}, 0, 0, 1) }
====

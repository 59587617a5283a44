------------------------------- MODULE MCServer -------------------------------
(* The server on small pools; one run over several configurations. *)
EXTENDS Server

Profile(ws, n, ops, errors, fails, panic) ==
  [stop_on_panic |-> panic, graceful_shutdown |-> TRUE, shutdown_timeout |-> TRUE,
   stop_runtime |-> TRUE, workers |-> ws, clients |-> n, ops |-> ops, errors |-> errors,
   faults |-> fails]

MCWorkers == {0, 1}
MCProfiles ==
  { Profile({0}, 2, {}, 0, 0, FALSE),                  \* more clients than connections
    Profile({0}, 1, {}, 0, 1, FALSE),                  \* a worker fails and is restarted
    Profile({0}, 0, {}, 0, 1, TRUE),                   \* ... or stops the server
    Profile({0}, 1, {}, 1, 0, FALSE),                  \* an accept error
    Profile({0}, 1, {"Pause", "Resume"}, 0, 0, FALSE),
    Profile({0}, 1, {"StopGraceful"}, 0, 0, FALSE),
    Profile({0}, 0, {"Hup", "Term"}, 0, 0, FALSE),
    Profile({0}, 0, {"Int", "Quit"}, 0, 0, FALSE),
    [Profile({0, 1}, 0, {"Stop"}, 0, 0, FALSE) EXCEPT !.stop_runtime = FALSE],
    [Profile({0}, 0, {"Stop"}, 0, 1, FALSE) EXCEPT !.stop_runtime = FALSE],   \* a stop while a
    [Profile({0}, 0, {"Stop"}, 0, 1, TRUE) EXCEPT !.stop_runtime = FALSE] }   \* worker fails

=============================================================================

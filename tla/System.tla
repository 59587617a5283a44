------------------------------- MODULE System -------------------------------
(***************************************************************************)
(* The system of runtime threads (rt/system.rs, rt/arbiter.rs): arbiters   *)
(* that are started, register themselves, are told to stop and leave, and  *)
(* the task that stops the system.                                         *)
(***************************************************************************)
EXTENDS Naturals, Sequences, FiniteSets, SequencesExt

CONSTANTS
    Arbiters,       \* arbiters that may be started, in the order of their ids
    Stops,          \* bound: calls of System::stop
    ArbiterStops    \* bound: calls of Arbiter::stop

VARIABLES
    sys,    \* the System, see NewSystem
    arb     \* arbiter -> its thread and controller, see NewArbiter

systemVars == <<sys, arb>>

(***************************************************************************)
(* System and arbiters.  `all` and `list` are behind one lock.             *)
(***************************************************************************)
\* System::start
NewSystem == [ cmds    |-> 0,         \* Exit commands in the channel
               all     |-> {},
               list    |-> <<>>,      \* without the system's own arbiter, whose controller has no `stop`
               stop_tx |-> TRUE,      \* SystemSupport::stop
               main    |-> "runs",    \* "runs", "told" or "ended"
               stops   |-> Stops,
               astops  |-> ArbiterStops ]

NewArbiter == [ pc      |-> "none",   \* "spawned", "loop", "ended", "leaving", "gone"
                q       |-> 0,        \* Stop commands in the channel
                ctl     |-> FALSE,    \* ArbiterController::stop is there
                stopped |-> FALSE,    \* stop_rx is ready
                running |-> FALSE,
                hooks   |-> "none" ]  \* on_stop: "none", "set", "run", "missed"

\* Arbiter::with_name: the thread is spawned, and its creator waits for it.
WithName(a) ==
    /\ arb[a].pc = "none"
    /\ arb' = [arb EXCEPT ![a].pc = "spawned"]
    /\ UNCHANGED sys

\* The first poll on the new thread: the arbiter registers and starts its controller.
ArbiterStarts(a) ==
    /\ arb[a].pc = "spawned"
    /\ sys' = [sys EXCEPT !.all = @ \cup {a}, !.list = Append(@, a)]
    /\ arb' = [arb EXCEPT ![a].pc = "loop", ![a].ctl = TRUE, ![a].running = TRUE]

\* ArbiterController::run
Controller(a) ==
    /\ arb[a].pc = "loop" /\ arb[a].q > 0
    /\ arb' = [arb EXCEPT ![a].q = @ - 1, ![a].ctl = FALSE, ![a].stopped = @ \/ arb[a].ctl]
    /\ UNCHANGED sys

\* stop_rx is ready, or a task of the thread panics.
ArbiterEnds(a) ==
    /\ arb[a].pc = "loop"
    /\ \/ arb[a].stopped /\ arb' = [arb EXCEPT ![a].pc = "ended", ![a].running = FALSE]
       \/ arb' = [arb EXCEPT ![a].pc = "ended"]
    /\ UNCHANGED sys

\* on_stop is taken out of the lock, and what is in it is called.
RunHooks(a) ==
    /\ arb[a].pc = "ended"
    /\ arb' = [arb EXCEPT ![a].pc = "leaving", ![a].hooks = IF @ = "set" THEN "run" ELSE @]
    /\ UNCHANGED sys

\* Removes by position in `all`, whatever is first in the list.
UnregisterFirst(a) ==
    /\ arb[a].pc = "leaving"
    /\ sys' = IF a \in sys.all
              THEN [sys EXCEPT !.all = @ \ {a}, !.list = Tail(@)]
              ELSE sys
    /\ arb' = [arb EXCEPT ![a].pc = "gone"]

\* unregister_arbiter, and the thread is over
Unregister(a) ==
    /\ arb[a].pc = "leaving"
    /\ sys' = IF a \in sys.all
              THEN [sys EXCEPT !.all = @ \ {a}, !.list = SelectSeq(@, LAMBDA b : b # a)]
              ELSE sys
    /\ arb' = [arb EXCEPT ![a].pc = "gone"]

\* Arbiter::on_stop; after the callbacks were taken it is not called any more.
OnStop(a) ==
    /\ arb[a].pc \notin {"none", "spawned"} /\ arb[a].hooks = "none"
    /\ arb' = [arb EXCEPT ![a].hooks = IF arb[a].pc \in {"loop", "ended"} THEN "set" ELSE "missed"]
    /\ UNCHANGED sys

\* Arbiter::stop
StopArbiter(a) ==
    /\ arb[a].pc # "none" /\ arb[a].pc # "spawned" /\ sys.astops > 0
    /\ sys' = [sys EXCEPT !.astops = @ - 1]
    /\ arb' = [arb EXCEPT ![a].q = @ + 1]

\* System::stop
StopSystem ==
    /\ sys.stops > 0
    /\ sys' = [sys EXCEPT !.stops = @ - 1, !.cmds = @ + 1]
    /\ UNCHANGED arb

\* SystemSupport::run: an Exit stops the arbiters of the list, and the event loop.
SupportRun ==
    /\ sys.main # "ended" /\ sys.cmds > 0
    /\ arb' = [a \in Arbiters |-> IF \E i \in DOMAIN sys.list : sys.list[i] = a
                                  THEN [arb[a] EXCEPT !.q = @ + 1] ELSE arb[a]]
    /\ sys' = [sys EXCEPT !.cmds = @ - 1, !.list = <<>>, !.all = {}, !.stop_tx = FALSE,
                          !.main = IF sys.stop_tx THEN "told" ELSE @]

\* SystemRunner::run returns.
MainEnds ==
    /\ sys.main = "told"
    /\ sys' = [sys EXCEPT !.main = "ended"]
    /\ UNCHANGED arb

SystemInit ==
    /\ sys = NewSystem
    /\ arb = [a \in Arbiters |-> NewArbiter]

SystemNext ==
    \/ \E a \in Arbiters : WithName(a) \/ ArbiterStarts(a) \/ Controller(a) \/ ArbiterEnds(a)
                             \/ RunHooks(a) \/ Unregister(a) \/ OnStop(a) \/ StopArbiter(a)
    \/ StopSystem \/ SupportRun \/ MainEnds

SystemSpec == SystemInit /\ [][SystemNext]_systemVars

(***************************************************************************)
(* Properties                                                              *)
(***************************************************************************)
\* No arbiter is forgotten: one whose loop runs is on the system's list, where
\* the next System::stop finds it, or a Stop is on its way to it or has arrived;
\* one whose thread is over is not.  The list is drained by a stop and edited by
\* every arbiter that starts or leaves.
ArbiterKnown ==
    \A a \in Arbiters :
        LET listed == \E i \in DOMAIN sys.list : sys.list[i] = a
        IN  /\ arb[a].pc = "loop" => listed \/ arb[a].q > 0 \/ arb[a].stopped
            /\ arb[a].pc = "gone" => ~listed
=============================================================================

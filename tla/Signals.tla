------------------------------- MODULE Signals ------------------------------
(***************************************************************************)
(* Process signals (rt/signals.rs): a signal handler, which may run between*)
(* any two steps of any thread, stores a signal and wakes the task that    *)
(* hands signals to whoever registered for them.  The task is started and  *)
(* stopped with the signal handling of the system.                         *)
(***************************************************************************)
EXTENDS Naturals, FiniteSets

CONSTANTS
    Raised,     \* bound: signals the process receives
    Slots,      \* length of SIGS
    Starts,     \* bound: times signal handling is enabled
    Handlers    \* receivers that may be registered

VARIABLE sig    \* see NewSignals

NewSignals == [ cur     |-> FALSE,      \* CUR_SYS is set, and the handlers are installed
                gen     |-> 0,          \* tasks started; the last one is the current
                task    |-> [g \in 1..Starts |-> "none"],   \* "woken", "take", "rewoken", "asleep", "ended"
                rx      |-> [g \in 1..Starts |-> "open"],   \* the receiver of a task: "open" or "ready"
                stop    |-> 0,          \* STOP: the task whose sender it holds
                stopper |-> FALSE,      \* the task that sends on STOP is queued
                waker   |-> 0,          \* HND_WAKER: the task it wakes
                slots   |-> 0,          \* signals in SIGS
                raising |-> FALSE,      \* a signal handler has stored and not yet woken
                asked   |-> {},         \* `signal` was called, its push has not run
                waiting |-> {},         \* HANDLERS
                told    |-> {},         \* receivers that got signals
                left    |-> Raised ]

Wake(s, g) ==
    IF g = 0 THEN s
    ELSE [s EXCEPT !.task[g] = CASE @ = "asleep" -> "woken" [] @ = "take" -> "rewoken" [] OTHER -> @]

\* The other half is used or dropped: the task's receiver is ready.
Ready(s, g) == IF g = 0 THEN s ELSE Wake([s EXCEPT !.rx[g] = "ready"], g)

\* On the system's thread nothing comes between the steps of one poll.
Polling(s) == \E g \in 1..Starts : s.task[g] \in {"take", "rewoken"}

\* System::enable_signals: register_system, called on the system's thread, whose STOP it is
EnableSignals ==
    /\ ~sig.cur /\ sig.gen < Starts /\ ~Polling(sig)
    /\ LET g == sig.gen + 1
       IN  sig' = Ready([sig EXCEPT !.cur = TRUE, !.gen = g, !.task[g] = "woken", !.stop = g], sig.stop)

\* System::disable_signals: unregister_system
DisableSignals ==
    /\ sig.cur
    /\ sig' = [sig EXCEPT !.cur = FALSE, !.stopper = TRUE]

SendStop ==
    /\ sig.stopper /\ ~Polling(sig)
    /\ sig' = Ready([sig EXCEPT !.stopper = FALSE, !.stop = 0], sig.stop)

\* handle_signal: the first free slot; a signal that finds none is dropped.
StoreSignal ==
    /\ sig.cur /\ ~sig.raising /\ sig.left > 0
    /\ sig' = [sig EXCEPT !.left = @ - 1, !.raising = TRUE, !.slots = IF @ < Slots THEN @ + 1 ELSE @]

WakeSignal ==
    /\ sig.raising
    /\ sig' = Wake([sig EXCEPT !.raising = FALSE, !.waker = 0], sig.waker)

\* signal(): a task on the system's thread pushes the sender.
AskSignal(h) ==
    /\ h \notin sig.asked \cup sig.waiting \cup sig.told
    /\ sig' = [sig EXCEPT !.asked = @ \cup {h}]

PushHandler(h) ==
    /\ h \in sig.asked /\ ~Polling(sig)
    /\ sig' = [sig EXCEPT !.asked = @ \ {h}, !.waiting = @ \cup {h}]

\* signals: the task is over, or registers its waker ...
PollSignals(g) ==
    /\ sig.task[g] = "woken" /\ ~Polling(sig)
    /\ sig' = IF sig.rx[g] = "ready" THEN [sig EXCEPT !.task[g] = "ended"]
              ELSE [sig EXCEPT !.task[g] = "take", !.waker = g]

\* ... and empties the slots, for every receiver that waits or for nobody.
TakeSignals(g) ==
    /\ sig.task[g] \in {"take", "rewoken"}
    /\ sig' = [sig EXCEPT !.slots = 0,
                          !.task[g] = IF @ = "rewoken" THEN "woken" ELSE "asleep",
                          !.waiting = IF sig.slots > 0 THEN {} ELSE @,
                          !.told = IF sig.slots > 0 THEN @ \cup sig.waiting ELSE @]

SignalsInit == sig = NewSignals

SignalsNext ==
    \/ EnableSignals \/ DisableSignals \/ SendStop \/ StoreSignal \/ WakeSignal
    \/ \E g \in 1..Starts : PollSignals(g) \/ TakeSignals(g)
    \/ \E h \in Handlers : AskSignal(h) \/ PushHandler(h)

SignalsSpec == SignalsInit /\ [][SignalsNext]_sig

(***************************************************************************)
(* Properties                                                              *)
(***************************************************************************)
\* The task that disable_signals queued has found the STOP of a later enable_signals
\* and ended the new task, although signal handling is enabled.
StoppedInstead == sig.cur /\ sig.rx[sig.gen] = "ready"

\* No signal is slept over: while signal handling is enabled, a signal in SIGS is
\* one that the current task will take, because it runs or because the signal
\* handler is still to wake it.  The handler stores and wakes between any two
\* steps of the task, and an older task may still hold the waker.  The exception is
\* a current task that was stopped in place of the one before (StoppedInstead).
SignalsSeen ==
    sig.cur /\ sig.slots > 0 /\ ~StoppedInstead =>
        \/ sig.raising /\ sig.waker = sig.gen
        \/ sig.task[sig.gen] \in {"woken", "take", "rewoken"}
=============================================================================

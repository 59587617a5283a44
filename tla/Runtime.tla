------------------------------ MODULE Runtime -------------------------------
(***************************************************************************)
(* The task queue of a runtime thread (rt/rt.rs) inside the loop of its    *)
(* driver: tasks are scheduled by the thread itself, from a task or from a *)
(* handler of the driver, and by other threads, which put them into a      *)
(* queue of fixed size, or an unbounded one behind it, and wake the driver.*)
(***************************************************************************)
EXTENDS Naturals, Sequences, FiniteSets

CONSTANTS
    Tasks,          \* tasks of the runtime; 1 is the one block_on waits for
    Remotes,        \* other threads that wake them
    Interval,       \* event_interval
    FixedCap,       \* capacity of sync_fixed_queue
    LocalWakes,     \* bound: wakes by the thread itself
    RemoteWakes     \* bound: wakes by the other threads

Main == 1

VARIABLES
    pc,         \* "poll", "local", "fixed", "batch", "sync", "changes", "wait", "events", "ended",
                \* "dropped"
    q,          \* the RunnableQueue and the tasks, see NewQueue
    left,       \* what event_interval leaves to the loop at hand
    more,       \* tasks are left: the driver polls again at once
    cur,        \* the task that runs, 0 for none
    rem,        \* remote -> [pc, task]
    budget      \* [local, remote] wakes that are left

runtimeVars == <<pc, q, left, more, cur, rem, budget>>

NewQueue == [ local    |-> <<>>,
              fixed    |-> <<>>,    \* sync_fixed_queue
              batch    |-> <<>>,    \* what try_dequeue returned
              sync     |-> <<>>,    \* sync_queue
              idle     |-> TRUE,
              stop     |-> FALSE,
              notified |-> FALSE,   \* the driver will not block
              st       |-> [k \in Tasks |-> "idle"],   \* "queued", "running", "rewake", "done"
              closed   |-> {},      \* tasks that were canceled
              late     |-> {} ]     \* history: scheduled by a task of the other two queues

(***************************************************************************)
(* schedule, on the runtime's own thread                                   *)
(***************************************************************************)
Late(s, k) == IF pc \in {"batch", "sync"} THEN s.late \cup {k} ELSE s.late

\* Without waking the driver.
schedule_quiet(s, k) == [s EXCEPT !.local = Append(@, k), !.idle = FALSE, !.late = Late(s, k)]

schedule(s, k) ==
    LET queued == [s EXCEPT !.local = Append(@, k), !.late = Late(s, k)]
    IN  IF s.idle THEN [queued EXCEPT !.idle = FALSE, !.notified = TRUE] ELSE queued

\* The task's waker: a task is queued once, and again after a run it was woken in.
Wake(s, k) ==
    CASE s.st[k] = "idle"    -> schedule([s EXCEPT !.st[k] = "queued"], k)
      [] s.st[k] = "running" -> [s EXCEPT !.st[k] = "rewake"]
      [] OTHER               -> s

WakeAll(s, ks) == IF ks = {} THEN s ELSE Wake(s, CHOOSE k \in ks : TRUE)

\* JoinHandle::cancel: the task is queued to be dropped.
CancelAll(s, ks) == WakeAll([s EXCEPT !.closed = @ \cup {k \in ks : s.st[k] # "done"}], ks)

Few(n) == {ks \in SUBSET Tasks : Cardinality(ks) <= n}

Spend == [budget EXCEPT !.local = @ - 1]

(***************************************************************************)
(* Runtime::poll and RunnableQueue::run                                    *)
(***************************************************************************)
Poll ==
    /\ pc = "poll"
    /\ pc' = IF q.stop THEN "ended" ELSE "local"
    /\ left' = Interval /\ more' = FALSE
    /\ UNCHANGED <<q, cur, rem, budget>>

\* Runnable::run begins: a canceled task is dropped instead.
Begin(s, k) ==
    /\ q' = [s EXCEPT !.st[k] = IF k \in s.closed THEN "done" ELSE "running", !.late = @ \ {k}]
    /\ cur' = IF k \in s.closed THEN 0 ELSE k

RunLocal ==
    /\ pc = "local" /\ cur = 0
    /\ IF left > 0 /\ q.local # <<>>
       THEN /\ Begin([q EXCEPT !.local = Tail(@)], Head(q.local))
            /\ left' = left - 1 /\ UNCHANGED <<pc, more>>
       ELSE /\ pc' = "fixed" /\ more' = (q.local # <<>>)
            /\ UNCHANGED <<q, cur, left>>
    /\ UNCHANGED <<rem, budget>>

\* try_dequeue fails while a thread is still writing its entry.
Writing == \E t \in Remotes : rem[t].pc = "write"

Dequeue ==
    /\ pc = "fixed"
    /\ IF Writing
       THEN pc' = "sync" /\ more' = TRUE /\ UNCHANGED q
       ELSE pc' = "batch" /\ q' = [q EXCEPT !.batch = q.fixed, !.fixed = <<>>] /\ UNCHANGED more
    /\ left' = Interval
    /\ UNCHANGED <<cur, rem, budget>>

RunBatch ==
    /\ pc = "batch" /\ cur = 0
    /\ IF q.batch # <<>>
       THEN Begin([q EXCEPT !.batch = Tail(@)], Head(q.batch)) /\ UNCHANGED pc
       ELSE pc' = "sync" /\ UNCHANGED <<q, cur>>
    /\ UNCHANGED <<left, more, rem, budget>>

RunSync ==
    /\ pc = "sync" /\ cur = 0
    /\ left' = left - 1
    /\ IF left > 1 /\ q.sync # <<>>
       THEN Begin([q EXCEPT !.sync = Tail(@)], Head(q.sync)) /\ UNCHANGED <<pc, more>>
       ELSE /\ more' = (more \/ left = 1)
            /\ pc' = "changes"
            /\ q' = [q EXCEPT !.idle = IF more \/ left = 1 THEN @ ELSE TRUE]
            /\ UNCHANGED cur
    /\ UNCHANGED <<rem, budget>>

\* The task returns: it is pending or it is done.  What it did wakes a task,
\* possibly itself, or cancels one.  When the main task is done block_on stops.
RunEnds ==
    /\ cur # 0
    /\ \E done \in BOOLEAN, ks \in Few(1), cs \in Few(1) :
           /\ (ks # {} \/ cs # {}) => budget.local > 0
           /\ cs \cap {Main, cur} = {} /\ (ks = {} \/ cs = {})
           /\ budget' = IF ks # {} \/ cs # {} THEN Spend ELSE budget
           /\ LET s == CancelAll(WakeAll(q, ks), cs)
                  t == [s EXCEPT !.st[cur] = IF done THEN "done" ELSE "idle"]
              IN  q' = IF done
                       THEN IF cur = Main THEN [t EXCEPT !.stop = TRUE, !.notified = TRUE] ELSE t
                       ELSE IF s.st[cur] = "rewake" THEN Wake(t, cur) ELSE t
    /\ cur' = 0
    /\ UNCHANGED <<pc, left, more, rem>>

(***************************************************************************)
(* The loop of the driver: errors that were queued are handled, the driver *)
(* waits if no task is left to run, and events are handled.                *)
(***************************************************************************)
Handlers ==
    \E ks \in Few(1) :
        /\ ks # {} => budget.local > 0
        /\ budget' = IF ks # {} THEN Spend ELSE budget
        /\ q' = WakeAll(q, ks)

ApplyChanges ==
    /\ pc = "changes" /\ pc' = "wait"
    /\ Handlers
    /\ UNCHANGED <<left, more, cur, rem>>

\* The wait ends at once, or on a notification, or because of an event.
DriverWait ==
    /\ pc = "wait" /\ pc' = "events"
    /\ more \/ q.notified \/ budget.local > 0
    /\ q' = [q EXCEPT !.notified = FALSE]
    /\ UNCHANGED <<left, more, cur, rem, budget>>

Events ==
    /\ pc = "events" /\ pc' = "poll"
    /\ Handlers
    /\ UNCHANGED <<left, more, cur, rem>>

\* Runtime::drop: what is queued is dropped, unrun.
Clear ==
    /\ pc = "ended" /\ pc' = "dropped"
    /\ LET gone == q.local \o q.fixed \o q.sync
       IN  q' = [q EXCEPT !.local = <<>>, !.fixed = <<>>, !.sync = <<>>,
                          !.st = [k \in Tasks |-> IF \E i \in DOMAIN gone : gone[i] = k THEN "done" ELSE @[k]]]
    /\ UNCHANGED <<left, more, cur, rem, budget>>

(***************************************************************************)
(* schedule, on another thread                                             *)
(***************************************************************************)
RemoteWake(t, k) ==
    /\ rem[t].pc = "idle" /\ budget.remote > 0
    /\ budget' = [budget EXCEPT !.remote = @ - 1]
    /\ CASE q.st[k] = "idle"    -> /\ q' = [q EXCEPT !.st[k] = "queued"]
                                   /\ rem' = [rem EXCEPT ![t] = [pc |-> "enqueue", task |-> k]]
         [] q.st[k] = "running" -> q' = [q EXCEPT !.st[k] = "rewake"] /\ UNCHANGED rem
         [] OTHER               -> UNCHANGED <<q, rem>>
    /\ UNCHANGED <<pc, left, more, cur>>

\* try_enqueue claims an entry and then writes it.
Enqueue(t) ==
    /\ rem[t].pc = "enqueue"
    /\ IF Len(q.fixed) + Cardinality({u \in Remotes : rem[u].pc = "write"}) < FixedCap
       THEN rem' = [rem EXCEPT ![t].pc = "write"] /\ UNCHANGED q
       ELSE /\ q' = [q EXCEPT !.sync = Append(@, rem[t].task)]
            /\ rem' = [rem EXCEPT ![t].pc = "notify"]
    /\ UNCHANGED <<pc, left, more, cur, budget>>

WriteEntry(t) ==
    /\ rem[t].pc = "write"
    /\ q' = [q EXCEPT !.fixed = Append(@, rem[t].task)]
    /\ rem' = [rem EXCEPT ![t].pc = "notify"]
    /\ UNCHANGED <<pc, left, more, cur, budget>>

Notify(t) ==
    /\ rem[t].pc = "notify"
    /\ q' = [q EXCEPT !.notified = TRUE]
    /\ rem' = [rem EXCEPT ![t] = [pc |-> "idle", task |-> 0]]
    /\ UNCHANGED <<pc, left, more, cur, budget>>

\* block_on spawns the main task, and the others have been spawned with it.
RuntimeInit ==
    /\ pc = "poll" /\ left = 0 /\ more = FALSE /\ cur = 0
    /\ q = schedule([NewQueue EXCEPT !.st[Main] = "queued"], Main)
    /\ rem = [t \in Remotes |-> [pc |-> "idle", task |-> 0]]
    /\ budget = [local |-> LocalWakes, remote |-> RemoteWakes]

RuntimeNext ==
    \/ Poll \/ RunLocal \/ Dequeue \/ RunBatch \/ RunSync \/ RunEnds
    \/ ApplyChanges \/ DriverWait \/ Events \/ Clear
    \/ \E t \in Remotes : Enqueue(t) \/ WriteEntry(t) \/ Notify(t) \/ \E k \in Tasks : RemoteWake(t, k)

RuntimeSpec == RuntimeInit /\ [][RuntimeNext]_runtimeVars

(***************************************************************************)
(* Properties                                                              *)
(***************************************************************************)
Asleep == pc = "wait" /\ ~more /\ ~q.notified

\* The driver does not sleep on work: while it blocks without a notification,
\* nobody stopped the runtime, a task in one of the queues of other threads was
\* put there by a thread that is still to notify, and the runtime's own queue
\* holds at most tasks that were scheduled by a task of those queues (see
\* PollRunsActiveTasks).  `run` decides whether to poll again before the queued
\* errors are handled, and the other threads enqueue at any point of it.
DriverAwake ==
    Asleep =>
        /\ ~q.stop
        /\ \A i \in DOMAIN q.local : q.local[i] \in q.late
        /\ q.fixed \o q.sync # <<>> => \E t \in Remotes : rem[t].pc = "notify"

\* "Poll runtime and run active tasks.": when `poll` lets the driver block, no
\* task is waiting to be run.
PollRunsActiveTasks == Asleep => q.local = <<>>

\* A woken task is not lost: one that is queued is in one queue, once, or in the
\* hands of the thread that is putting it there.
QueuedOnce ==
    \A k \in Tasks :
        LET all == q.local \o q.fixed \o q.batch \o q.sync
            in_queue == Cardinality({i \in 1..Len(all) : all[i] = k})
            in_hand  == Cardinality({t \in Remotes : rem[t].pc \in {"enqueue", "write"} /\ rem[t].task = k})
        IN  in_queue + in_hand = IF q.st[k] = "queued" THEN 1 ELSE 0
=============================================================================

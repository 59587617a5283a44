----------------------------- MODULE ThreadPool -----------------------------
(***************************************************************************)
(* The pool of threads for blocking operations (rt/pool.rs).  `execute`    *)
(* hands a job to a worker that waits for one, starts a worker, or leaves  *)
(* the job in the queue of the pool; the callers are runtime threads, and  *)
(* run concurrently with each other and with the workers.                  *)
(***************************************************************************)
EXTENDS Naturals, Sequences, FiniteSets

CONSTANTS
    Threads,        \* runtime threads that submit jobs
    JobsOf,         \* thread -> how many jobs it submits
    Limit,          \* thread_limit
    MaxWorkers,     \* bound: workers started in all
    Expires         \* whether recv_timeout may pass for a worker, a set of BOOLEANs

Jobs    == UNION {{t} \X (1..JobsOf[t]) : t \in Threads}
Workers == 1..MaxWorkers

\* thread_limit is 256 unless the application sets it.  With 0 no worker is ever
\* started and every job waits for good.
PoolAssumption == JobsOf \in [Threads -> Nat] /\ Limit \in Nat \ {0} /\ MaxWorkers \in Nat
                  /\ Expires \subseteq BOOLEAN

VARIABLES
    scene,      \* [expires : BOOLEAN]
    th,         \* thread -> [pc, n (jobs submitted)]
    wk,         \* worker -> [pc, job]
    high,       \* the high priority channel, unbounded
    counter,
    job         \* job -> [st, rx]: where it is, and whether its BlockingResult is held

poolVars == <<scene, th, wk, high, counter, job>>

Current(t) == <<t, th[t].n>>

(***************************************************************************)
(* execute.  The low priority channel has no room: a job passes from the   *)
(* sender to a worker that is selecting, or it does not pass.              *)
(***************************************************************************)
Waiting == {w \in Workers : wk[w].pc = "select"}

\* Each job of the queue has selected one of the workers that wait.
Spare == Cardinality(Waiting) > Len(high)

Hand(w, j) ==
    /\ wk' = [wk EXCEPT ![w] = [pc |-> "job", job |-> j]]
    /\ job' = [job EXCEPT ![j] = [st |-> "worker", rx |-> TRUE]]

\* sender_low_prio.try_send
TrySend(t) ==
    LET j == <<t, th[t].n + 1>>
    IN  /\ th[t].pc = "idle" /\ th[t].n < JobsOf[t]
        /\ IF ~Spare
           THEN /\ th' = [th EXCEPT ![t] = [pc |-> "full", n |-> @.n + 1]]
                /\ job' = [job EXCEPT ![j] = [st |-> "caller", rx |-> TRUE]]
                /\ UNCHANGED wk
           ELSE /\ \E w \in Waiting : Hand(w, j)
                /\ th' = [th EXCEPT ![t] = [pc |-> "idle", n |-> @.n + 1]]
        /\ UNCHANGED <<scene, high, counter>>

\* Mutant: off by one.
LoadEarly(t) ==
    /\ th[t].pc = "full"
    /\ th' = [th EXCEPT ![t].pc = IF counter + 1 >= Limit THEN "queue" ELSE "spawn"]
    /\ UNCHANGED <<scene, wk, high, counter, job>>

\* counter.load, and the decision
Load(t) ==
    /\ th[t].pc = "full"
    /\ th' = [th EXCEPT ![t].pc = IF counter >= Limit THEN "queue" ELSE "spawn"]
    /\ UNCHANGED <<scene, wk, high, counter, job>>

\* sender_high_prio.send
Queue(t) ==
    /\ th[t].pc = "queue"
    /\ high' = Append(high, Current(t))
    /\ job' = [job EXCEPT ![Current(t)].st = "queued"]
    /\ th' = [th EXCEPT ![t].pc = "idle"]
    /\ UNCHANGED <<scene, wk, counter>>

\* thread::Builder::spawn; the worker counts itself once it runs.
SpawnWorker(t) ==
    /\ th[t].pc = "spawn"
    /\ \E w \in Workers :
           /\ wk[w].pc = "none" /\ \A v \in 1..(w - 1) : wk[v].pc # "none"
           /\ wk' = [wk EXCEPT ![w].pc = "spawned"]
    /\ th' = [th EXCEPT ![t].pc = "send"]
    /\ UNCHANGED <<scene, high, counter, job>>

\* A worker takes the job a thread is blocked with: sender_low_prio.send.
\* The selection is biased: the queue comes first.
TakeLow(t, w) ==
    /\ th[t].pc = "send" /\ wk[w].pc = "select" /\ Spare
    /\ wk' = [wk EXCEPT ![w] = [pc |-> "job", job |-> Current(t)]]
    /\ job' = [job EXCEPT ![Current(t)].st = "worker"]
    /\ th' = [th EXCEPT ![t].pc = "idle"]
    /\ UNCHANGED <<scene, high, counter>>

(***************************************************************************)
(* worker                                                                  *)
(***************************************************************************)
WorkerStarts(w) ==
    /\ wk[w].pc = "spawned"
    /\ counter' = counter + 1
    /\ wk' = [wk EXCEPT ![w].pc = "select"]
    /\ UNCHANGED <<scene, th, high, job>>

TakeHigh(w) ==
    /\ wk[w].pc = "select" /\ high # <<>>
    /\ wk' = [wk EXCEPT ![w] = [pc |-> "job", job |-> Head(high)]]
    /\ job' = [job EXCEPT ![Head(high)].st = "worker"]
    /\ high' = Tail(high)
    /\ UNCHANGED <<scene, th, counter>>

\* The job is not run if its result cannot be received any more; a panic of
\* it is caught and is its result.
RunJob(w) ==
    /\ wk[w].pc = "job"
    /\ job' = [job EXCEPT ![wk[w].job].st = IF job[wk[w].job].rx THEN "done" ELSE "skipped"]
    /\ wk' = [wk EXCEPT ![w] = [pc |-> "select", job |-> <<>>]]
    /\ UNCHANGED <<scene, th, high, counter>>

\* select_timeout passes recv_timeout, and then the guard is dropped.
Timeout(w) ==
    /\ scene.expires /\ wk[w].pc = "select" /\ Spare
    /\ wk' = [wk EXCEPT ![w].pc = "expired"]
    /\ UNCHANGED <<scene, th, high, counter, job>>

Leave(w) ==
    /\ wk[w].pc = "expired"
    /\ counter' = counter - 1
    /\ wk' = [wk EXCEPT ![w].pc = "gone"]
    /\ UNCHANGED <<scene, th, high, job>>

\* A BlockingResult is dropped.
DropResult(j) ==
    /\ job[j].rx /\ job[j].st \in {"queued", "worker"} /\ j[2] = 1
    /\ job' = [job EXCEPT ![j].rx = FALSE]
    /\ UNCHANGED <<scene, th, wk, high, counter>>

PoolInit ==
    /\ scene \in [expires : Expires]
    /\ th = [t \in Threads |-> [pc |-> "idle", n |-> 0]]
    /\ wk = [w \in Workers |-> [pc |-> "none", job |-> <<>>]]
    /\ high = <<>> /\ counter = 0
    /\ job = [j \in Jobs |-> [st |-> "new", rx |-> FALSE]]

PoolNext ==
    \/ \E t \in Threads : TrySend(t) \/ Load(t) \/ Queue(t) \/ SpawnWorker(t)
    \/ \E t \in Threads, w \in Workers : TakeLow(t, w)
    \/ \E w \in Workers : WorkerStarts(w) \/ TakeHigh(w) \/ RunJob(w) \/ Timeout(w) \/ Leave(w)
    \/ \E j \in Jobs : DropResult(j)

PoolSpec == PoolInit /\ [][PoolNext]_poolVars

(***************************************************************************)
(* Properties                                                              *)
(***************************************************************************)
\* No job is left behind: while recv_timeout does not pass, a pool at rest (no
\* thread inside `execute`, no worker starting or at a job) has done, or skipped,
\* all it was given.  A job is queued on the strength of a counter that was read
\* earlier, and handed over in a rendezvous that may fail.
JobNotStranded ==
    /\ ~scene.expires
    /\ \A t \in Threads : th[t].pc = "idle"
    /\ \A w \in Workers : wk[w].pc \in {"none", "gone"} \/ (wk[w].pc = "select" /\ high = <<>>)
    => \A j \in Jobs : job[j].st \in {"new", "done", "skipped"}
=============================================================================

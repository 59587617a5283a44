-------------------------- MODULE ThreadPoolProofs --------------------------
EXTENDS ThreadPool, Integers, SequenceTheorems, TLAPS

(***************************************************************************)
(* Proofs about ThreadPool, for any number of threads, jobs and workers.   *)
(* While recv_timeout does not pass, workers never leave, so a counter     *)
(* that was once read above zero stands for a worker that is still there   *)
(* when the job reaches the queue, however late.                           *)
(***************************************************************************)
ThreadPc == {"idle", "full", "queue", "spawn", "send"}
WorkerPc == {"none", "spawned", "select", "job", "expired", "gone"}
JobState == {"new", "caller", "queued", "worker", "done", "skipped"}

PoolTypeOK ==
    /\ scene \in [expires : BOOLEAN]
    /\ th \in [Threads -> [pc : ThreadPc, n : Nat]]
    /\ wk \in [Workers -> [pc : WorkerPc, job : Jobs \cup {<<>>}]]
    /\ high \in Seq(Jobs)
    /\ counter \in Int
    /\ job \in [Jobs -> [st : JobState, rx : BOOLEAN]]

\* A thread inside execute has a job, and a worker at a job holds it.
Holds ==
    /\ \A t \in Threads : th[t].n <= JobsOf[t] /\ (th[t].pc # "idle" => th[t].n > 0)
    /\ \A w \in Workers : wk[w].pc = "job" => wk[w].job \in Jobs

Serving == \E w \in Workers : wk[w].pc \in {"select", "job"}

\* Where a job is said to be, it is.
Placed ==
    \A j \in Jobs :
        /\ job[j].st = "caller" => th[j[1]].pc # "idle" /\ j = Current(j[1])
        /\ job[j].st = "queued" => \E i \in 1..Len(high) : high[i] = j
        /\ job[j].st = "worker" => \E w \in Workers : wk[w].pc = "job" /\ wk[w].job = j

\* Without time-outs no worker leaves, and whatever relies on one finds it.
Staffed ==
    ~scene.expires =>
        /\ \A w \in Workers : wk[w].pc \notin {"expired", "gone"}
        /\ counter >= 0
        /\ counter > 0 => Serving
        /\ (\E t \in Threads : th[t].pc = "queue") => Serving
        /\ high # <<>> => Serving

PoolInv == PoolTypeOK /\ Holds /\ Placed /\ Staffed

\* A job is a thread and one of the numbers of its jobs.
LEMMA JobShape ==
    ASSUME PoolAssumption
    PROVE  /\ \A j \in Jobs : j[1] \in Threads /\ j[2] \in 1..JobsOf[j[1]] /\ j = <<j[1], j[2]>>
           /\ \A t \in Threads, k \in Nat : k > 0 /\ k <= JobsOf[t] => <<t, k>> \in Jobs
BY DEF Jobs, PoolAssumption

\* Changing one field of one record keeps the type of a table.
LEMMA FieldUpdates ==
    ASSUME PoolTypeOK
    PROVE  /\ \A t \in Threads, p \in ThreadPc :
                 [th EXCEPT ![t].pc = p] \in [Threads -> [pc : ThreadPc, n : Nat]]
           /\ \A w \in Workers, p \in WorkerPc :
                 [wk EXCEPT ![w].pc = p] \in [Workers -> [pc : WorkerPc, job : Jobs \cup {<<>>}]]
           /\ \A j \in Jobs, x \in JobState :
                 [job EXCEPT ![j].st = x] \in [Jobs -> [st : JobState, rx : BOOLEAN]]
<1>1. ASSUME NEW t \in Threads, NEW p \in ThreadPc
      PROVE  [th EXCEPT ![t].pc = p] \in [Threads -> [pc : ThreadPc, n : Nat]]
  BY DEF PoolTypeOK
<1>2. ASSUME NEW w \in Workers, NEW p \in WorkerPc
      PROVE  [wk EXCEPT ![w].pc = p] \in [Workers -> [pc : WorkerPc, job : Jobs \cup {<<>>}]]
  BY Zenon DEF PoolTypeOK
<1>3. ASSUME NEW j \in Jobs, NEW x \in JobState
      PROVE  [job EXCEPT ![j].st = x] \in [Jobs -> [st : JobState, rx : BOOLEAN]]
  BY DEF PoolTypeOK
<1> QED BY <1>1, <1>2, <1>3

\* A pool starts with nothing placed anywhere.
LEMMA PoolInitInv ==
    ASSUME PoolAssumption
    PROVE  PoolInit => PoolInv
<1> SUFFICES ASSUME PoolInit PROVE PoolInv
  OBVIOUS
<1>1. PoolTypeOK
  BY EmptySeq DEF PoolInit, PoolTypeOK, PoolAssumption, ThreadPc, WorkerPc, JobState
<1>2. Holds
  BY DEF PoolInit, Holds, PoolAssumption
<1>3. Placed
  BY DEF PoolInit, Placed
<1>4. Staffed
  BY DEF PoolInit, Staffed
<1> QED BY <1>1, <1>2, <1>3, <1>4 DEF PoolInv

\* A thread in execute finds a waiting worker or keeps its job (try_send).
LEMMA TrySendInv ==
    ASSUME PoolAssumption, PoolInv, NEW t \in Threads, TrySend(t)
    PROVE  PoolInv'
<1> DEFINE j == <<t, th[t].n + 1>>
<1>0. th[t].n \in Nat /\ th[t].n < JobsOf[t] /\ JobsOf[t] \in Nat /\ th[t].pc = "idle"
  BY DEF PoolInv, PoolTypeOK, TrySend, PoolAssumption
<1>1. j \in Jobs /\ j[1] = t /\ j[2] = th[t].n + 1
  BY <1>0, JobShape
<1>2. CASE ~Spare
  <2>1. th' = [th EXCEPT ![t] = [pc |-> "full", n |-> th[t].n + 1]]
    BY <1>2 DEF TrySend
  <2>2. job' = [job EXCEPT ![j] = [st |-> "caller", rx |-> TRUE]]
    BY <1>2 DEF TrySend
  <2>3. wk' = wk /\ scene' = scene /\ high' = high /\ counter' = counter
    BY <1>2 DEF TrySend
  <2>4. th'[t].pc = "full" /\ th'[t].n = th[t].n + 1 /\ \A u \in Threads \ {t} : th'[u] = th[u]
    BY <2>1 DEF PoolInv, PoolTypeOK
  <2>5. job'[j].st = "caller" /\ \A i \in Jobs \ {j} : job'[i] = job[i]
    BY <1>1, <2>2 DEF PoolInv, PoolTypeOK
  <2>6. PoolTypeOK'
    BY <1>0, <1>1, <2>1, <2>2, <2>3 DEF PoolInv, PoolTypeOK, ThreadPc, JobState
  <2>7. Holds'
    BY <1>0, <2>3, <2>4 DEF PoolInv, Holds
  <2>8. Placed'
    <3> SUFFICES ASSUME NEW i \in Jobs
                 PROVE  /\ job'[i].st = "caller" => th'[i[1]].pc # "idle" /\ i = <<i[1], th'[i[1]].n>>
                        /\ job'[i].st = "queued" => \E k \in 1..Len(high') : high'[k] = i
                        /\ job'[i].st = "worker" => \E w \in Workers : wk'[w].pc = "job" /\ wk'[w].job = i
      BY DEF Placed, Current
    <3>1. CASE i = j
      BY <3>1, <1>1, <2>4, <2>5
    <3>2. CASE i # j
      BY <3>2, <1>0, <2>3, <2>4, <2>5, JobShape DEF PoolInv, Placed, Current
    <3> QED BY <3>1, <3>2
  <2>9. Staffed'
    BY <2>3, <2>4 DEF PoolInv, Staffed, Serving
  <2> QED BY <2>6, <2>7, <2>8, <2>9 DEF PoolInv
<1>3. CASE Spare
  <2>1. PICK w \in Waiting : Hand(w, j)
    BY <1>3 DEF TrySend
  <2>2. w \in Workers /\ wk[w].pc = "select"
    BY <2>1 DEF Waiting
  <2>3. th' = [th EXCEPT ![t] = [pc |-> "idle", n |-> th[t].n + 1]]
    BY <1>3 DEF TrySend
  <2>4. /\ wk' = [wk EXCEPT ![w] = [pc |-> "job", job |-> j]]
        /\ job' = [job EXCEPT ![j] = [st |-> "worker", rx |-> TRUE]]
    BY <2>1 DEF Hand
  <2>5. scene' = scene /\ high' = high /\ counter' = counter
    BY <1>3 DEF TrySend
  <2>6. /\ th'[t].pc = "idle" /\ th'[t].n = th[t].n + 1 /\ \A u \in Threads \ {t} : th'[u] = th[u]
        /\ wk'[w].pc = "job" /\ wk'[w].job = j /\ \A v \in Workers \ {w} : wk'[v] = wk[v]
        /\ job'[j].st = "worker" /\ \A i \in Jobs \ {j} : job'[i] = job[i]
    BY <1>0, <1>1, <2>2, <2>3, <2>4 DEF PoolInv, PoolTypeOK
  <2>7. PoolTypeOK'
    BY <1>0, <1>1, <2>2, <2>3, <2>4, <2>5 DEF PoolInv, PoolTypeOK, ThreadPc, WorkerPc, JobState
  <2>8. Holds'
    BY <1>0, <1>1, <2>6 DEF PoolInv, Holds
  <2>9. Placed'
    <3> SUFFICES ASSUME NEW i \in Jobs
                 PROVE  /\ job'[i].st = "caller" => th'[i[1]].pc # "idle" /\ i = <<i[1], th'[i[1]].n>>
                        /\ job'[i].st = "queued" => \E k \in 1..Len(high') : high'[k] = i
                        /\ job'[i].st = "worker" => \E v \in Workers : wk'[v].pc = "job" /\ wk'[v].job = i
      BY DEF Placed, Current
    <3>1. CASE i = j
      BY <3>1, <2>2, <2>6
    <3>2. CASE i # j
      BY <3>2, <1>0, <2>2, <2>5, <2>6, JobShape DEF PoolInv, Placed, Current
    <3> QED BY <3>1, <3>2
  <2>10. Staffed'
    BY <2>2, <2>5, <2>6 DEF PoolInv, Staffed, Serving
  <2> QED BY <2>7, <2>8, <2>9, <2>10 DEF PoolInv
<1> QED BY <1>2, <1>3

\* The decision of execute: a counter above zero means a worker that stays.
LEMMA LoadInv ==
    ASSUME PoolAssumption, PoolInv, NEW t \in Threads, Load(t)
    PROVE  PoolInv'
<1> DEFINE to == IF counter >= Limit THEN "queue" ELSE "spawn"
<1>1. th[t].pc = "full" /\ th' = [th EXCEPT ![t].pc = to]
  BY DEF Load
<1>2. scene' = scene /\ wk' = wk /\ high' = high /\ counter' = counter /\ job' = job
  BY DEF Load
<1>3. th'[t].pc = to /\ th'[t].n = th[t].n /\ \A u \in Threads \ {t} : th'[u] = th[u]
  BY <1>1 DEF PoolInv, PoolTypeOK
<1>4. PoolTypeOK'
  BY <1>1, <1>2 DEF PoolInv, PoolTypeOK, ThreadPc
<1>5. Holds'
  BY <1>1, <1>2, <1>3 DEF PoolInv, Holds
<1>6. Placed'
  BY <1>1, <1>2, <1>3, JobShape DEF PoolInv, Placed, Current
<1>7. Staffed'
  BY <1>1, <1>2, <1>3 DEF PoolInv, PoolTypeOK, Staffed, Serving, PoolAssumption
<1> QED BY <1>4, <1>5, <1>6, <1>7 DEF PoolInv

\* The job goes to the queue for whichever worker is free first.
LEMMA QueueInv ==
    ASSUME PoolAssumption, PoolInv, NEW t \in Threads, Queue(t)
    PROVE  PoolInv'
<1> DEFINE j == Current(t)
<1>1. th[t].pc = "queue" /\ th' = [th EXCEPT ![t].pc = "idle"]
  BY DEF Queue
<1>2. high' = Append(high, j) /\ job' = [job EXCEPT ![j].st = "queued"]
  BY DEF Queue
<1>3. scene' = scene /\ wk' = wk /\ counter' = counter
  BY DEF Queue
<1>4. j \in Jobs /\ j[1] = t
  BY <1>1, JobShape, Zenon DEF PoolInv, PoolTypeOK, Holds, Current
<1>5. th'[t].pc = "idle" /\ th'[t].n = th[t].n /\ \A u \in Threads \ {t} : th'[u] = th[u]
  BY <1>1 DEF PoolInv, PoolTypeOK
<1>6. job'[j].st = "queued" /\ \A i \in Jobs \ {j} : job'[i] = job[i]
  BY <1>2, <1>4 DEF PoolInv, PoolTypeOK
<1>7. /\ high' \in Seq(Jobs) /\ Len(high') = Len(high) + 1 /\ Len(high) \in Nat
      /\ \A i \in 1..Len(high) : high'[i] = high[i]
      /\ high'[Len(high')] = j
  BY <1>2, <1>4, AppendProperties, LenProperties DEF PoolInv, PoolTypeOK
<1>8. PoolTypeOK'
  <2>1. th' \in [Threads -> [pc : ThreadPc, n : Nat]]
    BY <1>1, FieldUpdates, Zenon DEF PoolInv, ThreadPc
  <2>2. job' \in [Jobs -> [st : JobState, rx : BOOLEAN]]
    BY <1>2, <1>4, FieldUpdates, Zenon DEF PoolInv, JobState
  <2> QED BY <2>1, <2>2, <1>3, <1>7 DEF PoolInv, PoolTypeOK
<1>9. Holds'
  BY <1>3, <1>5 DEF PoolInv, Holds
<1>10. Placed'
  <2> SUFFICES ASSUME NEW i \in Jobs
               PROVE  /\ job'[i].st = "caller" => th'[i[1]].pc # "idle" /\ i = <<i[1], th'[i[1]].n>>
                      /\ job'[i].st = "queued" => \E k \in 1..Len(high') : high'[k] = i
                      /\ job'[i].st = "worker" => \E v \in Workers : wk'[v].pc = "job" /\ wk'[v].job = i
    BY DEF Placed, Current
  <2>1. CASE i = j
    BY <2>1, <1>6, <1>7
  <2>2. CASE i # j
    <3>1. job'[i].st = "caller" => th'[i[1]].pc # "idle" /\ i = <<i[1], th'[i[1]].n>>
      BY <2>2, <1>4, <1>5, <1>6, JobShape DEF PoolInv, Placed, Current
    <3>2. job'[i].st = "queued" => \E k \in 1..Len(high') : high'[k] = i
      BY <2>2, <1>6, <1>7 DEF PoolInv, Placed
    <3>3. job'[i].st = "worker" => \E v \in Workers : wk'[v].pc = "job" /\ wk'[v].job = i
      BY <2>2, <1>3, <1>6 DEF PoolInv, Placed
    <3> QED BY <3>1, <3>2, <3>3
  <2> QED BY <2>1, <2>2
<1>11. Staffed'
  BY <1>1, <1>3, <1>5 DEF PoolInv, Staffed, Serving
<1> QED BY <1>8, <1>9, <1>10, <1>11 DEF PoolInv

\* A worker is started, and the thread goes on to hand it the job.
LEMMA SpawnWorkerInv ==
    ASSUME PoolAssumption, PoolInv, NEW t \in Threads, SpawnWorker(t)
    PROVE  PoolInv'
<1>1. th[t].pc = "spawn" /\ th' = [th EXCEPT ![t].pc = "send"]
  BY DEF SpawnWorker
<1>2. scene' = scene /\ high' = high /\ counter' = counter /\ job' = job
  BY DEF SpawnWorker
<1>3. PICK w \in Workers : wk[w].pc = "none" /\ wk' = [wk EXCEPT ![w].pc = "spawned"]
  BY Zenon DEF SpawnWorker
<1>4. th'[t].pc = "send" /\ th'[t].n = th[t].n /\ \A u \in Threads \ {t} : th'[u] = th[u]
  BY <1>1 DEF PoolInv, PoolTypeOK
<1>5. wk'[w].pc = "spawned" /\ \A v \in Workers \ {w} : wk'[v] = wk[v]
  BY <1>3 DEF PoolInv, PoolTypeOK
<1>6. PoolTypeOK'
  <2>1. th' \in [Threads -> [pc : ThreadPc, n : Nat]]
    BY <1>1, FieldUpdates, Zenon DEF PoolInv, ThreadPc
  <2>2. wk' \in [Workers -> [pc : WorkerPc, job : Jobs \cup {<<>>}]]
    BY <1>3, FieldUpdates, Zenon DEF PoolInv, WorkerPc
  <2> QED BY <2>1, <2>2, <1>2 DEF PoolInv, PoolTypeOK
<1>7. Holds'
  BY <1>1, <1>4, <1>5 DEF PoolInv, Holds
<1>8. Placed'
  BY <1>1, <1>2, <1>3, <1>4, <1>5, JobShape DEF PoolInv, Placed, Current
<1>9. Staffed'
  BY <1>2, <1>3, <1>4, <1>5 DEF PoolInv, Staffed, Serving
<1> QED BY <1>6, <1>7, <1>8, <1>9 DEF PoolInv

\* The rendezvous of a blocked thread and a worker.
LEMMA TakeLowInv ==
    ASSUME PoolAssumption, PoolInv, NEW t \in Threads, NEW w \in Workers, TakeLow(t, w)
    PROVE  PoolInv'
<1> DEFINE j == Current(t)
<1>1. th[t].pc = "send" /\ th' = [th EXCEPT ![t].pc = "idle"]
  BY DEF TakeLow
<1>2. wk[w].pc = "select" /\ wk' = [wk EXCEPT ![w] = [pc |-> "job", job |-> j]]
  BY DEF TakeLow
<1>3. job' = [job EXCEPT ![j].st = "worker"]
  BY DEF TakeLow
<1>4. scene' = scene /\ high' = high /\ counter' = counter
  BY DEF TakeLow
<1>5. j \in Jobs /\ j[1] = t
  BY <1>1, JobShape, Zenon DEF PoolInv, PoolTypeOK, Holds, Current
<1>6. /\ th'[t].pc = "idle" /\ th'[t].n = th[t].n /\ \A u \in Threads \ {t} : th'[u] = th[u]
      /\ wk'[w].pc = "job" /\ wk'[w].job = j /\ \A v \in Workers \ {w} : wk'[v] = wk[v]
      /\ job'[j].st = "worker" /\ \A i \in Jobs \ {j} : job'[i] = job[i]
  BY <1>1, <1>2, <1>3, <1>5 DEF PoolInv, PoolTypeOK
<1>7. PoolTypeOK'
  <2>1. th' \in [Threads -> [pc : ThreadPc, n : Nat]]
    BY <1>1, FieldUpdates, Zenon DEF PoolInv, ThreadPc
  <2>2. job' \in [Jobs -> [st : JobState, rx : BOOLEAN]]
    BY <1>3, <1>5, FieldUpdates, Zenon DEF PoolInv, JobState
  <2>3. wk' \in [Workers -> [pc : WorkerPc, job : Jobs \cup {<<>>}]]
    BY <1>2, <1>5 DEF PoolInv, PoolTypeOK, WorkerPc
  <2> QED BY <2>1, <2>2, <2>3, <1>4 DEF PoolInv, PoolTypeOK
<1>8. Holds'
  BY <1>5, <1>6 DEF PoolInv, Holds
<1>9. Placed'
  <2> SUFFICES ASSUME NEW i \in Jobs
               PROVE  /\ job'[i].st = "caller" => th'[i[1]].pc # "idle" /\ i = <<i[1], th'[i[1]].n>>
                      /\ job'[i].st = "queued" => \E k \in 1..Len(high') : high'[k] = i
                      /\ job'[i].st = "worker" => \E v \in Workers : wk'[v].pc = "job" /\ wk'[v].job = i
    BY DEF Placed, Current
  <2>1. CASE i = j
    BY <2>1, <1>6
  <2>2. CASE i # j
    <3>1. job'[i].st = "caller" => th'[i[1]].pc # "idle" /\ i = <<i[1], th'[i[1]].n>>
      BY <2>2, <1>5, <1>6, JobShape DEF PoolInv, Placed, Current
    <3>2. job'[i].st = "queued" => \E k \in 1..Len(high') : high'[k] = i
      BY <2>2, <1>4, <1>6 DEF PoolInv, Placed
    <3>3. job'[i].st = "worker" => \E v \in Workers : wk'[v].pc = "job" /\ wk'[v].job = i
      BY <2>2, <1>2, <1>6 DEF PoolInv, Placed
    <3> QED BY <3>1, <3>2, <3>3
  <2> QED BY <2>1, <2>2
<1>10. Staffed'
  BY <1>2, <1>4, <1>6 DEF PoolInv, Staffed, Serving
<1> QED BY <1>7, <1>8, <1>9, <1>10 DEF PoolInv

\* A worker that starts counts itself, and from then on serves.
LEMMA WorkerStartsInv ==
    ASSUME PoolAssumption, PoolInv, NEW w \in Workers, WorkerStarts(w)
    PROVE  PoolInv'
<1>1. wk[w].pc = "spawned" /\ wk' = [wk EXCEPT ![w].pc = "select"] /\ counter' = counter + 1
  BY DEF WorkerStarts
<1>2. scene' = scene /\ th' = th /\ high' = high /\ job' = job
  BY DEF WorkerStarts
<1>3. wk'[w].pc = "select" /\ \A v \in Workers \ {w} : wk'[v] = wk[v]
  BY <1>1 DEF PoolInv, PoolTypeOK
<1>4. PoolTypeOK'
  <2>1. wk' \in [Workers -> [pc : WorkerPc, job : Jobs \cup {<<>>}]]
    BY <1>1, FieldUpdates, Zenon DEF PoolInv, WorkerPc
  <2> QED BY <2>1, <1>1, <1>2 DEF PoolInv, PoolTypeOK
<1>5. Holds'
  BY <1>2, <1>3 DEF PoolInv, Holds
<1>6. Placed'
  BY <1>1, <1>2, <1>3 DEF PoolInv, Placed, Current
<1>7. Staffed'
  BY <1>1, <1>2, <1>3 DEF PoolInv, PoolTypeOK, Staffed, Serving
<1> QED BY <1>4, <1>5, <1>6, <1>7 DEF PoolInv

\* A worker takes the job at the head of the queue.
LEMMA TakeHighInv ==
    ASSUME PoolAssumption, PoolInv, NEW w \in Workers, TakeHigh(w)
    PROVE  PoolInv'
<1> DEFINE j == Head(high)
<1>1. wk[w].pc = "select" /\ wk' = [wk EXCEPT ![w] = [pc |-> "job", job |-> j]]
  BY DEF TakeHigh
<1>2. high # <<>> /\ high' = Tail(high) /\ job' = [job EXCEPT ![j].st = "worker"]
  BY DEF TakeHigh
<1>3. scene' = scene /\ th' = th /\ counter' = counter
  BY DEF TakeHigh
<1>4. /\ j \in Jobs /\ high' \in Seq(Jobs) /\ Len(high') = Len(high) - 1 /\ Len(high) \in Nat
      /\ \A i \in 1..Len(high') : high'[i] = high[i + 1]
      /\ j = high[1]
  BY <1>2, HeadTailProperties, LenProperties DEF PoolInv, PoolTypeOK
<1>5. /\ wk'[w].pc = "job" /\ wk'[w].job = j /\ \A v \in Workers \ {w} : wk'[v] = wk[v]
      /\ job'[j].st = "worker" /\ \A i \in Jobs \ {j} : job'[i] = job[i]
  BY <1>1, <1>2, <1>4 DEF PoolInv, PoolTypeOK
<1>6. PoolTypeOK'
  <2>1. job' \in [Jobs -> [st : JobState, rx : BOOLEAN]]
    BY <1>2, <1>4, FieldUpdates, Zenon DEF PoolInv, JobState
  <2>2. wk' \in [Workers -> [pc : WorkerPc, job : Jobs \cup {<<>>}]]
    BY <1>1, <1>4 DEF PoolInv, PoolTypeOK, WorkerPc
  <2> QED BY <2>1, <2>2, <1>3, <1>4 DEF PoolInv, PoolTypeOK
<1>7. Holds'
  BY <1>3, <1>4, <1>5 DEF PoolInv, Holds
<1>8. Placed'
  <2> SUFFICES ASSUME NEW i \in Jobs
               PROVE  /\ job'[i].st = "caller" => th'[i[1]].pc # "idle" /\ i = <<i[1], th'[i[1]].n>>
                      /\ job'[i].st = "queued" => \E k \in 1..Len(high') : high'[k] = i
                      /\ job'[i].st = "worker" => \E v \in Workers : wk'[v].pc = "job" /\ wk'[v].job = i
    BY DEF Placed, Current
  <2>1. CASE i = j
    BY <2>1, <1>5
  <2>2. CASE i # j
    <3>1. job'[i].st = "queued" => \E k \in 1..Len(high') : high'[k] = i
      <4> SUFFICES ASSUME job[i].st = "queued" PROVE \E k \in 1..Len(high') : high'[k] = i
        BY <2>2, <1>5
      <4>1. PICK k \in 1..Len(high) : high[k] = i
        BY DEF PoolInv, Placed
      <4>2. k - 1 \in 1..Len(high') /\ high'[k - 1] = i
        BY <4>1, <2>2, <1>4
      <4> QED BY <4>2
    <3> QED BY <3>1, <2>2, <1>1, <1>3, <1>5 DEF PoolInv, Placed, Current
  <2> QED BY <2>1, <2>2
<1>9. Staffed'
  BY <1>1, <1>3, <1>5 DEF PoolInv, Staffed, Serving
<1> QED BY <1>6, <1>7, <1>8, <1>9 DEF PoolInv

\* The job is run or skipped, and the worker waits for the next.
LEMMA RunJobInv ==
    ASSUME PoolAssumption, PoolInv, NEW w \in Workers, RunJob(w)
    PROVE  PoolInv'
<1> DEFINE j == wk[w].job
           end == IF job[j].rx THEN "done" ELSE "skipped"
<1>1. wk[w].pc = "job" /\ wk' = [wk EXCEPT ![w] = [pc |-> "select", job |-> <<>>]]
  BY DEF RunJob
<1>2. job' = [job EXCEPT ![j].st = end] /\ j \in Jobs
  BY <1>1 DEF RunJob, PoolInv, Holds
<1>3. scene' = scene /\ th' = th /\ high' = high /\ counter' = counter
  BY DEF RunJob
<1>4. /\ wk'[w].pc = "select" /\ \A v \in Workers \ {w} : wk'[v] = wk[v]
      /\ job'[j].st = end /\ \A i \in Jobs \ {j} : job'[i] = job[i]
  BY <1>1, <1>2 DEF PoolInv, PoolTypeOK
<1>5. PoolTypeOK'
  <2>1. job' \in [Jobs -> [st : JobState, rx : BOOLEAN]]
    BY <1>2, FieldUpdates, Zenon DEF PoolInv, JobState
  <2>2. wk' \in [Workers -> [pc : WorkerPc, job : Jobs \cup {<<>>}]]
    BY <1>1 DEF PoolInv, PoolTypeOK, WorkerPc
  <2> QED BY <2>1, <2>2, <1>3 DEF PoolInv, PoolTypeOK
<1>6. Holds'
  BY <1>3, <1>4 DEF PoolInv, Holds
<1>7. Placed'
  BY <1>2, <1>3, <1>4 DEF PoolInv, Placed, Current
<1>8. Staffed'
  BY <1>1, <1>3, <1>4 DEF PoolInv, Staffed, Serving
<1> QED BY <1>5, <1>6, <1>7, <1>8 DEF PoolInv

\* A wait that ran out, which only a pool with time-outs has.
LEMMA TimeoutInv ==
    ASSUME PoolAssumption, PoolInv, NEW w \in Workers, Timeout(w)
    PROVE  PoolInv'
<1>1. wk[w].pc = "select" /\ wk' = [wk EXCEPT ![w].pc = "expired"] /\ scene.expires
  BY DEF Timeout
<1>2. scene' = scene /\ th' = th /\ high' = high /\ counter' = counter /\ job' = job
  BY DEF Timeout
<1>3. wk'[w].pc = "expired" /\ \A v \in Workers \ {w} : wk'[v] = wk[v]
  BY <1>1 DEF PoolInv, PoolTypeOK
<1>4. PoolTypeOK'
  <2>1. wk' \in [Workers -> [pc : WorkerPc, job : Jobs \cup {<<>>}]]
    BY <1>1, FieldUpdates, Zenon DEF PoolInv, WorkerPc
  <2> QED BY <2>1, <1>2 DEF PoolInv, PoolTypeOK
<1>5. Holds'
  BY <1>2, <1>3 DEF PoolInv, Holds
<1>6. Placed'
  BY <1>1, <1>2, <1>3 DEF PoolInv, Placed, Current
<1>7. Staffed'
  BY <1>1, <1>2 DEF Staffed
<1> QED BY <1>4, <1>5, <1>6, <1>7 DEF PoolInv

\* The worker's guard is dropped.
LEMMA LeaveInv ==
    ASSUME PoolAssumption, PoolInv, NEW w \in Workers, Leave(w)
    PROVE  PoolInv'
<1>1. wk[w].pc = "expired" /\ wk' = [wk EXCEPT ![w].pc = "gone"] /\ counter' = counter - 1
  BY DEF Leave
<1>2. scene' = scene /\ th' = th /\ high' = high /\ job' = job
  BY DEF Leave
<1>3. wk'[w].pc = "gone" /\ \A v \in Workers \ {w} : wk'[v] = wk[v]
  BY <1>1 DEF PoolInv, PoolTypeOK
<1>4. PoolTypeOK'
  <2>1. wk' \in [Workers -> [pc : WorkerPc, job : Jobs \cup {<<>>}]]
    BY <1>1, FieldUpdates, Zenon DEF PoolInv, WorkerPc
  <2> QED BY <2>1, <1>1, <1>2 DEF PoolInv, PoolTypeOK
<1>5. Holds'
  BY <1>2, <1>3 DEF PoolInv, Holds
<1>6. Placed'
  BY <1>1, <1>2, <1>3 DEF PoolInv, Placed, Current
<1>7. Staffed'
  BY <1>1, <1>2 DEF PoolInv, Staffed
<1> QED BY <1>4, <1>5, <1>6, <1>7 DEF PoolInv

\* Dropping a BlockingResult moves no job.
LEMMA DropResultInv ==
    ASSUME PoolAssumption, PoolInv, NEW j \in Jobs, DropResult(j)
    PROVE  PoolInv'
<1>1. job' = [job EXCEPT ![j].rx = FALSE]
  BY DEF DropResult
<1>2. scene' = scene /\ th' = th /\ wk' = wk /\ high' = high /\ counter' = counter
  BY DEF DropResult
<1>3. \A i \in Jobs : job'[i].st = job[i].st
  BY <1>1 DEF PoolInv, PoolTypeOK
<1>4. PoolTypeOK'
  BY <1>1, <1>2, Zenon DEF PoolInv, PoolTypeOK
<1>5. Holds' /\ Staffed'
  BY <1>2 DEF PoolInv, Holds, Staffed, Serving
<1>6. Placed'
  BY <1>2, <1>3 DEF PoolInv, Placed, Current
<1> QED BY <1>4, <1>5, <1>6 DEF PoolInv

\* PoolInv is inductive.
LEMMA PoolNextInv ==
    ASSUME PoolAssumption
    PROVE  PoolInv /\ [PoolNext]_poolVars => PoolInv'
<1> SUFFICES ASSUME PoolInv, [PoolNext]_poolVars PROVE PoolInv'
  OBVIOUS
<1>1. CASE UNCHANGED poolVars
  BY <1>1 DEF poolVars, PoolInv, PoolTypeOK, Holds, Placed, Staffed, Serving, Current
<1>2. CASE \E t \in Threads : TrySend(t) \/ Load(t) \/ Queue(t) \/ SpawnWorker(t)
  BY <1>2, TrySendInv, LoadInv, QueueInv, SpawnWorkerInv
<1>3. CASE \E t \in Threads, w \in Workers : TakeLow(t, w)
  BY <1>3, TakeLowInv
<1>4. CASE \E w \in Workers : WorkerStarts(w) \/ TakeHigh(w) \/ RunJob(w) \/ Timeout(w) \/ Leave(w)
  BY <1>4, WorkerStartsInv, TakeHighInv, RunJobInv, TimeoutInv, LeaveInv
<1>5. CASE \E j \in Jobs : DropResult(j)
  BY <1>5, DropResultInv
<1> QED BY <1>1, <1>2, <1>3, <1>4, <1>5 DEF PoolNext

\* In every reachable state of a pool each job is where it is said to be, and while no wait of a
\* worker runs out, a counter above zero, a queued job and one about to be queued find a worker
\* (rt/pool.rs execute, worker).
THEOREM PoolInvariance ==
    ASSUME PoolAssumption
    PROVE  PoolSpec => []PoolInv
  BY PoolInitInv, PoolNextInv, PTL DEF PoolSpec

\* A pool at rest has an empty queue, and no thread or worker holds a job.
LEMMA PoolInvImplies ==
    ASSUME PoolAssumption
    PROVE  PoolInv => JobNotStranded
<1> SUFFICES ASSUME PoolInv, ~scene.expires, \A t \in Threads : th[t].pc = "idle",
                    \A w \in Workers : \/ wk[w].pc \in {"none", "gone"}
                                       \/ wk[w].pc = "select" /\ high = <<>>,
                    NEW j \in Jobs
             PROVE  job[j].st \in {"new", "done", "skipped"}
  BY DEF JobNotStranded
<1>1. job[j].st # "caller"
  BY JobShape DEF PoolInv, Placed
<1>2. job[j].st # "worker"
  BY DEF PoolInv, Placed
<1>3. job[j].st # "queued"
  <2> SUFFICES ASSUME job[j].st = "queued" PROVE FALSE
    OBVIOUS
  <2>1. high # <<>>
    BY EmptySeq DEF PoolInv, Placed
  <2> QED BY <2>1 DEF PoolInv, Staffed, Serving
<1> QED BY <1>1, <1>2, <1>3 DEF PoolInv, PoolTypeOK, JobState

\* No blocking job is left behind in a pool whose workers' waits do not run out: for any
\* number of runtime threads, jobs and workers and any limit above zero, a pool at rest has
\* run or skipped every job it was given (rt/pool.rs ThreadPool::execute, worker).
THEOREM NoJobStranded ==
    ASSUME PoolAssumption
    PROVE  PoolSpec => []JobNotStranded
  BY PoolInvariance, PoolInvImplies, PTL
=============================================================================

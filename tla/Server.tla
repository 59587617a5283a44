-------------------------------- MODULE Server --------------------------------
(***************************************************************************)
(* The server (geario/src/server): the acceptor thread (net/accept.rs),    *)
(* the manager on the system thread (manager.rs, server.rs), the workers   *)
(* on their arbiter threads (wrk.rs, net/service.rs), signal delivery and  *)
(* the stop of the system (rt/signals.rs, rt/system.rs, rt/arbiter.rs).    *)
(*                                                                         *)
(* Three kinds of threads share the `paused` flag, the command queues and  *)
(* the availability flags of each worker.  A step of the acceptor or of a  *)
(* worker is what lies between two accesses to that shared state; a step   *)
(* of the system thread is one poll of one of its tasks.                   *)
(***************************************************************************)
EXTENDS Naturals, Sequences, FiniteSets, FiniteSetsExt

CONSTANTS
  Sockets,     \* listening sockets
  Workers,     \* worker ids; their names sort like the ids
  MaxConn,     \* maxconn(): connections a worker serves at a time
  Profiles     \* configurations and bounds: [stop_on_panic, graceful_shutdown,
               \*   shutdown_timeout, stop_runtime, workers, clients, ops, errors, faults]:
               \*   the options of the pool, the workers it has, how many clients come, the
               \*   calls and signals, and how many accept errors and worker failures

\* A server listens on finitely many sockets.
ASSUME SocketsAssumption == IsFiniteSet(Sockets)

VARIABLES
  cfg,     \* one of Profiles
  lst,     \* socket -> connections the kernel holds for accept()
  acc,     \* the accept loop
  acmds,   \* its command queue
  poked,   \* is a notification of its poller pending?
  timers,  \* errors whose ERR_SLEEP_TIMEOUT is running
  errs,    \* accept and registration errors so far
  paused,  \* ServerShared::paused
  mgr,     \* handle_cmd and its state
  task,    \* worker -> the start_worker task
  wrk,     \* worker -> its thread
  sig,     \* signal delivery: [pending, handler, got]
  sys,     \* the system: "run", "exit" (Exit is queued), "stopped"
  served,  \* connections that were closed after being served
  dead,    \* connections dropped
  came,    \* clients that connected: 1 .. came
  used,    \* calls and signals made so far
  faults   \* worker failures so far

vars == <<cfg, lst, acc, acmds, poked, timers, errs, paused, mgr, task, wrk, sig, sys,
          served, dead, came, used, faults>>

accVars == <<lst, acc, acmds, poked, timers, errs>>
mgrVars == <<paused, mgr, task>>
envVars == <<cfg, came, used>>

Signals == {"Int", "Term", "Quit", "Hup"}     \* "off": disable_signals()
NoConn == 0
Cmd(t, c, h) == [t |-> t, c |-> c, h |-> h]
NoHandle == [w |-> 0, gen |-> 0]
Simple(t) == Cmd(t, NoConn, NoHandle)

\* Order of the sockets, as the accept loop walks them.
SocketSeq == CHOOSE q \in [1 .. Cardinality(Sockets) -> Sockets] : IsInjective(q)

WorkerThread(gen) ==
  [gen |-> gen, st |-> "create", reqs |-> <<>>, avail |-> FALSE, torn |-> FALSE,
   updated |-> FALSE, failed |-> FALSE, stop |-> FALSE, kill |-> FALSE, conns |-> {}]

Init ==
  /\ cfg \in Profiles
  /\ lst = [s \in Sockets |-> <<>>]
  /\ acc = [pc |-> "start", idx |-> 1, hand |-> NoConn, bp |-> TRUE, backlog |-> <<>>,
            reg |-> [s \in Sockets |-> FALSE], armed |-> [s \in Sockets |-> FALSE],
            tmo |-> [s \in Sockets |-> 0]]
  /\ acmds = <<>> /\ poked = FALSE /\ timers = {} /\ errs = 0
  /\ paused = TRUE
  /\ mgr = [pc |-> "recv", cmds |-> <<>>, hand |-> NoConn, workers |-> <<>>, next |-> 1,
            backlog |-> <<>>, stopping |-> FALSE, tell |-> "", graceful |-> FALSE,
            notified |-> FALSE]
  /\ task = [w \in Workers |-> IF w \in cfg.workers THEN "loop" ELSE "ret"]
  /\ wrk = [w \in Workers |-> WorkerThread(1)]
  /\ sig = [pending |-> <<>>, handler |-> IF cfg.ops \cap Signals = {} THEN "off" ELSE "asked", got |-> <<>>]
  /\ sys = "run"
  /\ served = {} /\ dead = {} /\ came = 0 /\ used = {} /\ faults = 0

Up == sys # "stopped"
Elems(q) == {q[i] : i \in 1 .. Len(q)}
Listening == acc.pc # "done"
Closed == mgr.pc = "done"        \* the receiver of the command queue is dropped

-----------------------------------------------------------------------------
(* The acceptor thread *)

\* AcceptNotify::send: once the acceptor is gone the command is dropped.
Notify(t, k) ==
  IF Listening THEN acmds' = Append(acmds, <<t, k>>) /\ poked' = TRUE
  ELSE UNCHANGED <<acmds, poked>>

\* Accept::add_source for the sockets in ss; `bad` are those the poller refuses.  The
\* errors of one walk share their time, so they share their number.
AddSources(a, ss, bad) ==
  [a EXCEPT !.reg = [s \in Sockets |-> @[s] \/ s \in ss \ bad],
            !.armed = [s \in Sockets |-> @[s] \/ s \in ss \ bad],
            !.tmo = [s \in Sockets |-> IF s \in bad THEN errs + 1 ELSE @[s]]]
Failing(bad) ==
  IF bad = {} THEN UNCHANGED <<errs, timers>>
  ELSE errs < cfg.errors /\ errs' = errs + 1 /\ timers' = timers \cup {errs + 1}

\* Accept::remove_source: the socket loses its interest, but stays registered.
RemoveSources(a, ss) == [a EXCEPT !.armed = [s \in Sockets |-> @[s] /\ s \notin ss]]

\* Accept::backpressure(true): the error timeouts are taken back, the other sockets removed.
BackpressureOn(a) ==
  IF a.bp THEN a
  ELSE [RemoveSources(a, {s \in Sockets : a.tmo[s] = 0}) EXCEPT
          !.bp = TRUE, !.tmo = [s \in Sockets |-> 0]]

\* The walk over the registered sockets, and what follows it.
AtSocket(s) == acc.pc = "scan" /\ SocketSeq[acc.idx] = s
Scan(a, i) ==
  LET rest == {j \in i .. Len(SocketSeq) : a.reg[SocketSeq[j]]} IN
  IF rest = {} THEN [a EXCEPT !.pc = "cmd", !.idx = 1]
  ELSE [a EXCEPT !.pc = "scan", !.idx = Min(rest)]
NextSocket(a) == Scan(a, a.idx + 1)

\* Accept::poll before its loop: every socket is added, then the builder goes on.
AccStart == \E bad \in SUBSET Sockets :
  /\ acc.pc = "start" /\ Failing(bad)
  /\ acc' = Scan(AddSources(acc, Sockets, bad), 1)
  /\ UNCHANGED <<lst, acmds, poked, mgrVars, wrk, sig, sys, served, dead, faults, envVars>>

\* accept() returned a connection: Server::process looks at `paused` first.
AccAccept(s) ==
  /\ AtSocket(s) /\ lst[s] # <<>>
  /\ lst' = [lst EXCEPT ![s] = Tail(@)]
  /\ acc' = IF paused
            THEN NextSocket(BackpressureOn([acc EXCEPT !.backlog = Append(@, Head(lst[s]))]))
            ELSE [acc EXCEPT !.hand = Head(lst[s]), !.pc = "send"]
  /\ UNCHANGED <<acmds, poked, timers, errs, mgrVars, wrk, sig, sys, served, dead, faults,
                 envVars>>

\* The second half of Server::process: the item enters the manager's queue.
AccSend ==
  /\ acc.pc = "send" /\ UNCHANGED <<paused, task>>
  /\ IF Closed
     THEN /\ acc' = NextSocket(BackpressureOn([acc EXCEPT
                        !.backlog = Append(@, acc.hand), !.hand = NoConn]))
          /\ UNCHANGED mgr
     ELSE /\ acc' = [acc EXCEPT !.hand = NoConn, !.pc = "scan"]
          /\ mgr' = [mgr EXCEPT !.cmds = Append(@, Cmd("Item", acc.hand, NoHandle))]
  /\ UNCHANGED <<lst, acmds, poked, timers, errs, wrk, sig, sys, served, dead, faults, envVars>>

\* A mutant: the interest is not renewed.
AccBlockedKeeps(s) ==
  /\ AtSocket(s) /\ lst[s] = <<>> /\ acc' = NextSocket(acc)
  /\ UNCHANGED <<lst, acmds, poked, timers, errs, mgrVars, wrk, sig, sys, served, dead, faults, envVars>>

\* accept() would block: the interest is renewed.
AccBlocked(s) == \E bad \in SUBSET {s} :
  /\ AtSocket(s) /\ lst[s] = <<>> /\ Failing(bad)
  /\ acc' = NextSocket(AddSources(acc, {s}, bad))
  /\ UNCHANGED <<lst, acmds, poked, mgrVars, wrk, sig, sys, served, dead, faults, envVars>>

\* connection_error: the connection is gone, accept() is called again.
AccConnError(s) ==
  /\ AtSocket(s) /\ lst[s] # <<>> /\ errs < cfg.errors
  /\ lst' = [lst EXCEPT ![s] = Tail(@)] /\ dead' = dead \cup {Head(lst[s])}
  /\ errs' = errs + 1
  /\ UNCHANGED <<acc, acmds, poked, timers, mgrVars, wrk, sig, sys, served, faults, envVars>>

\* Any other error of accept() makes the socket wait for ERR_TIMEOUT.
AccError(s) ==
  /\ AtSocket(s) /\ Failing({s})
  /\ acc' = NextSocket([acc EXCEPT !.tmo[s] = errs + 1])
  /\ UNCHANGED <<lst, acmds, poked, mgrVars, wrk, sig, sys, served, dead, faults, envVars>>

\* The task that sleeps for ERR_SLEEP_TIMEOUT on the system thread.
ErrTimer(k) ==
  /\ Up /\ k \in timers /\ timers' = timers \ {k} /\ Notify("Timer", k)
  /\ UNCHANGED <<lst, acc, errs, mgrVars, wrk, sig, sys, served, dead, faults, envVars>>

\* Accept::process_timer: a timer finds the timeout of its own error expired, and one
\* set by a later error perhaps.
Expired(k) == {s \in Sockets : acc.tmo[s] # 0 /\ acc.tmo[s] <= k}
MayBeExpired(k) == {s \in Sockets : acc.tmo[s] > k}
ProcessTimer(k) == \E more \in SUBSET MayBeExpired(k) :
  LET ss == IF acc.bp THEN {} ELSE Expired(k) \cup more
      a == [acc EXCEPT !.tmo = [s \in Sockets |-> IF s \in ss THEN 0 ELSE @[s]]]
  IN \E bad \in SUBSET ss : Failing(bad) /\ acc' = AddSources(a, ss, bad)

\* Accept::process_cmd, one command; the loop ends when the queue is empty.  Resume
\* leaves the rest of backpressure(false) to AccDrain.
AccCommand ==
  /\ acc.pc = "cmd" /\ acmds # <<>> /\ acmds' = Tail(acmds)
  /\ UNCHANGED <<lst, poked, mgrVars, wrk, sig, sys, served, faults, envVars>>
  /\ LET c == Head(acmds)[1] IN
     \/ /\ c = "Pause" /\ acc' = BackpressureOn(acc) /\ UNCHANGED <<timers, errs, dead>>
     \/ /\ c = "Resume" /\ UNCHANGED <<timers, errs, dead>>
        /\ acc' = IF acc.bp THEN [acc EXCEPT !.pc = "drain"] ELSE acc
     \/ c = "Timer" /\ ProcessTimer(Head(acmds)[2]) /\ UNCHANGED dead
     \/ /\ c \in {"Stop", "Terminate"}
        /\ acc' = [BackpressureOn(acc) EXCEPT !.pc = "done", !.backlog = <<>>]
        /\ dead' = dead \cup Elems(acc.backlog) /\ UNCHANGED <<timers, errs>>

\* backpressure(false): the backlog goes to the manager, item by item; a paused
\* server gets nothing and the loop stays under back-pressure.
AccDrain ==
  /\ acc.pc = "drain" /\ acc.backlog # <<>>
  /\ IF paused THEN acc' = [acc EXCEPT !.pc = "cmd"]
     ELSE acc' = [acc EXCEPT !.hand = Head(acc.backlog), !.backlog = Tail(@), !.pc = "resend"]
  /\ UNCHANGED <<lst, acmds, poked, timers, errs, mgrVars, wrk, sig, sys, served, dead,
                 faults, envVars>>
AccResend ==
  /\ acc.pc = "resend" /\ UNCHANGED <<paused, task>>
  /\ IF Closed
     THEN /\ acc' = [acc EXCEPT !.backlog = <<acc.hand>> \o @, !.hand = NoConn, !.pc = "cmd"]
          /\ UNCHANGED mgr
     ELSE /\ acc' = [acc EXCEPT !.hand = NoConn, !.pc = "drain"]
          /\ mgr' = [mgr EXCEPT !.cmds = Append(@, Cmd("Item", acc.hand, NoHandle))]
  /\ UNCHANGED <<lst, acmds, poked, timers, errs, wrk, sig, sys, served, dead, faults, envVars>>
AccReady ==
  LET ss == {s \in Sockets : acc.tmo[s] = 0} IN
  \E bad \in SUBSET ss :
    /\ acc.pc = "drain" /\ acc.backlog = <<>> /\ Failing(bad)
    /\ acc' = [AddSources(acc, ss, bad) EXCEPT !.bp = FALSE, !.pc = "cmd"]
    /\ UNCHANGED <<lst, acmds, poked, mgrVars, wrk, sig, sys, served, dead, faults, envVars>>

\* The queue is empty: poller.wait.  Events disarm the sockets they report.
Ready == {s \in Sockets : acc.armed[s] /\ lst[s] # <<>>}
AccWait ==
  /\ acc.pc = "cmd" /\ acmds = <<>> /\ (poked \/ Ready # {})
  /\ poked' = FALSE
  /\ acc' = Scan([acc EXCEPT !.armed = [s \in Sockets |-> @[s] /\ s \notin Ready]], 1)
  /\ UNCHANGED <<lst, acmds, timers, errs, mgrVars, wrk, sig, sys, served, dead, faults, envVars>>

Acceptor ==
  \/ AccStart \/ AccSend \/ AccCommand \/ AccDrain \/ AccResend \/ AccReady \/ AccWait
  \/ \E s \in Sockets : AccAccept(s) \/ AccBlocked(s) \/ AccConnError(s) \/ AccError(s)

-----------------------------------------------------------------------------
(* The system thread: handle_cmd *)

Handle(w) == [w |-> w, gen |-> wrk[w].gen]
\* Does the thread behind a Worker handle still receive?
Receives(h) == wrk[h.w].gen = h.gen /\ wrk[h.w].st \notin {"ended", "gone"}

\* A mutant: resume clears the flag and tells nobody.
ResumingSilently(m) == paused' = FALSE /\ mgr' = m /\ UNCHANGED <<acmds, poked>>

\* ServerManager::pause and resume: the flag first, then the acceptor is told.
Pausing(m) == paused' = TRUE /\ mgr' = [m EXCEPT !.tell = "Pause"] /\ UNCHANGED <<acmds, poked>>
Resuming(m) == paused' = FALSE /\ mgr' = [m EXCEPT !.tell = "Resume"] /\ UNCHANGED <<acmds, poked>>
Keeps(m) == mgr' = m /\ UNCHANGED <<paused, acmds, poked>>
MgrTell ==
  /\ mgr.tell # "" /\ Notify(mgr.tell, 0) /\ mgr' = [mgr EXCEPT !.tell = ""]
  /\ UNCHANGED <<lst, acc, timers, errs, paused, task, wrk, sig, sys, served, dead, faults, envVars>>

\* The head of the command queue; a task of the system thread runs to its next await.
Receiving(t) ==
  Up /\ mgr.pc = "recv" /\ mgr.tell = "" /\ mgr.cmds # <<>> /\ Head(mgr.cmds).t = t
Received == [mgr EXCEPT !.cmds = Tail(@)]
MgrOnly == UNCHANGED <<lst, acc, timers, errs, task, sig, sys, served, faults, envVars>>

\* Vec::remove
Without(ws, n) == SubSeq(ws, 1, n - 1) \o SubSeq(ws, n + 1, Len(ws))

\* HandleCmdState::process: one turn of its loop, for an item that was received or that
\* a worker has refused.
Processing == Receiving("Item") \/ mgr.pc = "process"
Item == IF mgr.pc = "process" THEN mgr.hand ELSE Head(mgr.cmds).c
ItemTaken == IF mgr.pc = "process" THEN [mgr EXCEPT !.hand = NoConn, !.pc = "recv"] ELSE Received
\* A mutant: an item no worker takes is dropped.
MgrNoWorkersDrops ==
  /\ Processing /\ mgr.workers = <<>> /\ MgrOnly /\ UNCHANGED wrk
  /\ Pausing(ItemTaken) /\ dead' = dead \cup {Item}
MgrNoWorkers ==
  /\ Processing /\ mgr.workers = <<>> /\ MgrOnly /\ UNCHANGED wrk
  /\ IF mgr.stopping THEN Keeps(ItemTaken) /\ dead' = dead \cup {Item}
     ELSE Pausing([ItemTaken EXCEPT !.backlog = Append(@, Item)]) /\ UNCHANGED dead
MgrDispatch ==
  LET n == IF mgr.next > Len(mgr.workers) THEN Len(mgr.workers) ELSE mgr.next
      h == mgr.workers[n]
  IN /\ Processing /\ mgr.workers # <<>> /\ MgrOnly /\ UNCHANGED dead
     /\ IF Receives(h)
        THEN /\ wrk' = [wrk EXCEPT ![h.w].reqs = Append(@, Item)]
             /\ Keeps([ItemTaken EXCEPT !.next = (n % Len(mgr.workers)) + 1])
        ELSE /\ UNCHANGED wrk
             /\ Keeps([ItemTaken EXCEPT !.next = n, !.workers = Without(@, n), !.hand = Item,
                                        !.pc = "process"])

\* HandleCmdState::update_workers, up to the backlog.  The list is sorted by name: the
\* new handle goes behind those with the same one.
SortIn(ws, h) ==
  LET k == Cardinality({i \in 1 .. Len(ws) : ws[i].w <= h.w}) IN
  SubSeq(ws, 1, k) \o <<h>> \o SubSeq(ws, k + 1, Len(ws))
ThenBacklog(m) ==
  IF m.backlog = <<>> \/ m.workers = <<>> THEN [m EXCEPT !.pc = "recv"]
  ELSE [m EXCEPT !.pc = "backlog"]
\* A mutant: an available worker does not resume the server.
MgrAvailableQuiet ==
  /\ Receiving("Available") /\ MgrOnly /\ UNCHANGED <<wrk, dead>>
  /\ Keeps(ThenBacklog([Received EXCEPT !.workers = SortIn(@, Head(mgr.cmds).h)]))
MgrAvailable ==
  LET m == [Received EXCEPT !.workers = SortIn(@, Head(mgr.cmds).h)] IN
  /\ Receiving("Available") /\ MgrOnly /\ UNCHANGED <<wrk, dead>>
  /\ IF Len(m.workers) = 1 THEN Resuming(ThenBacklog(m)) ELSE Keeps(ThenBacklog(m))

\* binary_search compares names only and may find any of several equal entries.
MgrUnavailable ==
  LET w == Head(mgr.cmds).h.w
      at == {i \in 1 .. Len(mgr.workers) : mgr.workers[i].w = w}
  IN /\ Receiving("Unavailable") /\ MgrOnly /\ UNCHANGED <<wrk, dead>>
     /\ \E ws \in IF at = {} THEN {mgr.workers} ELSE {Without(mgr.workers, i) : i \in at} :
          LET m == ThenBacklog([Received EXCEPT !.workers = ws]) IN
          IF ws = <<>> THEN Pausing(m) ELSE Keeps(m)

\* The backlog of the manager goes to the first worker; one turn of the loop.
MgrBacklog ==
  LET h == mgr.workers[1]
      c == Head(mgr.backlog)
      m == [mgr EXCEPT !.backlog = Append(Tail(@), c), !.workers = Tail(@), !.pc = "recv"]
  IN /\ mgr.pc = "backlog" /\ mgr.tell = "" /\ MgrOnly /\ UNCHANGED dead
     /\ IF Receives(h)
        THEN /\ wrk' = [wrk EXCEPT ![h.w].reqs = Append(@, c)]
             /\ Keeps(ThenBacklog([mgr EXCEPT !.backlog = Tail(@)]))
        ELSE UNCHANGED wrk /\ IF m.workers = <<>> THEN Pausing(m) ELSE Keeps(m)

MgrPauseCmd == Receiving("Pause") /\ Pausing(Received) /\ MgrOnly /\ UNCHANGED <<wrk, dead>>
MgrResumeCmd == Receiving("Resume") /\ Resuming(Received) /\ MgrOnly /\ UNCHANGED <<wrk, dead>>
MgrHup == Receiving("Hup") /\ Keeps(Received) /\ MgrOnly /\ UNCHANGED <<wrk, dead>>

\* HandleCmdState::stop, in the order of its awaits: the acceptor ...
Graceful(t) ==
  CASE t \in {"StopGraceful", "Term"} -> TRUE
    [] t = "Quit" -> cfg.graceful_shutdown
    [] OTHER -> FALSE
\* A mutant: the acceptor is waited for but not told to stop.
MgrStopUntold(t) ==
  /\ Receiving(t) /\ MgrOnly /\ UNCHANGED <<acmds, poked, paused, wrk, dead>>
  /\ mgr' = [Received EXCEPT !.stopping = TRUE, !.graceful = Graceful(t), !.pc = "acceptor"]
MgrStop(t) ==
  /\ Receiving(t) /\ Notify("Stop", 0) /\ MgrOnly /\ UNCHANGED <<paused, wrk, dead>>
  /\ mgr' = [Received EXCEPT !.stopping = TRUE, !.graceful = Graceful(t), !.pc = "acceptor"]

\* ... then the workers in the list: told to stop, and waited for when graceful ...
Told(ws) == {h.w : h \in {x \in Elems(ws) : Receives(x)}}
MgrStopWorkers ==
  /\ Up /\ mgr.pc = "acceptor" /\ ~Listening
  /\ wrk' = [w \in Workers |-> IF w \in Told(mgr.workers) THEN [wrk[w] EXCEPT !.stop = TRUE]
                               ELSE wrk[w]]
  /\ Keeps([mgr EXCEPT !.pc = IF mgr.graceful /\ cfg.shutdown_timeout THEN "workers" ELSE "delay"])
  /\ MgrOnly /\ UNCHANGED dead

\* ... until all have answered, or the shutdown timeout ...
MgrWorkersDone ==
  /\ Up /\ mgr.pc = "workers" /\ Keeps([mgr EXCEPT !.pc = "delay"]) /\ MgrOnly
  /\ UNCHANGED <<wrk, dead>>

\* ... then whoever waits for the server is told, the system stops if it was asked to,
\* and the drop of handle_cmd's state terminates the acceptor and closes the queue.
ItemsIn(q) == {q[i].c : i \in {j \in 1 .. Len(q) : q[j].t = "Item"}}
MgrStopped ==
  /\ Up /\ mgr.pc = "delay" /\ Notify("Terminate", 0)
  /\ mgr' = [mgr EXCEPT !.pc = "done", !.notified = TRUE, !.cmds = <<>>, !.backlog = <<>>,
                        !.workers = <<>>]
  /\ sys' = IF cfg.stop_runtime THEN "exit" ELSE sys
  /\ dead' = dead \cup ItemsIn(mgr.cmds) \cup Elems(mgr.backlog)
  /\ UNCHANGED <<lst, acc, timers, errs, paused, task, wrk, sig, served, faults, envVars>>

Stops == {"Stop", "StopGraceful", "Int", "Term", "Quit"}
Manager ==
  \/ MgrTell \/ MgrNoWorkers \/ MgrDispatch \/ MgrAvailable \/ MgrUnavailable \/ MgrBacklog
  \/ MgrPauseCmd \/ MgrResumeCmd \/ MgrHup
  \/ \E t \in Stops : MgrStop(t)
  \/ MgrStopWorkers \/ MgrWorkersDone \/ MgrStopped

-----------------------------------------------------------------------------
(* The system thread: a start_worker task per worker *)

\* A message into the manager's own queue; nothing happens once it is closed.
Enqueue(t, w) ==
  mgr' = IF Closed THEN mgr ELSE [mgr EXCEPT !.cmds = Append(@, Cmd(t, NoConn, Handle(w)))]
TaskOnly == UNCHANGED <<lst, acc, timers, errs, paused, sig, served, dead, faults, envVars>>
\* Only one task runs at a time: handle_cmd is at an await.
Yielded == Up /\ mgr.tell = "" /\ mgr.pc \notin {"process", "backlog"}

\* The top of the loop: Worker::status.
TaskStatus(w) ==
  /\ Yielded /\ task[w] = "loop" /\ TaskOnly /\ UNCHANGED <<acmds, poked, wrk, sys>>
  /\ \/ /\ ~wrk[w].failed /\ task' = [task EXCEPT ![w] = "wait"]
        /\ Enqueue(IF wrk[w].avail THEN "Available" ELSE "Unavailable", w)
     \/ /\ wrk[w].failed /\ ~cfg.stop_on_panic /\ task' = [task EXCEPT ![w] = "sleep"]
        /\ Enqueue("Unavailable", w)

\* A failed worker with stop_on_panic: HandleCmdState::stop on an empty list of workers,
\* with the acceptor first.  It answers no caller of Server::stop, whose command stays queued.
TaskFailed(w) ==
  /\ Yielded /\ task[w] = "loop" /\ wrk[w].failed /\ cfg.stop_on_panic
  /\ Notify("Stop", 0) /\ mgr' = [mgr EXCEPT !.stopping = TRUE]
  /\ task' = [task EXCEPT ![w] = "stop"] /\ TaskOnly /\ UNCHANGED <<wrk, sys>>
TaskStop(w) ==
  /\ Yielded /\ task[w] = "stop" /\ ~Listening
  /\ task' = [task EXCEPT ![w] = "ret"]
  /\ sys' = IF cfg.stop_runtime THEN "exit" ELSE sys
  /\ TaskOnly /\ UNCHANGED <<acmds, poked, mgr, wrk>>

\* After RESTART_DELAY, long enough for the old arbiter to be gone, a new thread is
\* started under the same name; the task then waits for its status.
TaskRestart(w) ==
  /\ Yielded /\ task[w] = "sleep" /\ wrk[w].st = "gone"
  /\ TaskOnly /\ UNCHANGED <<acmds, poked, mgr, sys>>
  /\ IF mgr.stopping THEN task' = [task EXCEPT ![w] = "ret"] /\ UNCHANGED wrk
     ELSE /\ task' = [task EXCEPT ![w] = "wait"]
          /\ wrk' = [wrk EXCEPT ![w] = WorkerThread(@.gen + 1)]

\* Worker::wait_for_status: `updated` is taken back; a failed worker is not waited for.
TaskWake(w) ==
  /\ Yielded /\ task[w] = "wait" /\ (wrk[w].updated \/ wrk[w].failed)
  /\ wrk' = IF wrk[w].failed THEN wrk ELSE [wrk EXCEPT ![w].updated = FALSE]
  /\ task' = [task EXCEPT ![w] = "loop"] /\ TaskOnly /\ UNCHANGED <<acmds, poked, mgr, sys>>

Task(w) == TaskStatus(w) \/ TaskFailed(w) \/ TaskStop(w) \/ TaskRestart(w) \/ TaskWake(w)

-----------------------------------------------------------------------------
(* A worker thread *)

WrkOnly == UNCHANGED <<accVars, mgrVars, sig, sys, envVars>>
Runs(w, st) == wrk[w].st = st /\ ~wrk[w].torn
Fault == faults < cfg.faults /\ faults' = faults + 1
Free(w) == Cardinality(wrk[w].conns) < MaxConn

\* WorkerAvailabilityTx::set: `available` is swapped, and only then, if it changed,
\* `updated` is set and the start_worker task woken.
SetAvail(t, v) == [t EXCEPT !.avail = v, !.torn = (t.avail # v)]
WrkPublish(w) ==
  /\ wrk[w].torn /\ wrk' = [wrk EXCEPT ![w].torn = FALSE, ![w].updated = TRUE]
  /\ WrkOnly /\ UNCHANGED <<served, dead, faults>>

\* The drop of the runner: the availability says failed, the requests go with it.
RunnerGone(w, st) ==
  /\ wrk' = [wrk EXCEPT ![w] = [@ EXCEPT !.st = st, !.failed = TRUE, !.updated = TRUE,
               !.avail = FALSE, !.torn = FALSE, !.reqs = <<>>,
               !.conns = IF st = "gone" THEN {} ELSE @]]
  /\ dead' = dead \cup Elems(wrk[w].reqs) \cup (IF st = "gone" THEN wrk[w].conns ELSE {})

\* ServiceRunner::create: the factory answers, or fails, or a shutdown comes first.
WrkCreate(w) ==
  /\ Runs(w, "create") /\ WrkOnly /\ UNCHANGED served
  /\ \/ /\ wrk' = [wrk EXCEPT ![w] = [SetAvail(@, TRUE) EXCEPT !.st = "run"]]
        /\ UNCHANGED <<dead, faults>>
     \/ (Fault \/ (wrk[w].stop /\ UNCHANGED faults)) /\ RunnerGone(w, "ended")

\* One poll of the run loop: poll_ready, then the requests, then the stop stream.
WrkPoll(w) ==
  /\ Runs(w, "run") /\ wrk[w].avail # Free(w)
  /\ wrk' = [wrk EXCEPT ![w] = SetAvail(@, Free(w))]
  /\ WrkOnly /\ UNCHANGED <<served, dead, faults>>

\* A request is received and called; the connection may fail to be converted.
WrkRecv(w) ==
  LET c == Head(wrk[w].reqs) IN
  /\ Runs(w, "run") /\ wrk[w].avail /\ Free(w) /\ wrk[w].reqs # <<>>
  /\ WrkOnly /\ UNCHANGED served
  /\ \/ /\ wrk' = [wrk EXCEPT ![w].reqs = Tail(@), ![w].conns = @ \cup {c}]
        /\ UNCHANGED <<dead, faults>>
     \/ Fault /\ wrk' = [wrk EXCEPT ![w].reqs = Tail(@)] /\ dead' = dead \cup {c}

\* A shutdown is seen when no request can be received.
WrkShutdown(w) ==
  /\ Runs(w, "run") /\ wrk[w].avail = Free(w) /\ wrk[w].stop
  /\ (Free(w) => wrk[w].reqs = <<>>)
  /\ wrk' = [wrk EXCEPT ![w] = [SetAvail(@, FALSE) EXCEPT !.st = "stopping"]]
  /\ WrkOnly /\ UNCHANGED <<served, dead, faults>>

\* ServiceRunner::stop is over: the services are shut down or the timeout has passed.
WrkStopped(w) ==
  Runs(w, "stopping") /\ RunnerGone(w, "ended") /\ WrkOnly /\ UNCHANGED <<served, faults>>

\* The readiness of a service fails: the service is created anew; a shutdown ends that.
WrkReadyError(w) ==
  /\ Runs(w, "run") /\ Free(w) /\ Fault
  /\ wrk' = [wrk EXCEPT ![w] = [SetAvail(@, FALSE) EXCEPT !.st = "recreate"]]
  /\ WrkOnly /\ UNCHANGED <<served, dead>>
WrkRecreate(w) ==
  /\ Runs(w, "recreate") /\ WrkOnly /\ UNCHANGED <<served, faults>>
  /\ \/ wrk' = [wrk EXCEPT ![w].st = "run"] /\ UNCHANGED dead
     \/ wrk[w].stop /\ RunnerGone(w, "ended")

\* The arbiter ends: Arbiter::current().stop() after the runner, a stop of the system,
\* or a panic of a task; its connections go with it and on_stop says failed.
WrkGone(w) ==
  /\ wrk[w].st # "gone" /\ (wrk[w].st = "ended" \/ wrk[w].kill)
  /\ RunnerGone(w, "gone") /\ WrkOnly /\ UNCHANGED <<served, faults>>
WrkPanic(w) ==
  wrk[w].st # "gone" /\ Fault /\ RunnerGone(w, "gone") /\ WrkOnly /\ UNCHANGED served

\* A connection ends; its guard frees the counter.
WrkConnDone(w) == \E c \in wrk[w].conns :
  /\ wrk' = [wrk EXCEPT ![w].conns = @ \ {c}] /\ served' = served \cup {c}
  /\ WrkOnly /\ UNCHANGED <<dead, faults>>

WorkerSteps(w) ==
  \/ WrkPublish(w) \/ WrkCreate(w) \/ WrkPoll(w) \/ WrkRecv(w) \/ WrkShutdown(w)
  \/ WrkStopped(w) \/ WrkReadyError(w) \/ WrkRecreate(w) \/ WrkGone(w) \/ WrkPanic(w)
  \/ WrkConnDone(w)

-----------------------------------------------------------------------------
(* Signals, the system, the callers *)

SysOnly == UNCHANGED <<lst, acc, timers, errs, paused, task, served, faults, envVars>>

\* signals(): the task takes every pending signal; without a registered handler they
\* are gone.
SigTake ==
  /\ Yielded /\ sig.pending # <<>>
  /\ sig' = IF sig.handler = "set" THEN [pending |-> <<>>, handler |-> "fired", got |-> sig.pending]
            ELSE [sig EXCEPT !.pending = <<>>]
  /\ SysOnly /\ UNCHANGED <<acmds, poked, mgr, wrk, sys, dead>>

\* The task of ServerManager::start hands the signals on and asks for a new handler,
\* which the system's arbiter registers in a task of its own.
SigForward ==
  /\ Yielded /\ sig.handler = "fired"
  /\ mgr' = IF Closed THEN mgr
            ELSE [mgr EXCEPT !.cmds = @ \o [i \in 1 .. Len(sig.got) |-> Simple(sig.got[i])]]
  /\ sig' = [sig EXCEPT !.handler = "asked", !.got = <<>>]
  /\ SysOnly /\ UNCHANGED <<acmds, poked, wrk, sys, dead>>
SigRegister ==
  /\ Yielded /\ sig.handler = "asked" /\ sig' = [sig EXCEPT !.handler = "set"]
  /\ SysOnly /\ UNCHANGED <<acmds, poked, mgr, wrk, sys, dead>>

\* SystemSupport::run on Exit: the arbiters are told to stop and the system's event loop
\* ends; its tasks are dropped, and with handle_cmd its DropHandle and the queue.
SysExit ==
  /\ Yielded /\ sys = "exit" /\ sys' = "stopped"
  /\ wrk' = [w \in Workers |-> [wrk[w] EXCEPT !.kill = TRUE]]
  /\ timers' = {} /\ UNCHANGED <<lst, acc, errs, paused, task, sig, served, faults, envVars>>
  /\ IF Closed THEN UNCHANGED <<acmds, poked, mgr, dead>>
     ELSE /\ Notify("Terminate", 0)
          /\ mgr' = [mgr EXCEPT !.pc = "done", !.stopping = TRUE, !.cmds = <<>>,
                                !.backlog = <<>>, !.workers = <<>>]
          /\ dead' = dead \cup ItemsIn(mgr.cmds) \cup Elems(mgr.backlog)

\* Calls of the server handle and signals of the process, each at most once.
Call(op) ==
  /\ op \in cfg.ops \ used /\ used' = used \cup {op} /\ Up
  /\ IF op \in Signals THEN sig' = [sig EXCEPT !.pending = Append(@, op)] /\ UNCHANGED mgr
     ELSE /\ mgr' = IF Closed THEN mgr ELSE [mgr EXCEPT !.cmds = Append(@, Simple(op))]
          /\ UNCHANGED sig
  /\ UNCHANGED <<accVars, paused, task, wrk, sys, served, dead, faults, came, cfg>>

\* A client connects; a listening socket queues it.
Connect(s) ==
  /\ came < cfg.clients /\ came' = came + 1 /\ Listening /\ acc.pc # "start"
  /\ lst' = [lst EXCEPT ![s] = Append(@, came + 1)]
  /\ UNCHANGED <<acc, acmds, poked, timers, errs, mgrVars, wrk, sig, sys, served, dead, faults,
                 cfg, used>>

System == SigTake \/ SigForward \/ SigRegister \/ SysExit
Ops == {"Pause", "Resume"} \cup Stops \cup Signals

Next ==
  \/ Acceptor \/ (\E k \in timers : ErrTimer(k)) \/ Manager
  \/ (\E w \in Workers : Task(w))
  \/ (\E w \in cfg.workers : WorkerSteps(w)) \/ System
  \/ (\E op \in Ops : Call(op)) \/ (\E s \in Sockets : Connect(s))

\* When a thread or task has something to do.
AcceptorRuns == Listening /\ (acc.pc = "cmd" => acmds # <<>> \/ poked \/ Ready # {})
ManagerRuns ==
  \/ mgr.tell # "" \/ mgr.pc \in {"process", "backlog"}
  \/ Up /\ mgr.pc \in {"workers", "delay"}
  \/ Up /\ mgr.pc = "recv" /\ mgr.cmds # <<>>
  \/ Up /\ mgr.pc = "acceptor" /\ ~Listening
TaskRuns(w) == Yielded /\ CASE task[w] = "loop" -> TRUE
                            [] task[w] = "stop" -> ~Listening
                            [] task[w] = "sleep" -> wrk[w].st = "gone"
                            [] task[w] = "wait" -> wrk[w].updated \/ wrk[w].failed
                            [] task[w] = "ret" -> FALSE
WorkerRuns(w) ==
  LET t == wrk[w] IN
  /\ w \in cfg.workers
  /\ \/ t.torn
     \/ t.st \in {"create", "stopping", "recreate", "ended"}
     \/ t.kill /\ t.st # "gone"
     \/ t.st = "run" /\ (t.avail # Free(w) \/ t.stop \/ (Free(w) /\ t.reqs # <<>>))
SystemRuns == Yielded /\ (sig.pending # <<>> \/ sig.handler \in {"asked", "fired"} \/ sys = "exit")

\* What a worker does by itself, without failing.
WorkerGoesOn(w) ==
  \/ WrkPublish(w) \/ WrkCreate(w) \/ WrkPoll(w) \/ WrkRecv(w) \/ WrkShutdown(w)
  \/ WrkStopped(w) \/ WrkRecreate(w) \/ WrkGone(w)

\* Every thread and every task of the system thread is scheduled; a connection that is
\* served ends some day.  Weak fairness, with ENABLED written out.
Fairness ==
  /\ []<>~AcceptorRuns \/ []<><<Acceptor>>_vars
  /\ []<>(timers = {}) \/ []<><<\E k \in timers : ErrTimer(k)>>_vars
  /\ []<>~ManagerRuns \/ []<><<Manager>>_vars
  /\ []<>~SystemRuns \/ []<><<System>>_vars
  /\ \A w \in Workers :
       /\ []<>~TaskRuns(w) \/ []<><<Task(w)>>_vars
       /\ []<>~WorkerRuns(w) \/ []<><<WorkerGoesOn(w)>>_vars
       /\ WF_vars(WrkConnDone(w))

Spec == Init /\ [][Next]_vars
FairSpec == Spec /\ Fairness

-----------------------------------------------------------------------------
(* Properties *)

\* Where a connection that reached the server is.
Places(c) ==
  <<c \in UNION {Elems(lst[s]) : s \in Sockets}, acc.hand = c, c \in Elems(acc.backlog),
    mgr.hand = c, c \in ItemsIn(mgr.cmds), c \in Elems(mgr.backlog),
    \E w \in Workers : c \in Elems(wrk[w].reqs), \E w \in Workers : c \in wrk[w].conns,
    c \in served, c \in dead>>

\* Between accept(), the two backlogs, the command queue and the request queues a
\* connection is handed over without being duplicated or lost, and as long as nothing
\* fails and nobody stops the server none is dropped.
HandedOverOnce ==
  /\ \A c \in 1 .. came : Cardinality({i \in DOMAIN Places(c) : Places(c)[i]}) = 1
  /\ dead # {} => errs + faults > 0 \/ mgr.stopping

\* poller.wait, process_cmd and backpressure: when the accept loop waits and is not
\* under back-pressure, a socket with pending connections has its interest set or is
\* waiting for an error timeout; a connection set aside waits for a Resume that is still to come.
AcceptorNotStranded ==
  acc.pc = "cmd" /\ acmds = <<>> /\ ~poked =>
    /\ ~acc.bp => \A s \in Sockets : lst[s] # <<>> => acc.armed[s] \/ acc.tmo[s] # 0
    /\ acc.backlog # <<>> => acc.bp

\* ServerManager::pause/resume store the flag before they notify, and
\* backpressure(false) looks at the flag before it hands on: once the manager and the
\* acceptor are at rest the back-pressure is what the flag says.
BackpressureFollowsFlag ==
  acc.pc = "cmd" /\ acmds = <<>> /\ mgr.tell = "" /\ ~Closed /\ ~poked /\ Ready = {} => acc.bp = paused

\* Whatever workers fail, fill up and restart, a client is served or dropped at last
\* as long as nobody pauses the server and accept() meets no error.
ClientsServed ==
  cfg.ops \cap {"Pause"} = {} /\ cfg.errors = 0 =>
    []<>(1 .. came \subseteq served \cup dead \/ ~Listening)

\* Server::stop: the caller is answered, whatever the acceptor and the workers do.
StopCompletes == []<>(used \cap {"Stop", "StopGraceful"} # {} => mgr.notified)

=============================================================================

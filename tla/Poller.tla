------------------------------- MODULE Poller -------------------------------
(***************************************************************************)
(* geario-polling: the portable Poller (lib.rs) over each of its back      *)
(* ends.  One thread waits, any thread may notify it, and for every source *)
(* one thread adds, modifies and deletes it.  `be` names the back end:     *)
(*                                                                         *)
(*   epoll        epoll.rs with an eventfd notifier and a timerfd          *)
(*   epoll_pipe   epoll.rs with the fallback pipe and no timerfd           *)
(*   kqueue       kqueue.rs with EVFILT_USER                               *)
(*   kqueue_pipe  kqueue.rs with the notification pipe                     *)
(*   port         port.rs                                                  *)
(*   poll         poll.rs with a pipe, poll_eventfd with an eventfd        *)
(*                                                                         *)
(* A step of a thread is what it does between two points where another     *)
(* thread can be seen: an atomic operation, a system call, the mutex.      *)
(* `bell` is the content of the notifier: bytes in the pipe, the counter   *)
(* of the eventfd, the pending user event.  Readiness of a source is a set *)
(* of "r", "w" and "hup".                                                  *)
(***************************************************************************)
EXTENDS Naturals, Sequences, FiniteSets

CONSTANTS
    Profiles,    \* what is explored: [be, srcs, asks], bounds on calls [ops, notifies, waits, changes]
    Files,       \* file descriptors
    Filters,     \* kqueue filters other than descriptors: signals, processes, timers
    Notifiers,   \* threads that call notify()
    NotifyKey    \* NOTIFY_KEY, the key no source may have

VARIABLES
    be,
    outer,       \* Poller::notified of lib.rs
    wpc,         \* where the waiting thread is
    deadline,    \* the deadline of the wait: "none", "zero" or "later"
    out,         \* the events collected by the wait
    seen,        \* the notifier was among the events of the system call
    bell,        \* what the notifier holds
    bellOn,      \* the notifier's registration is armed
    timer,       \* the timerfd: [fd, on, armed]
    sources,     \* the sources set of kqueue.rs
    regs,        \* registrations held by the kernel
    fds,         \* Fds of poll.rs: [poll_fds, fd_data]
    inner,       \* Poller::notified of poll.rs
    waiting,     \* waiting_operations of poll.rs
    opc, ask,    \* the thread of each source, and the call it makes
    npc,         \* the notifying threads
    ready,       \* readiness of each source
    want, spent, \* history: the interest last asked for, what was delivered since
    owed,        \* history: a notify() was made and no wait() returned after it
    failed,      \* history: a wait() returned WouldBlock
    left         \* the profile, with the calls that remain

pollerVars == <<be, outer, wpc, deadline, out, seen, bell, bellOn, timer, sources, regs,
                fds, inner, waiting, opc, ask, npc, ready, want, spent, owed, failed, left>>

waitVars == <<outer, wpc, deadline, out, seen>>
bellVars == <<bell, bellOn>>
tableVars == <<sources, regs, fds>>
pollVars == <<inner, waiting>>
opVars == <<opc, ask>>
history == <<want, spent, owed, failed>>

Sources == Files \cup Filters
Poll == be \in {"poll", "poll_eventfd"}
Kqueue == be \in {"kqueue", "kqueue_pipe"}
Nobody == [key |-> NotifyKey, dirs |-> {}, mode |-> "Oneshot"]

NoCall == [op |-> "delete", a |-> Nobody]

\* PollMode
OneshotModes == {"Oneshot", "EdgeOneshot"}
EdgeModes == {"Edge", "EdgeOneshot"}

-----------------------------------------------------------------------------
(* Interests, and the events a source reports under them. *)

\* The events the kernel has for readiness `rdy` under the mask of `dirs`: an error or hang-up
\* is reported as readable and as writable, asked for or not.
Reported(rdy, dirs) == (rdy \cap dirs) \cup (IF "hup" \in rdy THEN {"r", "w"} ELSE {})

\* kqueue has one filter for each direction.  Only a read filter at end of file reports both.
FilterReported(rdy, dirs) ==
    IF "hup" \in rdy THEN IF dirs = {"r"} THEN {"r", "w"} ELSE dirs ELSE rdy \cap dirs

Hits(k) == IF Kqueue THEN FilterReported(ready[k.fd], k.dirs) ELSE Reported(ready[k.fd], k.dirs)

\* A registration reports while it is on; in an edge mode, only what is new since it last did.
Fires(k) == k.on /\ Hits(k) # {} /\ (k.mode \in EdgeModes => k.fresh)

KernelEvents == {[fd |-> k.fd, key |-> k.key, dirs |-> Hits(k)] : k \in {j \in regs : Fires(j)}}

\* What the kernel keeps of a registration that has fired: epoll keeps a one-shot one disabled,
\* kqueue and event ports forget it.
Fired(k) ==
    IF k.mode \in OneshotModes
    THEN IF be \in {"epoll", "epoll_pipe"} THEN {[k EXCEPT !.on = FALSE, !.fresh = FALSE]} ELSE {}
    ELSE {[k EXCEPT !.fresh = FALSE]}

AfterKernelEvents == UNION {IF Fires(k) THEN Fired(k) ELSE {k} : k \in regs}

Reg(fd, a, dirs) == [fd |-> fd, key |-> a.key, dirs |-> dirs, mode |-> a.mode, on |-> TRUE, fresh |-> TRUE]

RegsOf(fd) == {k \in regs : k.fd = fd}

-----------------------------------------------------------------------------
(* add, modify and delete of the back ends: each returns the new tables and  *)
(* whether it succeeded.                                                     *)

Tables == [sources |-> sources, regs |-> regs, fds |-> fds]
Ok(t) == [t |-> t, ok |-> TRUE]
Err(t) == [t |-> t, ok |-> FALSE]

EpollAdd(fd, a) ==
    IF RegsOf(fd) # {} THEN Err(Tables)
    ELSE Ok([Tables EXCEPT !.regs = @ \cup {Reg(fd, a, a.dirs)}])

EpollModify(fd, a) ==
    IF RegsOf(fd) = {} THEN Err(Tables)
    ELSE Ok([Tables EXCEPT !.regs = (@ \ RegsOf(fd)) \cup {Reg(fd, a, a.dirs)}])

EpollDelete(fd) ==
    IF RegsOf(fd) = {} THEN Err(Tables) ELSE Ok([Tables EXCEPT !.regs = @ \ RegsOf(fd)])

\* modify of kqueue.rs: ADD or DELETE for the read and for the write filter of the descriptor.
KqueueModify(t, fd, a) ==
    IF fd \notin t.sources THEN Err(t)
    ELSE Ok([t EXCEPT !.regs = (@ \ RegsOf(fd)) \cup {Reg(fd, a, {d}) : d \in a.dirs}])

KqueueAdd(fd, a) ==
    IF fd \in sources THEN Err(Tables)
    ELSE KqueueModify([Tables EXCEPT !.sources = @ \cup {fd}], fd, a)

KqueueDelete(fd) ==
    LET m == KqueueModify(Tables, fd, Nobody)
    IN  IF ~m.ok THEN m ELSE Ok([m.t EXCEPT !.sources = @ \ {fd}])

\* add_filter, modify_filter: a signal, a process or a timer has one filter, reported as readable.
KqueueModifyFilter(t, fd, a) ==
    IF fd \notin t.sources THEN Err(t)
    ELSE Ok([t EXCEPT !.regs = (@ \ RegsOf(fd)) \cup {Reg(fd, a, {"r"})}])

KqueueAddFilter(fd, a) ==
    IF fd \in sources THEN Err(Tables)
    ELSE KqueueModifyFilter([Tables EXCEPT !.sources = @ \cup {fd}], fd, a)

\* delete_filter removes the filter first, and only then asks whether there was one.
KqueueDeleteFilter(fd) ==
    LET t == [Tables EXCEPT !.regs = @ \ RegsOf(fd)]
    IN  IF fd \in sources THEN Ok([t EXCEPT !.sources = @ \ {fd}]) ELSE Err(t)

\* An event port associates the descriptor whether or not it is associated already.
PortModify(fd, a) ==
    IF a.mode # "Oneshot" THEN Err(Tables)
    ELSE Ok([Tables EXCEPT !.regs = (@ \ RegsOf(fd)) \cup {Reg(fd, a, a.dirs)}])

PortDelete(fd) == Ok([Tables EXCEPT !.regs = @ \ RegsOf(fd)])

\* poll.rs keeps its own table: poll_fds is passed to poll(), fd_data finds a descriptor in it.
FdData(i, a) == [poll_fds_index |-> i, key |-> a.key, remove |-> a.mode = "Oneshot"]

PollAdd(fd, a) ==
    IF fd \in DOMAIN fds.fd_data \/ a.mode \in EdgeModes THEN Err(Tables)
    ELSE Ok([Tables EXCEPT
            !.fds.fd_data = [f \in DOMAIN @ \cup {fd} |->
                IF f = fd THEN FdData(Len(fds.poll_fds) + 1, a) ELSE @[f]],
            !.fds.poll_fds = Append(@, [fd |-> fd, dirs |-> a.dirs])])

\* The key and the interest are replaced before an unsupported mode is refused.
PollModify(fd, a) ==
    IF fd \notin DOMAIN fds.fd_data THEN Err(Tables)
    ELSE LET d == fds.fd_data[fd]
             t == [Tables EXCEPT !.fds.fd_data[fd].key = a.key,
                                 !.fds.poll_fds[d.poll_fds_index].dirs = a.dirs]
         IN  IF a.mode \in EdgeModes THEN Err(t)
             ELSE Ok([t EXCEPT !.fds.fd_data[fd].remove = a.mode = "Oneshot"])

\* Vec::swap_remove: the last element takes the place of the removed one.
SwapRemove(s, i) ==
    LET n == Len(s) IN SubSeq(IF i = n THEN s ELSE [s EXCEPT ![i] = s[n]], 1, n - 1)

PollDelete(fd) ==
    IF fd \notin DOMAIN fds.fd_data THEN Err(Tables)
    ELSE LET i == fds.fd_data[fd].poll_fds_index
             p == SwapRemove(fds.poll_fds, i)
         IN  Ok([Tables EXCEPT
                !.fds.poll_fds = p,
                !.fds.fd_data = [f \in DOMAIN @ \ {fd} |->
                    IF i <= Len(p) /\ p[i].fd = f THEN [@[f] EXCEPT !.poll_fds_index = i] ELSE @[f]]])

\* The calls of the portable Poller: the key of the notifier is refused before the back end is asked.
AddWithMode(fd, a) ==
    CASE a.key = NotifyKey -> Err(Tables)
      [] a.key # NotifyKey /\ be \in {"epoll", "epoll_pipe"} -> EpollAdd(fd, a)
      [] a.key # NotifyKey /\ Kqueue -> IF fd \in Files THEN KqueueAdd(fd, a) ELSE KqueueAddFilter(fd, a)
      [] a.key # NotifyKey /\ be = "port" -> PortModify(fd, a)
      [] a.key # NotifyKey /\ Poll -> PollAdd(fd, a)

ModifyWithMode(fd, a) ==
    CASE a.key = NotifyKey -> Err(Tables)
      [] a.key # NotifyKey /\ be \in {"epoll", "epoll_pipe"} -> EpollModify(fd, a)
      [] a.key # NotifyKey /\ Kqueue ->
            IF fd \in Files THEN KqueueModify(Tables, fd, a) ELSE KqueueModifyFilter(Tables, fd, a)
      [] a.key # NotifyKey /\ be = "port" -> PortModify(fd, a)
      [] a.key # NotifyKey /\ Poll -> PollModify(fd, a)

Delete(fd) ==
    CASE be \in {"epoll", "epoll_pipe"} -> EpollDelete(fd)
      [] Kqueue -> IF fd \in Files THEN KqueueDelete(fd) ELSE KqueueDeleteFilter(fd)
      [] be = "port" -> PortDelete(fd)
      [] Poll -> PollDelete(fd)

Apply(fd, c) ==
    CASE c.op = "add" -> AddWithMode(fd, c.a)
      [] c.op = "modify" -> ModifyWithMode(fd, c.a)
      [] c.op = "delete" -> Delete(fd)

-----------------------------------------------------------------------------
PollerInit ==
    /\ left \in Profiles /\ be = left.be
    /\ outer = FALSE /\ inner = FALSE /\ waiting = 0
    /\ wpc = "idle" /\ deadline = "none" /\ out = {} /\ seen = FALSE
    /\ bell = 0 /\ bellOn = TRUE
    /\ timer = [fd |-> "off", on |-> FALSE, armed |-> FALSE]
    /\ sources = {} /\ regs = {} /\ fds = [poll_fds |-> <<>>, fd_data |-> <<>>]
    /\ opc = [f \in Sources |-> "idle"]
    /\ ask = [f \in Sources |-> NoCall]
    /\ npc = [n \in Notifiers |-> "idle"]
    /\ ready = [f \in Sources |-> {}]
    /\ want = [f \in Sources |-> [st |-> "none", a |-> Nobody]]
    /\ spent = [f \in Sources |-> {}]
    /\ owed = FALSE /\ failed = FALSE

-----------------------------------------------------------------------------
(* Operations on sources. *)

\* The tables after the call, and the history: a call that fails and changes them all the same
\* leaves no promise about the source.
Applied(fd, c) ==
    LET r == Apply(fd, c)
    IN  /\ sources' = r.t.sources /\ regs' = r.t.regs /\ fds' = r.t.fds
        /\ want' = [want EXCEPT ![fd] =
               IF r.ok THEN IF c.op = "delete" THEN [st |-> "none", a |-> Nobody]
                                               ELSE [st |-> "asked", a |-> c.a]
               ELSE IF r.t # Tables THEN [@ EXCEPT !.st = "unknown"] ELSE @]
        /\ spent' = IF r.ok THEN [spent EXCEPT ![fd] = {}] ELSE spent
        /\ UNCHANGED <<owed, failed>>

\* Outside poll.rs a call is the system call it makes.
Operate(fd) ==
    /\ ~Poll /\ left.ops > 0 /\ (fd \in Filters => Kqueue)
    /\ \E op \in {"add", "modify", "delete"}, a \in left.asks :
         Applied(fd, [op |-> op, a |-> IF op = "delete" THEN Nobody ELSE a])
    /\ left' = [left EXCEPT !.ops = @ - 1]
    /\ UNCHANGED <<be, waitVars, bellVars, timer, pollVars, opVars, npc, ready>>

\* modify_fds of poll.rs: announce the operation, ...
ModifyFds(fd) ==
    /\ Poll /\ fd \in Files /\ left.ops > 0 /\ opc[fd] = "idle"
    /\ \E op \in {"add", "modify", "delete"}, a \in left.asks :
         /\ op # "delete" => a.key # NotifyKey
         /\ ask' = [ask EXCEPT ![fd] = [op |-> op, a |-> IF op = "delete" THEN Nobody ELSE a]]
    /\ waiting' = waiting + 1
    /\ opc' = [opc EXCEPT ![fd] = "counted"]
    /\ left' = [left EXCEPT !.ops = @ - 1]
    /\ UNCHANGED <<be, waitVars, bellVars, timer, tableVars, inner, npc, ready, history>>

\* ... ring the notifier, ...
ModifyFdsNotify(fd) ==
    /\ opc[fd] = "counted"
    /\ opc' = [opc EXCEPT ![fd] = "written"]
    /\ bell' = bell + 1
    /\ UNCHANGED <<be, waitVars, bellOn, timer, tableVars, pollVars, ask, npc, ready, history, left>>

\* Reading the notifier: one byte of the pipe, or the whole counter of the eventfd.
Popped == IF bell = 0 \/ be = "poll_eventfd" THEN 0 ELSE bell - 1

\* The waiting thread holds the mutex of poll.rs.
HoldsFds == Poll /\ wpc \in {"held", "swapped", "blocked", "popped"}

\* Condvar::notify_one of operations_complete.
Signalled(pc) == IF pc = "cond" THEN "enter" ELSE pc

\* ... and do the work under the mutex; the last operation wakes the waiting thread.
ModifyFdsLocked(fd) ==
    /\ opc[fd] = "written" /\ ~HoldsFds
    /\ bell' = Popped
    /\ Applied(fd, ask[fd])
    /\ waiting' = waiting - 1
    /\ wpc' = IF waiting = 1 THEN Signalled(wpc) ELSE wpc
    /\ opc' = [opc EXCEPT ![fd] = "idle"]
    /\ ask' = [ask EXCEPT ![fd] = NoCall]
    /\ UNCHANGED <<be, outer, deadline, out, seen, bellOn, timer, inner, npc, ready, left>>

-----------------------------------------------------------------------------
(* notify() *)

\* compare_exchange on the portable flag: somebody else's notification is good enough.
Notify(n) ==
    /\ npc[n] = "idle" /\ left.notifies > 0
    /\ left' = [left EXCEPT !.notifies = @ - 1]
    /\ outer' = TRUE
    /\ npc' = [npc EXCEPT ![n] = IF outer THEN "idle" ELSE "inner"]
    /\ owed' = TRUE
    /\ UNCHANGED <<be, wpc, deadline, out, seen, bellVars, timer, tableVars, pollVars, opVars, ready,
                   want, spent, failed>>

\* notify of epoll.rs, kqueue.rs and port.rs is one system call: a write to the eventfd or the
\* pipe, the trigger of the user event or a byte in kqueue's pipe, an event sent to the port.
Rings(n) ==
    /\ npc[n] = "inner"
    /\ npc' = [npc EXCEPT ![n] = "idle"]
    /\ UNCHANGED <<be, waitVars, bellOn, timer, tableVars, pollVars, opVars, ready, history, left>>

EpollNotify(n) == be \in {"epoll", "epoll_pipe"} /\ Rings(n) /\ bell' = bell + 1

KqueueNotify(n) == Kqueue /\ Rings(n) /\ bell' = IF be = "kqueue" THEN 1 ELSE bell + 1

PortNotify(n) == be = "port" /\ Rings(n) /\ bell' = bell + 1

\* notify of poll.rs: its own flag, the notifier, the condition variable.
PollNotifySwap(n) ==
    /\ Poll /\ npc[n] = "inner"
    /\ inner' = TRUE
    /\ npc' = [npc EXCEPT ![n] = IF inner THEN "idle" ELSE "write"]
    /\ UNCHANGED <<be, waitVars, bellVars, timer, tableVars, waiting, opVars, ready, history, left>>

PollNotifyWrite(n) ==
    /\ npc[n] = "write"
    /\ bell' = bell + 1
    /\ npc' = [npc EXCEPT ![n] = "signal"]
    /\ UNCHANGED <<be, waitVars, bellOn, timer, tableVars, pollVars, opVars, ready, history, left>>

PollNotifySignal(n) ==
    /\ npc[n] = "signal"
    /\ wpc' = Signalled(wpc)
    /\ npc' = [npc EXCEPT ![n] = "idle"]
    /\ UNCHANGED <<be, outer, deadline, out, seen, bellVars, timer, tableVars, pollVars, opVars, ready, history, left>>

-----------------------------------------------------------------------------
(* wait().  A second thread that finds the lock taken returns at once and    *)
(* changes nothing, so one waiting thread is modelled.                       *)

Start(pc) == IF Poll THEN "enter" ELSE "prepare"

Wait ==
    /\ wpc = "idle" /\ left.waits > 0
    /\ deadline' \in {"none", "zero", "later"}
    /\ wpc' = Start(wpc) /\ out' = {} /\ seen' = FALSE
    /\ left' = [left EXCEPT !.waits = @ - 1]
    /\ UNCHANGED <<be, outer, bellVars, timer, tableVars, pollVars, opVars, npc, ready, history>>

HasTimer == be = "epoll"

\* Mutant: the registration of a timerfd that is set already is taken to be in place.
SetTimerOnce(t, arm) ==
    IF ~(arm \/ t.armed) THEN t
    ELSE [fd |-> IF arm THEN "set" ELSE "off", on |-> t.on \/ (arm /\ ~t.armed), armed |-> arm]

\* wait_deadline of epoll.rs up to epoll_wait: the timerfd is set when there is a timeout, and
\* cleared when one was set before; only a set one is registered again.
SetTimer(t, arm) ==
    IF ~(arm \/ t.armed) THEN t
    ELSE [fd |-> IF arm THEN "set" ELSE "off", on |-> IF arm THEN TRUE ELSE t.on, armed |-> arm]

Prepare ==
    /\ wpc = "prepare"
    /\ timer' = IF HasTimer THEN SetTimer(timer, deadline = "later") ELSE timer
    /\ wpc' = "blocked"
    /\ UNCHANGED <<be, outer, deadline, out, seen, bellVars, tableVars, pollVars, opVars, npc, ready, history, left>>

TimerFires ==
    /\ timer.fd = "set"
    /\ timer' = [timer EXCEPT !.fd = "expired"]
    /\ UNCHANGED <<be, waitVars, bellVars, tableVars, pollVars, opVars, npc, ready, history, left>>

TimerReady == timer.on /\ timer.fd = "expired"
BellReady == bellOn /\ bell > 0

\* The system call gives up by itself; with a timerfd only a timeout of zero reaches it.
GivesUp == deadline = "zero" \/ (deadline = "later" /\ ~HasTimer)

\* History: what a one-shot registration has delivered.  Where a descriptor has one registration
\* any event uses it up; kqueue has one for each direction.
Spend(events) == [f \in Sources |->
    LET es == {e \in events : e.fd = f}
    IN  IF es = {} \/ want[f].a.mode \notin OneshotModes THEN spent[f]
        ELSE IF Kqueue /\ f \in Files THEN spent[f] \cup (UNION {e.dirs : e \in es} \cap want[f].a.dirs)
        ELSE {"r", "w"}]

\* The system call returns with the registrations that fire.
Collects ==
    /\ wpc = "blocked"
    /\ BellReady \/ TimerReady \/ KernelEvents # {} \/ GivesUp
    /\ out' = KernelEvents
    /\ regs' = AfterKernelEvents
    /\ spent' = Spend(KernelEvents)
    /\ UNCHANGED <<be, outer, deadline, sources, fds, pollVars, opVars, npc, ready, want, owed, failed, left>>

\* epoll_wait: a one-shot registration of the timerfd is used up.
EpollWaitReturns ==
    /\ be \in {"epoll", "epoll_pipe"} /\ Collects
    /\ seen' = (BellReady \/ TimerReady)
    /\ timer' = IF TimerReady THEN [timer EXCEPT !.on = FALSE] ELSE timer
    /\ wpc' = "clear"
    /\ UNCHANGED bellVars

\* kevent takes the user event; the pipe has a one-shot registration instead.
KqueueWaitReturns ==
    /\ Kqueue /\ Collects
    /\ seen' = BellReady
    /\ bell' = IF be = "kqueue" THEN 0 ELSE bell
    /\ bellOn' = (bellOn /\ ~(BellReady /\ be = "kqueue_pipe"))
    /\ wpc' = IF be = "kqueue" THEN "return" ELSE "clear"
    /\ UNCHANGED timer

\* port_getn takes the event that was sent.
PortWaitReturns ==
    /\ be = "port" /\ Collects
    /\ seen' = BellReady
    /\ bell' = 0
    /\ wpc' = "return"
    /\ UNCHANGED <<bellOn, timer>>

\* epoll.rs reads the notifier when its key was reported, ...
EpollClear ==
    /\ wpc = "clear" /\ ~Kqueue
    /\ bell' = IF seen THEN 0 ELSE bell
    /\ wpc' = "return"
    /\ UNCHANGED <<be, outer, deadline, out, seen, bellOn, timer, tableVars, pollVars, opVars, npc, ready, history, left>>

\* ... kqueue.rs always, and registers the pipe again.
KqueueClear ==
    /\ wpc = "clear" /\ Kqueue
    /\ bell' = 0
    /\ wpc' = "rearm"
    /\ UNCHANGED <<be, outer, deadline, out, seen, bellOn, timer, tableVars, pollVars, opVars, npc, ready, history, left>>

Reregister ==
    /\ wpc = "rearm"
    /\ bellOn' = TRUE
    /\ wpc' = "return"
    /\ UNCHANGED <<be, outer, deadline, out, seen, bell, timer, tableVars, pollVars, opVars, npc, ready, history, left>>

\* A signal interrupts the system call: the events are dropped and the wait starts again, with
\* what is left of its timeout.
Interrupted ==
    /\ wpc = "blocked" /\ left.changes > 0
    /\ wpc' = Start(wpc) /\ out' = {}
    /\ deadline' \in IF deadline = "later" THEN {"later", "zero"} ELSE {deadline}
    /\ left' = [left EXCEPT !.changes = @ - 1]
    /\ UNCHANGED <<be, outer, seen, bellVars, timer, tableVars, pollVars, opVars, npc, ready, history>>

\* The portable wait returns: the flag is taken back after the back end has returned.
Return ==
    /\ wpc = "return"
    /\ outer' = FALSE /\ owed' = FALSE
    /\ wpc' = "idle" /\ deadline' = "none" /\ out' = {} /\ seen' = FALSE
    /\ UNCHANGED <<be, bellVars, timer, tableVars, pollVars, opVars, npc, ready, want, spent, failed, left>>

-----------------------------------------------------------------------------
(* wait_deadline of poll.rs *)

\* Under the mutex: a notification ends the wait.  It fails when the notifier turns out empty,
\* and the portable flag stays as it is.
PollEnter ==
    /\ wpc \in {"enter", "held"}
    /\ inner' = FALSE
    /\ IF ~inner THEN wpc' = "swapped" /\ UNCHANGED <<bell, owed, failed>>
       ELSE /\ bell' = Popped
            /\ IF bell > 0 THEN wpc' = "return" /\ UNCHANGED <<owed, failed>>
               ELSE wpc' = "idle" /\ owed' = FALSE /\ failed' = TRUE
    /\ UNCHANGED <<be, outer, deadline, out, seen, bellOn, timer, tableVars, waiting, opVars, npc, ready, want, spent, left>>

\* Operations that wait for the mutex go first.
PollCheckOperations ==
    /\ wpc = "swapped"
    /\ wpc' = IF waiting = 0 THEN "blocked" ELSE "cond"
    /\ UNCHANGED <<be, outer, deadline, out, seen, bellVars, timer, tableVars, pollVars, opVars, npc, ready, history, left>>

\* A condition variable may wake up for no reason.
SpuriousWakeup ==
    /\ wpc = "cond" /\ left.changes > 0
    /\ wpc' = "enter"
    /\ left' = [left EXCEPT !.changes = @ - 1]
    /\ UNCHANGED <<be, outer, deadline, out, seen, bellVars, timer, tableVars, pollVars, opVars, npc, ready, history>>

Revents(p) == Reported(ready[p.fd], p.dirs)

PollEvents ==
    {[fd |-> f, key |-> fds.fd_data[f].key, dirs |-> Revents(fds.poll_fds[fds.fd_data[f].poll_fds_index])] :
        f \in {g \in DOMAIN fds.fd_data : Revents(fds.poll_fds[fds.fd_data[g].poll_fds_index]) # {}}}

\* Mutant: the interest stays.
KeepInterest(p) == p

\* Interest in a one-shot descriptor is removed once its event is stored.
RemoveInterest(p) == IF Revents(p) # {} /\ fds.fd_data[p.fd].remove THEN [p EXCEPT !.dirs = {}] ELSE p

\* poll() returns; the events are stored, and a notifier that was ready is emptied.
PollReturns ==
    /\ Poll /\ wpc = "blocked"
    /\ bell > 0 \/ PollEvents # {} \/ GivesUp
    /\ out' = PollEvents
    /\ fds' = [fds EXCEPT !.poll_fds = [i \in DOMAIN @ |-> RemoveInterest(@[i])]]
    /\ seen' = (bell > 0)
    /\ bell' = 0
    /\ wpc' = "popped"
    /\ spent' = Spend(PollEvents)
    /\ UNCHANGED <<be, outer, deadline, bellOn, timer, sources, regs, pollVars, opVars, npc, ready, want, owed, failed, left>>

\* Woken by the notifier alone and not notified: an operation wants the mutex, start again.
PollDecide ==
    /\ wpc = "popped"
    /\ inner' = FALSE
    /\ wpc' = IF ~inner /\ out = {} /\ seen THEN "held" ELSE "return"
    /\ UNCHANGED <<be, outer, deadline, out, seen, bellVars, timer, tableVars, waiting, opVars, npc, ready, history, left>>

-----------------------------------------------------------------------------
(* The sources: readiness comes and goes. *)

Change(fd) ==
    /\ left.changes > 0
    /\ \E d \in IF fd \in Files THEN {"r", "w", "hup"} ELSE {"r"} :
         IF d \in ready[fd]
         THEN ready' = [ready EXCEPT ![fd] = @ \ {d}] /\ UNCHANGED regs
         ELSE /\ ready' = [ready EXCEPT ![fd] = @ \cup {d}]
              /\ regs' = {IF k.fd = fd /\ k.on THEN [k EXCEPT !.fresh = TRUE] ELSE k : k \in regs}
    /\ left' = [left EXCEPT !.changes = @ - 1]
    /\ UNCHANGED <<be, waitVars, bellVars, timer, sources, fds, pollVars, opVars, npc, history>>

PollerNext ==
    \/ \E fd \in left.srcs :
         Operate(fd) \/ ModifyFds(fd) \/ ModifyFdsNotify(fd) \/ ModifyFdsLocked(fd) \/ Change(fd)
    \/ \E n \in Notifiers :
         \/ Notify(n) \/ EpollNotify(n) \/ KqueueNotify(n) \/ PortNotify(n)
         \/ PollNotifySwap(n) \/ PollNotifyWrite(n) \/ PollNotifySignal(n)
    \/ Wait \/ Prepare \/ TimerFires \/ EpollWaitReturns \/ KqueueWaitReturns \/ PortWaitReturns
    \/ EpollClear \/ KqueueClear \/ Reregister \/ Interrupted \/ Return
    \/ PollEnter \/ PollCheckOperations \/ SpuriousWakeup \/ PollReturns \/ PollDecide

PollerSpec == PollerInit /\ [][PollerNext]_pollerVars

-----------------------------------------------------------------------------
(* Properties *)

\* The waiting thread is in its system call and nothing it watches is there to end it.
Asleep ==
    /\ wpc = "blocked" /\ ~GivesUp
    /\ ~BellReady /\ (IF Poll THEN PollEvents ELSE KernelEvents) = {}
    /\ ~(HasTimer /\ timer.on /\ timer.fd \in {"set", "expired"})

\* `notify` of lib.rs "wakes up the current or the following invocation of wait()": a thread is
\* never asleep while a notification that has been given is owed to it, unless a thread that is
\* still inside notify() is about to ring the bell.
NotifyWakes == Asleep /\ owed => \E n \in Notifiers : npc[n] # "idle"

\* A waiting thread can be woken by whatever should wake it, whichever thread was between which
\* two of its steps: a notification (as long as no earlier wait failed with an empty notifier),
\* its own deadline (the timerfd of epoll.rs is set and registered), an operation that needs the
\* mutex of poll.rs; and nobody waits on operations_complete when no operation is left.
WaiterNotStuck ==
    /\ ~failed => NotifyWakes
    /\ Asleep => deadline = "none" /\ \A f \in Sources : opc[f] # "written"
    /\ wpc = "cond" => waiting > 0

\* An event was asked for: it carries the key and the directions of the latest interest in its
\* source, and a one-shot interest delivers a direction once.  A hang-up is reported for both
\* directions, by the read filter of kqueue and by poll() even of a direction already delivered.
Asked(e) ==
    LET hup == "hup" \in ready[e.fd]
    IN  want[e.fd].st = "unknown" \/
        /\ want[e.fd].st = "asked"
        /\ e.key = want[e.fd].a.key
        /\ hup \/ e.dirs \subseteq want[e.fd].a.dirs \/ e.fd \in Filters
        /\ (e.dirs \cap spent[e.fd] \cap want[e.fd].a.dirs # {} => hup /\ (Poll \/ Kqueue))

\* Every event a wait collects was asked for.
EventsAsAsked ==
    [][wpc = "blocked" /\ wpc' \notin {"blocked", "enter", "prepare"} => \A e \in out' : Asked(e)]_pollerVars
====

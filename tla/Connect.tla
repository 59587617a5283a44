------------------------------ MODULE Connect -------------------------------
(***************************************************************************)
(* Outgoing connections: the Connector service, which resolves a name and  *)
(* tries its addresses in turn under a timeout, the one-shot channel on    *)
(* which a driver answers, and the connect operations of the three         *)
(* drivers (polling, io_uring, IOCP).                                      *)
(*                                                                         *)
(* A caller's k-th attempt is <<caller, k>>: its socket, its channel and   *)
(* what the kernel makes of it are one record.  Everything but the kernel, *)
(* the resolver thread and the clock runs on the worker's thread.          *)
(***************************************************************************)
EXTENDS Naturals, Sequences, FiniteSets, SequencesExt

CONSTANTS
    Callers,    \* tasks that connect
    Builds,     \* builds and machines considered, see Build
    Requests    \* what the callers ask for, a set of functions from Callers to Request

Build == [ windows : BOOLEAN, linux : BOOLEAN,
           feature : {"none", "neon-polling", "neon-uring"},
           ring    : BOOLEAN ]          \* the kernel has io_uring

Request == [ addrs   : Nat,             \* addresses given, or found by the resolver
             named   : BOOLEAN,         \* the host has to be resolved
             timeout : BOOLEAN ]        \* connect_timeout is not zero

VARIABLES
    drv,        \* "polling", "uring" or "iocp"
    phase,      \* "tasks", "wait", "events" or "ended"
    ops,        \* the slab of connects: id -> attempt, a partial function
    changes,    \* the polling reactor's changes: ids whose poller call failed
    att,        \* attempt -> its socket, channel and kernel state
    task        \* caller -> its task

connectVars == <<drv, phase, ops, changes, att, task>>

MaxAddrs == 2
Attempts == Callers \X (1..MaxAddrs)

(***************************************************************************)
(* DefaultRuntime::block_on: the driver of a thread.  A build that asked   *)
(* for io_uring by name gets no other: without a ring it panics.           *)
(***************************************************************************)
DriverOf(b) ==
    IF b.windows THEN "iocp"
    ELSE IF b.feature = "neon-polling" \/ ~b.linux THEN "polling"
    ELSE IF b.ring THEN "uring"
    ELSE IF b.feature = "neon-uring" THEN "panic" ELSE "polling"

(***************************************************************************)
(* The channel.  A state is s == [ops, changes, att, task].                *)
(***************************************************************************)
NewAttempt == [ sock    |-> "none",     \* "none", "ops", "io", "closed"
                polled  |-> "no",       \* in the poller for "connect", or for a "stream"
                armed   |-> FALSE,      \* the one-shot interest has not been reported
                kernel  |-> "none",     \* "none", "busy", "ok", "err", "canceled"
                tx      |-> FALSE,
                rx      |-> FALSE,
                val     |-> "none",     \* "none", "ok" (holds the Io), "err"
                waker   |-> FALSE ]

Wake(s, a) ==
    IF s.att[a].waker
    THEN [s EXCEPT !.att[a].waker = FALSE, !.task[a[1]].woken = TRUE]
    ELSE s

\* close_socket, and the close of an Io that is dropped
CloseSocket(s, a) == [s EXCEPT !.att[a].sock = "closed", !.att[a].polled = "no", !.att[a].armed = FALSE]

\* Without a receiver the value comes back and is dropped: an Io in it is closed.
Send(s, a, v) ==
    IF s.att[a].rx
    THEN Wake([s EXCEPT !.att[a].val = v, !.att[a].tx = FALSE], a)
    ELSE CloseSocket([s EXCEPT !.att[a].tx = FALSE], a)

DropSender(s, a) == Wake([s EXCEPT !.att[a].tx = FALSE], a)

DropReceiver(s, a) ==
    LET gone == [s EXCEPT !.att[a].rx = FALSE, !.att[a].waker = FALSE]
    IN  IF s.att[a].val = "ok" THEN CloseSocket(gone, a) ELSE gone

\* Receiver::new, and the two halves of `create`
Answered(s, a, v) == [s EXCEPT !.att[a].rx = TRUE, !.att[a].val = v]
Channel(s, a)     == [s EXCEPT !.att[a].rx = TRUE, !.att[a].tx = TRUE]

(***************************************************************************)
(* The slab of the operations                                              *)
(***************************************************************************)
FreeId(s) == CHOOSE i \in 0..Cardinality(DOMAIN s.ops) : i \notin DOMAIN s.ops

Insert(s, a) ==
    LET id == FreeId(s)
    IN  [s EXCEPT !.ops = [i \in DOMAIN @ \cup {id} |-> IF i = id THEN a ELSE @[i]],
                  !.att[a].sock = "ops", !.att[a].kernel = "busy"]

Vacate(s, id) == [s EXCEPT !.ops = [i \in DOMAIN @ \ {id} |-> @[i]], !.att[s.ops[id]].kernel = "none"]

(***************************************************************************)
(* The polling driver.  An interest is one-shot; adding a descriptor the   *)
(* poller already has, and deleting one it has not, are errors, and an     *)
(* error is queued until the reactor applies its changes.                  *)
(***************************************************************************)
Attach(s, a, id, ok) ==
    IF ok THEN [s EXCEPT !.att[a].polled = "connect", !.att[a].armed = TRUE]
    ELSE [s EXCEPT !.changes = Append(@, id)]

Detach(s, a, id) ==
    IF s.att[a].polled = "no" THEN [s EXCEPT !.changes = Append(@, id)]
    ELSE [s EXCEPT !.att[a].polled = "no", !.att[a].armed = FALSE]

\* Io::new starts the stream, which adds the descriptor to the poller for itself.
NewIo(s, a) ==
    [s EXCEPT !.att[a].sock = "io",
              !.att[a].polled = IF drv # "polling" THEN @ ELSE IF @ = "no" THEN "stream" ELSE "clash"]

Settle(s, a, v) ==
    IF v = "ok" THEN Send(NewIo(s, a), a, "ok")
    ELSE CloseSocket(Send(s, a, "err"), a)

\* libc::connect is answered at once, or is in progress and waits to be writable.
PollingConnect(s, a, res, ok) ==
    CASE res = "err" -> Answered(CloseSocket(s, a), a, "err")
      [] res = "ok"  -> Answered(NewIo(s, a), a, "ok")
      [] OTHER       -> Attach(Insert(Channel(s, a), a), a, FreeId(s), ok)

\* Without asking again after an event that is not writable.
PollingEventForgets(s, id, writable, ok) ==
    LET a == s.ops[id]
    IN  IF id \notin DOMAIN s.ops \/ ~writable THEN s
        ELSE Settle(Detach(Vacate(s, id), a, id), a, s.att[a].kernel)

\* SO_ERROR tells how the connect ended.
PollingEvent(s, id, writable, ok) ==
    LET a == s.ops[id]
    IN  IF id \notin DOMAIN s.ops THEN s
        ELSE IF ~writable THEN Attach(s, a, id, ok)
        ELSE Settle(Detach(Vacate(s, id), a, id), a, s.att[a].kernel)

PollingError(s, id) ==
    LET a == s.ops[id]
    IN  IF id \notin DOMAIN s.ops THEN s
        ELSE CloseSocket(Detach(Send(Vacate(s, id), a, "err"), a, id), a)

\* An error that detaches in vain queues another one, for an id that is gone.
ApplyChanges(s) ==
    LET once(t) == FoldLeft(PollingError, [t EXCEPT !.changes = <<>>], t.changes)
    IN  once(once(s))

(***************************************************************************)
(* io_uring and IOCP                                                       *)
(***************************************************************************)
UringConnect(s, a) == Insert(Channel(s, a), a)

UringCanceled(s, id) ==
    LET a == s.ops[id] IN CloseSocket(DropSender(Vacate(s, id), a), a)

UringCompleted(s, id) == LET a == s.ops[id] IN Settle(Vacate(s, id), a, s.att[a].kernel)

\* A socket that cannot be bound, or attached to the port, is just dropped.
IocpConnect(s, a, res, ok) ==
    CASE ~ok          -> Answered(CloseSocket(s, a), a, "err")
      [] res = "busy" -> Insert(Channel(s, a), a)
      [] OTHER        -> Settle(Channel(s, a), a, res)

IocpCompleted(s, id) ==
    IF id \notin DOMAIN s.ops THEN s
    ELSE LET a == s.ops[id] IN Settle(Vacate(s, id), a, s.att[a].kernel)

\* What is in the slab is dropped: senders and sockets.  IOCP keeps its slab.
Cleanup(s) ==
    LET all == SetToSeq({s.ops[i] : i \in DOMAIN s.ops})
        one(t, a) == CloseSocket(DropSender(t, a), a)
    IN  IF drv = "iocp" THEN s ELSE [FoldLeft(one, s, all) EXCEPT !.ops = <<>>]

(***************************************************************************)
(* Reactor::tcp_connect of the driver: `made` is whether the socket could  *)
(* be made and prepared.                                                   *)
(***************************************************************************)
tcp_connect(s, a, made, res, ok) ==
    IF ~made THEN Answered(s, a, "err")
    ELSE CASE drv = "polling" -> PollingConnect(s, a, res, ok)
           [] drv = "uring"   -> UringConnect(s, a)
           [] drv = "iocp"    -> IocpConnect(s, a, res, ok)

(***************************************************************************)
(* The Connector                                                           *)
(***************************************************************************)
Now == [ops |-> ops, changes |-> changes, att |-> att, task |-> task]

Become(s) ==
    /\ ops' = s.ops /\ changes' = s.changes /\ att' = s.att /\ task' = s.task

\* set_addrs keeps the addresses in the order they are tried.
NewTask(r) == [ req |-> r, pc |-> "call", woken |-> TRUE, n |-> 0, found |-> r.addrs,
                resolved |-> FALSE, timer |-> "off", result |-> "none" ]

Done(s, c, v) == [s EXCEPT !.task[c].pc = "done", !.task[c].result = v, !.task[c].woken = FALSE,
                           !.task[c].timer = "off"]

Running(c, pc) == phase = "tasks" /\ task[c].woken /\ task[c].pc = pc

\* The future is polled before the timer is.
Pending(s, c, dropped) ==
    IF s.task[c].timer = "fired" THEN Done(dropped, c, "timeout")
    ELSE [s EXCEPT !.task[c].woken = FALSE]

\* Connector::connect: the timer starts, and a name is given to the resolver.
Call(c) ==
    /\ Running(c, "call")
    /\ Become([Now EXCEPT !.task[c].pc = IF task[c].req.named THEN "lookup" ELSE "try",
                          !.task[c].timer = IF task[c].req.timeout THEN "on" ELSE "off"])
    /\ UNCHANGED <<drv, phase>>

\* lookup is polled.
Lookup(c) ==
    /\ Running(c, "lookup")
    /\ Become(IF ~task[c].resolved THEN Pending(Now, c, Now)
              ELSE IF task[c].found = 0 THEN Done(Now, c, "err")
              ELSE [Now EXCEPT !.task[c].pc = "try"])
    /\ UNCHANGED <<drv, phase>>

\* The next address: tcp_connect, whose receiver is polled next.
Try(c) ==
    /\ Running(c, "try")
    /\ \E made \in BOOLEAN, ok \in BOOLEAN, res \in {"ok", "err", "busy"} :
           LET a == <<c, task[c].n + 1>>
               t == [Now EXCEPT !.task[c].n = @ + 1, !.task[c].pc = "recv"]
           IN  Become(tcp_connect(t, a, made, res, ok))
    /\ UNCHANGED <<drv, phase>>

\* The receiver is polled.
Recv(c) ==
    LET a == <<c, task[c].n>>
        got == DropReceiver([Now EXCEPT !.att[a].val = "none"], a)
    IN  /\ Running(c, "recv")
        /\ IF att[a].val = "ok" THEN Become(Done(got, c, "ok"))
           ELSE IF att[a].val = "err" \/ ~att[a].tx
                THEN IF task[c].n < task[c].found
                     THEN Become([got EXCEPT !.task[c].pc = "try"])
                     ELSE Become(Done(got, c, "err"))
                ELSE Become(Pending([Now EXCEPT !.att[a].waker = TRUE], c, DropReceiver(Now, a)))
        /\ UNCHANGED <<drv, phase>>

\* The task is dropped, or the Io it was given is.
Abandon(c) ==
    /\ phase = "tasks" /\ task[c].pc \in {"recv", "done"} /\ task[c].result \in {"none", "ok"}
    /\ LET a == <<c, task[c].n>>
           t == IF task[c].result = "ok" THEN CloseSocket(Now, a) ELSE DropReceiver(Now, a)
       IN  Become(Done(t, c, "dropped"))
    /\ UNCHANGED <<drv, phase>>

(***************************************************************************)
(* The resolver thread, the clock and the kernel                           *)
(***************************************************************************)
Resolved(c) ==
    /\ phase # "ended" /\ task[c].pc = "lookup" /\ ~task[c].resolved
    /\ \E n \in 0..task[c].req.addrs :      \* zero: no address, or an error
           Become([Now EXCEPT !.task[c].found = n, !.task[c].resolved = TRUE, !.task[c].woken = TRUE])
    /\ UNCHANGED <<drv, phase>>

Expire(c) ==
    /\ phase # "ended" /\ task[c].timer = "on"
    /\ Become([Now EXCEPT !.task[c].timer = "fired", !.task[c].woken = TRUE])
    /\ UNCHANGED <<drv, phase>>

KernelAnswers(a) ==
    /\ att[a].kernel = "busy" /\ phase # "tasks"
    /\ \E v \in IF drv = "uring" THEN {"ok", "err", "canceled"} ELSE {"ok", "err"} :
           att' = [att EXCEPT ![a].kernel = v]
    /\ UNCHANGED <<drv, phase, ops, changes, task>>

(***************************************************************************)
(* The loop of the driver                                                  *)
(***************************************************************************)
\* The tasks have run; changes are applied and the driver waits.
Wait ==
    /\ phase = "tasks" /\ \A c \in Callers : ~task[c].woken
    /\ phase' = "wait" /\ Become(ApplyChanges(Now)) /\ UNCHANGED drv

\* One event or completion.  A poller may report one that is not writable.
Event(id) ==
    LET a == ops[id]
        answered == att[a].kernel \notin {"none", "busy"}
    IN  /\ phase \in {"wait", "events"}
        /\ phase' = "events"
        /\ CASE drv = "polling" ->
                  /\ att[a].armed
                  /\ \E writable \in BOOLEAN, ok \in BOOLEAN :
                         /\ writable => answered
                         /\ Become(PollingEvent([Now EXCEPT !.att[a].armed = FALSE], id, writable, ok))
             [] drv = "uring" ->
                  /\ answered
                  /\ Become(IF att[a].kernel = "canceled" THEN UringCanceled(Now, id) ELSE UringCompleted(Now, id))
             [] drv = "iocp" -> answered /\ Become(IocpCompleted(Now, id))
        /\ UNCHANGED drv

\* The wait is over, because of events or because a task was woken.
Turn ==
    /\ phase = "events" \/ (phase = "wait" /\ \E c \in Callers : task[c].woken)
    /\ phase' = "tasks" /\ Become(ApplyChanges(Now)) /\ UNCHANGED drv

\* The main future is ready: run() leaves its loop and cleans the handlers up.
End ==
    /\ phase = "tasks"
    /\ phase' = "ended" /\ Become(Cleanup(ApplyChanges(Now))) /\ UNCHANGED drv

ConnectInit ==
    /\ drv \in {DriverOf(b) : b \in Builds} \ {"panic"}
    /\ phase = "tasks" /\ ops = <<>> /\ changes = <<>>
    /\ att = [a \in Attempts |-> NewAttempt]
    /\ task \in {[c \in Callers |-> NewTask(r[c])] : r \in Requests}

ConnectNext ==
    \/ \E c \in Callers : Call(c) \/ Lookup(c) \/ Try(c) \/ Recv(c) \/ Abandon(c) \/ Resolved(c) \/ Expire(c)
    \/ \E a \in Attempts : KernelAnswers(a)
    \/ \E id \in DOMAIN ops : Event(id)
    \/ Wait \/ Turn \/ End

ConnectSpec == ConnectInit /\ [][ConnectNext]_connectVars

(***************************************************************************)
(* Properties                                                              *)
(***************************************************************************)
\* Wherever a socket goes it has one owner: a socket in the slab is there
\* once, with the sender that will answer for it, and one that an Io has is
\* in the poller for that Io alone; an attempt nobody holds a receiver of any
\* more, nor a slab entry, leaves no open socket behind.  Polling, io_uring and
\* IOCP answer on six different paths (Receiver::new, send, a dropped sender).
SocketHasOneOwner ==
    \A a \in Attempts :
        LET s == att[a]
            entries == Cardinality({i \in DOMAIN ops : ops[i] = a})
        IN  /\ entries = IF s.sock = "ops" THEN 1 ELSE 0
            /\ s.tx <=> s.sock = "ops"
            /\ s.polled # "clash"
            /\ s.polled = "connect" => s.sock = "ops"
            /\ s.sock = "io" => s.val = "ok" \/ (task[a[1]].result = "ok" /\ task[a[1]].n = a[2])

\* No connect is forgotten: when the driver waits with no resolver and no timer
\* at work, a caller of the Connector has its answer, or its current attempt is
\* one the driver will still hear of.  An interest of the poller is one-shot, a
\* sender may be dropped without sending, a receiver dropped before the answer.
ConnectsAnswered ==
    phase = "wait" /\ (\A c \in Callers : ~task[c].woken /\ task[c].timer # "on" /\ task[c].pc # "lookup")
        => \A c \in Callers :
               \/ task[c].pc = "done"
               \/ \E i \in DOMAIN ops : ops[i] = <<c, task[c].n>> /\ (drv = "polling" => att[ops[i]].armed)
=============================================================================

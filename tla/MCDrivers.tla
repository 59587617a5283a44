------------------------------ MODULE MCDrivers ------------------------------
(* The parts of the I/O drivers, for TLC: the portable poller, the IOCP      *)
(* poller, the io_uring stream and its ring, the IOCP stream, and connecting. *)
(* A behaviour is one of the part chosen at the start; the variables of the   *)
(* others stay 0.                                                             *)
EXTENDS Naturals, Sequences, TLC

CONSTANTS f1, f2, sg, n1, n2, NotifyKey,           \* the portable poller
          s1, s2, h1, QueueCap,                    \* the IOCP poller
          ReadHigh, MaxOps, ZcSize, MaxWriteBufs,  \* the streams
          SqCap, DequeCap, Submits, Wakes          \* the ring

VARIABLES part,
  be, outer, deadline, out, seen, bell, bellOn, timer, sources, regs, fds, inner, waiting, ask, npc,
  want, spent, owed, failed, left,
  wpc, opc, ready,
  polling, queue, port, reg, pk, opk, todo, wpk, wtodo, timeout,
  got, found, scene, turn, u,
  pc, sq, eaten, flushed, next, flying, cq, armed, efd, edge, remote, wakes,
  changes, kind, c, phase, drv, ops, att, task

-----------------------------------------------------------------------------
(* What is explored of each part. *)

Ask(k, d, m) == [key |-> k, dirs |-> d, mode |-> m]
ReadOnce == Ask(1, {"r"}, "Oneshot")

Profile(b, ss, o, n, w, ch, as) ==
    [be |-> b, srcs |-> ss, ops |-> o, notifies |-> n, waits |-> w, changes |-> ch, asks |-> as]

\* Two notifying threads, operations and waits in every order.
Wakeups ==
    {Profile(b, {f1}, 1, 3, 2, 1, {ReadOnce}) : b \in {"epoll", "epoll_pipe", "kqueue", "kqueue_pipe", "port"}}
    \cup {Profile(b, {f1}, 1, 2, 2, 1, {ReadOnce}) : b \in {"poll", "poll_eventfd"}}
    \cup {Profile("poll", {f1, f2}, 2, 1, 1, 0, {ReadOnce})}

\* Sources with all kinds of interests, and their readiness.
Interests ==
    {Profile(b, {f1}, 2, 0, 2, 2, {Ask(1, {"r", "w"}, "Oneshot"), Ask(2, {"w"}, "Level"),
                                   Ask(2, {"r"}, "EdgeOneshot"), Ask(NotifyKey, {"r"}, "Oneshot")}) :
        b \in {"epoll", "kqueue", "port"}}
    \cup {Profile("kqueue", {sg}, 2, 0, 2, 2, {ReadOnce, Ask(2, {"r"}, "Edge")}),
          Profile("poll", {f1, f2}, 3, 0, 1, 1, {Ask(1, {"r", "w"}, "Oneshot"), Ask(2, {"w"}, "Level")}),
          Profile("poll", {f1}, 2, 0, 2, 1, {Ask(1, {"r", "w"}, "Oneshot"), Ask(2, {"r"}, "Edge")})}

IocpScene(ss, as, p, cs, ch, po, w) ==
    [srcs |-> ss, asks |-> as, packets |-> p, calls |-> cs, changes |-> ch, posts |-> po, waits |-> w]
TwoAsks == {ReadOnce, Ask(2, {"r", "w"}, "Level")}
IocpScenes ==
    {IocpScene({s1}, TwoAsks, 2, 3, 1, 0, 2),
     IocpScene({h1}, TwoAsks \cup {Ask(1, {"r"}, "Edge")}, 2, 3, 1, 1, 1),
     IocpScene({s1, s2}, {ReadOnce}, 2, 2, 1, 0, 2)}

UringBase == [zc |-> FALSE, short |-> FALSE, direct |-> FALSE, busy |-> FALSE, is_new |-> TRUE,
              input |-> 0, output |-> 0, faults |-> {}, calls |-> {"drop"}]
UringScenes ==
    {[UringBase EXCEPT !.busy = TRUE, !.output = 4, !.calls = {"encode", "vectored", "close"}],
     [UringBase EXCEPT !.zc = TRUE, !.direct = TRUE, !.output = 4, !.calls = {"encode", "vectored", "close"}],
     [UringBase EXCEPT !.busy = TRUE, !.direct = TRUE, !.output = 3, !.calls = {"encode", "vectored", "close"}],
     [UringBase EXCEPT !.input = 3, !.faults = {"eof"}, !.calls = {"consume", "pause"}],
     [UringBase EXCEPT !.input = 2, !.is_new = FALSE, !.faults = {"eof", "again"},
                       !.calls = {"consume", "close"}],
     [UringBase EXCEPT !.input = 1, !.output = 2, !.faults = {"reset"}, !.calls = {"encode", "drop"}]}

IocpBase == [input |-> 0, output |-> 0, room |-> 1, direct |-> FALSE, faults |-> {}, calls |-> {}]
IocpStreams ==
    {[IocpBase EXCEPT !.input = 3, !.calls = {"consume", "pause"}, !.faults = {"eof"}],
     [IocpBase EXCEPT !.output = 4, !.calls = {"encode", "close", "drop"}, !.faults = {"reset"}],
     [IocpBase EXCEPT !.output = 3, !.direct = TRUE, !.room = 2,
                      !.calls = {"encode", "close"}, !.faults = {"eof"}],
     [IocpBase EXCEPT !.input = 2, !.output = 2, !.faults = {"eof"},
                      !.calls = {"encode", "consume", "close", "drop"}]}

Named   == [addrs |-> 2, named |-> TRUE,  timeout |-> FALSE]
Timed   == [addrs |-> 1, named |-> FALSE, timeout |-> TRUE]
Several == [addrs |-> 2, named |-> FALSE, timeout |-> TRUE]
AllBuilds == [windows : BOOLEAN, linux : BOOLEAN, ring : BOOLEAN,
              feature : {"none", "neon-polling", "neon-uring"}]

-----------------------------------------------------------------------------
(* The parts. *)

P == INSTANCE Poller WITH Profiles <- Wakeups \cup Interests,
       Files <- {f1, f2}, Filters <- {sg}, Notifiers <- {n1, n2}
I == INSTANCE Iocp WITH Scenes <- IocpScenes, Sockets <- {s1, s2}, Waitables <- {h1}
U == INSTANCE UringStream WITH Scenes <- UringScenes
R == INSTANCE UringRing WITH Requests <- Submits
S == INSTANCE IocpStream WITH Streams <- IocpStreams
C == INSTANCE Connect WITH Callers <- {1, 2}, Builds <- AllBuilds,
       Requests <- {<<Named, Timed>>, <<Several, Timed>>}

pollerOnly == <<be, outer, deadline, out, seen, bell, bellOn, timer, sources, regs, fds, inner, waiting, ask,
                npc, want, spent, owed, failed, left>>
pollers == <<wpc, opc, ready>>
iocpOnly == <<polling, queue, port, reg, pk, opk, todo, wpk, wtodo, timeout>>
taken == <<got, found>>
uringOnly == <<turn, u>>
ringOnly == <<pc, sq, eaten, flushed, next, flying, cq, armed, efd, edge, remote, wakes>>
streamOnly == <<kind, c>>
connectOnly == <<drv, ops, att, task>>
vars == <<part, pollerOnly, pollers, iocpOnly, taken, scene, uringOnly, ringOnly, changes, streamOnly, phase,
          connectOnly>>

NoPoller ==
    /\ be = 0 /\ outer = 0 /\ deadline = 0 /\ out = 0 /\ seen = 0 /\ bell = 0 /\ bellOn = 0 /\ timer = 0
    /\ sources = 0 /\ regs = 0 /\ fds = 0 /\ inner = 0 /\ waiting = 0 /\ ask = 0 /\ npc = 0 /\ want = 0
    /\ spent = 0 /\ owed = 0 /\ failed = 0 /\ left = 0
NoPollers == wpc = 0 /\ opc = 0 /\ ready = 0
NoIocp ==
    /\ polling = 0 /\ queue = 0 /\ port = 0 /\ reg = 0 /\ pk = 0 /\ opk = 0 /\ todo = 0 /\ wpk = 0
    /\ wtodo = 0 /\ timeout = 0
NoTaken == got = 0 /\ found = 0
NoUring == turn = 0 /\ u = 0
NoRing ==
    /\ pc = 0 /\ sq = 0 /\ eaten = 0 /\ flushed = 0 /\ next = 0 /\ flying = 0 /\ cq = 0 /\ armed = 0
    /\ efd = 0 /\ edge = 0 /\ remote = 0 /\ wakes = 0
NoStream == kind = 0 /\ c = 0
NoConnect == drv = 0 /\ ops = 0 /\ att = 0 /\ task = 0

DriversInit ==
    \/ /\ part = "poller" /\ P!PollerInit
       /\ NoIocp /\ NoTaken /\ scene = 0 /\ NoUring /\ NoRing /\ changes = 0 /\ NoStream /\ phase = 0 /\ NoConnect
    \/ /\ part = "iocp" /\ I!IocpInit
       /\ NoPoller /\ NoUring /\ NoRing /\ changes = 0 /\ NoStream /\ phase = 0 /\ NoConnect
    \/ /\ part = "uring" /\ U!UringInit
       /\ NoPoller /\ NoPollers /\ NoIocp /\ NoTaken /\ NoRing /\ changes = 0 /\ NoStream /\ phase = 0 /\ NoConnect
    \/ /\ part = "ring" /\ R!RingInit
       /\ NoPoller /\ NoPollers /\ NoIocp /\ scene = 0 /\ NoUring /\ NoStream /\ phase = 0 /\ NoConnect
    \/ /\ part = "stream" /\ S!IocpStreamInit
       /\ NoPoller /\ NoPollers /\ NoIocp /\ NoTaken /\ scene = 0 /\ NoUring /\ NoRing /\ changes = 0 /\ NoConnect
    \/ /\ part = "connect" /\ C!ConnectInit
       /\ NoPoller /\ NoPollers /\ NoIocp /\ NoTaken /\ scene = 0 /\ NoUring /\ NoRing /\ NoStream

DriversNext ==
    \/ /\ part = "poller" /\ P!PollerNext
       /\ UNCHANGED <<part, iocpOnly, taken, scene, uringOnly, ringOnly, changes, streamOnly, phase, connectOnly>>
    \/ /\ part = "iocp" /\ I!IocpNext
       /\ UNCHANGED <<part, pollerOnly, uringOnly, ringOnly, changes, streamOnly, phase, connectOnly>>
    \/ /\ part = "uring" /\ U!UringNext
       /\ UNCHANGED <<part, pollerOnly, pollers, iocpOnly, taken, ringOnly, changes, streamOnly, phase, connectOnly>>
    \/ /\ part = "ring" /\ R!RingNext
       /\ UNCHANGED <<part, pollerOnly, pollers, iocpOnly, scene, uringOnly, streamOnly, phase, connectOnly>>
    \/ /\ part = "stream" /\ S!IocpStreamNext
       /\ UNCHANGED <<part, pollerOnly, pollers, iocpOnly, taken, scene, uringOnly, ringOnly, changes, connectOnly>>
    \/ /\ part = "connect" /\ C!ConnectNext
       /\ UNCHANGED <<part, pollerOnly, pollers, iocpOnly, taken, scene, uringOnly, ringOnly, streamOnly>>

DriversSpec == DriversInit /\ [][DriversNext]_vars
Symmetry == Permutations({f1, f2}) \cup Permutations({n1, n2}) \cup Permutations({s1, s2})

-----------------------------------------------------------------------------
(* Properties of the parts. *)

\* A thread in Poller::wait can be woken by whatever should wake it: a notification, its own
\* deadline, an operation that needs the mutex of poll.rs (geario-polling epoll.rs, kqueue.rs,
\* port.rs, poll.rs; see Poller).
WaiterNotStuck == part = "poller" => P!WaiterNotStuck

\* Every event a wait collects was asked for: the latest key and directions of its source, a
\* one-shot direction once (add, modify, delete and wait of the back ends; see Poller).
EventsAsAsked ==
    [][part = "poller" /\ wpc = "blocked" /\ wpc' \notin {"blocked", "enter", "prepare"} =>
         \A e \in out' : P!Asked(e)]_vars

\* The kernel watches what was asked for last whatever order cancelled requests, completions and
\* calls come in, and an idle packet has nothing in transit (iocp/mod.rs update, feed_event,
\* cancel; see Iocp).
IocpFollowsInterest == part = "iocp" => I!KernelWatchesInterest /\ I!IdleNotInTransit

\* The socket takes the bytes in the order the application wrote them, whatever mix of sends
\* carries them (uring/stream.rs requeue_unsent, send, write_bufs; see UringStream).
BytesInOrder == part = "uring" => U!BytesInOrder

\* A quiet io_uring stream has no byte left behind (direct writes of a busy thread excepted, which
\* ops_send_buf can stall), no byte hidden and no operation it forgot, and a graceful close that
\* was not cut short put every byte on the wire first, unless it sends without a copy
\* (uring/stream.rs recv, send, cancel, drop_stream, io/ctx.rs shutdown_filters, io/ioref.rs
\* ops_send_buf; see UringStream).
UringNotStranded == part = "uring" => U!UringNotStranded /\ U!CloseFlushes

\* Every request submitted reaches the kernel or is on its way there, in the order of submission,
\* except what apply_changes drains without pushing when the ring buffer of `changes` has wrapped;
\* and the thread never sleeps on a request or a notification it has (uring/reactor.rs
\* submit_inner, apply_changes, run; see UringRing).
RingSleepsOnNothing ==
    /\ [](part = "ring" => R!SleepsOnNothing)
    /\ [][part = "ring" => R!KeepsRequests]_vars

\* A socket of the IOCP driver is closed once and behind its last operation, what was written
\* leaves in order, and a quiet stream has nothing left to do (iocp/stream.rs shutdown,
\* completed, write, read; see IocpStream).
ClosedBehindOps == part = "stream" => S!ClosedBehindOps /\ S!IocpInOrder /\ S!IocpNotStranded

\* Every connect is answered and every socket on the way has one owner (connect.rs of the three
\* drivers, net/connect/service.rs; see Connect).
ConnectsAnswered == part = "connect" => C!ConnectsAnswered /\ C!SocketHasOneOwner
=============================================================================

----------------------------- MODULE IocpStream -----------------------------
(***************************************************************************)
(* A stream of the Windows driver (net/iocp): the overlapped read and      *)
(* write of a socket, which complete at once or through the completion     *)
(* port, and the close that has to wait for both to come back.             *)
(*                                                                         *)
(* A socket that completes a call at once posts nothing to the port        *)
(* (FILE_SKIP_COMPLETION_PORT_ON_SUCCESS).  A turn of the driver runs the  *)
(* tasks, waits on the port and handles what it returned.                  *)
(***************************************************************************)
EXTENDS IoCtx, FiniteSets

CONSTANTS
    Streams,        \* the streams considered, see StreamKind
    MaxWriteBufs    \* MAX_WRITE_BUFS

StreamKind == [ input  : Nat,       \* bytes the peer sends
                output : Nat,       \* bytes the application writes
                direct : BOOLEAN,   \* a write threshold is set, and every write reaches it
                room   : Nat,       \* bytes the socket takes before it blocks
                faults : SUBSET {"eof", "reset"},
                calls  : SUBSET {"encode", "consume", "pause", "close", "drop"} ]

VARIABLES
    kind,
    phase,      \* "tasks", "wait" or "port"
    c           \* the stream

iocpStreamVars == <<kind, phase, c>>

Err     == -1
Aborted == -2   \* ERROR_OPERATION_ABORTED

(***************************************************************************)
(* State: the context, the two operations and the StreamItem               *)
(***************************************************************************)
NewItem(k) ==
    NewCtx @@
    [ rd     |-> {},            \* ReadOperation::flags
      held   |-> 0,             \* bytes in the buffer of the read
      wr     |-> {},            \* WriteOperation::flags
      pages  |-> <<>>,
      item   |-> {},            \* StreamItem::flags
      slot   |-> TRUE,          \* the slab has the item
      tx     |-> "none",        \* StreamItem::close: "none", "open" or "sent"
      pc     |-> "poll",        \* the task `run`
      kernel |-> {},            \* operations that are pending in the kernel
      port   |-> <<>>,          \* completions queued: [op, res]
      jobs   |-> 0,             \* closes given to the thread pool
      closed |-> 0,             \* times the socket was closed
      inq    |-> 0,
      hup    |-> {},
      room   |-> k.room,
      in_left  |-> k.input,
      out_left |-> k.output,
      next   |-> 1,
      wire   |-> <<>>,
      gone   |-> FALSE ]        \* the application dropped its Io

(***************************************************************************)
(* ReadOperation                                                           *)
(***************************************************************************)
\* CancelIoEx on an operation that is not pending any more finds nothing.
Cancel(s, op) ==
    IF op \notin s.kernel THEN s
    ELSE [s EXCEPT !.kernel = @ \ {op}, !.port = Append(@, [op |-> op, res |-> Aborted])]

\* The operation is left alone if it is not waiting; the answer is its absence.
PauseRd(s, closing) ==
    IF "WAITING" \notin s.rd THEN s
    ELSE [Cancel(s, "rd") EXCEPT !.rd = IF closing THEN @ \cup {"CLOSING"} ELSE @]

\* What is told of n bytes read, an end or an error; `s.held` comes back too.
ReadResult(s, n) ==
    LET back  == [s EXCEPT !.held = 0]
        ended == IF n = 0 THEN terminate_connection(back) ELSE back
    IN  IF n = Err THEN terminate_connection([back EXCEPT !.rbuf = @ + s.held])
        ELSE [update_read_status(ended, s.held + Max({0, n}), Max({0, n})) EXCEPT !.unseen = 0]

\* get_read_buf: the buffer the application does not look at goes into the read.
TakeReadBuf(s) ==
    IF Has(s, "BUF_R_READY") THEN s ELSE [s EXCEPT !.held = s.rbuf, !.rbuf = 0]

\* One WSARecv.  All the bytes there are fit the buffer.
Recv(s) ==
    LET b == TakeReadBuf(s)
    IN  IF "reset" \in s.hup THEN ReadResult(b, Err)
        ELSE IF s.inq > 0 THEN ReadResult([b EXCEPT !.inq = 0], s.inq)
        ELSE IF s.hup # {} THEN ReadResult(b, 0)
        ELSE [b EXCEPT !.rd = @ \cup {"WAITING"}, !.kernel = @ \cup {"rd"}]

RECURSIVE Read(_)
Read(s) ==
    LET r == Recv(s)
    IN  IF "WAITING" \in s.rd THEN s
        ELSE IF s.inq > 0 /\ "reset" \notin s.hup /\ ReadIo(r) THEN Read(r)
        ELSE r

(***************************************************************************)
(* WriteOperation                                                          *)
(***************************************************************************)
PauseWr(s) ==
    IF "WAITING" \notin s.wr THEN s
    ELSE [Cancel(s, "wr") EXCEPT !.wr = @ \cup {"CLOSING"}]

ReturnPages(s, pages) == [prepend(s, pages) EXCEPT !.pages = <<>>]

\* One WSASend of the first pages: the socket takes what it has room for, and
\* keeps the call pending if it has none.
Send(s) ==
    LET pages == SubSeq(s.wbuf, 1, Min({MaxWriteBufs, Len(s.wbuf)}))
        bytes == FlattenSeq(pages)
        n     == Min({Len(bytes), s.room})
        taken == [s EXCEPT !.wbuf = SubSeq(@, Len(pages) + 1, Len(@))]
    IN  IF pages = <<>> THEN update_write_status(s)
        ELSE IF s.hup \cap {"reset", "shut"} # {}
             THEN terminate_connection(ReturnPages(taken, pages))
        ELSE IF n = 0
             THEN update_write_status([taken EXCEPT !.wr = @ \cup {"WAITING"}, !.pages = pages,
                                                    !.kernel = @ \cup {"wr"}])
        ELSE update_write_status(ReturnPages(
                 [taken EXCEPT !.wire = @ \o SubSeq(bytes, 1, n), !.room = @ - n],
                 Advance(pages, n)))

RECURSIVE Write(_)
Write(s) ==
    LET sent == Send(s)
    IN  IF "WAITING" \in s.wr THEN s
        ELSE IF WriteIo(sent) THEN Write(sent) ELSE sent

(***************************************************************************)
(* The stream's entry                                                      *)
(***************************************************************************)
Outstanding(s) == "WAITING" \in s.rd \/ "WAITING" \in s.wr

\* rd_op.pause(true) && wr_op.pause(): the write is not touched while the read
\* is out.
PauseBoth(s) == IF "WAITING" \in s.rd THEN PauseRd(s, TRUE) ELSE PauseWr(s)

CloseSocket(s) == [s EXCEPT !.jobs = @ + 1]

\* Mutant: the close does not wait for the operations to come back.
shutdown_at_once(s) ==
    IF "CLOSED" \in s.item THEN [s EXCEPT !.pc = "closing", !.tx = "sent", !.sched = TRUE]
    ELSE [CloseSocket(PauseBoth(s)) EXCEPT !.item = @ \cup {"CLOSED"}, !.pc = "blocking"]

\* StreamCtl::shutdown up to its await
shutdown(s) ==
    IF "CLOSED" \in s.item THEN [s EXCEPT !.pc = "closing", !.tx = "sent", !.sched = TRUE]
    ELSE IF Outstanding(s) THEN [PauseBoth(s) EXCEPT !.tx = "open", !.pc = "closing"]
    ELSE [CloseSocket(s) EXCEPT !.item = @ \cup {"CLOSED"}, !.pc = "blocking"]

Removed(s) ==
    LET gone == [s EXCEPT !.slot = FALSE]
    IN  IF "CLOSED" \in s.item THEN gone ELSE CloseSocket(gone)

drop_stream(s) ==
    IF "DROPPED_SEC" \in s.item THEN Removed(s)
    ELSE [s EXCEPT !.item = @ \cup {"DROPPED_PRI"}]

drop_weak_stream(s) ==
    IF "DROPPED_PRI" \in s.item THEN Removed(s)
    ELSE [s EXCEPT !.item = @ \cup {"DROPPED_SEC"}]

check_delayed_feed(s) ==
    IF s.delayed THEN drop_weak_stream([s EXCEPT !.delayed = FALSE]) ELSE s

(***************************************************************************)
(* Completions                                                             *)
(***************************************************************************)
\* The driver's storage is free while an operation is told of its completion, so
\* a handle that is dropped in it reaches the entry at once.
ReadCompleted(s, n) ==
    LET told == check_delayed_feed(ReadResult([s EXCEPT !.rd = @ \ {"WAITING"}], n))
    IN  IF "CLOSING" \notin s.rd /\ ReadIo(told) THEN check_delayed_feed(Read(told)) ELSE told

WriteCompleted(s, n) ==
    LET back   == [s EXCEPT !.wr = @ \ {"WAITING"}]
        ended  == IF n = 0 THEN terminate_connection(back) ELSE back
        queued == ReturnPages(ended, Advance(s.pages, Max({0, n})))
        told   == IF n < 0 THEN terminate_connection(queued) ELSE update_write_status(queued)
    IN  IF "CLOSING" \in s.wr THEN check_delayed_feed(queued)
        ELSE check_delayed_feed(IF WriteIo(told) THEN Write(told) ELSE told)

\* StreamOpsHandler::completed after an operation that was CLOSING
Closing(s) ==
    LET paused == PauseBoth(s)
    IN  IF ~s.slot \/ "CLOSED" \in s.item THEN s
        ELSE IF Outstanding(s) \/ s.tx # "open" THEN paused
        ELSE [CloseSocket(paused) EXCEPT !.item = @ \cup {"CLOSED"}, !.tx = "sent", !.sched = TRUE]

\* One entry of the port; after the last one the handlers tick.
PollCompletions ==
    /\ phase = "port" /\ c.port # <<>>
    /\ LET e    == Head(c.port)
           rest == [c EXCEPT !.port = Tail(@)]
           done == IF e.op = "rd" THEN ReadCompleted(rest, e.res) ELSE WriteCompleted(rest, e.res)
           all  == IF "CLOSING" \in (IF e.op = "rd" THEN c.rd ELSE c.wr) THEN Closing(done) ELSE done
       IN  c' = IF rest.port = <<>> THEN check_delayed_feed(all) ELSE all
    /\ UNCHANGED <<kind, phase>>

\* Nothing is left; a notification alone brings the driver here too.
Turn ==
    /\ phase = "port" /\ c.port = <<>>
    /\ phase' = "tasks" /\ c' = check_delayed_feed(c)
    /\ UNCHANGED kind

(***************************************************************************)
(* The connection task                                                     *)
(***************************************************************************)
\* One poll of the first loop of `run`.  The handle a read or write drops waits
\* for the next tick, because the storage is taken.
RunPoll ==
    /\ phase = "tasks" /\ c.sched /\ c.pc = "poll"
    /\ LET s == shutdown_filters([c EXCEPT !.sched = FALSE], kind.direct)
           r == IF is_closed(s) THEN s
                ELSE IF ReadReady(s) THEN Read(Registered(s)) ELSE PauseRd(Registered(s), FALSE)
       IN  c' = IF is_closed(r) THEN shutdown(r) ELSE IF WriteReady(r) THEN Write(r) ELSE r
    /\ UNCHANGED <<kind, phase>>

\* The task is polled in shutdown(); once that was answered it ends and drops its
\* StreamCtl.  The context is closed already, so it is not stopped.
RunClosing ==
    /\ phase = "tasks" /\ c.sched /\ c.pc \in {"closing", "blocking"}
    /\ LET s == [c EXCEPT !.sched = FALSE]
       IN  c' = IF c.tx = "sent" \/ (c.pc = "blocking" /\ c.jobs = 0)
                THEN drop_stream([s EXCEPT !.pc = "done"]) ELSE s
    /\ UNCHANGED <<kind, phase>>

IopsRun ==
    /\ phase = "tasks" /\ c.ops
    /\ c' = ops_send_buf(c)
    /\ UNCHANGED <<kind, phase>>

DisconnectTimeout ==
    /\ phase = "tasks" /\ c.timer = "armed" /\ c.pc = "poll"
    /\ c' = [c EXCEPT !.timer = "elapsed", !.sched = TRUE]
    /\ UNCHANGED <<kind, phase>>

(***************************************************************************)
(* The application                                                         *)
(***************************************************************************)
CanCall(op) == phase = "tasks" /\ op \in kind.calls /\ ~c.gone

Encode ==
    /\ CanCall("encode") /\ c.out_left > 0 /\ ~is_stopping_any(c)
    /\ c' = consolidate_write_state(
                [c EXCEPT !.wbuf = Append(@, <<c.next>>), !.next = @ + 1, !.out_left = @ - 1],
                kind.direct)
    /\ UNCHANGED <<kind, phase>>

Consume(rest) ==
    /\ CanCall("consume") /\ c.rbuf > rest
    /\ c' = consume(c, rest)
    /\ UNCHANGED <<kind, phase>>

PauseRead ==
    /\ CanCall("pause") /\ c.pc = "poll"
    /\ c' = IF Has(c, "RD_PAUSED") THEN consume(c, c.rbuf) ELSE pause(c)
    /\ UNCHANGED <<kind, phase>>

CloseIo ==
    /\ CanCall("close")
    /\ c' = start_shutdown(c)
    /\ UNCHANGED <<kind, phase>>

DropIo ==
    /\ CanCall("drop")
    /\ c' = check_delayed_feed([terminate_connection(c) EXCEPT !.gone = TRUE])
    /\ UNCHANGED <<kind, phase>>

(***************************************************************************)
(* The port, the thread pool, the kernel and the peer                      *)
(***************************************************************************)
\* The tasks are done; the wait ends with completions or a notification, or in a
\* timeout if there is neither.
Wait ==
    /\ phase = "tasks" /\ ~c.sched /\ ~c.ops
    /\ phase' = "wait"
    /\ UNCHANGED <<kind, c>>

WaitEnds ==
    /\ phase = "wait"
    /\ phase' = "port" \/ (c.port = <<>> /\ phase' = "tasks")
    /\ UNCHANGED <<kind, c>>

Complete(op, n) ==
    [c EXCEPT !.kernel = @ \ {op}, !.port = Append(@, [op |-> op, res |-> n])]

KernelRecv ==
    /\ phase = "wait" /\ "rd" \in c.kernel /\ (c.inq > 0 \/ c.hup # {})
    /\ c' = IF "reset" \in c.hup THEN Complete("rd", Err)
            ELSE [Complete("rd", c.inq) EXCEPT !.inq = 0]
    /\ UNCHANGED <<kind, phase>>

KernelSend ==
    /\ phase = "wait" /\ "wr" \in c.kernel
    /\ LET bytes == FlattenSeq(c.pages)
       IN  IF "reset" \in c.hup THEN c' = Complete("wr", Err)
           ELSE \E n \in 1..Len(bytes) :
                    c' = [Complete("wr", n) EXCEPT !.wire = @ \o SubSeq(bytes, 1, n)]
    /\ UNCHANGED <<kind, phase>>

\* shutdown() and closesocket() on a thread of the pool
BlockingClose ==
    /\ phase = "wait" /\ c.jobs > 0
    /\ c' = [c EXCEPT !.jobs = @ - 1, !.closed = @ + 1, !.hup = @ \cup {"shut"},
                     !.sched = @ \/ c.pc = "blocking"]
    /\ UNCHANGED <<kind, phase>>

PeerSend ==
    /\ phase = "wait" /\ c.in_left > 0 /\ c.hup = {}
    /\ c' = [c EXCEPT !.in_left = @ - 1, !.inq = @ + 1]
    /\ UNCHANGED <<kind, phase>>

PeerReads ==
    /\ phase = "wait" /\ c.room < kind.room
    /\ c' = [c EXCEPT !.room = kind.room]
    /\ UNCHANGED <<kind, phase>>

PeerGone(f) ==
    /\ phase = "wait" /\ f \in kind.faults /\ c.hup = {}
    /\ c' = [c EXCEPT !.hup = {f}]
    /\ UNCHANGED <<kind, phase>>

(***************************************************************************)
(* Specification                                                           *)
(***************************************************************************)
IocpStreamInit ==
    /\ kind \in Streams
    /\ phase = "tasks"
    /\ c = NewItem(kind)

IocpStreamNext ==
    \/ PollCompletions \/ Turn \/ RunPoll \/ RunClosing \/ IopsRun \/ DisconnectTimeout
    \/ Encode \/ \E rest \in 0..1 : Consume(rest)
    \/ PauseRead \/ CloseIo \/ DropIo
    \/ Wait \/ WaitEnds \/ KernelRecv \/ KernelSend \/ BlockingClose
    \/ PeerSend \/ PeerReads \/ \E f \in {"eof", "reset"} : PeerGone(f)

IocpStreamSpec == IocpStreamInit /\ [][IocpStreamNext]_iocpStreamVars

(***************************************************************************)
(* Properties                                                              *)
(***************************************************************************)
\* The socket is closed once, and neither the socket nor the memory the kernel
\* writes the result of an operation to goes away while one is pending or its
\* completion is still in the port (StreamCtl::shutdown, completed).
ClosedBehindOps ==
    /\ c.jobs + c.closed <= 1
    /\ (c.jobs + c.closed = 1 \/ ~c.slot) => c.kernel = {} /\ c.port = <<>>
    /\ ~c.slot => c.jobs + c.closed = 1

IocpQuiet ==
    /\ phase = "wait" /\ ~c.sched /\ ~c.ops /\ c.port = <<>> /\ c.jobs = 0
    /\ "rd" \in c.kernel => c.inq = 0 /\ c.hup = {}
    /\ "wr" \notin c.kernel

\* When everything is quiet an open stream that may be read has a read pending
\* and nothing left to send; a closed one has ended its task and closed its
\* socket, and its entry is gone with the application's handle.
IocpNotStranded ==
    IocpQuiet =>
        IF c.pc = "poll" /\ ~is_closed(c)
        THEN (ReadReady(c) => "WAITING" \in c.rd) /\ c.wbuf = <<>>
        ELSE c.pc = "done" /\ c.closed = 1 /\ (c.gone => ~c.slot)

\* The socket takes the bytes in the order they were written.
IocpInOrder == \A i \in DOMAIN c.wire : c.wire[i] = i

=============================================================================

----------------------------- MODULE UringStream ----------------------------
(***************************************************************************)
(* A stream of the io_uring driver (net/uring): its entry in the streams   *)
(* slab, the operations it has in the ops slab, the connection task that   *)
(* starts them, and the ring, whose completions come back in any order.    *)
(*                                                                         *)
(* A turn of the driver has three parts: the completions are handled, the  *)
(* tasks run, and the submissions are given to the kernel.  The ring here  *)
(* takes the submissions in order and loses none; UringRing models it.     *)
(***************************************************************************)
EXTENDS IoCtx, FiniteSets

CONSTANTS
    Scenes,     \* the streams considered, see Scene
    MaxOps,     \* entries of the ops slab
    ZcSize      \* zc_size(): larger pages are sent without a copy

Calls == {"encode", "vectored", "consume", "pause", "close", "drop"}

Scene == [ zc     : BOOLEAN,        \* a TCP stream on a kernel with SendZc
           short  : BOOLEAN,        \* the socket may take less than a zero-copy send offers
           direct : BOOLEAN,        \* a write threshold is set, and every write reaches it
           busy   : BOOLEAN,        \* more tasks are ready than Runtime::poll runs at once
           is_new : BOOLEAN,        \* ReactorApi::is_new
           input  : Nat,            \* bytes the peer sends
           output : Nat,            \* bytes the application writes
           faults : SUBSET {"eof", "reset", "again"},
           calls  : SUBSET Calls ]

VARIABLES
    scene,
    turn,       \* "cq", "tasks" or "kernel"
    u           \* the stream

uringVars == <<scene, turn, u>>

(***************************************************************************)
(* State                                                                   *)
(***************************************************************************)
None == 0
Err  == -1
Again == -2    \* WouldBlock

NoOp == [kind |-> "none"]

NewStream(k) ==
    NewCtx @@
    [ item   |-> IF k.zc THEN {} ELSE {"NO_ZC"},
      rd_op  |-> None,
      wr_op  |-> None,
      slab   |-> [i \in 1..MaxOps |-> NoOp],
      vacant |-> [i \in 1..MaxOps |-> i],    \* the slab's free list
      slot   |-> TRUE,                       \* the streams slab has the entry
      sq     |-> <<>>,
      cq     |-> <<>>,
      kernel |-> {},                         \* requests the kernel works on
      pc     |-> "poll",                     \* the task `run`
      tx     |-> FALSE,                      \* the shutdown was answered
      inq    |-> 0,
      hup    |-> {},                         \* "eof", "reset", "shut", "closed"
      again  |-> "again" \in k.faults,       \* a read may still fail with WouldBlock
      in_left  |-> k.input,
      out_left |-> k.output,
      next     |-> 1,                        \* number of the next byte written
      wire     |-> <<>>,                     \* bytes the socket took
      gone     |-> FALSE ]                   \* the application dropped its Io

Item(s, F)   == [s EXCEPT !.item = @ \cup F]
UnItem(s, F) == [s EXCEPT !.item = @ \ F]

submit(s, kind, id) == [s EXCEPT !.sq = Append(@, [kind |-> kind, id |-> id])]

\* Slab::insert takes the entry that was freed last.
add_operation(s, op) ==
    LET id == Head(s.vacant)
    IN  [s EXCEPT !.slab[id] = op, !.vacant = Tail(@)]

remove_operation(s, id) == [s EXCEPT !.slab[id] = NoOp, !.vacant = <<id>> \o @]

\* An operation is stored and its request pushed.
Start(s, kind, op) == submit(add_operation(s, op), kind, Head(s.vacant))

register(k) == Start(NewStream(k), "Poll", [kind |-> "Poll"])

(***************************************************************************)
(* Requests                                                                *)
(***************************************************************************)
\* Mutant: bytes the application has not taken go into the kernel's buffer.
recv_hides(s, first) ==
    IF ~s.slot THEN s
    ELSE IF s.rd_op = None
         THEN LET held == IF Has(s, "BUF_R_READY") THEN 0 ELSE s.rbuf
              IN  [Start([s EXCEPT !.rbuf = @ - held], IF first THEN "RecvFirst" ELSE "Recv",
                         [kind |-> "Recv", n |-> held])
                      EXCEPT !.rd_op = Head(s.vacant)]
    ELSE IF "RD_CANCELING" \in s.item THEN Item(s, {"RD_REISSUE"})
    ELSE s

\* Bytes that get_read_buf brings along go back before the read is started.
recv(s, first) ==
    IF ~s.slot THEN s
    ELSE IF s.rd_op = None
         THEN [Start(s, IF first THEN "RecvFirst" ELSE "Recv", [kind |-> "Recv", n |-> 0])
                  EXCEPT !.rd_op = Head(s.vacant)]
    ELSE IF "RD_CANCELING" \in s.item THEN Item(s, {"RD_REISSUE"})
    ELSE s

\* The read goes on in the same buffer, behind the bytes it holds.
recv_more(s, held) ==
    [Start(s, "Recv", [kind |-> "Recv", n |-> held]) EXCEPT !.rd_op = Head(s.vacant)]

\* One page is sent by itself, without a copy if it is large; several go out in
\* one vectored send.
send(s) ==
    IF ~s.slot THEN s
    ELSE IF s.wr_op # None
         THEN IF "WR_CANCELING" \in s.item THEN Item(s, {"WR_REISSUE"}) ELSE s
    ELSE IF s.wbuf = <<>> THEN s
    ELSE LET kind == IF Len(s.wbuf) > 1 THEN "Writev"
                     ELSE IF "NO_ZC" \in s.item \/ Len(s.wbuf[1]) <= ZcSize THEN "Send"
                     ELSE "SendZc"
             op   == [kind |-> IF kind = "Writev" THEN "Writev" ELSE "Send",
                      pages |-> s.wbuf, result |-> None]
         IN  [Start([s EXCEPT !.wbuf = <<>>], kind, op) EXCEPT !.wr_op = Head(s.vacant)]

pause_read(s) ==
    IF s.rd_op = None \/ "RD_CANCELING" \in s.item THEN s
    ELSE submit(Item(s, {"RD_CANCELING"}), "Cancel", s.rd_op)

drop_stream(s) == Start(s, "Close", [kind |-> "Close"])

drop_weak_stream(s) ==
    IF "DROPPED_PRI" \in s.item THEN [s EXCEPT !.slot = FALSE]
    ELSE Item(s, {"DROPPED_SEC"})

check_delayed_feed(s) ==
    IF s.delayed THEN drop_weak_stream([s EXCEPT !.delayed = FALSE]) ELSE s

(***************************************************************************)
(* Completions                                                             *)
(***************************************************************************)
\* Results of a send: n bytes, or an error, were the last word on the write.
Sent(s, n) ==
    LET told == IF n = Err \/ n = 0 THEN terminate_connection(s) ELSE update_write_status(s)
    IN  IF WriteIo(told) THEN send(told) ELSE told

requeue_unsent(s, pages, n) == prepend(s, Advance(pages, IF n = Err THEN 0 ELSE n))

RecvDone(s, op, e) ==
    LET freed == [s EXCEPT !.rd_op = None]
        held  == op.n + Max({e.res, 0})
        ended == IF e.res = 0 THEN terminate_connection(freed) ELSE freed
        read  == update_read_status(UnItem(ended, {"RD_MORE"}), held, e.res)
    IN  IF e.res = Again THEN recv_more(freed, op.n)
        ELSE IF e.res > 0 /\ e.nonempty THEN recv_more(Item(freed, {"RD_MORE"}), held)
        ELSE IF e.res = Err
             THEN terminate_connection([UnItem(freed, {"RD_MORE"}) EXCEPT !.rbuf = @ + held])
        ELSE IF ReadIo(read) THEN recv(read, scene.is_new) ELSE read

\* A zero-copy send completes twice.  The first time the page is still the
\* kernel's; whether it was sent is acted on when the notification comes.
SendDone(s, op, e) ==
    LET freed    == [s EXCEPT !.wr_op = None]
        complete == e.res >= Len(op.pages[1])
        next     == IF complete THEN send(freed) ELSE freed
    IN  CASE e.notif -> Sent(requeue_unsent(s, op.pages, op.result), op.result)
          [] e.more  -> [next EXCEPT !.slab[e.id] = [op EXCEPT !.result = e.res]]
          [] OTHER   -> Sent(requeue_unsent(freed, op.pages, e.res), e.res)

\* Mutant: the tail of a short vectored send goes behind what was queued.
WritevDoneAppends(s, op, e) ==
    LET freed == [s EXCEPT !.wr_op = None]
        left  == Advance(op.pages, IF e.res = Err THEN 0 ELSE e.res)
    IN  Sent([freed EXCEPT !.wbuf = @ \o SelectSeq(left, LAMBDA p : p # <<>>)], e.res)

WritevDone(s, op, e) ==
    Sent(requeue_unsent([s EXCEPT !.wr_op = None], op.pages, e.res), e.res)

PollDone(s) ==
    IF "RD_MORE" \in s.item \/ is_closed(s) THEN s ELSE terminate_connection(s)

\* StreamCtl::shutdown's receiver wakes the task that waits in it.
ShutdownDone(s) == [s EXCEPT !.tx = TRUE, !.sched = TRUE]

CloseDone(s) ==
    IF "DROPPED_SEC" \in s.item THEN [s EXCEPT !.slot = FALSE]
    ELSE Item(s, {"DROPPED_PRI"})

\* The entry of the operation is given back at the end, except by the first
\* completion of a zero-copy send.
completed(s, e) ==
    LET op   == s.slab[e.id]
        done == CASE op.kind = "Shutdown" -> ShutdownDone(s)
                  [] op.kind = "Close"    -> CloseDone(s)
                  [] ~s.slot              -> s
                  [] op.kind = "Recv"     -> RecvDone(s, op, e)
                  [] op.kind = "Send"     -> SendDone(s, op, e)
                  [] op.kind = "Writev"   -> WritevDone(s, op, e)
                  [] op.kind = "Poll"     -> PollDone(s)
    IN  IF s.slot /\ op.kind = "Send" /\ e.more /\ ~e.notif THEN done
        ELSE remove_operation(done, e.id)

canceled(s, e) ==
    LET op    == s.slab[e.id]
        freed == remove_operation(s, e.id)
        read  == update_read_status(UnItem([freed EXCEPT !.rd_op = None], {"RD_CANCELING"}),
                                    op.n, 0)
        wrote == update_write_status(prepend(
                     UnItem([freed EXCEPT !.wr_op = None], {"WR_CANCELING"}), op.pages))
    IN  CASE ~s.slot -> freed
          [] op.kind = "Recv" ->
                IF "RD_REISSUE" \in s.item \/ ReadIo(read)
                THEN recv(UnItem(read, {"RD_REISSUE"}), FALSE) ELSE read
          [] op.kind \in {"Send", "Writev"} ->
                IF "WR_REISSUE" \in s.item \/ WriteIo(wrote)
                THEN send(UnItem(wrote, {"WR_REISSUE"})) ELSE wrote
          [] OTHER -> freed

\* One completion; the last one of the turn is followed by tick().
Reap ==
    /\ turn = "cq" /\ u.cq # <<>>
    /\ LET e    == Head(u.cq)
           rest == [u EXCEPT !.cq = Tail(@)]
           done == IF e.canceled THEN canceled(rest, e) ELSE completed(rest, e)
       IN  IF Len(u.cq) > 1 THEN u' = done /\ turn' = "cq"
           ELSE u' = check_delayed_feed(done) /\ turn' = "tasks"
    /\ UNCHANGED scene

(***************************************************************************)
(* The connection task                                                     *)
(***************************************************************************)
shutdown(s) == Start(pause_read(s), "Shutdown", [kind |-> "Shutdown"])

\* One poll of the first loop of `run`; it ends only once the connection is
\* closed, and shutdown() starts in the same poll.
RunPoll ==
    /\ turn = "tasks" /\ u.sched /\ u.pc = "poll"
    /\ LET s == shutdown_filters([u EXCEPT !.sched = FALSE], scene.direct)
           r == IF ReadReady(s) THEN recv(Registered(s), FALSE) ELSE pause_read(Registered(s))
       IN  u' = IF is_closed(s) THEN [shutdown(s) EXCEPT !.pc = "closing"]
                ELSE IF WriteReady(s) THEN send(r) ELSE r
    /\ UNCHANGED <<scene, turn>>

\* The task waits for the answer, then ends and drops its StreamCtl.
RunClosing ==
    /\ turn = "tasks" /\ u.sched /\ u.pc = "closing"
    /\ u' = IF u.tx THEN [drop_stream(u) EXCEPT !.pc = "done", !.sched = FALSE]
            ELSE [u EXCEPT !.sched = FALSE]
    /\ UNCHANGED <<scene, turn>>

IopsRun ==
    /\ turn = "tasks" /\ u.ops
    /\ u' = ops_send_buf(u)
    /\ UNCHANGED <<scene, turn>>

DisconnectTimeout ==
    /\ turn = "tasks" /\ u.timer = "armed" /\ u.pc = "poll"
    /\ u' = [u EXCEPT !.timer = "elapsed", !.sched = TRUE]
    /\ UNCHANGED <<scene, turn>>

(***************************************************************************)
(* The application                                                         *)
(***************************************************************************)
CanCall(op) == turn = "tasks" /\ op \in scene.calls /\ ~u.gone

Encode(n) ==
    /\ CanCall("encode") /\ n <= u.out_left /\ ~is_stopping_any(u)
    /\ u' = consolidate_write_state(
                [u EXCEPT !.wbuf = Append(@, [i \in 1..n |-> u.next + i - 1]),
                          !.next = @ + n, !.out_left = @ - n], scene.direct)
    /\ UNCHANGED <<scene, turn>>

\* IoRef::try_write_vectored and WeakStreamCtl::write_bufs: nothing is queued and
\* no send is in flight, so k of the n bytes go straight to the socket.
TryWriteVectored(n, k) ==
    /\ CanCall("vectored") /\ n <= u.out_left /\ k <= n
    /\ ~is_stopping_any(u) /\ u.wbuf = <<>> /\ u.handle
    /\ u.slot /\ u.wr_op = None /\ "WR_CANCELING" \notin u.item
    /\ u.hup \cap {"reset"} = {}
    /\ u' = [u EXCEPT !.wire = @ \o [i \in 1..k |-> u.next + i - 1],
                      !.next = @ + k, !.out_left = @ - k]
    /\ UNCHANGED <<scene, turn>>

Consume(rest) ==
    /\ CanCall("consume") /\ u.rbuf > rest
    /\ u' = consume(u, rest)
    /\ UNCHANGED <<scene, turn>>

PauseRead ==
    /\ CanCall("pause") /\ u.pc = "poll"
    /\ u' = IF Has(u, "RD_PAUSED") THEN consume(u, u.rbuf) ELSE pause(u)
    /\ UNCHANGED <<scene, turn>>

CloseIo ==
    /\ CanCall("close")
    /\ u' = start_shutdown(u)
    /\ UNCHANGED <<scene, turn>>

DropIo ==
    /\ CanCall("drop")
    /\ u' = check_delayed_feed([terminate_connection(u) EXCEPT !.gone = TRUE])
    /\ UNCHANGED <<scene, turn>>

(***************************************************************************)
(* The kernel and the peer (external).  Requests are issued in order; a    *)
(* read finds its data at once, everything else takes its time.            *)
(***************************************************************************)
Reply(s, e, res) ==
    [s EXCEPT !.kernel = @ \ {e},
              !.cq = Append(@, [id |-> e.id, res |-> res, canceled |-> FALSE, more |-> FALSE,
                                notif |-> FALSE, nonempty |-> FALSE])]

Mark(s, field) ==
    [s EXCEPT !.cq[Len(s.cq)] =
        CASE field = "canceled" -> [@ EXCEPT !.canceled = TRUE]
          [] field = "more"     -> [@ EXCEPT !.more = TRUE]
          [] field = "notif"    -> [@ EXCEPT !.notif = TRUE]
          [] field = "nonempty" -> [@ EXCEPT !.nonempty = TRUE]]

Readable(s) == s.inq > 0 \/ s.hup # {}

\* IORING_CQE_F_SOCK_NONEMPTY: more data, or the end of it, is waiting.
Received(s, e, n) ==
    LET left == [s EXCEPT !.inq = @ - n]
        done == Reply(left, e, n)
    IN  CASE "reset" \in s.hup -> Reply(s, e, Err)
          [] OTHER -> IF n > 0 /\ Readable(left) THEN Mark(done, "nonempty") ELSE done

Amounts(s) == IF s.inq = 0 THEN {0} ELSE 1..s.inq

\* Runtime::poll leaves ready tasks for the next turn only if it ran as many as
\* event_interval.
Submit ==
    /\ turn = "tasks"
    /\ scene.busy \/ (~u.sched /\ ~u.ops)
    /\ turn' = "kernel"
    /\ UNCHANGED <<scene, u>>

Issue ==
    /\ turn = "kernel" /\ u.sq # <<>>
    /\ LET e    == Head(u.sq)
           rest == [u EXCEPT !.sq = Tail(@)]
           hit  == {k \in u.kernel : k.id = e.id /\ k.kind # "Notif"}
       IN  \/ /\ e.kind = "Cancel"
              /\ u' = IF hit = {} THEN rest
                      ELSE Mark(Reply(rest, CHOOSE k \in hit : TRUE, None), "canceled")
           \/ /\ e.kind = "Recv" /\ Readable(u)
              /\ \E n \in Amounts(u) : u' = Received(rest, e, n)
           \/ /\ e.kind # "Cancel" /\ ~(e.kind = "Recv" /\ Readable(u))
              /\ u' = [rest EXCEPT !.kernel = @ \cup {e}]
    /\ UNCHANGED <<scene, turn>>

KernelRecv ==
    /\ turn = "kernel"
    /\ \E e \in u.kernel :
        /\ e.kind \in {"Recv", "RecvFirst"} /\ Readable(u)
        /\ \E n \in Amounts(u) : u' = Received(u, e, n)
    /\ UNCHANGED <<scene, turn>>

KernelRecvAgain ==
    /\ turn = "kernel" /\ u.again
    /\ \E e \in u.kernel :
        /\ e.kind \in {"Recv", "RecvFirst"}
        /\ u' = [Reply(u, e, Again) EXCEPT !.again = FALSE]
    /\ UNCHANGED <<scene, turn>>

\* A send that is not zero-copy may take fewer bytes than it was offered.
KernelSend ==
    /\ turn = "kernel"
    /\ \E e \in u.kernel :
        LET bytes == FlattenSeq(u.slab[e.id].pages)
            fails == u.hup \cap {"reset", "shut"} # {}
            least == IF e.kind = "SendZc" /\ ~scene.short THEN Len(bytes) ELSE 1
        IN  /\ e.kind \in {"Send", "SendZc", "Writev"}
            /\ \E n \in IF fails THEN {Err} ELSE least..Len(bytes) :
                LET sent == [u EXCEPT !.wire = IF n = Err THEN @ ELSE @ \o SubSeq(bytes, 1, n)]
                IN  u' = IF e.kind # "SendZc" THEN Reply(sent, e, n)
                         ELSE [Mark(Reply(sent, e, n), "more") EXCEPT
                                  !.kernel = @ \cup {[kind |-> "Notif", id |-> e.id]}]
    /\ UNCHANGED <<scene, turn>>

\* The peer acknowledged the bytes, the page is free again.
KernelNotif ==
    /\ turn = "kernel"
    /\ \E e \in u.kernel : e.kind = "Notif" /\ u' = Mark(Reply(u, e, 0), "notif")
    /\ UNCHANGED <<scene, turn>>

KernelPoll ==
    /\ turn = "kernel" /\ u.hup # {}
    /\ \E e \in u.kernel : e.kind = "Poll" /\ u' = Reply(u, e, 1)
    /\ UNCHANGED <<scene, turn>>

KernelShutdown ==
    /\ turn = "kernel"
    /\ \E e \in u.kernel :
        /\ e.kind \in {"Shutdown", "Close"}
        /\ u' = [Reply(u, e, 0) EXCEPT
                    !.hup = @ \cup {IF e.kind = "Shutdown" THEN "shut" ELSE "closed"}]
    /\ UNCHANGED <<scene, turn>>

PeerSend ==
    /\ turn = "kernel" /\ u.in_left > 0 /\ u.hup = {}
    /\ u' = [u EXCEPT !.in_left = @ - 1, !.inq = @ + 1]
    /\ UNCHANGED <<scene, turn>>

PeerGone(f) ==
    /\ turn = "kernel" /\ f \in scene.faults \ {"again"} /\ u.hup = {}
    /\ u' = [u EXCEPT !.hup = {f}]
    /\ UNCHANGED <<scene, turn>>

\* The wait ends with a completion, or because another thread or a timer woke
\* the runtime.
NextTurn ==
    /\ turn = "kernel" /\ u.sq = <<>>
    /\ turn' = IF u.cq = <<>> THEN "tasks" ELSE "cq"
    /\ UNCHANGED <<scene, u>>

(***************************************************************************)
(* Specification                                                           *)
(***************************************************************************)
UringInit ==
    /\ scene \in Scenes
    /\ turn = "tasks"
    /\ u = register(scene)

UringNext ==
    \/ Reap \/ RunPoll \/ RunClosing \/ IopsRun \/ DisconnectTimeout
    \/ \E n \in 1..2 : Encode(n)
    \/ \E n \in 1..2 : \E k \in 1..2 : TryWriteVectored(n, k)
    \/ \E rest \in 0..1 : Consume(rest)
    \/ PauseRead \/ CloseIo \/ DropIo
    \/ Submit \/ Issue \/ KernelRecv \/ KernelRecvAgain \/ KernelSend \/ KernelNotif
    \/ KernelPoll \/ KernelShutdown \/ NextTurn
    \/ PeerSend \/ \E f \in {"eof", "reset"} : PeerGone(f)

UringSpec == UringInit /\ [][UringNext]_uringVars

(***************************************************************************)
(* Properties                                                              *)
(***************************************************************************)
\* The socket takes the bytes in the order the application wrote them, whatever
\* mix of sends, zero-copy sends, vectored sends and direct writes carries them
\* and however few of them each one takes (requeue_unsent, send, write_bufs).
BytesInOrder == \A i \in DOMAIN u.wire : u.wire[i] = i

\* No task is in the run queue and the kernel has nothing to answer.
Quiet ==
    /\ turn = "kernel" /\ u.sq = <<>> /\ u.cq = <<>> /\ ~u.sched /\ ~u.ops
    /\ \A e \in u.kernel : IF e.kind = "Poll" THEN u.hup = {}
                            ELSE e.kind \in {"Recv", "RecvFirst"} /\ ~Readable(u)

\* A busy thread's Iops task came after the send it was scheduled for: call_write
\* answers Yes for the empty buffer as well, ops_send_buf takes WR_PAUSED off, and
\* with no send to set it again consolidate_write_state does nothing for the next
\* write.  Only a direct write leaves WR_PAUSED and WR_SEND_OP this way.
WriteStalled == scene.direct /\ scene.busy /\ ~Has(u, "WR_PAUSED") /\ u.wr_op = None

\* When everything is quiet an open stream that may be read has a read in the
\* kernel, no byte to send is left behind, except by a stalled direct write (see
\* WriteStalled), and no received byte is out of the application's sight: none in
\* the buffer of a pending read, none in the read buffer unannounced.  A closed stream has given all its operations back, and
\* its slab entry once the application dropped the connection too.
UringNotStranded ==
    Quiet =>
        IF u.pc = "poll" /\ ~is_closed(u)
        THEN /\ ReadReady(u) => u.rd_op # None
             /\ u.wbuf = <<>> \/ WriteStalled
             /\ u.unseen = 0
             /\ \A i \in 1..MaxOps : u.slab[i].kind = "Recv" => u.slab[i].n = 0
        ELSE /\ \A i \in 1..MaxOps : u.slab[i] = NoOp
             /\ u.gone => ~u.slot

\* A graceful close that did not run into its timeout put every byte on the wire
\* first (shutdown_filters waits for WR_PAUSED, which a completed send sets).
\* For streams without zero-copy sends.
CloseFlushes ==
    u.why = "flushed" /\ ~scene.zc /\ u.pc # "poll" /\ ~Has(u, "IO_STOPPED")
        => Len(u.wire) = u.next - 1
=============================================================================

------------------------------ MODULE Channels ------------------------------
(***************************************************************************)
(* The channels tasks of one thread talk through (util/channel): mpsc, the *)
(* byte stream, one-shots and their pool, inplace and the condition.  An   *)
(* operation is a call of one task and nothing comes between its steps;    *)
(* what can go wrong is a task that sleeps on a channel and is not woken.  *)
(*                                                                         *)
(* A half of a channel that is polled belongs to one task: "runs", "sleeps"*)
(* after a pending poll until its waker is called, or "gone" when the half *)
(* is dropped.  A LocalWaker is a BOOLEAN: whether it holds that task.     *)
(***************************************************************************)
EXTENDS Naturals, FiniteSets

CONSTANTS
    Kinds,      \* subset of {"mpsc", "stream", "pool", "condition", "oneshot", "inplace"}
    Ends,       \* one-shots of the pool, or waiters of the condition
    MaxBuffer,  \* max_buffer_size of a byte stream, in chunks
    Sends       \* bound: values sent, notifications

VARIABLES kind, ch

channelsVars == <<kind, ch>>

\* LocalWaker::wake of the waker that a half registered
WakeHalf(c, task, waker) ==
    IF c[waker] THEN [c EXCEPT ![waker] = FALSE, ![task] = IF @ = "sleeps" THEN "runs" ELSE @] ELSE c

\* A pending poll: LocalWaker::register
Sleep(c, task, waker) == [c EXCEPT ![waker] = TRUE, ![task] = "sleeps"]

-----------------------------------------------------------------------------
(* mpsc.rs *)

\* mpsc::channel
NewMpsc == [ buffer |-> 0, has_receiver |-> TRUE, senders |-> 1, rx |-> "runs", blocked_recv |-> FALSE,
             shut |-> FALSE,        \* Receiver::close was called
             left |-> Sends ]

MpscSend(c) ==
    IF c.has_receiver THEN WakeHalf([c EXCEPT !.buffer = @ + 1], "rx", "blocked_recv") ELSE c

\* Sender::close
MpscClose(c) == WakeHalf([c EXCEPT !.has_receiver = FALSE], "rx", "blocked_recv")

\* A wrong version: the last sender does not see itself as the last.
MpscDropCounts(c) ==
    LET d == [c EXCEPT !.senders = @ - 1]
    IN  IF c.has_receiver /\ c.senders = 0 THEN WakeHalf(d, "rx", "blocked_recv") ELSE d

\* Sender::drop.  The receiver holds the other strong reference while there is one.
MpscDrop(c) ==
    LET d == [c EXCEPT !.senders = @ - 1]
    IN  IF c.has_receiver /\ c.senders = 1 THEN WakeHalf(d, "rx", "blocked_recv") ELSE d

\* What Receiver::poll_recv finds
MpscReady(c) == c.buffer > 0 \/ ~c.has_receiver \/ c.senders = 0

MpscPoll(c) ==
    CASE c.buffer > 0 -> [c EXCEPT !.buffer = @ - 1]
      [] c.buffer = 0 /\ MpscReady(c) -> [c EXCEPT !.blocked_recv = @ \/ c.has_receiver]
      [] OTHER -> Sleep(c, "rx", "blocked_recv")

\* Receiver::close, by any holder of a reference: it wakes nobody.
MpscShut(c) == [c EXCEPT !.has_receiver = FALSE, !.shut = TRUE]

\* Receiver::drop
MpscDropRx(c) == [c EXCEPT !.buffer = 0, !.has_receiver = FALSE, !.rx = "gone"]

MpscNext ==
    /\ kind = "mpsc" /\ kind' = kind
    /\ \/ /\ ch.senders > 0 /\ ch.left > 0
          /\ ch' \in {MpscSend([ch EXCEPT !.left = @ - 1]),
                      [ch EXCEPT !.left = @ - 1, !.senders = @ + 1]}            \* Sender::clone
       \/ ch.senders > 0 /\ ch' \in {MpscClose(ch), MpscDrop(ch)}
       \/ ch.rx = "runs" /\ ch' = MpscPoll(ch)
       \/ ch.rx # "gone" /\ ch' \in {MpscShut(ch), MpscDropRx(ch)}
       \/ /\ ch.rx # "gone" /\ ch.left > 0
          /\ ch' = [ch EXCEPT !.left = @ - 1, !.senders = @ + 1]                \* Receiver::sender

-----------------------------------------------------------------------------
(* bstream.rs: a chunk is one unit of length *)

\* Inner::new(false)
NewStream == [ len |-> 0, eof |-> FALSE, error |-> FALSE, err |-> FALSE, need_read |-> TRUE,
               senders |-> 1, ended |-> FALSE, rx |-> "runs", recv_task |-> FALSE,
               tx |-> "runs", send_task |-> FALSE, left |-> Sends ]

WakeBoth(c) == WakeHalf(WakeHalf(c, "rx", "recv_task"), "tx", "send_task")

\* Sender::set_error.  With no receiver there is nothing to upgrade to.
SetError(c) == IF c.rx = "gone" THEN c ELSE WakeBoth([c EXCEPT !.err = TRUE, !.error = TRUE])

\* Sender::feed_eof
FeedEof(c) == IF c.rx = "gone" THEN c ELSE WakeBoth([c EXCEPT !.eof = TRUE])

\* Sender::feed_data
FeedData(c) ==
    IF c.rx = "gone" THEN c
    ELSE WakeHalf([c EXCEPT !.len = @ + 1, !.need_read = @ /\ c.len + 1 < MaxBuffer], "rx", "recv_task")

\* Sender::poll_ready.  SENDER_GONE is never seen by a sender.
StreamWritable(c) == c.rx = "gone" \/ c.need_read \/ c.eof
PollWritable(c) == IF StreamWritable(c) THEN c ELSE Sleep(c, "tx", "send_task")

\* Sender::drop: of the last one, the end of the stream is marked and nobody is told.
DropSender(c) ==
    LET d == [c EXCEPT !.senders = @ - 1, !.tx = IF c.senders = 1 THEN "gone" ELSE @]
    IN  IF c.senders = 1 /\ c.rx # "gone" THEN [d EXCEPT !.eof = TRUE, !.ended = TRUE] ELSE d

\* Receiver::poll_read, Inner::get_data
StreamReady(c) == c.len > 0 \/ c.err \/ c.eof \/ c.error
PollRead(c) ==
    CASE c.len > 0 -> LET d == [c EXCEPT !.len = @ - 1]
                      IN  IF d.len < MaxBuffer THEN WakeHalf([d EXCEPT !.need_read = TRUE], "tx", "send_task") ELSE d
      [] c.len = 0 /\ c.err -> [c EXCEPT !.err = FALSE, !.eof = TRUE]
      [] c.len = 0 /\ ~c.err /\ StreamReady(c) -> c
      [] OTHER -> Sleep(c, "rx", "recv_task")

\* Receiver::put
Unread(c) == [c EXCEPT !.len = @ + 1]

\* Receiver::drop
DropReader(c) == [WakeHalf(c, "tx", "send_task") EXCEPT !.rx = "gone"]

StreamNext ==
    /\ kind = "stream" /\ kind' = kind
    /\ \/ /\ ch.senders > 0 /\ ch.left > 0
          /\ ch' \in {FeedData([ch EXCEPT !.left = @ - 1]), SetError([ch EXCEPT !.left = @ - 1]),
                      [ch EXCEPT !.left = @ - 1, !.senders = @ + 1]}            \* Sender::clone
       \/ ch.senders > 0 /\ ch' = FeedEof(ch)
       \/ ch.tx = "runs" /\ ch' = PollWritable(ch)
       \/ ch.senders > (IF ch.tx = "runs" THEN 0 ELSE 1) /\ ch' = DropSender(ch)
       \/ ch.rx = "runs" /\ ch' = PollRead(ch)
       \/ ch.rx = "runs" /\ ch.left > 0 /\ ch' = Unread([ch EXCEPT !.left = @ - 1])
       \/ ch.rx # "gone" /\ ch' = DropReader(ch)

-----------------------------------------------------------------------------
(* pool.rs, over oneshots that share a slab *)

NewPool == [ flags |-> [e \in Ends |-> {}], value |-> [e \in Ends |-> FALSE],
             token |-> [e \in Ends |-> FALSE],          \* its entry is in the slab
             rx    |-> [e \in Ends |-> "none"], rx_waker |-> [e \in Ends |-> FALSE],
             tx    |-> [e \in Ends |-> "none"], tx_waker |-> [e \in Ends |-> FALSE] ]

WakeEnd(c, e, task, waker) ==
    IF c[waker][e]
    THEN [c EXCEPT ![waker][e] = FALSE, ![task][e] = IF @ = "sleeps" THEN "runs" ELSE @] ELSE c

\* Pool::channel
PoolChannel(c, e) ==
    [c EXCEPT !.flags[e] = {"SENDER", "RECEIVER"}, !.value[e] = FALSE, !.token[e] = TRUE,
              !.rx[e] = "runs", !.tx[e] = "runs", !.rx_waker[e] = FALSE, !.tx_waker[e] = FALSE]

\* Sender::drop
PoolDropTx(c, e) ==
    LET d == [c EXCEPT !.tx[e] = "gone"]
    IN  IF "RECEIVER" \in c.flags[e]
        THEN WakeEnd([d EXCEPT !.flags[e] = @ \ {"SENDER"}], e, "rx", "rx_waker")
        ELSE [d EXCEPT !.token[e] = FALSE]

\* Sender::send, which consumes the sender
PoolSend(c, e) ==
    PoolDropTx(IF "RECEIVER" \in c.flags[e] THEN WakeEnd([c EXCEPT !.value[e] = TRUE], e, "rx", "rx_waker") ELSE c, e)

\* Sender::poll_canceled
PollCanceled(c, e) ==
    IF "RECEIVER" \in c.flags[e] THEN [c EXCEPT !.tx_waker[e] = TRUE, !.tx[e] = "sleeps"] ELSE c

\* Receiver::poll_recv
PoolRecv(c, e) ==
    CASE c.value[e] -> [c EXCEPT !.value[e] = FALSE]
      [] ~c.value[e] /\ "SENDER" \notin c.flags[e] -> c
      [] OTHER -> [c EXCEPT !.rx_waker[e] = TRUE, !.rx[e] = "sleeps"]

\* Receiver::drop
PoolDropRx(c, e) ==
    LET d == [c EXCEPT !.rx[e] = "gone"]
    IN  IF "SENDER" \in c.flags[e]
        THEN WakeEnd([d EXCEPT !.flags[e] = @ \ {"RECEIVER"}], e, "tx", "tx_waker")
        ELSE [d EXCEPT !.token[e] = FALSE]

PoolNext ==
    /\ kind = "pool" /\ kind' = kind
    /\ \E e \in Ends :
          \/ ~ch.token[e] /\ ch' = PoolChannel(ch, e)
          \/ ch.tx[e] = "runs" /\ ch' \in {PoolSend(ch, e), PollCanceled(ch, e)}
          \/ ch.tx[e] \in {"runs", "sleeps"} /\ ch' = PoolDropTx(ch, e)
          \/ ch.rx[e] = "runs" /\ ch' = PoolRecv(ch, e)
          \/ ch.rx[e] \in {"runs", "sleeps"} /\ ch' = PoolDropRx(ch, e)

-----------------------------------------------------------------------------
(* condition.rs: Ends are tokens of the slab *)

\* Condition::new
NewCondition == [ count |-> 1, ready |-> FALSE, left |-> Sends,
                  item |-> [e \in Ends |-> "free"],         \* "free", "none" or "some"
                  waker |-> [e \in Ends |-> FALSE], val |-> [e \in Ends |-> 0],
                  rx |-> [e \in Ends |-> "none"],
                  owed |-> [e \in Ends |-> FALSE] ]         \* notified since it was last told

\* Condition::wait, Waiter::clone
ConditionWait(c, e) ==
    [c EXCEPT !.item[e] = "none", !.rx[e] = "runs", !.waker[e] = FALSE, !.val[e] = 0, !.owed[e] = FALSE]

\* notify_with, and notify when there is no value: the items whose waker is set
ConditionNotify(c, v) ==
    LET told == {e \in Ends : c.item[e] = "some" /\ c.waker[e]}
    IN  [c EXCEPT !.waker = [e \in Ends |-> @[e] /\ e \notin told],
                  !.rx = [e \in Ends |-> IF e \in told THEN "runs" ELSE @[e]],
                  !.val = [e \in Ends |-> IF e \in told /\ v > 0 THEN v ELSE @[e]],
                  !.owed = [e \in Ends |-> @[e] \/ e \in told]]

\* notify_and_lock_readiness, notify_with_and_lock_readiness
ConditionLock(c, v) == ConditionNotify([c EXCEPT !.ready = TRUE], v)

\* Condition::drop
ConditionDrop(c) ==
    LET d == [c EXCEPT !.count = @ - 1] IN IF d.count = 0 THEN ConditionLock(d, 0) ELSE d

\* Waiter::poll_ready
ConditionTells(c, e) == c.ready \/ (c.item[e] = "some" /\ ~c.waker[e])
ConditionPoll(c, e) ==
    LET d == [c EXCEPT !.item[e] = "some", !.waker[e] = TRUE]
    IN  IF ConditionTells(c, e)
        THEN [d EXCEPT !.owed[e] = FALSE, !.val[e] = IF c.item[e] = "some" /\ ~c.waker[e] THEN 0 ELSE @]
        ELSE [d EXCEPT !.rx[e] = "sleeps"]

\* Waiter::drop
WaiterDrop(c, e) == [c EXCEPT !.item[e] = "free", !.rx[e] = "none", !.waker[e] = FALSE, !.owed[e] = FALSE]

ConditionNext ==
    /\ kind = "condition" /\ kind' = kind
    /\ \/ /\ ch.count > 0 /\ ch.left > 0
          /\ LET c == [ch EXCEPT !.left = @ - 1]
             IN  ch' \in {ConditionNotify(c, 0), ConditionNotify(c, c.left + 1), ConditionLock(c, 0),
                          ConditionLock(c, c.left + 1), [c EXCEPT !.count = @ + 1]}
       \/ ch.count > 0 /\ ch' = ConditionDrop(ch)
       \/ \E e \in Ends :
             \/ ch.item[e] = "free" /\ ch.count > 0 /\ ch' = ConditionWait(ch, e)
             \/ ch.rx[e] = "runs" /\ ch' = ConditionPoll(ch, e)
             \/ ch.item[e] # "free" /\ ch' = WaiterDrop(ch, e)

-----------------------------------------------------------------------------
(* oneshot.rs and inplace.rs *)

\* oneshot::channel
NewOneshot == [ value |-> FALSE, tx |-> TRUE, rx |-> "runs", rx_task |-> FALSE ]

\* Sender::drop
OneshotDropTx(c) == WakeHalf([c EXCEPT !.tx = FALSE], "rx", "rx_task")

\* Sender::send, which consumes the sender
OneshotSend(c) ==
    OneshotDropTx(IF c.rx # "gone" THEN WakeHalf([c EXCEPT !.value = TRUE], "rx", "rx_task") ELSE c)

\* Receiver::poll_recv
OneshotRecv(c) ==
    CASE c.value -> [c EXCEPT !.value = FALSE]
      [] ~c.value /\ ~c.tx -> c
      [] OTHER -> Sleep(c, "rx", "rx_task")

OneshotNext ==
    /\ kind = "oneshot" /\ kind' = kind
    /\ \/ ch.tx /\ ch' \in {OneshotSend(ch), OneshotDropTx(ch)}
       \/ ch.rx = "runs" /\ ch' = OneshotRecv(ch)
       \/ ch.rx # "gone" /\ ch' = [ch EXCEPT !.rx = "gone"]

\* inplace::channel
NewInplace == [ value |-> FALSE, rx |-> "runs", rx_task |-> FALSE ]

\* Inplace::send: a value that was not taken is kept, and the new one given back.
InplaceSend(c) == IF c.value THEN c ELSE WakeHalf([c EXCEPT !.value = TRUE], "rx", "rx_task")

\* Inplace::poll_recv
InplaceRecv(c) == IF c.value THEN [c EXCEPT !.value = FALSE] ELSE Sleep(c, "rx", "rx_task")

InplaceNext ==
    /\ kind = "inplace" /\ kind' = kind
    /\ ch' = InplaceSend(ch) \/ (ch.rx = "runs" /\ ch' = InplaceRecv(ch))

-----------------------------------------------------------------------------
ChannelsInit ==
    /\ kind \in Kinds
    /\ ch = CASE kind = "mpsc" -> NewMpsc [] kind = "stream" -> NewStream
              [] kind = "pool" -> NewPool [] kind = "condition" -> NewCondition
              [] kind = "oneshot" -> NewOneshot [] OTHER -> NewInplace

ChannelsNext == MpscNext \/ StreamNext \/ PoolNext \/ ConditionNext \/ OneshotNext \/ InplaceNext

ChannelsSpec == ChannelsInit /\ [][ChannelsNext]_channelsVars

-----------------------------------------------------------------------------
(* A task that sleeps on a channel would sleep again if it were polled: no value, end, error,
   room or cancellation reached the channel without waking it.  Two ends are left out, because
   the code wakes nobody for them: that of an mpsc whose receiver was closed by
   mpsc::Receiver::close (`shut`), and that of a byte stream whose last bstream::Sender was
   dropped (`ended`).  And the reader and the writer of a byte stream never wait for each other. *)
ChannelNotStranded ==
    CASE kind = "mpsc" -> ch.rx = "sleeps" /\ ~ch.shut => ~MpscReady(ch)
      [] kind = "stream" -> /\ ch.rx = "sleeps" /\ ~ch.ended => ~StreamReady(ch)
                            /\ ch.tx = "sleeps" => ~StreamWritable(ch)
                            /\ ~(ch.rx = "sleeps" /\ ch.tx = "sleeps")
      [] kind = "pool" -> \A e \in Ends :
                              /\ ch.rx[e] = "sleeps" => ~ch.value[e] /\ "SENDER" \in ch.flags[e]
                              /\ ch.tx[e] = "sleeps" => "RECEIVER" \in ch.flags[e]
                              /\ {ch.rx[e], ch.tx[e]} \cap {"runs", "sleeps"} # {} => ch.token[e]
      [] kind = "condition" -> \A e \in Ends :
                              /\ ch.rx[e] = "sleeps" => ~ConditionTells(ch, e)
                              /\ ch.owed[e] => ConditionTells(ch, e)
      [] kind = "oneshot" -> ch.rx = "sleeps" => ~ch.value /\ ch.tx
      [] OTHER -> ch.rx = "sleeps" => ~ch.value
=============================================================================

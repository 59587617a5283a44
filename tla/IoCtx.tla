------------------------------- MODULE IoCtx --------------------------------
(***************************************************************************)
(* The IoContext a driver works on, as the completion drivers (io_uring,   *)
(* IOCP) use it: the flags of IoState, the wakers of the connection task,  *)
(* the write buffer as a sequence of pages (a page is a sequence of byte   *)
(* numbers, so that their order can be told) and the read buffer as a      *)
(* number of bytes.  There is no filter layer above Base, and no write      *)
(* back-pressure or write notification.  These, with the polling           *)
(* driver and the futures of the application, are in IoConn.               *)
(*                                                                         *)
(* Every operator takes the state s of a connection to the next one; a     *)
(* driver adds the fields of its own stream entry to the record.           *)
(***************************************************************************)
EXTENDS Integers, Sequences, SequencesExt

CONSTANT ReadHigh       \* IoConfig::read_buf().high

NewCtx ==
    [ flags      |-> {"WR_PAUSED"},
      read_task  |-> FALSE,     \* a waker of the connection task is registered
      write_task |-> FALSE,
      sched      |-> TRUE,      \* the connection task is in the run queue
      ops        |-> FALSE,     \* the connection is in the Iops write queue
      handle     |-> TRUE,      \* IoState::handle holds the driver's handle
      delayed    |-> FALSE,     \* the handle is gone, its entry not told yet
      rbuf       |-> 0,         \* bytes the application has not consumed
      unseen     |-> 0,         \* of these, bytes the application was not woken for
      wbuf       |-> <<>>,
      timer      |-> "none",    \* shutdown_timeout
      why        |-> "none" ]   \* how filters_stopped was reached

Has(s, f)    == f \in s.flags
Set(s, F)    == [s EXCEPT !.flags = @ \cup F]
Unset(s, F)  == [s EXCEPT !.flags = @ \ F]

is_closed(s)       == Has(s, "IO_STOPPING") \/ Has(s, "IO_STOPPED")
is_stopping_any(s) == is_closed(s) \/ Has(s, "IO_STOPPING_FILTERS")
ReadHeld(s)        == Has(s, "RD_PAUSED") \/ Has(s, "RD_BACKPRESSURE")

wake_read_task(s)  == [s EXCEPT !.read_task = FALSE, !.sched = @ \/ s.read_task]
wake_write_task(s) == [s EXCEPT !.write_task = FALSE, !.sched = @ \/ s.write_task]
wake_tasks(s)      == wake_write_task(wake_read_task(s))

\* Dropping the handle while the driver's storage is taken queues the drop; the
\* driver's tick, or the end of the call when the storage is free, applies it.
terminate_connection(s) ==
    IF Has(s, "IO_STOPPED") THEN s
    ELSE [wake_tasks(Set(s, {"IO_STOPPED", "IO_STOPPING", "IO_STOPPING_FILTERS",
                             "BUF_R_READY"}))
             EXCEPT !.handle = FALSE, !.delayed = @ \/ s.handle]

start_shutdown(s) ==
    IF is_stopping_any(s) THEN s
    ELSE wake_tasks(Set(s, {"IO_STOPPING_FILTERS"}))

filters_stopped(s, why) == [Set(wake_tasks(s), {"IO_STOPPING"}) EXCEPT !.why = why]

(***************************************************************************)
(* What the driver reports                                                 *)
(***************************************************************************)
\* `held` bytes are in the buffer that comes back, of which the last read
\* brought `n`; a read of nothing puts the buffer back without a word.
update_read_status(s, held, n) ==
    LET back  == [s EXCEPT !.rbuf = @ + held]
        ready == Set([back EXCEPT !.unseen = 0],
                     IF back.rbuf >= ReadHigh
                     THEN {"RD_PAUSED", "RD_BACKPRESSURE", "BUF_R_READY"}
                     ELSE {"BUF_R_READY"})
    IN  IF n = 0 THEN [back EXCEPT !.unseen = @ + held] ELSE ready

ReadIo(s) == ~is_closed(s) /\ ~ReadHeld(s)

update_write_status(s) ==
    IF is_closed(s) THEN s
    ELSE IF s.wbuf # <<>> THEN Unset(s, {"WR_PAUSED"})
    ELSE LET paused == Set(s, {"WR_PAUSED"})
         IN  IF Has(s, "IO_STOPPING_FILTERS") THEN wake_read_task(paused) ELSE paused

WriteIo(s) == ~is_closed(s) /\ s.wbuf # <<>>

\* The pages go back in front of what was queued behind them.
prepend(s, pages) ==
    [s EXCEPT !.wbuf = SelectSeq(pages, LAMBDA p : p # <<>>) \o @]

\* The pages without their first n bytes
Advance(pages, n) ==
    [i \in DOMAIN pages |->
        LET left == n - Len(FlattenSeq(SubSeq(pages, 1, i - 1)))
        IN  SubSeq(pages[i], 1 + Max({0, Min({left, Len(pages[i])})}), Len(pages[i]))]

(***************************************************************************)
(* The write side of IoRef.  Handle::write of a completion driver is the   *)
(* trait's default and does nothing, so the bytes wait for the task.       *)
(***************************************************************************)
consolidate_write_state(s, direct) ==
    IF s.wbuf = <<>> \/ ~Has(s, "WR_PAUSED") THEN s
    ELSE IF direct /\ ~s.handle THEN Unset(s, {"WR_SEND_OP"})
    ELSE [Set(IF direct THEN Unset(s, {"WR_PAUSED"}) ELSE s, {"WR_SEND_OP"}) EXCEPT !.ops = TRUE]

ops_send_buf(s) ==
    LET taken == Unset([s EXCEPT !.ops = FALSE], {"WR_SEND_OP"})
    IN  IF ~Has(s, "WR_SEND_OP") \/ (Has(s, "WR_PAUSED") /\ ~s.handle) THEN taken
        ELSE Unset(wake_write_task(taken), {"WR_PAUSED"})

shutdown_filters(s, direct) ==
    LET sent == consolidate_write_state(s, direct)
    IN  IF ~Has(s, "IO_STOPPING_FILTERS") \/ is_closed(s) THEN s
        ELSE IF Has(sent, "WR_PAUSED") /\ ~Has(sent, "WR_SEND_OP")
             THEN filters_stopped(sent, "flushed")
        ELSE IF sent.timer = "elapsed" THEN filters_stopped(sent, "timeout")
        ELSE [sent EXCEPT !.timer = "armed"]

\* Both readiness checks of Base register the task's waker first.
Registered(s) == [s EXCEPT !.read_task = TRUE, !.write_task = TRUE]

ReadReady(s)  == Has(s, "IO_STOPPING_FILTERS") \/ ~ReadHeld(s)
WriteReady(s) == ~Has(s, "WR_PAUSED")

(***************************************************************************)
(* The application                                                         *)
(***************************************************************************)
\* Decoding takes what it can use and leaves `rest` bytes in the buffer.
consume(s, rest) ==
    LET left == [s EXCEPT !.rbuf = rest]
        open == Unset(left, {"BUF_R_READY", "RD_BACKPRESSURE"})
    IN  IF Has(s, "RD_BACKPRESSURE") /\ rest >= ReadHigh THEN left
        ELSE IF Has(s, "RD_PAUSED") THEN Unset(wake_read_task(open), {"RD_PAUSED"})
        ELSE open

pause(s) == IF Has(s, "RD_PAUSED") THEN s ELSE Set(wake_read_task(s), {"RD_PAUSED"})
=============================================================================

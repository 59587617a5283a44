------------------------------- MODULE IoConn -------------------------------
(***************************************************************************)
(* One connection of a worker: the shared IoState (flags, wakers, buffers, *)
(* handle), the operations of Io / IoRef / IoContext on it, the filter     *)
(* chain (Base, or one Layer on top of Base), the Iops write queue, and    *)
(* the polling driver that serves it (the stream's entry in the slab, the  *)
(* connection task `run`, the reactor's events).                           *)
(*                                                                         *)
(* Everything here runs on one thread, so a handler runs to its end before *)
(* another starts; handlers call one another, so each is an operator from  *)
(* a connection state to the next and an action applies the whole handler  *)
(* to the variable c.  Buffers are abstracted to their sizes.              *)
(***************************************************************************)
EXTENDS Integers, FiniteSets

CONSTANTS
    ReadHigh,       \* IoConfig::read_buf().high
    WriteHigh,      \* IoConfig::write_buf().high
    WriteHalf,      \* IoConfig::write_buf().half
    ItemLen,        \* bytes the codec needs to decode one item
    Chunk,          \* most bytes one read or write system call moves
    SndBuf,         \* capacity of the kernel's send buffer
    Configs         \* the connections considered, see Config

ASSUME SizesAssumption ==
    /\ ReadHigh \in Nat \ {0} /\ WriteHigh \in Nat \ {0} /\ WriteHalf \in Nat
    /\ WriteHalf < WriteHigh
    /\ ItemLen \in Nat \ {0} /\ Chunk \in Nat \ {0} /\ SndBuf \in Nat \ {0}

Config ==
    [ layer     : BOOLEAN,                   \* a filter layer is above Base
      threshold : Nat,                       \* write_buf_threshold(), 0: no direct writes
      max_in    : Nat,                       \* bytes the peer will send
      max_out   : Nat,                       \* bytes the application will encode
      faults    : SUBSET {"eof", "reset"},   \* what the peer may do
      calls     : SUBSET STRING ]            \* the operations the application uses

ASSUME ConfigsAssumption == \A k \in Configs : k \in Config

VARIABLES
    cfg,    \* the connection's configuration, fixed when it is created
    c,      \* the connection: IoState, its slab entry, its task, its socket
    app     \* what the application task is waiting for

vars == <<cfg, c, app>>

(***************************************************************************)
(* State                                                                   *)
(***************************************************************************)

FlagsKind == {"IO_STOPPED", "IO_STOPPING", "IO_STOPPING_FILTERS", "RD_PAUSED",
              "RD_BACKPRESSURE", "RD_NOTIFY", "RD_NOTIFIED", "BUF_R_READY",
              "WR_FLUSH", "WR_PAUSED", "WR_SEND_OP", "DSP_TIMEOUT",
              "DSP_W_BACKPRESSURE", "DIRECT_WR_SUP"}

\* The slab entry's own flags: poll interest wanted, interest the poller holds,
\* and which of the two owners (the task's StreamCtl, the handle) are gone.
ItemFlags == {"RD", "WR", "ARM_RD", "ARM_WR", "DROPPED_PRI", "DROPPED_SEC"}

IdType == {"Weak", "Write"}

Min2(a, b) == IF a < b THEN a ELSE b

IoState ==
    [ flags         : SUBSET FlagsKind,
      error         : {"none", "io", "tls"},
      rbuf          : Nat,       \* read buffer the application sees
      rraw          : Nat,       \* bytes the layer has not passed up yet
      wapp          : Nat,       \* write buffer above the layer
      wbuf          : Nat,       \* write buffer the driver takes from
      read_task     : BOOLEAN,   \* a waker of the connection task is registered
      write_task    : BOOLEAN,
      dispatch_task : BOOLEAN,   \* a waker of the application task is registered
      handle        : BOOLEAN,   \* IoState::handle holds the driver's handle
      registered    : BOOLEAN,   \* IoManager has the connection's id
      timer         : {"none", "armed", "elapsed"},  \* shutdown_timeout
      waiter        : {"none", "waiting", "woken"},  \* an OnDisconnect future
      filter_done   : BOOLEAN,   \* Layer's third field: shutdown completed
      filter_ready  : BOOLEAN,   \* what FilterLayer::shutdown answers
      ops           : BOOLEAN,   \* the id is in Iops::ops
      woken         : BOOLEAN,   \* the application task is in the run queue
      sched         : BOOLEAN,   \* the connection task is in the run queue
      pc            : {"poll", "closing", "done"},   \* the task `run`
      busy          : BOOLEAN,   \* the streams slab is taken
      slot          : BOOLEAN,   \* the slab has the entry, its fd is open
      item          : SUBSET ItemFlags,
      delayed       : SUBSET IdType,                 \* delayed_feed
      inq           : Nat,       \* bytes in the kernel's receive buffer
      space         : Nat,       \* free bytes in the kernel's send buffer
      in_left       : Nat,
      out_left      : Nat,
      fault         : SUBSET {"eof", "reset"} ]

Waiting == {"recv", "notify", "pause", "flush", "flush_part", "shutdown"}

TypeOK == cfg \in Config /\ c \in IoState /\ app \in {"idle", "gone"} \cup Waiting

Has(s, f)   == f \in s.flags
Insert(s, F) == [s EXCEPT !.flags = @ \cup F]
Remove(s, F) == [s EXCEPT !.flags = @ \ F]

is_closed(s) == Has(s, "IO_STOPPING") \/ Has(s, "IO_STOPPED")
is_stopping_any(s) == is_closed(s) \/ Has(s, "IO_STOPPING_FILTERS")
is_shutting_down_filters(s) == Has(s, "IO_STOPPING_FILTERS") /\ ~is_closed(s)
is_read_paused_or_backpressure(s) == Has(s, "RD_PAUSED") \/ Has(s, "RD_BACKPRESSURE")

write_buf_size(s) == s.wapp + s.wbuf

(***************************************************************************)
(* Wakers: LocalWaker::wake takes the registered waker and schedules its   *)
(* task.  Both task wakers belong to the connection task.                  *)
(***************************************************************************)
wake_read_task(s) ==
    [s EXCEPT !.read_task = FALSE, !.sched = @ \/ s.read_task]

wake_write_task(s) ==
    [s EXCEPT !.write_task = FALSE, !.sched = @ \/ s.write_task]

wake_dispatch_task(s) ==
    [s EXCEPT !.dispatch_task = FALSE, !.woken = @ \/ s.dispatch_task]

register_dispatch(s) == [s EXCEPT !.dispatch_task = TRUE]

notify_disconnect(s) ==
    [s EXCEPT !.waiter = IF @ = "waiting" THEN "woken" ELSE @]

notify_timeout(s) ==
    IF Has(s, "DSP_TIMEOUT") THEN s
    ELSE wake_dispatch_task(Insert(s, {"DSP_TIMEOUT"}))

(***************************************************************************)
(* The two owners of a slab entry.  The entry goes, and its descriptor is  *)
(* closed, when the second of them is dropped.  While the slab is taken    *)
(* the drop is put in delayed_feed.                                        *)
(***************************************************************************)
\* Mutant: the entry goes with the first of its owners.
drop_weak_stream_unshared(s) == [s EXCEPT !.slot = FALSE]

drop_weak_stream(s) ==
    IF "DROPPED_PRI" \in s.item
    THEN [s EXCEPT !.slot = FALSE]
    ELSE [s EXCEPT !.item = @ \cup {"DROPPED_SEC"}]

DropHandle(s) ==
    IF ~s.handle THEN s
    ELSE IF s.busy
         THEN [s EXCEPT !.handle = FALSE, !.delayed = @ \cup {"Weak"}]
         ELSE drop_weak_stream([s EXCEPT !.handle = FALSE])

(***************************************************************************)
(* IoState: the three ways towards the end of a connection                 *)
(***************************************************************************)
\* Mutant: the connection task is not told.
start_shutdown_silent(s) ==
    IF is_stopping_any(s) THEN s ELSE Insert(s, {"IO_STOPPING_FILTERS"})

start_shutdown(s) ==
    IF is_stopping_any(s) THEN s
    ELSE wake_write_task(wake_read_task(Insert(s, {"IO_STOPPING_FILTERS"})))

\* Mutant: the application is not told.
filters_stopped_silent(s) ==
    Insert(wake_write_task(wake_read_task(s)), {"IO_STOPPING"})

filters_stopped(s) ==
    Insert(wake_dispatch_task(wake_write_task(wake_read_task(s))), {"IO_STOPPING"})

set_terminate(s) ==
    Insert(s, {"IO_STOPPED", "IO_STOPPING", "IO_STOPPING_FILTERS", "BUF_R_READY"})

\* Mutant: the connection task is not told.
terminate_connection_silent(s, err) ==
    IF Has(s, "IO_STOPPED") THEN s
    ELSE LET failed == IF err = "none" THEN s ELSE [s EXCEPT !.error = err]
         IN  DropHandle(notify_disconnect(wake_dispatch_task(set_terminate(failed))))

terminate_connection(s, err) ==
    IF Has(s, "IO_STOPPED") THEN s
    ELSE LET failed == IF err = "none" THEN s ELSE [s EXCEPT !.error = err]
             woken  == wake_dispatch_task(wake_write_task(wake_read_task(
                           set_terminate(failed))))
         IN  DropHandle(notify_disconnect(woken))

close_with(s, err) ==
    start_shutdown([s EXCEPT !.error = IF @ = "none" THEN err ELSE "none"])

(***************************************************************************)
(* Filter chain, write direction                                           *)
(***************************************************************************)
process_write_buf(s) ==
    IF s.filter_done THEN s
    ELSE [s EXCEPT !.wbuf = @ + s.wapp, !.wapp = 0]

\* Layer::shutdown over Base::shutdown; the chain is down when filter_done.
process_shutdown(s) ==
    LET written == process_write_buf(s)
    IN  IF written.filter_done \/ ~written.filter_ready THEN written
        ELSE [process_write_buf(written) EXCEPT !.filter_done = TRUE, !.wapp = 0]

(***************************************************************************)
(* StreamItem::write and IoContext::update_write_status                    *)
(***************************************************************************)
\* Mutant: a flush is woken at the back-pressure threshold only.
update_write_status_no_flush(s) ==
    LET len   == write_buf_size(s)
        awake == IF Has(s, "DSP_W_BACKPRESSURE") /\ len <= WriteHalf
                 THEN wake_dispatch_task(s) ELSE s
    IN  IF is_closed(awake) THEN awake
        ELSE IF len > 0 THEN Remove(awake, {"WR_PAUSED"})
        ELSE LET paused == Insert(awake, {"WR_PAUSED"})
             IN  IF Has(s, "IO_STOPPING_FILTERS") THEN wake_read_task(paused) ELSE paused

update_write_status(s) ==
    LET len   == write_buf_size(s)
        awake == IF \/ Has(s, "WR_FLUSH") /\ len = 0
                    \/ /\ ~Has(s, "WR_FLUSH")
                       /\ Has(s, "DSP_W_BACKPRESSURE")
                       /\ len <= WriteHalf
                 THEN wake_dispatch_task(s) ELSE s
    IN  IF is_closed(awake) THEN awake
        ELSE IF len > 0 THEN Remove(awake, {"WR_PAUSED"})
        ELSE LET paused == Insert(awake, {"WR_PAUSED"})
             IN  IF Has(s, "IO_STOPPING_FILTERS") THEN wake_read_task(paused) ELSE paused

\* The status StreamItem::write returns is IoTaskStatus::Io.
WriteIo(s) == ~is_closed(s) /\ write_buf_size(s) > 0

\* Mutant: a short write is taken for a full one.
item_write_unbounded(s) ==
    LET p == process_write_buf(s)
        n == Min2(p.wbuf, Chunk)
    IN  IF p.wbuf > 0 /\ "reset" \in p.fault
        THEN terminate_connection(p, "io")
        ELSE update_write_status([p EXCEPT !.wbuf = @ - n, !.space = @ - n])

item_write(s) ==
    LET p == process_write_buf(s)
        n == Min2(Min2(p.wbuf, p.space), Chunk)
    IN  IF p.wbuf > 0 /\ "reset" \in p.fault
        THEN terminate_connection(p, "io")
        ELSE update_write_status([p EXCEPT !.wbuf = @ - n, !.space = @ - n])

\* Handle::write of the driver, WeakStreamCtl::write
write_stream(s) ==
    IF s.busy THEN [s EXCEPT !.delayed = @ \cup {"Write"}]
    ELSE IF s.slot THEN [item_write([s EXCEPT !.busy = TRUE]) EXCEPT !.busy = FALSE]
    ELSE s

\* The handle is out of its cell during the call and is put back after it.
call_write(s) ==
    IF ~s.handle THEN s
    ELSE [write_stream([Remove(s, {"WR_PAUSED"}) EXCEPT !.handle = FALSE])
             EXCEPT !.handle = TRUE]

schedule_write(s) ==
    IF Has(s, "WR_SEND_OP") THEN s
    ELSE [Insert(s, {"WR_SEND_OP"}) EXCEPT !.ops = @ \/ s.registered]

consolidate_write_state(s, force) ==
    LET size   == write_buf_size(s)
        direct == Has(s, "DIRECT_WR_SUP") /\ (force \/ size >= cfg.threshold)
        wrote  == call_write(s)
        sent   == IF size = 0 \/ ~Has(s, "WR_PAUSED") THEN s
                  ELSE IF ~direct THEN schedule_write(s)
                  ELSE IF Has(wrote, "WR_PAUSED") THEN Remove(wrote, {"WR_SEND_OP"})
                  ELSE schedule_write(wrote)
    IN  IF ~Has(sent, "DSP_W_BACKPRESSURE") /\ size >= WriteHigh
        THEN wake_dispatch_task(Insert(sent, {"DSP_W_BACKPRESSURE"}))
        ELSE sent

\* Mutant: what a direct write left behind is handed to nobody.
ops_send_buf_once(s) ==
    IF ~Has(s, "WR_SEND_OP") THEN s
    ELSE LET cleared == Remove(s, {"WR_SEND_OP"})
         IN  IF ~Has(s, "WR_PAUSED") THEN wake_write_task(cleared)
             ELSE call_write(cleared)

ops_send_buf(s) ==
    IF ~Has(s, "WR_SEND_OP") THEN s
    ELSE LET cleared == Remove(s, {"WR_SEND_OP"})
             wrote   == call_write(cleared)
         IN  IF ~Has(s, "WR_PAUSED") THEN wake_write_task(cleared)
             ELSE IF Has(wrote, "WR_PAUSED") THEN wrote
             ELSE wake_write_task(wrote)

(***************************************************************************)
(* StreamItem::read and IoContext::update_read_status.  What the layer     *)
(* does with the bytes read is f: it passes them up, holds them back,      *)
(* answers with a record of its own, finds the peer's farewell and closes, *)
(* finds a fatal fault (the TLS filter then queues an alert and closes     *)
(* with the reason), or returns an error.                                  *)
(***************************************************************************)
FilterReads ==
    IF cfg.layer THEN {"pass", "hold", "reply", "close", "fatal", "error"} ELSE {"pass"}

process_read_buf(s, n, f) ==
    CASE s.filter_done /\ cfg.layer -> [s EXCEPT !.rraw = @ + n]
      [] f \in {"hold", "error"} -> [s EXCEPT !.rraw = @ + n]
      [] f = "reply" -> [s EXCEPT !.rraw = 0, !.wbuf = @ + 1]
      [] f = "close" -> start_shutdown([s EXCEPT !.rraw = 0])
      [] f = "fatal" -> close_with([s EXCEPT !.rraw = 0, !.wbuf = @ + 1], "tls")
      [] OTHER       -> [s EXCEPT !.rbuf = @ + s.rraw + n, !.rraw = 0]

\* Mutant: new data does not wake the application.
update_read_status_silent(s, n, f) ==
    LET read == process_read_buf(s, n, f)
    IN  IF n = 0 THEN s
        ELSE IF read.rbuf = s.rbuf THEN read
        ELSE Insert(read, {"BUF_R_READY"})

update_read_status(s, n, f) ==
    LET read     == process_read_buf(s, n, f)
        ready    == IF read.rbuf = s.rbuf THEN read
                    ELSE wake_dispatch_task(Insert(read,
                           IF read.rbuf >= ReadHigh
                           THEN {"RD_PAUSED", "BUF_R_READY", "RD_BACKPRESSURE"}
                           ELSE {"BUF_R_READY"}))
        notified == IF Has(ready, "RD_NOTIFY")
                    THEN Insert(wake_dispatch_task(ready), {"RD_NOTIFIED"})
                    ELSE ready
    IN  IF n = 0 THEN s
        ELSE IF f = "error" /\ ~s.filter_done THEN terminate_connection(read, "io")
        ELSE IF read.wbuf = s.wbuf THEN notified
        ELSE consolidate_write_state(process_write_buf(notified), FALSE)

\* The status StreamItem::read returns is IoTaskStatus::Io.
ReadIo(s) == ~is_closed(s) /\ ~is_read_paused_or_backpressure(s)

item_read(s, f) ==
    LET n == Min2(s.inq, Chunk)
    IN  IF "reset" \in s.fault THEN terminate_connection(s, "io")
        ELSE IF n = 0 /\ "eof" \in s.fault THEN terminate_connection(s, "none")
        ELSE update_read_status([s EXCEPT !.inq = @ - n], n, f)

(***************************************************************************)
(* The driver: interest, events and the delayed queue                      *)
(***************************************************************************)
\* StreamItem::arm together with the RD and WR bits its callers maintain.
SetInterest(s, rd, wr, arm) ==
    LET kept == s.item \cap {"DROPPED_PRI", "DROPPED_SEC"}
        want == (IF rd THEN {"RD"} ELSE {}) \cup (IF wr THEN {"WR"} ELSE {})
        held == IF arm
                THEN (IF rd THEN {"ARM_RD"} ELSE {}) \cup (IF wr THEN {"ARM_WR"} ELSE {})
                ELSE s.item \cap {"ARM_RD", "ARM_WR"}
    IN  [s EXCEPT !.item = kept \cup want \cup held]

interest(s, rd, wr, f) ==
    LET taken == [s EXCEPT !.busy = TRUE]
        read  == IF rd /\ "RD" \notin s.item THEN item_read(taken, f) ELSE taken
        rdOn  == rd /\ ("RD" \in s.item \/ ReadIo(read))
        wrote == IF wr /\ "WR" \notin s.item THEN item_write(read) ELSE read
        wrOn  == wr /\ ("WR" \in s.item \/ WriteIo(wrote))
        upd   == rdOn # ("RD" \in s.item) \/ wrOn # ("WR" \in s.item)
    IN  [SetInterest(wrote, rdOn, wrOn, upd) EXCEPT !.busy = FALSE]

\* StreamOpsHandler::event, for readiness ev of the stream's descriptor
event(s, ev, f) ==
    LET taken == [s EXCEPT !.busy = TRUE]
        read  == IF "rd" \in ev THEN item_read(taken, f) ELSE taken
        rdOn  == IF "rd" \in ev THEN ReadIo(read) ELSE "RD" \in s.item
        wrote == IF "wr" \in ev THEN item_write(read) ELSE read
        wrOn  == IF "wr" \in ev THEN WriteIo(wrote) ELSE "WR" \in s.item
        armed == SetInterest(wrote, rdOn, wrOn, "int" \notin ev)
        done  == IF "int" \in ev THEN terminate_connection(armed, "none") ELSE armed
    IN  [done EXCEPT !.busy = FALSE]

drop_stream(s) ==
    LET stopped == IF is_closed(s) THEN s ELSE terminate_connection(s, "none")
    IN  IF "DROPPED_SEC" \in stopped.item
        THEN [stopped EXCEPT !.slot = FALSE]
        ELSE [stopped EXCEPT !.item = @ \cup {"DROPPED_PRI"}]

\* Mutant: the queue is drained of its writes only.
check_delayed_feed_writes(s) ==
    LET taken == [s EXCEPT !.busy = TRUE, !.delayed = @ \ {"Write", "Weak"}]
        wrote == IF "Write" \in s.delayed /\ s.slot /\ ~is_closed(s)
                 THEN item_write(taken) ELSE taken
    IN  [wrote EXCEPT !.busy = FALSE]

\* A second write entry of a stream finds the first one's work done, and a write
\* is skipped once the stream is stopped, so the order of the entries of one
\* stream does not matter.  A write may itself queue the handle's drop.  The task
\* never ends while the slab is taken, so its StreamCtl is never queued.
check_delayed_feed(s) ==
    LET taken   == [s EXCEPT !.busy = TRUE, !.delayed = @ \ {"Write"}]
        wrote   == IF "Write" \in s.delayed /\ s.slot /\ ~is_closed(s)
                   THEN item_write(taken) ELSE taken
        dropped == IF "Weak" \in wrote.delayed
                   THEN drop_weak_stream([wrote EXCEPT !.delayed = @ \ {"Weak"}])
                   ELSE wrote
    IN  [dropped EXCEPT !.busy = FALSE]

(***************************************************************************)
(* IoContext::shutdown_filters.  The shutdown of a layer that is not down  *)
(* yet may fail.                                                           *)
(***************************************************************************)
FilterFails == IF cfg.layer THEN BOOLEAN ELSE {FALSE}

\* Mutant: a queued write is not waited for.
shutdown_filters_early(s, fails) ==
    IF ~is_shutting_down_filters(s) THEN s
    ELSE IF fails /\ ~s.filter_done THEN terminate_connection(process_write_buf(s), "io")
    ELSE LET down  == process_shutdown(s)
             sent  == consolidate_write_state(down, TRUE)
         IN  IF down.filter_done /\ Has(sent, "WR_PAUSED") THEN filters_stopped(sent)
             ELSE [sent EXCEPT !.timer = "armed"]

shutdown_filters(s, fails) ==
    IF ~is_shutting_down_filters(s) THEN s
    ELSE IF fails /\ ~s.filter_done THEN terminate_connection(process_write_buf(s), "io")
    ELSE LET down  == process_shutdown(s)
             sent  == consolidate_write_state(down, TRUE)
             ready == down.filter_done
         IN  IF \/ ready /\ Has(sent, "WR_PAUSED") /\ ~Has(sent, "WR_SEND_OP")
                \/ /\ ~ready
                   /\ \/ Has(sent, "RD_PAUSED")
                      \/ Has(sent, "BUF_R_READY") /\ Has(sent, "RD_BACKPRESSURE")
                \/ sent.timer = "elapsed"
             THEN filters_stopped(sent)
             ELSE [sent EXCEPT !.timer = "armed"]

(***************************************************************************)
(* Actions of the connection's task and of the driver                      *)
(***************************************************************************)
\* One poll of the first loop of `run`.  It ends only once the connection is
\* closed, so the flush that follows it under `!is_stopped()` is never taken.
RunPoll(f, fails) ==
    /\ c.pc = "poll" /\ c.sched
    /\ LET s == shutdown_filters([c EXCEPT !.sched = FALSE], fails)
           r == [s EXCEPT !.read_task = TRUE, !.write_task = TRUE]
       IN  c' = IF is_closed(s) THEN [s EXCEPT !.pc = "closing"]
                ELSE interest(r, \/ Has(s, "IO_STOPPING_FILTERS")
                                 \/ ~is_read_paused_or_backpressure(s),
                              ~Has(s, "WR_PAUSED"), f)
    /\ UNCHANGED <<cfg, app>>

\* The blocking shutdown(2) has returned; the task ends and drops its StreamCtl.
RunDone ==
    /\ c.pc = "closing"
    /\ c' = [drop_stream([c EXCEPT !.pc = "done", !.busy = TRUE]) EXCEPT !.busy = FALSE]
    /\ UNCHANGED <<cfg, app>>

\* What the poller reports for the descriptor, level-triggered.  RDHUP is always
\* in the interest and HUP and ERR cannot be masked; HUP counts as readable and
\* writable too.
Readiness ==
    LET reset == "reset" \in c.fault
    IN  {e \in {"rd", "wr", "int"} :
            CASE e = "rd"  -> reset \/ ("ARM_RD" \in c.item /\ (c.inq > 0 \/ c.fault # {}))
              [] e = "wr"  -> reset \/ ("ARM_WR" \in c.item /\ c.space > 0)
              [] e = "int" -> c.fault # {}}

\* The poller reports the stream, then the driver's turn ends with tick().
Event(f) ==
    /\ c.pc # "done" /\ Readiness # {}
    /\ c' = check_delayed_feed(event(c, Readiness, f))
    /\ UNCHANGED <<cfg, app>>

\* The driver's turn reported another stream only.
OtherEvent ==
    /\ c.delayed # {}
    /\ c' = check_delayed_feed(c)
    /\ UNCHANGED <<cfg, app>>

IopsRun ==
    /\ c.ops
    /\ c' = IF c.registered THEN ops_send_buf([c EXCEPT !.ops = FALSE])
            ELSE [c EXCEPT !.ops = FALSE]
    /\ UNCHANGED <<cfg, app>>

DisconnectTimeout ==
    /\ c.timer = "armed" /\ c.pc = "poll"
    /\ c' = [c EXCEPT !.timer = "elapsed", !.sched = TRUE]
    /\ UNCHANGED <<cfg, app>>

(***************************************************************************)
(* The application task: the operations of Io and IoRef.  An operation     *)
(* that returns Pending leaves the task in one of the Waiting states until *)
(* its waker has been called (or it gives the operation up).               *)
(***************************************************************************)
\* Mutant: reading is resumed without telling the connection task.
update_read_destination_silent(s) ==
    IF Has(s, "RD_BACKPRESSURE") /\ s.rbuf >= ReadHigh THEN s
    ELSE Remove(s, {"BUF_R_READY", "RD_BACKPRESSURE", "RD_PAUSED"})

update_read_destination(s) ==
    IF Has(s, "RD_BACKPRESSURE") /\ s.rbuf >= ReadHigh THEN s
    ELSE LET unset == Remove(s, {"BUF_R_READY", "RD_BACKPRESSURE"})
         IN  IF Has(s, "RD_PAUSED") THEN Remove(wake_read_task(unset), {"RD_PAUSED"})
             ELSE unset

\* Io::poll_read_ready, for a caller that goes on to wait
poll_read_ready(s) ==
    LET restart == IF is_read_paused_or_backpressure(s)
                   THEN wake_read_task(Remove(s, {"BUF_R_READY", "RD_BACKPRESSURE", "RD_PAUSED"}))
                   ELSE s
    IN  IF is_closed(s) THEN s
        ELSE IF Has(s, "BUF_R_READY") THEN restart
        ELSE register_dispatch(restart)

\* The task is running, or is waiting for this operation and has been woken.
CanPoll(op) == op \in cfg.calls /\ (app = "idle" \/ (app = op /\ c.woken))

\* Operations that never wait may be called from any task that has an IoRef.
CanCall(op) == op \in cfg.calls /\ app # "gone"

Polled == [c EXCEPT !.woken = FALSE]

PollRecv ==
    LET item    == c.rbuf >= ItemLen
        decoded == [Remove(Polled, {"BUF_R_READY"})
                       EXCEPT !.rbuf = IF item THEN @ - ItemLen ELSE @]
        s       == update_read_destination(decoded)
    IN  /\ CanPoll("recv") /\ UNCHANGED cfg
        /\ \/ /\ item \/ Has(s, "IO_STOPPING")
              /\ c' = s /\ app' = "idle"
           \/ /\ ~item /\ ~Has(s, "IO_STOPPING") /\ Has(s, "DSP_TIMEOUT")
              /\ c' = Remove(s, {"DSP_TIMEOUT"}) /\ app' = "idle"
           \/ /\ ~item /\ ~Has(s, "IO_STOPPING") /\ ~Has(s, "DSP_TIMEOUT")
              /\ Has(s, "DSP_W_BACKPRESSURE")
              /\ c' = s /\ app' = "idle"
           \/ /\ ~item /\ s.flags \cap {"IO_STOPPING", "DSP_TIMEOUT", "DSP_W_BACKPRESSURE"} = {}
              /\ c' = poll_read_ready(s) /\ app' = "recv"

PollReadNotify ==
    /\ CanPoll("notify") /\ UNCHANGED cfg
    /\ \/ /\ Has(c, "IO_STOPPING")
          /\ c' = Polled /\ app' = "idle"
       \/ /\ ~Has(c, "IO_STOPPING") /\ Has(c, "RD_NOTIFIED")
          /\ c' = Remove(Polled, {"RD_NOTIFY", "RD_NOTIFIED"}) /\ app' = "idle"
       \/ /\ ~Has(c, "IO_STOPPING") /\ ~Has(c, "RD_NOTIFIED")
          /\ c' = register_dispatch(poll_read_ready(Insert(Polled, {"RD_NOTIFY"})))
          /\ app' = "notify"

pause(s) == IF Has(s, "RD_PAUSED") THEN s ELSE Insert(wake_read_task(s), {"RD_PAUSED"})

\* Io::poll_read_pause: pause() and poll_status_update()
PollReadPause ==
    LET s == register_dispatch(pause(Polled))
    IN  /\ CanPoll("pause") /\ UNCHANGED cfg
        /\ \/ /\ is_closed(s)
              /\ c' = s /\ app' = "idle"
           \/ /\ ~is_closed(s) /\ Has(s, "DSP_TIMEOUT")
              /\ c' = Remove(s, {"DSP_TIMEOUT"}) /\ app' = "idle"
           \/ /\ ~is_closed(s) /\ ~Has(s, "DSP_TIMEOUT") /\ Has(s, "DSP_W_BACKPRESSURE")
              /\ c' = IF write_buf_size(s) <= WriteHalf
                      THEN Remove(s, {"DSP_W_BACKPRESSURE"}) ELSE s
              /\ app' = "idle"
           \/ /\ ~is_closed(s) /\ s.flags \cap {"DSP_TIMEOUT", "DSP_W_BACKPRESSURE"} = {}
              /\ c' = s /\ app' = "pause"

PollFlush(full) ==
    LET op  == IF full THEN "flush" ELSE "flush_part"
        s   == consolidate_write_state(process_write_buf(Polled), FALSE)
        len == write_buf_size(s)
        mark == IF full THEN "WR_FLUSH" ELSE "DSP_W_BACKPRESSURE"
        wait == ~is_closed(s) /\ len > 0 /\ (full \/ len >= WriteHigh)
    IN  /\ CanPoll(op) /\ UNCHANGED cfg
        /\ \/ /\ wait
              /\ c' = register_dispatch(Insert(s, {mark})) /\ app' = op
           \/ /\ ~wait /\ is_closed(s) /\ (len > 0 \/ ~Has(s, "WR_FLUSH"))
              /\ c' = s /\ app' = "idle"
           \/ /\ ~wait /\ ~(is_closed(s) /\ (len > 0 \/ ~Has(s, "WR_FLUSH")))
              /\ c' = Remove(s, {"DSP_W_BACKPRESSURE", "WR_FLUSH"}) /\ app' = "idle"

PollShutdown ==
    /\ CanPoll("shutdown") /\ UNCHANGED cfg
    /\ \/ /\ Has(c, "IO_STOPPING")
          /\ c' = Polled /\ app' = "idle"
       \/ /\ ~Has(c, "IO_STOPPING")
          /\ c' = register_dispatch(wake_read_task(Remove(start_shutdown(Polled),
                      {"BUF_R_READY", "RD_BACKPRESSURE", "RD_PAUSED"})))
          /\ app' = "shutdown"

\* A future that was pending is dropped (a timeout, a select).
Cancel ==
    /\ CanCall("cancel") /\ app \in Waiting
    /\ app' = "idle" /\ UNCHANGED <<cfg, c>>

\* IoRef::with_write_buf: refused from the first step of a shutdown on
Encode(n) ==
    /\ CanCall("encode") /\ n <= c.out_left
    /\ ~is_stopping_any(c)
    /\ c' = consolidate_write_state(
                 [c EXCEPT !.out_left = @ - n,
                           !.wapp = IF cfg.layer THEN @ + n ELSE @,
                           !.wbuf = IF cfg.layer THEN @ ELSE @ + n], FALSE)
    /\ UNCHANGED <<cfg, app>>

SendBuf ==
    LET s == consolidate_write_state(c, TRUE)
    IN  /\ CanCall("send_buf")
        /\ c' = IF is_stopping_any(s) THEN [s EXCEPT !.error = "none"] ELSE s
        /\ UNCHANGED <<cfg, app>>

\* Bytes go to the socket past the write buffer; an error is the caller's.
TryWriteVectored(n) ==
    /\ CanCall("vectored") /\ n <= c.out_left
    /\ ~is_stopping_any(c) /\ write_buf_size(c) = 0 /\ ~cfg.layer /\ c.handle
    /\ c.fault \cap {"reset"} = {}
    /\ LET sent == Min2(Min2(n, c.space), Chunk)
       IN  c' = [c EXCEPT !.out_left = @ - sent, !.space = @ - sent]
    /\ UNCHANGED <<cfg, app>>

Close ==
    /\ CanCall("close")
    /\ c' = start_shutdown(c) /\ UNCHANGED <<cfg, app>>

Terminate ==
    /\ CanCall("terminate")
    /\ c' = terminate_connection(c, "none") /\ UNCHANGED <<cfg, app>>

\* OnDisconnect::new and its first poll
OnDisconnect ==
    /\ CanCall("on_disconnect") /\ c.waiter = "none"
    /\ c' = [c EXCEPT !.waiter = IF Has(c, "IO_STOPPING") THEN "woken" ELSE "waiting"]
    /\ UNCHANGED <<cfg, app>>

\* The timer that start_timer armed
KeepAliveTimeout ==
    /\ CanCall("timer") /\ ~Has(c, "DSP_TIMEOUT")
    /\ c' = notify_timeout(c) /\ UNCHANGED <<cfg, app>>

\* Drop for Io: the connection is terminated and its id given back.
DropIo ==
    /\ CanCall("drop") /\ UNCHANGED cfg
    /\ c' = [terminate_connection(c, "none") EXCEPT !.registered = FALSE, !.woken = FALSE]
    /\ app' = "gone"

(***************************************************************************)
(* The peer and the kernel, and the layer's peer                           *)
(***************************************************************************)
PeerSend ==
    /\ c.in_left > 0 /\ c.fault = {}
    /\ c' = [c EXCEPT !.in_left = @ - 1, !.inq = @ + 1] /\ UNCHANGED <<cfg, app>>

PeerDrain ==
    /\ c.space < SndBuf
    /\ c' = [c EXCEPT !.space = SndBuf] /\ UNCHANGED <<cfg, app>>

PeerFault(x) ==
    /\ c.fault = {}
    /\ c' = [c EXCEPT !.fault = {x}] /\ UNCHANGED <<cfg, app>>

FilterReady ==
    /\ ~c.filter_ready
    /\ c' = wake_read_task([c EXCEPT !.filter_ready = TRUE])
    /\ UNCHANGED <<cfg, app>>

(***************************************************************************)
(* Specification                                                           *)
(***************************************************************************)
Init ==
    /\ cfg \in Configs
    /\ c = [ flags |-> {"WR_PAUSED"} \cup (IF cfg.threshold > 0 THEN {"DIRECT_WR_SUP"} ELSE {}),
             error |-> "none", rbuf |-> 0, rraw |-> 0, wapp |-> 0, wbuf |-> 0,
             read_task |-> FALSE, write_task |-> FALSE, dispatch_task |-> FALSE,
             handle |-> TRUE, registered |-> TRUE, timer |-> "none", waiter |-> "none",
             filter_done |-> FALSE, filter_ready |-> ~cfg.layer,
             ops |-> FALSE, woken |-> FALSE, sched |-> TRUE, pc |-> "poll",
             busy |-> FALSE, slot |-> TRUE, item |-> {}, delayed |-> {},
             inq |-> 0, space |-> SndBuf, in_left |-> cfg.max_in, out_left |-> cfg.max_out,
             fault |-> {} ]
    /\ app = "idle"

Driver ==
    \/ \E f \in FilterReads, fails \in FilterFails : RunPoll(f, fails)
    \/ \E f \in FilterReads : Event(f)
    \/ RunDone \/ OtherEvent \/ IopsRun \/ DisconnectTimeout \/ KeepAliveTimeout

Application ==
    \/ PollRecv \/ PollReadNotify \/ PollReadPause \/ PollShutdown
    \/ \E full \in BOOLEAN : PollFlush(full)
    \/ \E n \in 1 .. cfg.max_out : Encode(n) \/ TryWriteVectored(n)
    \/ SendBuf \/ Close \/ Terminate \/ OnDisconnect \/ DropIo \/ Cancel

Peer == PeerSend \/ PeerDrain \/ FilterReady \/ \E x \in cfg.faults : PeerFault(x)

Next == Driver \/ Application \/ Peer

Spec == Init /\ [][Next]_vars

\* The runtime polls every task that was woken, the poller reports every
\* readiness, queued work runs and timers elapse.  Nothing is assumed of the
\* peer or of what the application decides to do.  Each conjunct is the weak
\* fairness of an action.  Where the action goes through many handlers ENABLED
\* is written out: the guard is when it can take a step that changes the state.
Repoll ==
    /\ app \in Waiting /\ c.woken
    /\ \/ PollRecv \/ PollReadNotify \/ PollReadPause \/ PollShutdown
       \/ \E full \in BOOLEAN : PollFlush(full)

TaskPolled == \E f \in FilterReads, fails \in FilterFails : RunPoll(f, fails)

Reported == Readiness # {} /\ c.pc # "done" /\ ~Has(c, "IO_STOPPED")

Fairness ==
    /\ []<>~(c.pc = "poll" /\ c.sched) \/ []<><<TaskPolled>>_vars
    /\ []<>~Reported \/ []<><<\E f \in FilterReads : Event(f)>>_vars
    /\ WF_vars(RunDone)
    /\ []<>~c.ops \/ []<><<IopsRun>>_vars
    /\ WF_vars(DisconnectTimeout)
    /\ []<>~(app \in Waiting /\ c.woken) \/ []<><<Repoll>>_vars

FairSpec == Spec /\ Fairness

(***************************************************************************)
(* Safety                                                                  *)
(***************************************************************************)

\* No write is stranded: while the connection is not closed and bytes wait in a
\* write buffer, the id is queued with Iops, or the connection task will poll
\* for writing or has the poller report writability.  Bytes are left to the
\* agent that consolidate_write_state, ops_send_buf or update_write_status chose.
WriteNotStranded ==
    write_buf_size(c) > 0 /\ ~is_closed(c) =>
        \/ c.ops /\ Has(c, "WR_SEND_OP")
        \/ ~Has(c, "WR_PAUSED") /\ (c.sched \/ "ARM_WR" \in c.item)

\* No read is stranded: while reading is neither paused nor under back-pressure,
\* the poller reports readability or the connection task is about to run and ask
\* for it, however pause, resume, back-pressure and events interleave.
ReadNotStranded ==
    ~is_closed(c) /\ ~is_read_paused_or_backpressure(c) =>
        c.sched \/ "ARM_RD" \in c.item

\* No lost wake-up of the application: a task that waits and has not been woken
\* has its waker in dispatch_task, and what it waits for has not happened: for
\* poll_flush(true) some bytes are left, for poll_flush(false) more than the low
\* watermark.  The exception is a poll_flush(true) that was given up and left
\* WR_FLUSH behind: update_write_status then wakes the later poll_flush(false)
\* only when nothing is left, although "it wakes when the write buffer size falls
\* below the low-watermark size" (io.rs:605).
AppNotStranded ==
    app \in Waiting /\ ~c.woken =>
        /\ c.dispatch_task /\ ~Has(c, "IO_STOPPING")
        /\ app \in {"recv", "pause"} => ~Has(c, "DSP_TIMEOUT")
        /\ app = "recv" => ~Has(c, "BUF_R_READY") /\ ~is_read_paused_or_backpressure(c)
        /\ app = "notify" => ~Has(c, "RD_NOTIFIED")
        /\ app \in {"flush", "flush_part"} => write_buf_size(c) > 0
        /\ app = "flush_part" => Has(c, "WR_FLUSH") \/ write_buf_size(c) > WriteHalf

\* A slab entry is never used after it is removed and is removed once: while the
\* task runs or IoState holds the handle the entry is there (StreamCtl::interest,
\* Handle::write and Handle::query index the slab unchecked), and each of the two
\* owners is accounted for exactly once as alive, queued in delayed_feed, or
\* marked dropped.
Owned(s) ==
    /\ s.slot =>
        /\ ("DROPPED_PRI" \in s.item) <=> (s.pc = "done")
        /\ s.handle => "Weak" \notin s.delayed /\ "DROPPED_SEC" \notin s.item
        /\ "Weak" \in s.delayed => "DROPPED_SEC" \notin s.item
        /\ s.handle \/ "Weak" \in s.delayed \/ "DROPPED_SEC" \in s.item
    /\ ~s.slot => s.pc = "done" /\ ~s.handle /\ "Weak" \notin s.delayed

SlotOwned == Owned(c)

\* The connection goes through the phases of the abstract connection, and a
\* graceful close hands every accepted byte to the socket before the filters are
\* reported stopped, unless the disconnect timeout elapsed or a filter's shutdown
\* is stalled by unread data.
Phase ==
    IF Has(c, "IO_STOPPED") THEN "terminated"
    ELSE IF Has(c, "IO_STOPPING") THEN "stopped"
    ELSE IF Has(c, "IO_STOPPING_FILTERS") THEN "closing" ELSE "open"

Lifecycle == INSTANCE Connection WITH
    phase <- Phase, pending <- write_buf_size(c), filtered <- cfg.layer,
    excused <- c.timer = "elapsed" \/ ~c.filter_done

ImplementsConnection == Lifecycle!Spec

(***************************************************************************)
(* Liveness                                                                *)
(***************************************************************************)

\* A shutdown that was begun closes the connection, whatever the peer does or
\* does not do and however much is unsent: the disconnect timeout sees to it.
CloseCompletes == Has(c, "IO_STOPPING_FILTERS") ~> is_closed(c)

\* The task of a closed connection ends, and gives up its half of the slab entry.
TaskEnds == is_closed(c) ~> c.pc = "done"

\* If the peer keeps reading, a flush returns.
FlushReturns == WF_vars(PeerDrain) => (app = "flush" ~> app # "flush")

\* Without a layer that may hold them back, bytes that arrive while the
\* application waits in recv reach it.
ReceiveReturns == (app = "recv" /\ c.inq > 0 /\ ~cfg.layer) ~> (app # "recv")

\* Once the Io was dropped and the handle given up, the descriptor is closed: the
\* second owner to go removes the entry, also when its drop had to be queued.  The
\* queue is drained when the driver has an event to handle, of any stream.
DescriptorClosed ==
    WF_vars(OtherEvent) => ((app = "gone" /\ ~c.handle) ~> ~c.slot)

(***************************************************************************)
(* What the repository's comments say and the code does not do             *)
(***************************************************************************)

\* "The `OnDisconnect` future resolves when the I/O stream is disconnected."
DisconnectResolves == (c.waiter = "waiting" /\ is_closed(c)) ~> (c.waiter = "woken")

\* "The first reason stands.": a reason recorded by close_with is not lost.
FirstReasonStands == [][c.error # "none" => c.error' # "none"]_vars
=============================================================================

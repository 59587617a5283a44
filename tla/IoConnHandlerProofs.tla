-------------------------- MODULE IoConnHandlerProofs --------------------------
EXTENDS IoConnProofs

(***************************************************************************)
(* Proofs that nobody is forgotten on a connection: no unsent byte, no     *)
(* wish to read and no waiting application is left without somebody who    *)
(* will see to it, for every configuration and every buffer size.          *)
(*                                                                         *)
(* The argument follows the call graph, as in IoConnProofs.  Tells says    *)
(* what a handler owes to the tasks: a wake-up is never taken back, a      *)
(* registered waker is kept or called, and the application is woken by     *)
(* whatever it may be waiting for.  Handed says who has the unsent bytes.  *)
(***************************************************************************)

\* What an application that waits is woken for, and what it left in the flags.
News == {"IO_STOPPING", "DSP_TIMEOUT", "BUF_R_READY", "RD_PAUSED", "RD_BACKPRESSURE", "RD_NOTIFIED"}
Marks == {"WR_FLUSH", "DSP_W_BACKPRESSURE"}
Interest == {"RD", "WR", "ARM_RD", "ARM_WR"}

\* The id of a connection with a queued write is in Iops::ops.
Queued(s) == s.registered /\ Has(s, "WR_SEND_OP") => s.ops

\* Back-pressure pauses reading.
Together(s) == Has(s, "RD_BACKPRESSURE") => Has(s, "RD_PAUSED")

\* What a handler owes to the connection task and to Iops.
Schedules(s, t) ==
    /\ s.sched => t.sched
    /\ s.sched \/ s.read_task => t.sched \/ t.read_task
    /\ s.sched \/ s.write_task => t.sched \/ t.write_task
    /\ t.registered = s.registered
    /\ Queued(s) => Queued(t)
    /\ Together(s) => Together(t)
    /\ Has(s, "RD_PAUSED") => Has(t, "RD_PAUSED")

\* Most handlers leave what the poller was asked for alone.
Runs(s, t) == Schedules(s, t) /\ \A i \in Interest : i \in t.item <=> i \in s.item

\* More is left to write than the low watermark.
Above(s) == write_buf_size(s) > WriteHalf

\* What a handler owes to the application task.
Informs(s, t) ==
    /\ s.woken => t.woken
    /\ \A f \in Marks : Has(s, f) => Has(t, f)
    /\ s.dispatch_task /\ ~t.woken =>
        /\ t.dispatch_task
        /\ \A f \in News : Has(t, f) => Has(s, f)
        /\ (\E f \in Marks : Has(s, f)) /\ write_buf_size(s) > 0 => write_buf_size(t) > 0
        /\ Has(s, "DSP_W_BACKPRESSURE") /\ Above(s) => Above(t) \/ Has(t, "WR_FLUSH")

Tells(s, t) == Sound(s) => Sound(t) /\ Runs(s, t) /\ Informs(s, t)

\* The connection task, Iops and the poller see no difference.
SameRun(s, t) ==
    /\ t.read_task = s.read_task /\ t.write_task = s.write_task /\ t.sched = s.sched
    /\ t.ops = s.ops /\ t.registered = s.registered /\ t.item = s.item

SameApp(s, t) == t.dispatch_task = s.dispatch_task /\ t.woken = s.woken

\* A handler that calls two others in turn owes what both owe.
LEMMA TellsTransitive ==
    ASSUME NEW s, NEW t, NEW u, Tells(s, t), Tells(t, u)
    PROVE  Tells(s, u)
<1>1. SUFFICES ASSUME Sound(s) PROVE Tells(s, u)
  BY DEF Tells
<1>2. Sound(t) /\ Sound(u) /\ Runs(s, t) /\ Runs(t, u) /\ Informs(s, t) /\ Informs(t, u)
  BY <1>1 DEF Tells
<1>3. Runs(s, u)
  BY <1>2 DEF Runs, Schedules
<1>4. Informs(s, u)
  BY <1>2 DEF Informs, Marks
<1> QED BY <1>2, <1>3, <1>4 DEF Tells

\* An early return owes nothing.
LEMMA TellsItself == ASSUME NEW s PROVE Tells(s, s)
BY DEF Tells, Runs, Schedules, Informs

\* Flags::insert and Flags::remove touch no waker and no queue.
LEMMA FlagsSame ==
    ASSUME NEW s \in IoState, NEW F
    PROVE  /\ SameRun(s, Insert(s, F)) /\ SameApp(s, Insert(s, F))
           /\ SameRun(s, Remove(s, F)) /\ SameApp(s, Remove(s, F))
BY DEF IoState, Insert, Remove, SameRun, SameApp

\* A change of flags that announces nothing and queues nothing is allowed.
LEMMA FlagsTell ==
    ASSUME NEW s, NEW t, Sound(s) => Sound(t) /\ SameRun(s, t) /\ SameApp(s, t),
           Sound(s) => write_buf_size(t) = write_buf_size(s),
           Sound(s) => /\ \A f \in News \cup {"WR_SEND_OP"} : Has(t, f) => Has(s, f)
                       /\ \A f \in Marks \cup {"RD_PAUSED"} : Has(s, f) => Has(t, f)
    PROVE  Tells(s, t)
<1>1. SUFFICES ASSUME Sound(s) PROVE Runs(s, t) /\ Informs(s, t)
  BY DEF Tells
<1>2. Runs(s, t)
  BY <1>1 DEF Runs, Schedules, SameRun, Queued, Together, News
<1>3. Informs(s, t)
  BY <1>1 DEF Informs, Above, SameApp
<1> QED BY <1>2, <1>3

\* News may be announced by a handler that calls the application's waker.
LEMMA AnnounceTells ==
    ASSUME NEW s, NEW t, NEW F, Sound(s) => Sound(t) /\ SameRun(s, t),
           Sound(s) => t.flags = s.flags \cup F /\ t.woken = (s.woken \/ s.dispatch_task),
           "WR_SEND_OP" \notin F, "RD_BACKPRESSURE" \in F => "RD_PAUSED" \in F
    PROVE  Tells(s, t)
<1>1. SUFFICES ASSUME Sound(s) PROVE Runs(s, t) /\ Informs(s, t)
  BY DEF Tells
<1>2. Runs(s, t)
  BY <1>1 DEF Runs, Schedules, SameRun, Queued, Together, Has
<1>3. Informs(s, t)
  BY <1>1, Zenon DEF Informs, Above, Has
<1> QED BY <1>2, <1>3

\* What the three wakers change.
LEMMA WakeFields ==
    ASSUME NEW s \in IoState
    PROVE  /\ SameApp(s, wake_read_task(s)) /\ SameApp(s, wake_write_task(s))
           /\ SameRun(s, wake_dispatch_task(s))
           /\ wake_dispatch_task(s).woken = (s.woken \/ s.dispatch_task)
           /\ ~wake_dispatch_task(s).dispatch_task
           /\ wake_read_task(s).sched = (s.sched \/ s.read_task)
           /\ wake_read_task(s).write_task = s.write_task
           /\ wake_write_task(s).sched = (s.sched \/ s.write_task)
           /\ wake_write_task(s).read_task = s.read_task
           /\ wake_read_task(s).ops = s.ops /\ wake_read_task(s).registered = s.registered
           /\ wake_write_task(s).ops = s.ops /\ wake_write_task(s).registered = s.registered
BY DEF IoState, wake_read_task, wake_write_task, wake_dispatch_task, SameRun, SameApp

\* Calling a waker is allowed at any time.
LEMMA WakeTells ==
    ASSUME NEW s
    PROVE  /\ Tells(s, wake_read_task(s)) /\ Tells(s, wake_write_task(s))
           /\ Tells(s, wake_dispatch_task(s)) /\ Tells(s, notify_disconnect(s))
<1>1. SUFFICES ASSUME Sound(s), s \in IoState
               PROVE  /\ Tells(s, wake_read_task(s)) /\ Tells(s, wake_write_task(s))
                      /\ Tells(s, wake_dispatch_task(s)) /\ Tells(s, notify_disconnect(s))
  BY DEF Tells, Sound
<1>2. ASSUME NEW t, Unmoved(s, t), t.flags = s.flags
      PROVE  Sound(t) /\ write_buf_size(t) = write_buf_size(s) /\ t.item = s.item
  BY <1>1, <1>2 DEF Unmoved, Frame, Sound, Ordered, Has, write_buf_size
<1>3. Tells(s, wake_read_task(s))
  <2> DEFINE t == wake_read_task(s)
  <2>1. Sound(t) /\ write_buf_size(t) = write_buf_size(s) /\ t.item = s.item /\ t.flags = s.flags
    BY <1>1, <1>2, WakeUnmoved
  <2> HIDE DEF t
  <2> QED BY <1>1, <2>1, WakeFields, Zenon DEF t, Tells, Runs, Schedules, Informs, Above, SameApp, Queued, Together, Has
<1>4. Tells(s, wake_write_task(s))
  <2> DEFINE t == wake_write_task(s)
  <2>1. Sound(t) /\ write_buf_size(t) = write_buf_size(s) /\ t.item = s.item /\ t.flags = s.flags
    BY <1>1, <1>2, WakeUnmoved
  <2> HIDE DEF t
  <2> QED BY <1>1, <2>1, WakeFields, Zenon DEF t, Tells, Runs, Schedules, Informs, Above, SameApp, Queued, Together, Has
<1>5. Tells(s, wake_dispatch_task(s))
  <2> DEFINE t == wake_dispatch_task(s)
  <2>1. Sound(t) /\ t.flags = s.flags
    BY <1>1, <1>2, WakeUnmoved
  <2>2. SameRun(s, t) /\ t.woken = (s.woken \/ s.dispatch_task)
    BY <1>1, WakeFields
  <2> HIDE DEF t
  <2>3. Tells(s, t)
    BY <2>1, <2>2, Zenon DEF Tells, Runs, Schedules, Informs, Above, SameRun, Queued, Together, Has
  <2> QED BY <2>3 DEF t
<1>6. Tells(s, notify_disconnect(s))
  <2> DEFINE t == notify_disconnect(s)
  <2>1. Sound(t) /\ write_buf_size(t) = write_buf_size(s) /\ t.flags = s.flags
    BY <1>1, <1>2, WakeUnmoved
  <2>2. SameRun(s, t) /\ SameApp(s, t)
    BY <1>1 DEF IoState, notify_disconnect, SameRun, SameApp
  <2> HIDE DEF t
  <2>3. Tells(s, t)
    BY <2>1, <2>2, FlagsTell DEF Has
  <2> QED BY <2>3 DEF t
<1> QED BY <1>3, <1>4, <1>5, <1>6

\* Dropping the handle concerns neither task.
LEMMA DropHandleTells ==
    ASSUME NEW s, Has(s, "IO_STOPPED") PROVE Tells(s, DropHandle(s))
<1> DEFINE t == DropHandle(s)
<1>1. SUFFICES ASSUME Sound(s), s \in IoState PROVE Tells(s, t)
  BY DEF Tells, Sound
<1>2. Sound(t) /\ t.flags = s.flags /\ write_buf_size(t) = write_buf_size(s)
  BY <1>1, DropHandleKeeps DEF Keeps, Reaches
<1>3. /\ SameApp(s, t) /\ t.read_task = s.read_task /\ t.write_task = s.write_task /\ t.sched = s.sched
      /\ t.ops = s.ops /\ t.registered = s.registered /\ t.item \in {s.item, s.item \cup {"DROPPED_SEC"}}
  BY <1>1 DEF DropHandle, drop_weak_stream, IoState, SameApp
<1> HIDE DEF t
<1> QED BY <1>2, <1>3 DEF Tells, Runs, Schedules, Informs, Above, SameApp, Queued, Together, Has, Interest

\* IoState::terminate_connection tells everybody.
LEMMA TerminateTells ==
    ASSUME NEW s, NEW err \in {"none", "io", "tls"} PROVE Tells(s, terminate_connection(s, err))
<1>1. SUFFICES ASSUME Sound(s), s \in IoState PROVE Tells(s, terminate_connection(s, err))
  BY DEF Tells, Sound
<1>2. CASE Has(s, "IO_STOPPED")
  BY <1>2, TellsItself DEF terminate_connection
<1>3. CASE ~Has(s, "IO_STOPPED")
  <2> DEFINE failed == IF err = "none" THEN s ELSE [s EXCEPT !.error = err]
             ended  == set_terminate(failed)
             rd     == wake_read_task(ended)
             wr     == wake_write_task(rd)
             dsp    == wake_dispatch_task(wr)
             w      == notify_disconnect(dsp)
             ends   == {"IO_STOPPED", "IO_STOPPING", "IO_STOPPING_FILTERS", "BUF_R_READY"}
  <2>1. /\ failed \in IoState /\ failed.flags = s.flags /\ write_buf_size(failed) = write_buf_size(s)
        /\ SameRun(s, failed) /\ SameApp(s, failed)
    BY <1>1 DEF IoState, SameRun, SameApp, write_buf_size
  <2> HIDE DEF failed
  <2>2. /\ ended \in IoState /\ ended.flags = s.flags \cup ends
        /\ SameRun(s, ended) /\ SameApp(s, ended) /\ write_buf_size(ended) = write_buf_size(s)
    <3>1. ends \in SUBSET FlagsKind
      BY DEF FlagsKind
    <3> HIDE DEF ends
    <3>2. ended = Insert(failed, ends)
      BY DEF set_terminate, ends
    <3> HIDE DEF ended
    <3> QED BY <2>1, <3>1, <3>2, FlagsUpdate, FlagsSame
            DEF Unmoved, Frame, SameRun, SameApp, write_buf_size
  <2> HIDE DEF ended
  <2>3. Sound(ended)
    BY <1>1, <2>2 DEF Sound, Ordered, Has
  <2>4. Tells(ended, rd) /\ Tells(rd, wr) /\ Tells(wr, dsp) /\ Tells(dsp, w)
    BY WakeTells
  <2>5. Tells(ended, wr)
    BY <2>4, TellsTransitive
  <2>6. Sound(wr) /\ SameApp(ended, wr) /\ wr.flags = ended.flags
    <3>1. SameApp(ended, rd) /\ rd \in IoState /\ rd.flags = ended.flags
      BY <2>2, <2>3, <2>4, WakeFields, WakeUnmoved DEF Tells, Sound
    <3> HIDE DEF rd
    <3>2. SameApp(rd, wr) /\ wr.flags = rd.flags
      BY <3>1, WakeFields, WakeUnmoved
    <3> QED BY <2>3, <2>5, <3>1, <3>2 DEF Tells, SameApp
  <2> HIDE DEF rd, wr
  <2>7. Sound(dsp) /\ dsp.woken = (s.woken \/ s.dispatch_task) /\ dsp.flags = s.flags \cup ends /\ Runs(wr, dsp)
    BY <2>2, <2>4, <2>6, WakeFields, WakeUnmoved DEF Tells, Sound, SameApp
  <2> HIDE DEF dsp
  <2>8. Runs(s, ended)
    BY <2>2 DEF Runs, Schedules, SameRun, Queued, Together, Has
  <2>9. Runs(s, dsp)
    BY <2>3, <2>5, <2>7, <2>8 DEF Tells, Runs, Schedules
  <2>10. Tells(s, dsp)
    BY <2>7, <2>9, Zenon DEF Tells, Informs, Above, Has
  <2>11. Tells(s, w)
    BY <2>4, <2>10, TellsTransitive
  <2>12. Has(w, "IO_STOPPED")
    BY <2>7, WakeUnmoved DEF Sound, Has
  <2> HIDE DEF w
  <2>13. terminate_connection(s, err) = DropHandle(w)
    BY <1>3 DEF terminate_connection, w, dsp, wr, rd, ended, failed
  <2> QED BY <2>11, <2>12, <2>13, DropHandleTells, TellsTransitive
<1> QED BY <1>2, <1>3

\* IoState::start_shutdown calls the wakers of the connection task.
LEMMA StartShutdownTells == ASSUME NEW s PROVE Tells(s, start_shutdown(s))
<1> DEFINE x == Insert(s, {"IO_STOPPING_FILTERS"})
<1>1. s \in IoState => /\ x \in IoState /\ x.flags = s.flags \cup {"IO_STOPPING_FILTERS"}
                      /\ SameRun(s, x) /\ SameApp(s, x) /\ write_buf_size(x) = write_buf_size(s)
  BY FlagsUpdate, FlagsSame DEF FlagsKind, Unmoved, Frame, write_buf_size
<1> HIDE DEF x
<1>2. Sound(s) => Sound(x)
  BY <1>1 DEF Sound, Ordered, Has
<1>3. Tells(s, x)
  BY <1>1, <1>2, FlagsTell DEF Sound, Has, News, Marks
<1>4. Tells(s, wake_write_task(wake_read_task(x)))
  BY <1>3, WakeTells, TellsTransitive
<1> QED BY <1>4, TellsItself DEF start_shutdown, x

\* IoRef::close_with does too.
LEMMA CloseWithTells ==
    ASSUME NEW s, NEW err \in {"none", "io", "tls"} PROVE Tells(s, close_with(s, err))
<1> DEFINE x == [s EXCEPT !.error = IF @ = "none" THEN err ELSE "none"]
<1>1. s \in IoState => /\ x \in IoState /\ x.flags = s.flags
                      /\ SameRun(s, x) /\ SameApp(s, x) /\ write_buf_size(x) = write_buf_size(s)
  BY DEF IoState, SameRun, SameApp, write_buf_size
<1> HIDE DEF x
<1>2. Tells(s, x)
  BY <1>1, FlagsTell DEF Sound, Ordered, Has
<1>3. Tells(x, start_shutdown(x))
  BY StartShutdownTells
<1> QED BY <1>2, <1>3, TellsTransitive DEF close_with, x

\* Stack::process_write_buf concerns nobody.
LEMMA ProcessWriteTells == ASSUME NEW s PROVE Tells(s, process_write_buf(s))
<1> DEFINE t == process_write_buf(s)
<1>1. Sound(s) => Sound(t) /\ t.flags = s.flags /\ write_buf_size(t) = write_buf_size(s)
  BY ProcessWriteKeeps DEF Keeps, Reaches, Sound
<1>2. s \in IoState => SameRun(s, t) /\ SameApp(s, t)
  BY DEF IoState, process_write_buf, SameRun, SameApp
<1> HIDE DEF t
<1>3. Tells(s, t)
  BY <1>1, <1>2, FlagsTell DEF Sound, Has
<1> QED BY <1>3 DEF t

\* IoContext::update_write_status wakes an application that waits for an empty buffer, and
\* one that waits for the low watermark unless a full flush is marked.
LEMMA WriteStatusTells ==
    ASSUME NEW s
    PROVE  /\ Tells(s, update_write_status(s))
           /\ Sound(s) =>
                /\ write_buf_size(update_write_status(s)) = write_buf_size(s)
                /\ write_buf_size(s) = 0 /\ s.dispatch_task /\ (\E f \in Marks : Has(s, f))
                     => update_write_status(s).woken
                /\ ~Above(s) /\ s.dispatch_task /\ Has(s, "DSP_W_BACKPRESSURE") /\ ~Has(s, "WR_FLUSH")
                     => update_write_status(s).woken
<1>1. SUFFICES ASSUME Sound(s), s \in IoState
               PROVE  /\ Tells(s, update_write_status(s))
                      /\ write_buf_size(update_write_status(s)) = write_buf_size(s)
                      /\ write_buf_size(s) = 0 /\ s.dispatch_task /\ (\E f \in Marks : Has(s, f))
                           => update_write_status(s).woken
                      /\ ~Above(s) /\ s.dispatch_task /\ Has(s, "DSP_W_BACKPRESSURE") /\ ~Has(s, "WR_FLUSH")
                           => update_write_status(s).woken
  BY DEF Tells, Sound
<1> DEFINE len   == write_buf_size(s)
           due   == \/ Has(s, "WR_FLUSH") /\ len = 0
                    \/ /\ ~Has(s, "WR_FLUSH")
                       /\ Has(s, "DSP_W_BACKPRESSURE")
                       /\ len <= WriteHalf
           awake == IF due THEN wake_dispatch_task(s) ELSE s
           going == Remove(awake, {"WR_PAUSED"})
           empty == Insert(awake, {"WR_PAUSED"})
           t     == update_write_status(s)
<1>2. Tells(s, awake) /\ write_buf_size(awake) = len /\ awake.flags = s.flags
  <2>1. write_buf_size(wake_dispatch_task(s)) = len /\ wake_dispatch_task(s).flags = s.flags
    BY <1>1, WakeUnmoved DEF Unmoved, write_buf_size
  <2>2. Tells(s, s) /\ Tells(s, wake_dispatch_task(s))
    BY WakeTells, TellsItself
  <2> QED BY <2>1, <2>2
<1>3. /\ len = 0 /\ s.dispatch_task /\ (\E f \in Marks : Has(s, f)) => awake.woken
      /\ ~Above(s) /\ s.dispatch_task /\ Has(s, "DSP_W_BACKPRESSURE") /\ ~Has(s, "WR_FLUSH") => awake.woken
  <2>1. len = 0 /\ (\E f \in Marks : Has(s, f)) => due
    BY SizesAssumption DEF Marks
  <2>2. len \in Nat
    BY <1>1, Sizes
  <2>3. ~Above(s) /\ Has(s, "DSP_W_BACKPRESSURE") /\ ~Has(s, "WR_FLUSH") => due
    BY <2>2, SizesAssumption DEF Above
  <2> HIDE DEF due
  <2> QED BY <1>1, <2>1, <2>3, WakeFields, Zenon
<1>4. t = IF is_closed(awake) THEN awake
          ELSE IF len > 0 THEN going
          ELSE IF Has(s, "IO_STOPPING_FILTERS") THEN wake_read_task(empty) ELSE empty
  BY DEF update_write_status
<1> HIDE DEF awake, t
<1>5. Sound(awake) /\ awake \in IoState
  BY <1>1, <1>2 DEF Tells, Sound
<1>6. /\ Unmoved(awake, going) /\ SameRun(awake, going) /\ SameApp(awake, going)
      /\ Unmoved(awake, empty) /\ SameRun(awake, empty) /\ SameApp(awake, empty)
      /\ going.flags = s.flags \ {"WR_PAUSED"} /\ empty.flags = s.flags \cup {"WR_PAUSED"}
  BY <1>2, <1>5, FlagsUpdate, FlagsSame DEF FlagsKind
<1> HIDE DEF going, empty
<1>7. Sound(going) /\ write_buf_size(going) = len /\ Sound(empty) /\ write_buf_size(empty) = len
  BY <1>1, <1>2, <1>5, <1>6 DEF Unmoved, Frame, Sound, Ordered, Has, write_buf_size
<1>8. Tells(awake, going)
  BY <1>2, <1>6, <1>7, FlagsTell DEF Has, News, Marks
<1>9. Tells(awake, empty)
  BY <1>2, <1>6, <1>7, FlagsTell DEF Has, News, Marks
<1>10. Tells(empty, wake_read_task(empty)) /\ write_buf_size(wake_read_task(empty)) = len
  <2>1. Unmoved(empty, wake_read_task(empty))
    BY <1>7, WakeUnmoved DEF Sound
  <2> QED BY <1>7, <2>1, WakeTells DEF Unmoved, write_buf_size
<1>11. Tells(awake, t) /\ write_buf_size(t) = len
  BY <1>2, <1>4, <1>7, <1>8, <1>9, <1>10, TellsTransitive, TellsItself
<1>12. awake.woken => t.woken
  BY <1>5, <1>11 DEF Tells, Informs
<1>13. Tells(s, t)
  BY <1>2, <1>11, TellsTransitive
<1> QED BY <1>3, <1>11, <1>12, <1>13 DEF t

\* StreamItem::write wakes the application when it sent the last byte.
LEMMA ItemWriteTells == ASSUME NEW s PROVE Tells(s, item_write(s))
<1> DEFINE p == process_write_buf(s)
           n == Min2(Min2(p.wbuf, p.space), Chunk)
           x == [p EXCEPT !.wbuf = @ - n, !.space = @ - n]
           t == update_write_status(x)
<1>1. Tells(s, p)
  BY ProcessWriteTells
<1> HIDE DEF p
<1>2. CASE p.wbuf > 0 /\ "reset" \in p.fault
  BY <1>1, <1>2, TerminateTells, TellsTransitive DEF item_write, p
<1>3. CASE ~(p.wbuf > 0 /\ "reset" \in p.fault)
  <2>1. item_write(s) = t
    BY <1>3 DEF item_write, p
  <2>2. SUFFICES ASSUME Sound(p), p \in IoState PROVE Tells(p, t)
    BY <1>1, <2>1, TellsTransitive DEF Tells, Sound
  <2>3. p.wbuf \in Nat /\ p.space \in Nat /\ p.wapp \in Nat
    BY <2>2, Sizes
  <2>4. n \in Nat /\ p.wbuf - n \in Nat /\ p.space - n \in Nat
    BY <2>3, SizesAssumption, SMTT(30) DEF Min2
  <2> HIDE DEF n
  <2>5. x \in IoState
    <3>1. ASSUME NEW a \in Nat, NEW b \in Nat PROVE [p EXCEPT !.wbuf = a, !.space = b] \in IoState
      BY <2>2, <3>1, ZenonT(60) DEF IoState
    <3> QED BY <2>4, <3>1, Zenon
  <2>6. x.flags = p.flags /\ SameRun(p, x) /\ SameApp(p, x)
    BY <2>2 DEF SameRun, SameApp, IoState
  <2> HIDE DEF x
  <2>7. Sound(x)
    BY <2>2, <2>5, <2>6 DEF Sound, Ordered, Has
  <2>8. write_buf_size(x) \in Nat
    BY <2>5, Sizes
  <2>9. /\ Tells(x, t) /\ write_buf_size(t) = write_buf_size(x)
        /\ write_buf_size(x) = 0 /\ x.dispatch_task /\ (\E f \in Marks : Has(x, f)) => t.woken
        /\ ~Above(x) /\ x.dispatch_task /\ Has(x, "DSP_W_BACKPRESSURE") /\ ~Has(x, "WR_FLUSH") => t.woken
    BY <2>7, WriteStatusTells
  <2> HIDE DEF t
  <2>10. Sound(t) /\ Runs(x, t) /\ Informs(x, t)
    BY <2>7, <2>9 DEF Tells
  <2>11. Runs(p, t)
    BY <2>6, <2>10 DEF Runs, Schedules, SameRun, Queued, Together, Has
  <2>12. /\ p.woken => t.woken
         /\ \A f \in Marks : Has(p, f) => Has(t, f)
    BY <2>6, <2>10 DEF Informs, SameApp, Has
  <2>13. p.dispatch_task /\ ~t.woken /\ Has(p, "DSP_W_BACKPRESSURE") => Above(t) \/ Has(t, "WR_FLUSH")
    <3>1. Above(x) => Above(t)
      BY <2>9 DEF Above
    <3> QED BY <2>6, <2>9, <2>12, <3>1 DEF SameApp, Has, Marks
  <2>14. Informs(p, t)
    BY <2>6, <2>8, <2>9, <2>10, <2>12, <2>13 DEF Informs, SameApp, Has
  <2> QED BY <2>10, <2>11, <2>14 DEF Tells
<1> QED BY <1>2, <1>3

\* Fields that neither task sees may change.
LEMMA HiddenTells ==
    ASSUME NEW s, NEW t, Sound(s) => /\ t \in IoState /\ t.flags = s.flags /\ t.wapp = s.wapp /\ t.wbuf = s.wbuf
                                     /\ SameRun(s, t) /\ SameApp(s, t)
    PROVE  Tells(s, t)
<1>1. Sound(s) => Sound(t) /\ write_buf_size(t) = write_buf_size(s)
  BY DEF Sound, Ordered, Has, write_buf_size
<1> QED BY <1>1, FlagsTell DEF Has

\* Taking the slab and giving it back concerns nobody.
LEMMA BusyTells ==
    ASSUME NEW s, NEW u, Tells([s EXCEPT !.busy = TRUE], u)
    PROVE  Tells(s, [u EXCEPT !.busy = FALSE])
<1> DEFINE b == [s EXCEPT !.busy = TRUE]
           t == [u EXCEPT !.busy = FALSE]
<1>1. Sound(s) => /\ b \in IoState /\ b.flags = s.flags /\ b.wapp = s.wapp /\ b.wbuf = s.wbuf
                  /\ SameRun(s, b) /\ SameApp(s, b)
  BY ZenonT(60) DEF Sound, IoState, SameRun, SameApp
<1>2. Sound(u) => /\ t \in IoState /\ t.flags = u.flags /\ t.wapp = u.wapp /\ t.wbuf = u.wbuf
                  /\ SameRun(u, t) /\ SameApp(u, t)
  BY ZenonT(60) DEF Sound, IoState, SameRun, SameApp
<1>3. Tells(b, u)
  OBVIOUS
<1> HIDE DEF b, t
<1>4. Tells(s, b) /\ Tells(u, t)
  BY <1>1, <1>2, HiddenTells
<1>5. Tells(s, t)
  BY <1>3, <1>4, TellsTransitive
<1> QED BY <1>5 DEF t

\* WeakStreamCtl::write, done at once or queued.
LEMMA WriteStreamTells == ASSUME NEW s PROVE Tells(s, write_stream(s))
<1>1. CASE s.busy
  <2> DEFINE t == [s EXCEPT !.delayed = s.delayed \cup {"Write"}]
  <2>1. write_stream(s) = t
    BY <1>1 DEF write_stream
  <2>2. Sound(s) => /\ t \in IoState /\ t.flags = s.flags /\ t.wapp = s.wapp /\ t.wbuf = s.wbuf
                    /\ SameRun(s, t) /\ SameApp(s, t)
    <3>1. Sound(s) => s.delayed \cup {"Write"} \in SUBSET IdType
      BY DEF Sound, IoState, IdType
    <3> QED BY <3>1 DEF Sound, IoState, SameRun, SameApp
  <2> HIDE DEF t
  <2> QED BY <2>1, <2>2, HiddenTells
<1>2. CASE ~s.busy /\ s.slot
  BY <1>2, BusyTells, ItemWriteTells, Zenon DEF write_stream
<1>3. CASE ~s.busy /\ ~s.slot
  BY <1>3, TellsItself DEF write_stream
<1> QED BY <1>1, <1>2, <1>3

\* IoRef::call_write: taking the handle out and putting it back concerns nobody.
LEMMA CallWriteTells == ASSUME NEW s PROVE Tells(s, call_write(s))
<1>1. SUFFICES ASSUME Sound(s), s \in IoState PROVE Tells(s, call_write(s))
  BY DEF Tells, Sound
<1>2. CASE ~s.handle
  BY <1>2, TellsItself DEF call_write
<1>3. CASE s.handle
  <2> DEFINE x == Remove(s, {"WR_PAUSED"})
             y == [x EXCEPT !.handle = FALSE]
             w == write_stream(y)
             t == [w EXCEPT !.handle = TRUE]
  <2>1. /\ Unmoved(s, x) /\ x.flags = s.flags \ {"WR_PAUSED"} /\ SameRun(s, x) /\ SameApp(s, x)
    BY <1>1, FlagsUpdate, FlagsSame DEF FlagsKind
  <2> HIDE DEF x
  <2>2. Sound(x) /\ write_buf_size(x) = write_buf_size(s)
    BY <1>1, <2>1 DEF Unmoved, Frame, Sound, Ordered, Has, write_buf_size
  <2>3. Tells(s, x)
    BY <2>1, <2>2, FlagsTell DEF Has, News, Marks
  <2>4. /\ y \in IoState /\ y.flags = x.flags /\ y.wapp = x.wapp /\ y.wbuf = x.wbuf
        /\ SameRun(x, y) /\ SameApp(x, y)
    BY <2>2, ZenonT(60) DEF Sound, IoState, SameRun, SameApp
  <2>5. Tells(y, w)
    BY WriteStreamTells
  <2> HIDE DEF w
  <2>6. Sound(w) => /\ t \in IoState /\ t.flags = w.flags /\ t.wapp = w.wapp /\ t.wbuf = w.wbuf
                    /\ SameRun(w, t) /\ SameApp(w, t)
    BY ZenonT(60) DEF Sound, IoState, SameRun, SameApp
  <2>7. call_write(s) = t
    BY <1>3 DEF call_write, x, w
  <2> HIDE DEF t, y
  <2>8. Tells(x, y) /\ Tells(w, t)
    BY <2>4, <2>6, HiddenTells
  <2> QED BY <2>3, <2>5, <2>7, <2>8, TellsTransitive
<1> QED BY <1>2, <1>3

\* Iops::schedule_write queues the id of a registered connection.
LEMMA ScheduleWriteTells == ASSUME NEW s PROVE Tells(s, schedule_write(s))
<1> DEFINE x == Insert(s, {"WR_SEND_OP"})
           t == [x EXCEPT !.ops = @ \/ s.registered]
<1>1. SUFFICES ASSUME Sound(s), s \in IoState, ~Has(s, "WR_SEND_OP") PROVE Tells(s, t)
  BY TellsItself DEF Tells, Sound, schedule_write
<1>2. /\ Unmoved(s, x) /\ x.flags = s.flags \cup {"WR_SEND_OP"} /\ SameRun(s, x) /\ SameApp(s, x)
  BY <1>1, FlagsUpdate, FlagsSame DEF FlagsKind
<1> HIDE DEF x
<1>3. x \in IoState
  BY <1>2 DEF Unmoved, Frame
<1>4. /\ t \in IoState /\ t.flags = x.flags /\ t.wapp = x.wapp /\ t.wbuf = x.wbuf /\ SameApp(x, t)
      /\ t.read_task = x.read_task /\ t.write_task = x.write_task /\ t.sched = x.sched
      /\ t.registered = x.registered /\ t.item = x.item /\ (s.registered => t.ops)
  BY <1>3, ZenonT(60) DEF IoState, SameApp
<1> HIDE DEF t
<1>5. Sound(t) /\ write_buf_size(t) = write_buf_size(s)
  BY <1>1, <1>2, <1>4 DEF Unmoved, Sound, Ordered, Has, write_buf_size
<1>6. Runs(s, t)
  BY <1>2, <1>4 DEF Runs, Schedules, SameRun, Queued, Together, Has
<1>7. Informs(s, t)
  BY <1>2, <1>4, <1>5 DEF Informs, Above, SameApp, Has, News
<1> QED BY <1>5, <1>6, <1>7 DEF Tells

\* A queued write may be marked done.
LEMMA SendOpTells == ASSUME NEW s PROVE Tells(s, Remove(s, {"WR_SEND_OP"}))
<1> DEFINE t == Remove(s, {"WR_SEND_OP"})
<1>1. Sound(s) => /\ Unmoved(s, t) /\ t.flags = s.flags \ {"WR_SEND_OP"} /\ SameRun(s, t) /\ SameApp(s, t)
  BY FlagsUpdate, FlagsSame DEF Sound, FlagsKind
<1> HIDE DEF t
<1>2. Sound(s) => Sound(t) /\ write_buf_size(t) = write_buf_size(s)
  BY <1>1 DEF Unmoved, Frame, Sound, Ordered, Has, write_buf_size
<1>3. Tells(s, t)
  BY <1>1, <1>2, FlagsTell DEF Has, News, Marks
<1> QED BY <1>3 DEF t

\* Who has the bytes of an open connection that are not sent: Iops, or the
\* connection task (b says that it will look); nobody has to when there are none.
Handed(s, b) ==
    \/ is_closed(s) \/ Has(s, "WR_SEND_OP")
    \/ IF Has(s, "WR_PAUSED") THEN write_buf_size(s) = 0 ELSE b

\* Writing is paused, so that whoever adds bytes hands them over, or they are had.
Looked(s, b) == is_closed(s) \/ Has(s, "WR_SEND_OP") \/ Has(s, "WR_PAUSED") \/ b

\* IoRef::consolidate_write_state hands the bytes to Iops, to the driver or to the
\* connection task.
LEMMA ConsolidateTells ==
    ASSUME NEW s, NEW force
    PROVE  /\ Tells(s, consolidate_write_state(s, force))
           /\ Sound(s) /\ HandleOk(s) =>
                \A b : Looked(s, b) => Handed(consolidate_write_state(s, force), b)
<1> DEFINE size   == write_buf_size(s)
           direct == Has(s, "DIRECT_WR_SUP") /\ (force \/ size >= cfg.threshold)
           wrote  == call_write(s)
           sent   == IF size = 0 \/ ~Has(s, "WR_PAUSED") THEN s
                     ELSE IF ~direct THEN schedule_write(s)
                     ELSE IF Has(wrote, "WR_PAUSED") THEN Remove(wrote, {"WR_SEND_OP"})
                     ELSE schedule_write(wrote)
           x      == Insert(sent, {"DSP_W_BACKPRESSURE"})
           marked == wake_dispatch_task(x)
           t      == consolidate_write_state(s, force)
<1>1. SUFFICES ASSUME Sound(s), s \in IoState
               PROVE  Tells(s, t) /\ (HandleOk(s) => \A b : Looked(s, b) => Handed(t, b))
  BY DEF Tells, Sound
<1>2. t = IF ~Has(sent, "DSP_W_BACKPRESSURE") /\ size >= WriteHigh THEN marked ELSE sent
  BY DEF consolidate_write_state
<1> HIDE DEF direct
<1>3. Tells(s, wrote)
  BY CallWriteTells
<1>4. wrote \in IoState
  BY <1>1, <1>3 DEF Tells, Sound
<1>5. Has(wrote, "WR_PAUSED") => Has(Remove(wrote, {"WR_SEND_OP"}), "WR_PAUSED")
  BY <1>4, FlagsUpdate DEF FlagsKind, Has
<1> HIDE DEF wrote
<1>6. Tells(s, sent)
  BY <1>3, ScheduleWriteTells, SendOpTells, TellsTransitive, TellsItself
<1>7. sent = s \/ Has(sent, "WR_SEND_OP") \/ Has(sent, "WR_PAUSED")
  BY <1>1, <1>4, <1>5, ScheduleWriteKeeps
<1> HIDE DEF sent
<1>8. Sound(sent) /\ sent \in IoState
  BY <1>1, <1>6 DEF Tells, Sound
<1>9. /\ Unmoved(sent, x) /\ x.flags = sent.flags \cup {"DSP_W_BACKPRESSURE"}
      /\ SameRun(sent, x) /\ SameApp(sent, x)
  BY <1>8, FlagsUpdate, FlagsSame DEF FlagsKind
<1> HIDE DEF x
<1>10. /\ Unmoved(x, marked) /\ marked.flags = x.flags /\ SameRun(x, marked)
       /\ marked.woken = (x.woken \/ x.dispatch_task)
  BY <1>9, WakeFields, WakeUnmoved, ZenonT(60) DEF Unmoved, Frame
<1> HIDE DEF marked
<1>11. /\ marked \in IoState /\ marked.flags = sent.flags \cup {"DSP_W_BACKPRESSURE"} /\ SameRun(sent, marked)
       /\ marked.woken = (sent.woken \/ sent.dispatch_task)
  BY <1>9, <1>10 DEF Unmoved, Frame, SameRun, SameApp
<1>12. Sound(marked)
  BY <1>8, <1>11 DEF Sound, Ordered, Has
<1>13. Tells(sent, marked)
  <2> DEFINE F == {"DSP_W_BACKPRESSURE"}
  <2>1. marked.flags = sent.flags \cup F /\ "WR_SEND_OP" \notin F /\ "RD_BACKPRESSURE" \notin F
    BY <1>11
  <2> HIDE DEF F
  <2> QED BY <1>11, <1>12, <2>1, AnnounceTells
<1>14. Tells(s, t)
  BY <1>2, <1>6, <1>13, TellsTransitive
<1>15. ASSUME HandleOk(s), NEW b, Looked(s, b), ~is_closed(t) PROVE Handed(t, b)
  <2>1. \A f \in Stops : Has(s, f) => Has(t, f)
    BY <1>1, ConsolidateKeeps DEF Keeps, Reaches
  <2>2. ~is_closed(s) /\ s.handle
    BY <1>15, <2>1 DEF is_closed, Stops, HandleOk
  <2>3. Has(t, "WR_PAUSED") /\ ~Has(t, "WR_SEND_OP") => write_buf_size(t) = 0
    BY <1>1, <2>2, ConsolidateKeeps
  <2>4. /\ Has(sent, "WR_SEND_OP") => Has(t, "WR_SEND_OP")
        /\ Has(sent, "WR_PAUSED") => Has(t, "WR_PAUSED")
    BY <1>2, <1>11 DEF Has
  <2> HIDE DEF t
  <2> QED BY <1>7, <1>15, <2>2, <2>3, <2>4 DEF Handed, Looked
<1>16. ASSUME HandleOk(s), NEW b, Looked(s, b) PROVE Handed(t, b)
  BY <1>15, <1>16 DEF Handed
<1> QED BY <1>14, <1>16

\* IoRef::ops_send_buf takes a queued write over, or gives it to the connection task.
LEMMA OpsSendTells ==
    ASSUME NEW s
    PROVE  /\ Tells(s, ops_send_buf(s))
           /\ Sound(s) /\ HandleOk(s) /\ (s.sched \/ s.write_task) =>
                \A b : Handed(s, b) => Handed(ops_send_buf(s), b \/ ops_send_buf(s).sched)
<1> DEFINE x == Remove(s, {"WR_SEND_OP"})
           w == call_write(x)
           t == ops_send_buf(s)
<1>1. SUFFICES ASSUME Sound(s), s \in IoState
               PROVE  /\ Tells(s, t)
                      /\ HandleOk(s) /\ (s.sched \/ s.write_task) =>
                           \A b : Handed(s, b) => Handed(t, b \/ t.sched)
  BY DEF Tells, Sound
<1>2. CASE ~Has(s, "WR_SEND_OP")
  <2>1. t = s
    BY <1>2 DEF ops_send_buf
  <2> HIDE DEF t
  <2> QED BY <2>1, TellsItself DEF Handed
<1>3. CASE Has(s, "WR_SEND_OP")
  <2>1. t = IF ~Has(s, "WR_PAUSED") THEN wake_write_task(x)
            ELSE IF Has(w, "WR_PAUSED") THEN w ELSE wake_write_task(w)
    BY <1>3 DEF ops_send_buf
  <2>2. Tells(s, x) /\ Unmoved(s, x) /\ x.flags = s.flags \ {"WR_SEND_OP"}
    BY <1>1, SendOpTells, FlagsUpdate DEF FlagsKind
  <2> HIDE DEF x, t
  <2>3. Tells(x, w) /\ Tells(x, wake_write_task(x))
    BY CallWriteTells, WakeTells
  <2>4. Sound(x) /\ x \in IoState
    BY <1>1, <2>2 DEF Tells, Sound
  <2>5. Keeps(x, w) /\ (x.handle /\ Has(w, "WR_PAUSED") => write_buf_size(w) = 0)
    BY <2>4, CallWriteKeeps
  <2> HIDE DEF w
  <2>6. Tells(w, wake_write_task(w))
    BY WakeTells
  <2>7. Tells(s, t)
    BY <2>1, <2>2, <2>3, <2>6, TellsTransitive
  <2>8. w \in IoState /\ Runs(s, x) /\ Runs(x, w)
    BY <1>1, <2>2, <2>3, <2>4, SMTT(30) DEF Tells, Sound
  <2>9. s.sched \/ s.write_task => wake_write_task(x).sched /\ wake_write_task(w).sched
    BY <2>4, <2>8, WakeFields, Zenon DEF Runs, Schedules
  <2>10. ASSUME HandleOk(s), s.sched \/ s.write_task, NEW b PROVE Handed(t, b \/ t.sched)
    <3>1. CASE t = w /\ Has(w, "WR_PAUSED")
      <4>1. ~x.handle => is_closed(w)
        <5>1. ~x.handle => Has(x, "IO_STOPPED")
          BY <2>2, <2>10 DEF HandleOk, Unmoved, Frame, Has
        <5> QED BY <2>4, <2>5, <5>1 DEF Keeps, Reaches, Stops, is_closed
      <4> QED BY <2>5, <3>1, <4>1 DEF Handed
    <3>2. CASE t = wake_write_task(w) /\ ~Has(w, "WR_PAUSED")
      <4>1. ~Has(t, "WR_PAUSED")
        BY <2>8, <3>2, WakeUnmoved DEF Has
      <4> QED BY <2>9, <2>10, <3>2, <4>1 DEF Handed
    <3>3. CASE t = wake_write_task(x) /\ ~Has(s, "WR_PAUSED")
      <4>1. ~Has(t, "WR_PAUSED")
        BY <2>2, <2>4, <3>3, WakeUnmoved DEF Has
      <4> QED BY <2>9, <2>10, <3>3, <4>1 DEF Handed
    <3> QED BY <2>1, <3>1, <3>2, <3>3
  <2> QED BY <2>7, <2>10
<1> QED BY <1>2, <1>3

\* What IoContext::update_write_status does to the flags of writing.
LEMMA WriteStatusFlags ==
    ASSUME NEW s, Sound(s)
    PROVE  LET t == update_write_status(s)
           IN  /\ ~is_closed(t) => (Has(t, "WR_PAUSED") <=> write_buf_size(s) = 0)
               /\ Has(t, "WR_SEND_OP") <=> Has(s, "WR_SEND_OP")
<1> DEFINE len   == write_buf_size(s)
           due   == \/ Has(s, "WR_FLUSH") /\ len = 0
                    \/ /\ ~Has(s, "WR_FLUSH")
                       /\ Has(s, "DSP_W_BACKPRESSURE")
                       /\ len <= WriteHalf
           awake == IF due THEN wake_dispatch_task(s) ELSE s
           empty == Insert(awake, {"WR_PAUSED"})
           t     == update_write_status(s)
<1>1. awake \in IoState /\ awake.flags = s.flags
  BY WakeUnmoved DEF Sound, Unmoved, Frame
<1>2. t = IF is_closed(awake) THEN awake
          ELSE IF len > 0 THEN Remove(awake, {"WR_PAUSED"})
          ELSE IF Has(s, "IO_STOPPING_FILTERS") THEN wake_read_task(empty) ELSE empty
  BY DEF update_write_status
<1> HIDE DEF awake, t
<1>3. /\ Remove(awake, {"WR_PAUSED"}).flags = s.flags \ {"WR_PAUSED"}
      /\ empty \in IoState /\ empty.flags = s.flags \cup {"WR_PAUSED"}
  BY <1>1, FlagsUpdate DEF FlagsKind, Unmoved, Frame
<1> HIDE DEF empty
<1>4. wake_read_task(empty).flags = s.flags \cup {"WR_PAUSED"}
  BY <1>3, WakeUnmoved
<1>5. len \in Nat
  BY Sizes DEF Sound
<1> HIDE DEF len
<1>6. /\ ~is_closed(t) => (Has(t, "WR_PAUSED") <=> len = 0)
      /\ Has(t, "WR_SEND_OP") <=> Has(s, "WR_SEND_OP")
  BY <1>1, <1>2, <1>3, <1>4, <1>5 DEF Has
<1> QED BY <1>6 DEF t, len

\* IoState::terminate_connection takes no queued write back.
LEMMA TerminateFlags ==
    ASSUME NEW s, Sound(s), NEW err \in {"none", "io", "tls"}
    PROVE  is_closed(terminate_connection(s, err))
BY TerminateKeeps DEF is_closed, Sound

\* StreamItem::write pauses writing exactly when nothing is left, and leaves the
\* rest to whoever had it.
LEMMA ItemWriteHands ==
    ASSUME NEW s, Sound(s)
    PROVE  /\ ~is_closed(item_write(s)) =>
                (Has(item_write(s), "WR_PAUSED") <=> write_buf_size(item_write(s)) = 0)
           /\ \A b : Handed(s, b) => Handed(item_write(s), b)
<1> DEFINE p == process_write_buf(s)
           n == Min2(Min2(p.wbuf, p.space), Chunk)
           x == [p EXCEPT !.wbuf = @ - n, !.space = @ - n]
           t == update_write_status(x)
<1>1. Sound(p) /\ p \in IoState /\ p.flags = s.flags /\ write_buf_size(p) = write_buf_size(s)
  BY ProcessWriteKeeps DEF Keeps, Reaches, Sound
<1> HIDE DEF p
<1>2. CASE p.wbuf > 0 /\ "reset" \in p.fault
  <2>1. item_write(s) = terminate_connection(p, "io")
    BY <1>2 DEF item_write, p
  <2>2. is_closed(item_write(s))
    BY <1>1, <2>1, TerminateFlags
  <2> QED BY <2>2 DEF Handed
<1>3. CASE ~(p.wbuf > 0 /\ "reset" \in p.fault)
  <2>1. item_write(s) = t
    BY <1>3 DEF item_write, p
  <2>2. p.wbuf \in Nat /\ p.space \in Nat /\ p.wapp \in Nat
    BY <1>1, Sizes
  <2>3. n \in Nat /\ p.wbuf - n \in Nat /\ p.space - n \in Nat
    BY <2>2, SizesAssumption, SMTT(30) DEF Min2
  <2> HIDE DEF n
  <2>4. x \in IoState
    <3>1. ASSUME NEW a \in Nat, NEW b \in Nat PROVE [p EXCEPT !.wbuf = a, !.space = b] \in IoState
      BY <1>1, <3>1, ZenonT(60) DEF IoState
    <3> QED BY <2>3, <3>1, Zenon
  <2>5. x.flags = p.flags /\ x.wapp = p.wapp /\ x.wbuf = p.wbuf - n
    BY <1>1 DEF IoState
  <2> HIDE DEF x
  <2>6. Sound(x) /\ write_buf_size(x) \in Nat /\ write_buf_size(x) <= write_buf_size(s)
    BY <1>1, <2>2, <2>3, <2>4, <2>5, Sizes DEF Sound, Ordered, Has, write_buf_size
  <2>7. /\ ~is_closed(t) => (Has(t, "WR_PAUSED") <=> write_buf_size(x) = 0)
        /\ Has(t, "WR_SEND_OP") <=> Has(x, "WR_SEND_OP")
    BY <2>6, WriteStatusFlags
  <2>8. write_buf_size(t) = write_buf_size(x) /\ Keeps(x, t)
    BY <2>6, WriteStatusTells, WriteStatusKeeps
  <2> HIDE DEF t
  <2>9. is_closed(x) => is_closed(t)
    BY <2>6, <2>8 DEF Keeps, Reaches, Stops, is_closed
  <2>10. ASSUME NEW b, Handed(s, b) PROVE Handed(t, b)
    BY <1>1, <2>5, <2>6, <2>7, <2>8, <2>9, <2>10 DEF Handed, Has, is_closed
  <2> QED BY <2>1, <2>7, <2>8, <2>10
<1> QED BY <1>2, <1>3

\* What IoState::start_shutdown and IoRef::close_with do to flags and buffers.
LEMMA StartShutdownFlags ==
    ASSUME NEW s \in IoState, NEW err \in {"none", "io", "tls"}, NEW t,
           t \in {start_shutdown(s), close_with(s, err)}
    PROVE  /\ t.flags \in {s.flags, s.flags \cup {"IO_STOPPING_FILTERS"}}
           /\ t.wapp = s.wapp /\ t.wbuf = s.wbuf /\ t.rbuf = s.rbuf /\ t.handle = s.handle
<1>1. ASSUME NEW r \in IoState
      PROVE  /\ start_shutdown(r).flags \in {r.flags, r.flags \cup {"IO_STOPPING_FILTERS"}}
             /\ start_shutdown(r).wapp = r.wapp /\ start_shutdown(r).wbuf = r.wbuf
             /\ start_shutdown(r).rbuf = r.rbuf /\ start_shutdown(r).handle = r.handle
  BY <1>1 DEF start_shutdown, wake_write_task, wake_read_task, Insert, IoState
<1> DEFINE x == [s EXCEPT !.error = IF @ = "none" THEN err ELSE "none"]
<1>2. /\ x \in IoState /\ x.flags = s.flags /\ x.wapp = s.wapp /\ x.wbuf = s.wbuf /\ x.rbuf = s.rbuf
      /\ x.handle = s.handle
  BY DEF IoState
<1>3. close_with(s, err) = start_shutdown(x)
  BY DEF close_with
<1> HIDE DEF x
<1>4. CASE t = start_shutdown(s)
  BY <1>1, <1>4
<1>5. CASE t = close_with(s, err)
  BY <1>1, <1>2, <1>3, <1>5, SMTT(30)
<1> QED BY <1>4, <1>5

\* Stack::process_read_buf concerns nobody, but that a layer may begin a shutdown.
LEMMA ReadBufTells ==
    ASSUME NEW s, NEW n \in Nat, NEW f
    PROVE  LET t == process_read_buf(s, n, f)
           IN  /\ Tells(s, t)
               /\ Sound(s) => /\ t.flags \in {s.flags, s.flags \cup {"IO_STOPPING_FILTERS"}}
                              /\ t.wapp = s.wapp /\ t.handle = s.handle
<1> DEFINE held    == [s EXCEPT !.rraw = @ + n]
           replied == [s EXCEPT !.rraw = 0, !.wbuf = @ + 1]
           passed  == [s EXCEPT !.rbuf = @ + s.rraw + n, !.rraw = 0]
           spent   == [s EXCEPT !.rraw = 0]
           t       == process_read_buf(s, n, f)
<1>1. SUFFICES ASSUME Sound(s), s \in IoState
               PROVE  /\ Tells(s, t)
                      /\ t.flags \in {s.flags, s.flags \cup {"IO_STOPPING_FILTERS"}}
                      /\ t.wapp = s.wapp /\ t.handle = s.handle
  BY DEF Tells, Sound
<1>2. s.rraw \in Nat /\ s.rbuf \in Nat /\ s.wbuf \in Nat /\ s.wapp \in Nat
  BY <1>1 DEF IoState
<1>3. held \in IoState /\ spent \in IoState /\ passed \in IoState /\ replied \in IoState
  <2>1. held \in IoState /\ spent \in IoState
    BY <1>1, <1>2 DEF IoState
  <2>2. ASSUME NEW a \in Nat, NEW b \in Nat
        PROVE  [s EXCEPT !.rbuf = a, !.rraw = b] \in IoState /\ [s EXCEPT !.rraw = a, !.wbuf = b] \in IoState
    <3>1. [s EXCEPT !.rbuf = a, !.rraw = b] \in IoState
      BY <1>1, <2>2, ZenonT(60) DEF IoState
    <3>2. [s EXCEPT !.rraw = a, !.wbuf = b] \in IoState
      BY <1>1, <2>2, ZenonT(60) DEF IoState
    <3> QED BY <3>1, <3>2
  <2>3. s.rbuf + s.rraw + n \in Nat /\ s.wbuf + 1 \in Nat /\ 0 \in Nat
    BY <1>2
  <2>4. passed \in IoState /\ replied \in IoState
    BY <2>2, <2>3, Zenon
  <2> QED BY <2>1, <2>4
<1>4. /\ SameRun(s, held) /\ SameApp(s, held) /\ SameRun(s, spent) /\ SameApp(s, spent)
      /\ SameRun(s, passed) /\ SameApp(s, passed) /\ SameRun(s, replied) /\ SameApp(s, replied)
  BY <1>1 DEF IoState, SameRun, SameApp
<1>5. /\ held.flags = s.flags /\ held.wapp = s.wapp /\ held.wbuf = s.wbuf /\ held.handle = s.handle
      /\ spent.flags = s.flags /\ spent.wapp = s.wapp /\ spent.wbuf = s.wbuf /\ spent.handle = s.handle
      /\ passed.flags = s.flags /\ passed.wapp = s.wapp /\ passed.wbuf = s.wbuf /\ passed.handle = s.handle
      /\ replied.flags = s.flags /\ replied.wapp = s.wapp /\ replied.wbuf = s.wbuf + 1
      /\ replied.handle = s.handle
  BY <1>1 DEF IoState
<1>6. t \in {held, passed, replied, start_shutdown(spent), close_with(replied, "tls")}
  BY DEF process_read_buf
<1> HIDE DEF t, held, passed, spent, replied
<1>7. Tells(s, held) /\ Tells(s, spent) /\ Tells(s, passed)
  BY <1>3, <1>4, <1>5, HiddenTells
<1>8. Tells(s, replied)
  <2>1. Sound(replied) /\ write_buf_size(replied) = write_buf_size(s) + 1 /\ write_buf_size(s) \in Nat
    BY <1>1, <1>2, <1>3, <1>5 DEF Sound, Ordered, Has, write_buf_size
  <2>2. Runs(s, replied)
    BY <1>4, <1>5 DEF Runs, Schedules, SameRun, Queued, Together, Has
  <2>3. Above(s) => Above(replied)
    BY <2>1, SizesAssumption DEF Above
  <2>4. Informs(s, replied)
    BY <1>4, <1>5, <2>1, <2>3 DEF Informs, SameApp, Has
  <2> QED BY <2>1, <2>2, <2>4 DEF Tells
<1>9. Tells(s, start_shutdown(spent)) /\ Tells(s, close_with(replied, "tls"))
  BY <1>7, <1>8, StartShutdownTells, CloseWithTells, TellsTransitive
<1>10. /\ start_shutdown(spent).flags \in {s.flags, s.flags \cup {"IO_STOPPING_FILTERS"}}
       /\ start_shutdown(spent).wapp = s.wapp /\ start_shutdown(spent).handle = s.handle
  BY <1>3, <1>5, StartShutdownFlags
<1>11. /\ close_with(replied, "tls").flags \in {s.flags, s.flags \cup {"IO_STOPPING_FILTERS"}}
       /\ close_with(replied, "tls").wapp = s.wapp /\ close_with(replied, "tls").handle = s.handle
  BY <1>3, <1>5, StartShutdownFlags
<1> QED BY <1>5, <1>6, <1>7, <1>8, <1>9, <1>10, <1>11

\* New data and what else a read may announce are announced to the application.
LEMMA NewsTells ==
    ASSUME NEW s, Sound(s), NEW F \in SUBSET (FlagsKind \ Stops), NEW t,
           t \in {wake_dispatch_task(Insert(s, F)), Insert(wake_dispatch_task(s), F)},
           "WR_SEND_OP" \notin F, "RD_BACKPRESSURE" \in F => "RD_PAUSED" \in F
    PROVE  Tells(s, t) /\ Unmoved(s, t) /\ t.flags = s.flags \cup F
<1> DEFINE i == Insert(s, F)
           w == wake_dispatch_task(s)
<1>1. s \in IoState /\ F \in SUBSET FlagsKind
  BY DEF Sound
<1>2. Unmoved(s, i) /\ i.flags = s.flags \cup F /\ SameRun(s, i) /\ SameApp(s, i)
  BY <1>1, FlagsUpdate, FlagsSame
<1>3. Unmoved(s, w) /\ w.flags = s.flags /\ SameRun(s, w) /\ w.woken = (s.woken \/ s.dispatch_task)
  BY <1>1, WakeUnmoved, WakeFields
<1> HIDE DEF i, w
<1>4. i \in IoState /\ w \in IoState
  BY <1>2, <1>3 DEF Unmoved, Frame
<1>5. CASE t = wake_dispatch_task(i)
  <2>1. Unmoved(i, t) /\ t.flags = i.flags /\ SameRun(i, t) /\ t.woken = (i.woken \/ i.dispatch_task)
    BY <1>4, <1>5, WakeUnmoved, WakeFields
  <2>2. Unmoved(s, t) /\ t.flags = s.flags \cup F /\ SameRun(s, t) /\ t.woken = (s.woken \/ s.dispatch_task)
    BY <1>2, <2>1 DEF Unmoved, Frame, SameRun, SameApp
  <2>3. Sound(t)
    BY <2>2 DEF Unmoved, Frame, Sound, Ordered, Has, Stops
  <2> QED BY <2>2, <2>3, AnnounceTells
<1>6. CASE t = Insert(w, F)
  <2>1. Unmoved(w, t) /\ t.flags = w.flags \cup F /\ SameRun(w, t) /\ SameApp(w, t)
    BY <1>1, <1>4, <1>6, FlagsUpdate, FlagsSame
  <2>2. Unmoved(s, t) /\ t.flags = s.flags \cup F /\ SameRun(s, t) /\ t.woken = (s.woken \/ s.dispatch_task)
    BY <1>3, <2>1 DEF Unmoved, Frame, SameRun, SameApp
  <2>3. Sound(t)
    BY <2>2 DEF Unmoved, Frame, Sound, Ordered, Has, Stops
  <2> QED BY <2>2, <2>3, AnnounceTells
<1> QED BY <1>5, <1>6 DEF i, w

\* IoContext::update_read_status tells the application of new data, and hands over
\* what a layer answered.
LEMMA ReadStatusTells ==
    ASSUME NEW s, NEW n \in Nat, NEW f \in FilterReads
    PROVE  /\ Tells(s, update_read_status(s, n, f))
           /\ Sound(s) /\ HandleOk(s) =>
                \A b : Handed(s, b) => Handed(update_read_status(s, n, f), b)
<1> DEFINE read     == process_read_buf(s, n, f)
           new      == IF read.rbuf >= ReadHigh
                       THEN {"RD_PAUSED", "BUF_R_READY", "RD_BACKPRESSURE"} ELSE {"BUF_R_READY"}
           ready    == IF read.rbuf = s.rbuf THEN read ELSE wake_dispatch_task(Insert(read, new))
           told     == {"RD_NOTIFIED"}
           notified == IF Has(ready, "RD_NOTIFY") THEN Insert(wake_dispatch_task(ready), told) ELSE ready
           written  == process_write_buf(notified)
           t        == update_read_status(s, n, f)
<1>1. SUFFICES ASSUME Sound(s), s \in IoState, n # 0
               PROVE  Tells(s, t) /\ (HandleOk(s) => \A b : Handed(s, b) => Handed(t, b))
  <2>1. n = 0 => t = s
    BY DEF update_read_status
  <2>2. n = 0 => Tells(s, t) /\ (HandleOk(s) => \A b : Handed(s, b) => Handed(t, b))
    <3> HIDE DEF t
    <3> QED BY <2>1, TellsItself
  <2> QED BY <2>2, ZenonT(60) DEF Tells, Sound
<1>2. /\ new \in SUBSET (FlagsKind \ Stops) /\ "WR_SEND_OP" \notin new /\ "WR_PAUSED" \notin new
      /\ "RD_BACKPRESSURE" \in new => "RD_PAUSED" \in new
  BY DEF FlagsKind, Stops
<1>3. told \in SUBSET (FlagsKind \ Stops) /\ told \cap {"WR_SEND_OP", "WR_PAUSED", "RD_BACKPRESSURE"} = {}
  BY DEF FlagsKind, Stops
<1>4. t = IF f = "error" /\ ~s.filter_done THEN terminate_connection(read, "io")
          ELSE IF read.wbuf = s.wbuf THEN notified ELSE consolidate_write_state(written, FALSE)
  BY <1>1 DEF update_read_status
<1>5. /\ Tells(s, read) /\ read.flags \in {s.flags, s.flags \cup {"IO_STOPPING_FILTERS"}}
      /\ read.wapp = s.wapp /\ read.handle = s.handle
  BY <1>1, ReadBufTells
<1> HIDE DEF read, new, told, t
<1>6. Sound(read)
  BY <1>1, <1>5 DEF Tells
<1>7. Tells(read, ready) /\ (ready = read \/ (Unmoved(read, ready) /\ ready.flags = read.flags \cup new))
  BY <1>2, <1>6, NewsTells, TellsItself
<1> HIDE DEF ready
<1>8. Sound(ready)
  BY <1>6, <1>7 DEF Tells
<1>9. Tells(ready, notified) /\ (notified = ready \/ (Unmoved(ready, notified) /\ notified.flags = ready.flags \cup told))
  BY <1>3, <1>8, NewsTells, TellsItself
<1> HIDE DEF notified
<1>10. Tells(s, notified)
  BY <1>5, <1>7, <1>9, TellsTransitive
<1>11. /\ Sound(notified) /\ notified.handle = s.handle /\ notified.wapp = s.wapp /\ notified.wbuf = read.wbuf
       /\ \A g \in {"WR_PAUSED", "WR_SEND_OP", "IO_STOPPED", "IO_STOPPING"} : Has(notified, g) <=> Has(s, g)
  <2>1. Sound(notified)
    BY <1>1, <1>10 DEF Tells
  <2>2. /\ ready.handle = s.handle /\ ready.wapp = s.wapp /\ ready.wbuf = read.wbuf
        /\ \A g \in {"WR_PAUSED", "WR_SEND_OP", "IO_STOPPED", "IO_STOPPING"} : Has(ready, g) <=> Has(s, g)
    BY <1>2, <1>5, <1>7 DEF Unmoved, Frame, Has, Stops
  <2> QED BY <1>3, <1>9, <2>1, <2>2 DEF Unmoved, Frame, Has, Stops
<1>12. Tells(notified, written) /\ Tells(written, consolidate_write_state(written, FALSE))
  BY ProcessWriteTells, ConsolidateTells, Zenon
<1>13. Tells(read, terminate_connection(read, "io"))
  BY TerminateTells
<1>14. Tells(s, t)
  BY <1>4, <1>5, <1>10, <1>12, <1>13, TellsTransitive, Zenon
<1>15. ASSUME HandleOk(s), NEW b, Handed(s, b) PROVE Handed(t, b)
  <2>1. CASE t = terminate_connection(read, "io")
    BY <1>6, <2>1, TerminateFlags DEF Handed
  <2>2. CASE t = notified /\ read.wbuf = s.wbuf
    <3>1. write_buf_size(notified) = write_buf_size(s)
      BY <1>11, <2>2 DEF write_buf_size
    <3> QED BY <1>11, <1>15, <2>2, <3>1 DEF Handed, is_closed
  <2>3. CASE t = consolidate_write_state(written, FALSE)
    <3>1. Looked(notified, b) /\ HandleOk(notified)
      BY <1>11, <1>15, ZenonT(60) DEF Handed, Looked, is_closed, HandleOk
    <3>2. Sound(written) /\ HandleOk(written) /\ written.flags = notified.flags
      BY <1>11, <3>1, ProcessWriteKeeps DEF Keeps, Reaches, Sound
    <3> HIDE DEF written
    <3>3. Looked(written, b)
      BY <3>1, <3>2 DEF Looked, is_closed, Has
    <3> QED BY <2>3, <3>2, <3>3, ConsolidateTells, ZenonT(60)
  <2> QED BY <1>4, <2>1, <2>2, <2>3, Zenon
<1> QED BY <1>14, <1>15

\* StreamItem::read tells the application, or that the connection ended.
LEMMA ItemReadTells ==
    ASSUME NEW s, NEW f \in FilterReads
    PROVE  /\ Tells(s, item_read(s, f))
           /\ Sound(s) /\ HandleOk(s) => \A b : Handed(s, b) => Handed(item_read(s, f), b)
<1> DEFINE n == Min2(s.inq, Chunk)
           x == [s EXCEPT !.inq = @ - n]
           t == item_read(s, f)
<1>1. SUFFICES ASSUME Sound(s), s \in IoState
               PROVE  Tells(s, t) /\ (HandleOk(s) => \A b : Handed(s, b) => Handed(t, b))
  BY DEF Tells, Sound
<1>2. n \in Nat /\ s.inq - n \in Nat
  <2>1. s.inq \in Nat
    BY <1>1 DEF IoState
  <2> QED BY <2>1, SizesAssumption DEF Min2
<1>3. t \in {terminate_connection(s, "io"), terminate_connection(s, "none"), update_read_status(x, n, f)}
  BY DEF item_read
<1> HIDE DEF n, t
<1>4. /\ x \in IoState /\ x.flags = s.flags /\ x.wapp = s.wapp /\ x.wbuf = s.wbuf
      /\ SameRun(s, x) /\ SameApp(s, x) /\ x.handle = s.handle
  BY <1>1, <1>2 DEF IoState, SameRun, SameApp
<1> HIDE DEF x
<1>5. Tells(s, x) /\ Sound(x)
  BY <1>1, <1>4, HiddenTells DEF Tells
<1>6. Tells(s, update_read_status(x, n, f))
  BY <1>2, <1>5, ReadStatusTells, TellsTransitive
<1>7. Tells(s, t)
  BY <1>3, <1>6, TerminateTells
<1>8. ASSUME HandleOk(s), NEW b, Handed(s, b) PROVE Handed(t, b)
  <2>1. CASE t = update_read_status(x, n, f)
    <3>1. HandleOk(x) /\ Handed(x, b)
      BY <1>4, <1>8 DEF HandleOk, Handed, Has, is_closed, write_buf_size
    <3> QED BY <1>2, <1>5, <2>1, <3>1, ReadStatusTells
  <2>2. CASE t \in {terminate_connection(s, "io"), terminate_connection(s, "none")}
    BY <1>1, <2>2, TerminateFlags DEF Handed
  <2> QED BY <1>3, <2>1, <2>2
<1> QED BY <1>7, <1>8

(***************************************************************************)
(* The handlers that decide what the poller is asked for                   *)
(***************************************************************************)
Calls(s, t) == Sound(s) => Sound(t) /\ Schedules(s, t) /\ Informs(s, t)

\* What the slab entry wants the poller was asked for.
Armed(s) ==
    /\ "ARM_RD" \in s.item <=> "RD" \in s.item
    /\ "ARM_WR" \in s.item <=> "WR" \in s.item

\* What holds of the connection between two actions: the task is in the run queue
\* or can be woken, Iops and the poller know what they have to do, and the wish to
\* read and the bytes to send are somebody's.
Attended(s) ==
    /\ s.pc = "poll" => (s.sched \/ s.read_task) /\ (s.sched \/ s.write_task)
    /\ Queued(s) /\ Together(s)
    /\ ~is_closed(s) => s.registered /\ Armed(s) /\ (s.sched \/ "RD" \in s.item \/ Has(s, "RD_PAUSED"))

Served(s) == Attended(s) /\ Handed(s, s.sched \/ "WR" \in s.item)

\* A closed connection stays closed.
LEMMA StaysClosed ==
    ASSUME NEW s, NEW t, Sound(s), Keeps(s, t)
    PROVE  /\ Sound(t) /\ (is_closed(s) => is_closed(t)) /\ t.pc = s.pc
           /\ HandleOk(s) => HandleOk(t)
BY DEF Keeps, Reaches, is_closed, Stops

\* A handler that leaves the poller alone and hands on what it was handed.
LEMMA TellsServed ==
    ASSUME NEW s, NEW t, Sound(s), Attended(s), Tells(s, t), is_closed(s) => is_closed(t), t.pc = s.pc,
           \/ Handed(s, s.sched \/ "WR" \in s.item) /\ \A b : Handed(s, b) => Handed(t, b)
           \/ Handed(t, s.sched \/ "WR" \in s.item)
    PROVE  Served(t)
<1>1. Schedules(s, t) /\ \A i \in Interest : i \in t.item <=> i \in s.item
  BY DEF Tells, Runs
<1>2. Handed(t, s.sched \/ "WR" \in s.item)
  BY ZenonT(60)
<1>3. Handed(t, t.sched \/ "WR" \in t.item)
  BY <1>1, <1>2, ZenonT(60) DEF Handed, Schedules, Interest
<1>4. Attended(t)
  BY <1>1, ZenonT(60) DEF Attended, Schedules, Interest, Armed
<1> QED BY <1>3, <1>4 DEF Served

\* StreamItem::arm changes the interest as asked.
LEMMA SetInterestFields ==
    ASSUME NEW s, Sound(s), NEW rd \in BOOLEAN, NEW wr \in BOOLEAN, NEW arm \in BOOLEAN
    PROVE  LET t == SetInterest(s, rd, wr, arm)
           IN  /\ Calls(s, t) /\ t \in IoState /\ t.flags = s.flags /\ t.wapp = s.wapp /\ t.wbuf = s.wbuf
               /\ "RD" \in t.item <=> rd
               /\ "WR" \in t.item <=> wr
               /\ arm => Armed(t)
               /\ ~arm => /\ "ARM_RD" \in t.item <=> "ARM_RD" \in s.item
                          /\ "ARM_WR" \in t.item <=> "ARM_WR" \in s.item
<1> DEFINE t == SetInterest(s, rd, wr, arm)
           kept == s.item \cap {"DROPPED_PRI", "DROPPED_SEC"}
           want == (IF rd THEN {"RD"} ELSE {}) \cup (IF wr THEN {"WR"} ELSE {})
           held == IF arm
                   THEN (IF rd THEN {"ARM_RD"} ELSE {}) \cup (IF wr THEN {"ARM_WR"} ELSE {})
                   ELSE s.item \cap {"ARM_RD", "ARM_WR"}
           new  == kept \cup want \cup held
<1>1. t = [s EXCEPT !.item = new]
  BY DEF SetInterest
<1>2. /\ new \in SUBSET ItemFlags
      /\ "RD" \in new <=> rd
      /\ "WR" \in new <=> wr
      /\ arm => ("ARM_RD" \in new <=> rd) /\ ("ARM_WR" \in new <=> wr)
      /\ ~arm => /\ "ARM_RD" \in new <=> "ARM_RD" \in s.item
                 /\ "ARM_WR" \in new <=> "ARM_WR" \in s.item
  BY DEF ItemFlags
<1> HIDE DEF t, new
<1>3. /\ t \in IoState /\ t.flags = s.flags /\ t.wapp = s.wapp /\ t.wbuf = s.wbuf /\ t.item = new
      /\ SameApp(s, t) /\ t.read_task = s.read_task /\ t.write_task = s.write_task /\ t.sched = s.sched
      /\ t.ops = s.ops /\ t.registered = s.registered
  BY <1>1, <1>2, ZenonT(60) DEF Sound, IoState, SameApp
<1>4. Sound(t) /\ write_buf_size(t) = write_buf_size(s)
  BY <1>3 DEF Sound, Ordered, Has, write_buf_size
<1>5. Calls(s, t)
  BY <1>3, <1>4 DEF Calls, Schedules, Informs, Above, SameApp, Queued, Together, Has
<1> QED BY <1>2, <1>3, <1>5 DEF t, Armed

\* A handler that calls two others in turn owes what both owe.
LEMMA CallsTransitive ==
    ASSUME NEW s, NEW t, NEW u, Tells(s, t) \/ Calls(s, t), Tells(t, u) \/ Calls(t, u)
    PROVE  Calls(s, u)
<1>1. SUFFICES ASSUME Sound(s) PROVE Calls(s, u)
  BY DEF Calls
<1>2. Sound(t) /\ Sound(u) /\ Schedules(s, t) /\ Schedules(t, u) /\ Informs(s, t) /\ Informs(t, u)
  BY <1>1 DEF Tells, Calls, Runs
<1>3. Schedules(s, u)
  BY <1>2 DEF Schedules
<1>4. Informs(s, u)
  BY <1>2 DEF Informs, Marks
<1> QED BY <1>2, <1>3, <1>4 DEF Calls

\* Taking the slab and giving it back changes nothing else.
LEMMA BusyFields ==
    ASSUME NEW s \in IoState, NEW b \in BOOLEAN
    PROVE  LET t == [s EXCEPT !.busy = b]
           IN  /\ t \in IoState /\ t.flags = s.flags /\ t.wapp = s.wapp /\ t.wbuf = s.wbuf
               /\ SameRun(s, t) /\ SameApp(s, t) /\ t.handle = s.handle
BY DEF IoState, SameRun, SameApp

\* The read and the write of one turn of a stream, either of which may be left out.
LEMMA TurnTells ==
    ASSUME NEW s, Sound(s), HandleOk(s), NEW f \in FilterReads, NEW doRead, NEW doWrite, NEW read, NEW wrote,
           read = IF doRead THEN item_read(s, f) ELSE s,
           wrote = IF doWrite THEN item_write(read) ELSE read
    PROVE  /\ Tells(s, wrote) /\ Sound(wrote) /\ wrote.pc = s.pc
           /\ is_closed(s) => is_closed(read)
           /\ is_closed(read) => is_closed(wrote)
           /\ Has(s, "RD_PAUSED") => Has(wrote, "RD_PAUSED")
           /\ Has(read, "RD_PAUSED") => Has(wrote, "RD_PAUSED")
           /\ Together(s) => Together(read)
           /\ \A b : Handed(s, b) => Handed(wrote, b)
           /\ doWrite /\ ~is_closed(wrote) => (Has(wrote, "WR_PAUSED") <=> write_buf_size(wrote) = 0)
<1>1. Tells(s, read) /\ \A b : Handed(s, b) => Handed(read, b)
  BY ItemReadTells, TellsItself
<1>2. Keeps(s, read)
  BY ItemReadKeeps, KeepsItself
<1>3. Sound(read) /\ HandleOk(read) /\ (is_closed(s) => is_closed(read)) /\ read.pc = s.pc
  BY <1>2, StaysClosed
<1>4. Tells(read, wrote) /\ \A b : Handed(read, b) => Handed(wrote, b)
  BY <1>3, ItemWriteTells, ItemWriteHands, TellsItself
<1>5. Keeps(read, wrote)
  BY ItemWriteKeeps, KeepsItself
<1>6. Sound(wrote) /\ (is_closed(read) => is_closed(wrote)) /\ wrote.pc = read.pc
  BY <1>3, <1>5, StaysClosed
<1>7. Tells(s, wrote)
  BY <1>1, <1>4, TellsTransitive, SMTT(30)
<1>8. /\ Has(s, "RD_PAUSED") => Has(read, "RD_PAUSED")
      /\ Has(read, "RD_PAUSED") => Has(wrote, "RD_PAUSED")
      /\ Together(s) => Together(read)
  BY <1>1, <1>3, <1>4, Zenon DEF Tells, Runs, Schedules
<1>9. doWrite /\ ~is_closed(wrote) => (Has(wrote, "WR_PAUSED") <=> write_buf_size(wrote) = 0)
  BY <1>3, ItemWriteHands
<1>10. \A b : Handed(s, b) => Handed(wrote, b)
  BY <1>1, <1>4, ZenonT(60)
<1> QED BY <1>3, <1>6, <1>7, <1>8, <1>9, <1>10

\* StreamCtl::interest asks the poller for what is left to write and for what may
\* still be read.
LEMMA InterestServes ==
    ASSUME NEW s, Sound(s), HandleOk(s), NEW rd \in BOOLEAN, NEW wr \in BOOLEAN, NEW f \in FilterReads,
           Together(s), ~is_closed(s) => Armed(s), ~is_closed(s) => rd \/ Has(s, "RD_PAUSED"), Handed(s, wr)
    PROVE  LET t == interest(s, rd, wr, f)
           IN  /\ Calls(s, t)
               /\ is_closed(s) => is_closed(t)
               /\ ~is_closed(t) => Armed(t) /\ ("RD" \in t.item \/ Has(t, "RD_PAUSED"))
               /\ Handed(t, "WR" \in t.item)
<1> DEFINE taken == [s EXCEPT !.busy = TRUE]
           doRead == rd /\ "RD" \notin s.item
           doWrite == wr /\ "WR" \notin s.item
           read  == IF doRead THEN item_read(taken, f) ELSE taken
           rdOn  == rd /\ ("RD" \in s.item \/ ReadIo(read))
           wrote == IF doWrite THEN item_write(read) ELSE read
           wrOn  == wr /\ ("WR" \in s.item \/ WriteIo(wrote))
           upd   == rdOn # ("RD" \in s.item) \/ wrOn # ("WR" \in s.item)
           u     == SetInterest(wrote, rdOn, wrOn, upd)
           t     == interest(s, rd, wr, f)
<1>1. t = [u EXCEPT !.busy = FALSE]
  BY DEF interest
<1>2. /\ taken \in IoState /\ taken.flags = s.flags /\ taken.wapp = s.wapp /\ taken.wbuf = s.wbuf
      /\ SameRun(s, taken) /\ SameApp(s, taken) /\ taken.handle = s.handle
  BY BusyFields, Zenon DEF Sound
<1> HIDE DEF taken
<1>3. Sound(taken) /\ HandleOk(taken) /\ Tells(s, taken) /\ write_buf_size(taken) = write_buf_size(s)
  BY <1>2, HiddenTells, Zenon DEF Sound, Ordered, HandleOk, Has, write_buf_size
<1>4. Handed(taken, wr) /\ Together(taken) /\ (is_closed(taken) <=> is_closed(s))
  BY <1>2, <1>3, SMTT(30) DEF Handed, Together, is_closed, Has
<1>5. /\ Tells(taken, wrote) /\ Sound(wrote)
      /\ is_closed(taken) => is_closed(read)
      /\ is_closed(read) => is_closed(wrote)
      /\ Has(taken, "RD_PAUSED") => Has(wrote, "RD_PAUSED")
      /\ Has(read, "RD_PAUSED") => Has(wrote, "RD_PAUSED")
      /\ Together(read) /\ Handed(wrote, wr)
      /\ doWrite /\ ~is_closed(wrote) => (Has(wrote, "WR_PAUSED") <=> write_buf_size(wrote) = 0)
  BY <1>3, <1>4, TurnTells, ZenonT(60)
<1> HIDE DEF read, wrote
<1>6. /\ rdOn \in BOOLEAN /\ wrOn \in BOOLEAN /\ upd \in BOOLEAN
  BY Zenon
<1>7. /\ Calls(wrote, u) /\ u \in IoState /\ u.flags = wrote.flags /\ u.wapp = wrote.wapp
      /\ u.wbuf = wrote.wbuf
      /\ "RD" \in u.item <=> rdOn
      /\ "WR" \in u.item <=> wrOn
      /\ upd => Armed(u)
      /\ ~upd => /\ "ARM_RD" \in u.item <=> "ARM_RD" \in wrote.item
                 /\ "ARM_WR" \in u.item <=> "ARM_WR" \in wrote.item
  <2> HIDE DEF rdOn, wrOn, upd
  <2>1. Sound(wrote)
    BY <1>5, ZenonT(60)
  <2> QED BY <1>6, <2>1, SetInterestFields
<1>8. \A i \in Interest : i \in wrote.item <=> i \in s.item
  BY <1>2, <1>3, <1>5, SMTT(30) DEF Tells, Runs, SameRun
<1>9. ~is_closed(s) => Armed(u)
  <2>1. ~upd /\ ~is_closed(s) => Armed(u)
    BY <1>7, <1>8, ZenonT(60) DEF Armed, Interest
  <2> QED BY <1>7, <2>1, ZenonT(60)
<1>10. write_buf_size(wrote) \in Nat
  BY <1>5, Sizes, ZenonT(60) DEF Sound
<1>11. ~is_closed(wrote) => rdOn \/ Has(wrote, "RD_PAUSED")
  <2>1. ~is_closed(wrote) /\ ~ReadIo(read) => Has(wrote, "RD_PAUSED")
    BY <1>5, ZenonT(60) DEF ReadIo, is_read_paused_or_backpressure, Together
  <2> QED BY <1>2, <1>4, <1>5, <2>1, ZenonT(60) DEF Has
<1>12. Handed(wrote, wrOn)
  <2>1. wr /\ ~is_closed(wrote) /\ ~Has(wrote, "WR_PAUSED") => wrOn
    BY <1>5, <1>10 DEF WriteIo
  <2> QED BY <1>5, <2>1, ZenonT(60) DEF Handed
<1> HIDE DEF u, upd, rdOn, wrOn
<1>13. /\ t \in IoState /\ t.flags = u.flags /\ t.wapp = u.wapp /\ t.wbuf = u.wbuf
       /\ SameRun(u, t) /\ SameApp(u, t)
  BY <1>1, <1>7, BusyFields, ZenonT(60)
<1> HIDE DEF t
<1>14. Tells(u, t)
  BY <1>13, HiddenTells, ZenonT(60)
<1>15. Calls(s, t)
  BY <1>3, <1>5, <1>7, <1>14, CallsTransitive, ZenonT(60)
<1>16. /\ is_closed(t) <=> is_closed(wrote)
       /\ Has(wrote, "RD_PAUSED") => Has(t, "RD_PAUSED")
       /\ t.item = u.item
       /\ Handed(t, wrOn)
  BY <1>7, <1>12, <1>13, ZenonT(60) DEF is_closed, Has, SameRun, Handed, write_buf_size
<1>17. /\ is_closed(s) => is_closed(t)
       /\ ~is_closed(t) => Armed(t) /\ ("RD" \in t.item \/ Has(t, "RD_PAUSED"))
       /\ Handed(t, "WR" \in t.item)
  BY <1>4, <1>5, <1>7, <1>9, <1>11, <1>16 DEF Armed, Handed
<1> QED BY <1>15, <1>17 DEF t

\* StreamOpsHandler::event takes away only an interest that was met.
LEMMA EventServes ==
    ASSUME NEW s, Sound(s), HandleOk(s), Served(s), ~s.busy, NEW ev, NEW f \in FilterReads
    PROVE  Calls(s, event(s, ev, f)) /\ Served(event(s, ev, f))
<1> DEFINE taken == [s EXCEPT !.busy = TRUE]
           doRead == "rd" \in ev
           doWrite == "wr" \in ev
           read  == IF doRead THEN item_read(taken, f) ELSE taken
           rdOn  == IF doRead THEN ReadIo(read) ELSE "RD" \in s.item
           wrote == IF doWrite THEN item_write(read) ELSE read
           wrOn  == IF doWrite THEN WriteIo(wrote) ELSE "WR" \in s.item
           arm   == "int" \notin ev
           armed == SetInterest(wrote, rdOn, wrOn, arm)
           u     == IF "int" \in ev THEN terminate_connection(armed, "none") ELSE armed
           t     == event(s, ev, f)
           b     == s.sched \/ "WR" \in s.item
<1>1. t = [u EXCEPT !.busy = FALSE]
  BY DEF event
<1>2. /\ taken \in IoState /\ taken.flags = s.flags /\ taken.wapp = s.wapp /\ taken.wbuf = s.wbuf
      /\ SameRun(s, taken) /\ SameApp(s, taken) /\ taken.handle = s.handle
  BY BusyFields, ZenonT(60) DEF Sound
<1> HIDE DEF taken, t
<1>3. Sound(taken) /\ HandleOk(taken) /\ Tells(s, taken) /\ write_buf_size(taken) = write_buf_size(s)
  BY <1>2, HiddenTells, ZenonT(60) DEF Sound, Ordered, HandleOk, Has, write_buf_size
<1>4. Handed(taken, b) /\ Together(taken) /\ (is_closed(taken) <=> is_closed(s))
  BY <1>2, <1>3 DEF Handed, Together, is_closed, Has, Served, Attended
<1>5. /\ Tells(taken, wrote) /\ Sound(wrote)
      /\ is_closed(taken) => is_closed(read)
      /\ is_closed(read) => is_closed(wrote)
      /\ Has(taken, "RD_PAUSED") => Has(wrote, "RD_PAUSED")
      /\ Has(read, "RD_PAUSED") => Has(wrote, "RD_PAUSED")
      /\ Together(read) /\ Handed(wrote, b)
      /\ doWrite /\ ~is_closed(wrote) => (Has(wrote, "WR_PAUSED") <=> write_buf_size(wrote) = 0)
  <2> HIDE DEF b
  <2> QED BY <1>3, <1>4, TurnTells, ZenonT(60)
<1> HIDE DEF read, wrote
<1>6. rdOn \in BOOLEAN /\ wrOn \in BOOLEAN /\ arm \in BOOLEAN
  <2>1. ReadIo(read) \in BOOLEAN /\ WriteIo(wrote) \in BOOLEAN
    BY DEF ReadIo, WriteIo
  <2>2. rdOn \in BOOLEAN
    <3>1. CASE doRead
      BY <2>1, <3>1
    <3>2. CASE ~doRead
      BY <3>2
    <3> QED BY <3>1, <3>2
  <2>3. wrOn \in BOOLEAN
    <3>1. CASE doWrite
      BY <2>1, <3>1
    <3>2. CASE ~doWrite
      <4>1. wrOn = ("WR" \in s.item)
        BY <3>2, Zenon
      <4> HIDE DEF wrOn
      <4> QED BY <4>1
    <3> QED BY <3>1, <3>2
  <2> QED BY <2>2, <2>3
<1>7. /\ Calls(wrote, armed) /\ armed \in IoState /\ armed.flags = wrote.flags /\ armed.wapp = wrote.wapp
      /\ armed.wbuf = wrote.wbuf
      /\ "RD" \in armed.item <=> rdOn
      /\ "WR" \in armed.item <=> wrOn
      /\ arm => Armed(armed)
  <2> HIDE DEF rdOn, wrOn, arm
  <2>1. Sound(wrote)
    BY <1>5, ZenonT(60)
  <2> QED BY <1>6, <2>1, SetInterestFields, SMTT(30)
<1>8. write_buf_size(wrote) \in Nat
  BY <1>5, Sizes, SMTT(30) DEF Sound
<1>9. ~is_closed(wrote) => rdOn \/ Has(wrote, "RD_PAUSED") \/ s.sched
  <2>1. ~is_closed(wrote) /\ ~ReadIo(read) => Has(wrote, "RD_PAUSED")
    BY <1>5, ZenonT(60) DEF ReadIo, is_read_paused_or_backpressure, Together
  <2> QED BY <1>2, <1>4, <1>5, <2>1, ZenonT(60) DEF Has, Served, Attended
<1>10. Handed(wrote, s.sched \/ wrOn)
  <2>1. doWrite /\ ~is_closed(wrote) /\ ~Has(wrote, "WR_PAUSED") => WriteIo(wrote)
    BY <1>5, <1>8, SMTT(30) DEF WriteIo
  <2> QED BY <1>5, <2>1, ZenonT(60) DEF Handed
<1> HIDE DEF armed, rdOn, wrOn
<1>11. Tells(armed, u) /\ ("int" \in ev => is_closed(u)) /\ u \in IoState
  <2>1. Sound(armed)
    BY <1>5, <1>7, Zenon DEF Calls
  <2>2. Tells(armed, terminate_connection(armed, "none")) /\ is_closed(terminate_connection(armed, "none"))
    BY <2>1, TerminateTells, TerminateFlags
  <2>3. terminate_connection(armed, "none") \in IoState
    BY <2>1, <2>2 DEF Tells, Sound
  <2> QED BY <1>7, <2>2, <2>3, TellsItself, SMTT(30)
<1> HIDE DEF u
<1>12. /\ t \in IoState /\ t.flags = u.flags /\ t.wapp = u.wapp /\ t.wbuf = u.wbuf
       /\ SameRun(u, t) /\ SameApp(u, t)
  BY <1>1, <1>11, BusyFields, Zenon
<1>13. Calls(s, t)
  <2>1. Tells(u, t)
    BY <1>12, HiddenTells, ZenonT(60)
  <2> QED BY <1>3, <1>5, <1>7, <1>11, <2>1, CallsTransitive, ZenonT(60)
<1>14. t.pc = s.pc
  BY EventKeeps DEF Keeps, Reaches, t
<1>15. Schedules(s, t)
  BY <1>13, SMTT(30) DEF Calls
<1>16. CASE "int" \in ev
  <2>1. is_closed(t)
    BY <1>11, <1>12, <1>16, ZenonT(60) DEF is_closed, Has
  <2> QED BY <1>13, <1>14, <1>15, <2>1, ZenonT(60) DEF Served, Attended, Schedules, Handed, t
<1>17. CASE "int" \notin ev
  <2>1. u = armed
    BY <1>17, SMTT(30) DEF u
  <2>2. /\ is_closed(t) <=> is_closed(wrote)
        /\ Has(wrote, "RD_PAUSED") => Has(t, "RD_PAUSED")
        /\ t.item = armed.item
        /\ Handed(t, s.sched \/ wrOn)
    BY <1>7, <1>10, <1>12, <2>1, ZenonT(60) DEF is_closed, Has, SameRun, Handed, write_buf_size
  <2>3. ~is_closed(t) => Armed(t) /\ (s.sched \/ "RD" \in t.item \/ Has(t, "RD_PAUSED"))
    <3>1. "RD" \in t.item <=> rdOn
      BY <1>7, <2>2, Zenon
    <3>2. Armed(t)
      BY <1>7, <1>17, <2>2, Zenon DEF Armed
    <3> QED BY <1>9, <2>2, <3>1, <3>2, Zenon
  <2>4. Handed(t, t.sched \/ "WR" \in t.item)
    BY <1>7, <1>15, <2>2, ZenonT(60) DEF Handed, Schedules
  <2>5. ~is_closed(t) => ~is_closed(s)
    BY <1>4, <1>5, <2>2, ZenonT(60)
  <2> QED BY <1>13, <1>14, <1>15, <2>3, <2>4, <2>5, Zenon DEF Served, Attended, Schedules, t
<1> QED BY <1>16, <1>17

\* The end of the driver's turn writes what was put off, and drops the handle.
LEMMA DelayedFeedTells ==
    ASSUME NEW s, Sound(s)
    PROVE  /\ Tells(s, check_delayed_feed(s))
           /\ \A b : Handed(s, b) => Handed(check_delayed_feed(s), b)
<1> DEFINE taken   == [s EXCEPT !.busy = TRUE, !.delayed = @ \ {"Write"}]
           wrote   == IF "Write" \in s.delayed /\ s.slot /\ ~is_closed(s)
                      THEN item_write(taken) ELSE taken
           less    == [wrote EXCEPT !.delayed = @ \ {"Weak"}]
           dropped == IF "Weak" \in wrote.delayed THEN drop_weak_stream(less) ELSE wrote
           t       == [dropped EXCEPT !.busy = FALSE]
<1>1. check_delayed_feed(s) = t /\ s \in IoState
  BY SMTT(30) DEF check_delayed_feed, Sound
<1>2. taken \in IoState
  <2>1. ASSUME NEW d \in SUBSET IdType PROVE [s EXCEPT !.busy = TRUE, !.delayed = d] \in IoState
    BY <1>1, ZenonT(60) DEF IoState
  <2>2. s.delayed \ {"Write"} \in SUBSET IdType
    BY <1>1 DEF IoState
  <2> QED BY <2>1, <2>2, Zenon
<1>3. taken.flags = s.flags /\ taken.wapp = s.wapp /\ taken.wbuf = s.wbuf /\ SameRun(s, taken) /\ SameApp(s, taken)
  BY <1>1 DEF IoState, SameRun, SameApp
<1> HIDE DEF taken
<1>4. Tells(s, taken) /\ Sound(taken) /\ \A b : Handed(s, b) => Handed(taken, b)
  BY <1>2, <1>3, HiddenTells, ZenonT(60) DEF Tells, Handed, is_closed, Has, write_buf_size
<1>5. Tells(taken, wrote) /\ Sound(wrote) /\ \A b : Handed(taken, b) => Handed(wrote, b)
  BY <1>4, ItemWriteTells, ItemWriteHands, TellsItself DEF Tells
<1> HIDE DEF wrote
<1>6. less \in IoState /\ less.flags = wrote.flags /\ less.wapp = wrote.wapp /\ less.wbuf = wrote.wbuf
      /\ SameRun(wrote, less) /\ SameApp(wrote, less)
  BY <1>5, SMTT(30) DEF Sound, IoState, SameRun, SameApp
<1> HIDE DEF less
<1>7. /\ dropped \in IoState /\ dropped.flags = wrote.flags /\ dropped.wapp = wrote.wapp
      /\ dropped.wbuf = wrote.wbuf /\ SameApp(wrote, dropped)
      /\ dropped.read_task = wrote.read_task /\ dropped.write_task = wrote.write_task
      /\ dropped.sched = wrote.sched /\ dropped.ops = wrote.ops /\ dropped.registered = wrote.registered
      /\ dropped.item \in {wrote.item, wrote.item \cup {"DROPPED_SEC"}}
  <2>1. CASE "Weak" \notin wrote.delayed
    BY <1>5, <2>1, Zenon DEF Sound, SameApp
  <2>2. CASE "Weak" \in wrote.delayed /\ "DROPPED_PRI" \in less.item
    <3>1. dropped = [less EXCEPT !.slot = FALSE]
      BY <2>2 DEF drop_weak_stream
    <3> HIDE DEF dropped
    <3> QED BY <1>6, <3>1, ZenonT(60) DEF IoState, SameRun, SameApp
  <2>3. CASE "Weak" \in wrote.delayed /\ "DROPPED_PRI" \notin less.item
    <3> DEFINE i == less.item \cup {"DROPPED_SEC"}
    <3>1. dropped = [less EXCEPT !.item = i]
      BY <2>3 DEF drop_weak_stream
    <3>2. i \in SUBSET ItemFlags /\ i = wrote.item \cup {"DROPPED_SEC"}
      BY <1>6 DEF IoState, ItemFlags, SameRun
    <3> HIDE DEF i, dropped
    <3> QED BY <1>6, <3>1, <3>2 DEF IoState, SameRun, SameApp
  <2> QED BY <2>1, <2>2, <2>3, ZenonT(60)
<1> HIDE DEF dropped
<1>8. /\ t \in IoState /\ t.flags = dropped.flags /\ t.wapp = dropped.wapp /\ t.wbuf = dropped.wbuf
      /\ SameRun(dropped, t) /\ SameApp(dropped, t)
  BY <1>7, BusyFields, Zenon
<1> HIDE DEF t
<1>9. Sound(t) /\ write_buf_size(t) = write_buf_size(wrote) /\ t.flags = wrote.flags
  BY <1>5, <1>7, <1>8, ZenonT(60) DEF Sound, Ordered, Has, write_buf_size
<1>10. Runs(wrote, t)
  <2>1. \A i \in Interest : i \in t.item <=> i \in wrote.item
    BY <1>7, <1>8 DEF Interest, SameRun
  <2> QED BY <1>7, <1>8, <1>9, <2>1 DEF Runs, Schedules, SameRun, Queued, Together, Has
<1>11. Informs(wrote, t)
  BY <1>7, <1>8, <1>9, SMTT(30) DEF Informs, Above, SameApp, Has
<1>12. Tells(wrote, t) /\ \A b : Handed(wrote, b) => Handed(t, b)
  BY <1>9, <1>10, <1>11 DEF Tells, Handed, is_closed, Has
<1>13. Tells(s, t)
  BY <1>4, <1>5, <1>12, TellsTransitive
<1>14. \A b : Handed(s, b) => Handed(t, b)
  BY <1>4, <1>5, <1>12
<1> QED BY <1>1, <1>13, <1>14

\* Layer::shutdown passes on what is buffered and changes no flag.
LEMMA ProcessShutdownTells ==
    ASSUME NEW s, Sound(s)
    PROVE  LET t == process_shutdown(s)
           IN  /\ Tells(s, t) /\ Sound(t) /\ t.flags = s.flags
               /\ write_buf_size(t) = write_buf_size(s) /\ t.handle = s.handle
<1> DEFINE w == process_write_buf(s)
           v == process_write_buf(w)
           d == [v EXCEPT !.filter_done = TRUE, !.wapp = 0]
           t == process_shutdown(s)
<1>1. t = IF w.filter_done \/ ~w.filter_ready THEN w ELSE d
  BY DEF process_shutdown
<1>2. Tells(s, w) /\ Sound(w) /\ w.flags = s.flags /\ write_buf_size(w) = write_buf_size(s) /\ w.handle = s.handle
  BY ProcessWriteTells, ProcessWriteKeeps DEF Tells, Frame, Sound
<1>3. w \in IoState
  BY <1>2 DEF Sound
<1> HIDE DEF w
<1>4. Tells(w, v) /\ Sound(v) /\ v.flags = w.flags /\ write_buf_size(v) = write_buf_size(w) /\ v.handle = w.handle
  BY <1>2, ProcessWriteTells, ProcessWriteKeeps DEF Tells, Frame, Sound
<1>5. v \in IoState /\ (~w.filter_done => v.wapp = 0)
  BY <1>3, <1>4, SMTT(30) DEF Sound, process_write_buf, IoState
<1> HIDE DEF v
<1>6. d \in IoState
  <2>1. ASSUME NEW a \in BOOLEAN, NEW b \in Nat PROVE [v EXCEPT !.filter_done = a, !.wapp = b] \in IoState
    BY <1>5, ZenonT(60) DEF IoState
  <2> QED BY <2>1, Zenon
<1>7. /\ d.flags = v.flags /\ d.wbuf = v.wbuf /\ d.handle = v.handle /\ d.wapp = 0
      /\ SameRun(v, d) /\ SameApp(v, d)
  BY <1>5 DEF IoState, SameRun, SameApp
<1> HIDE DEF d
<1>8. CASE w.filter_done \/ ~w.filter_ready
  BY <1>1, <1>2, <1>8
<1>9. CASE ~(w.filter_done \/ ~w.filter_ready)
  <2>1. Tells(v, d)
    BY <1>5, <1>6, <1>7, <1>9, HiddenTells
  <2>2. Tells(s, d)
    BY <1>2, <1>4, <2>1, TellsTransitive
  <2>3. Sound(d)
    BY <2>2 DEF Tells
  <2>4. write_buf_size(d) = write_buf_size(v)
    BY <1>5, <1>7, <1>9 DEF write_buf_size
  <2> QED BY <1>1, <1>2, <1>4, <1>7, <1>9, <2>2, <2>3, <2>4
<1> QED BY <1>8, <1>9

\* IoContext::shutdown_filters leaves no unsent byte behind, and tells everybody.
LEMMA ShutdownFiltersTells ==
    ASSUME NEW s, NEW fails, Sound(s), HandleOk(s), Handed(s, TRUE)
    PROVE  LET t == shutdown_filters(s, fails)
           IN  Tells(s, t) /\ Sound(t) /\ Handed(t, TRUE)
<1> DEFINE down  == process_shutdown(s)
           sent  == consolidate_write_state(down, TRUE)
           waits == [sent EXCEPT !.timer = "armed"]
           ended == filters_stopped(sent)
           t     == shutdown_filters(s, fails)
<1>1. CASE ~is_shutting_down_filters(s)
  BY <1>1, TellsItself, Zenon DEF shutdown_filters
<1>2. CASE is_shutting_down_filters(s) /\ fails /\ ~s.filter_done
  <2> DEFINE w == process_write_buf(s)
  <2>1. t = terminate_connection(w, "io")
    BY <1>2 DEF shutdown_filters
  <2>2. Tells(s, w) /\ Tells(w, terminate_connection(w, "io"))
    BY ProcessWriteTells, TerminateTells
  <2>3. Sound(w)
    BY <2>2 DEF Tells
  <2> HIDE DEF w, t
  <2>4. is_closed(t) /\ Tells(s, t)
    BY <2>1, <2>2, <2>3, TerminateFlags, TellsTransitive
  <2>5. Tells(s, t) /\ Sound(t) /\ Handed(t, TRUE)
    BY <2>4 DEF Tells, Handed
  <2> QED BY <2>5, Zenon DEF t
<1>3. CASE is_shutting_down_filters(s) /\ ~(fails /\ ~s.filter_done)
  <2>1. t \in {ended, waits}
    BY <1>3, Zenon DEF shutdown_filters
  <2>2. Tells(s, down) /\ Sound(down) /\ HandleOk(down) /\ Handed(down, TRUE)
    BY ProcessShutdownTells DEF HandleOk, Handed, is_closed, Has
  <2> HIDE DEF down
  <2>3. Tells(down, sent) /\ Sound(sent) /\ Handed(sent, TRUE)
    BY <2>2, ConsolidateTells, Zenon DEF Tells, Handed, Looked
  <2>4. sent \in IoState
    BY <2>3, Zenon DEF Sound
  <2> HIDE DEF sent
  <2>5. Tells(sent, waits) /\ Handed(waits, TRUE)
    <3>1. /\ waits \in IoState /\ waits.flags = sent.flags /\ waits.wapp = sent.wapp /\ waits.wbuf = sent.wbuf
          /\ SameRun(sent, waits) /\ SameApp(sent, waits)
      BY <2>4 DEF IoState, SameRun, SameApp
    <3> QED BY <2>3, <3>1, HiddenTells, Zenon DEF Handed, is_closed, Has, write_buf_size
  <2>6. Tells(sent, ended) /\ is_closed(ended)
    <3> DEFINE a == wake_read_task(sent)
               b == wake_write_task(a)
               d == wake_dispatch_task(b)
    <3>1. Tells(sent, a) /\ Tells(a, b)
      BY WakeTells
    <3>2. Tells(sent, b) /\ Sound(b) /\ b.flags = sent.flags
      BY <2>3, <2>4, <3>1, TellsTransitive, WakeUnmoved, SMTT(30) DEF Tells, Sound
    <3>3. ended = Insert(d, {"IO_STOPPING"}) /\ b \in IoState
      BY <3>2, ZenonT(60) DEF filters_stopped, Sound
    <3> HIDE DEF b, a
    <3>4. SameRun(b, d) /\ d.woken = (b.woken \/ b.dispatch_task) /\ d \in IoState /\ d.flags = b.flags
      BY <3>3, WakeFields, WakeUnmoved, SMTT(30) DEF Unmoved, Frame
    <3> HIDE DEF d
    <3>5. Unmoved(d, ended) /\ ended.flags = d.flags \cup {"IO_STOPPING"} /\ SameRun(d, ended) /\ SameApp(d, ended)
      <4>1. {"IO_STOPPING"} \in SUBSET FlagsKind
        BY DEF FlagsKind
      <4>2. /\ Unmoved(d, Insert(d, {"IO_STOPPING"})) /\ SameRun(d, Insert(d, {"IO_STOPPING"}))
            /\ SameApp(d, Insert(d, {"IO_STOPPING"}))
            /\ Insert(d, {"IO_STOPPING"}).flags = d.flags \cup {"IO_STOPPING"}
        BY <3>4, <4>1, FlagsUpdate, FlagsSame, Zenon
      <4> HIDE DEF ended
      <4> QED BY <3>3, <4>2, Zenon
    <3> HIDE DEF ended
    <3>6. Sound(ended)
      <4>1. Has(sent, "IO_STOPPING_FILTERS")
        <5>1. Has(down, "IO_STOPPING_FILTERS")
          BY <1>3, ProcessShutdownTells DEF down, Has, is_shutting_down_filters
        <5>2. Keeps(down, sent)
          BY ConsolidateKeeps, ZenonT(60) DEF sent
        <5> QED BY <2>2, <5>1, <5>2, ZenonT(60) DEF Keeps, Reaches, Stops
      <4> QED BY <3>2, <3>4, <3>5, <4>1, ZenonT(60) DEF Sound, Ordered, Has, Unmoved, Frame
    <3>7. Tells(b, ended)
      <4> DEFINE F == {"IO_STOPPING"}
      <4>1. "WR_SEND_OP" \notin F /\ "RD_BACKPRESSURE" \notin F /\ ended.flags = b.flags \cup F
        BY <3>4, <3>5
      <4> HIDE DEF F
      <4> QED BY <3>4, <3>5, <3>6, <4>1, AnnounceTells, ZenonT(60) DEF SameRun, SameApp
    <3>8. Tells(sent, ended)
      BY <3>2, <3>7, TellsTransitive
    <3> QED BY <3>5, <3>8 DEF is_closed, Has
  <2>7. Tells(sent, t) /\ Handed(t, TRUE)
    BY <2>1, <2>5, <2>6 DEF Handed
  <2>8. Tells(s, t)
    BY <2>2, <2>3, <2>7, TellsTransitive
  <2> QED BY <2>7, <2>8, Zenon DEF Tells
<1> QED BY <1>1, <1>2, <1>3, Zenon
=============================================================================

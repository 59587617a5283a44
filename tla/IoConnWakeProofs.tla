-------------------------- MODULE IoConnWakeProofs --------------------------
EXTENDS IoConnHandlerProofs

(***************************************************************************)
(* The second half of the proof that nobody is forgotten on a connection:  *)
(* the inductive invariant WakeInv, what the actions of the runtime, the   *)
(* driver, the peer and the application do to it, and the theorems.  The   *)
(* handlers the actions are made of are treated in IoConnHandlerProofs.    *)
(***************************************************************************)

(***************************************************************************)
(* The actions of the runtime and the driver                               *)
(***************************************************************************)
\* A task that waits and was not woken is registered, what it waits for has not
\* happened, and a flush has left the mark that update_write_status looks for.
Waits(s, a) ==
    a \in Waiting /\ ~s.woken =>
        /\ s.dispatch_task /\ ~Has(s, "IO_STOPPING")
        /\ a \in {"recv", "pause"} => ~Has(s, "DSP_TIMEOUT")
        /\ a = "recv" => ~Has(s, "BUF_R_READY") /\ ~is_read_paused_or_backpressure(s)
        /\ a = "notify" => ~Has(s, "RD_NOTIFIED")
        /\ a = "flush" => Has(s, "WR_FLUSH")
        /\ a = "flush_part" => Has(s, "DSP_W_BACKPRESSURE") /\ (Above(s) \/ Has(s, "WR_FLUSH"))
        /\ a \in {"flush", "flush_part"} => write_buf_size(s) > 0

\* What a handler owes to the application is all a waiting application needs.
LEMMA InformsWaits ==
    ASSUME NEW s, NEW t, NEW a, Informs(s, t), Waits(s, a) PROVE Waits(t, a)
<1>1. SUFFICES ASSUME a \in Waiting, ~t.woken PROVE Waits(t, a)
  BY DEF Waits
<1>2. s.dispatch_task /\ ~s.woken
  BY <1>1 DEF Informs, Above, Waits
<1>3. \A f \in News : Has(t, f) => Has(s, f)
  BY <1>1, <1>2 DEF Informs
<1>4. \A f \in Marks : Has(s, f) => Has(t, f)
  BY DEF Informs
<1>5. a \in {"flush", "flush_part"} => write_buf_size(t) > 0
  BY <1>1, <1>2 DEF Informs, Above, Waits, Marks
<1>6. a = "flush_part" => Above(t) \/ Has(t, "WR_FLUSH")
  BY <1>1, <1>2, <1>4 DEF Informs, Waits, Marks
<1> QED BY <1>1, <1>2, <1>3, <1>4, <1>5, <1>6 DEF Waits, Informs, News, Marks, is_read_paused_or_backpressure

\* A change of flags that leaves to the tasks what is theirs.
LEMMA FlagsServe ==
    ASSUME NEW s, NEW t, Served(s), SameRun(s, t), t.pc = s.pc, write_buf_size(t) = write_buf_size(s),
           \A f \in {"IO_STOPPED", "IO_STOPPING", "WR_SEND_OP", "WR_PAUSED"} : Has(t, f) <=> Has(s, f),
           Together(t), is_closed(s) \/ s.sched \/ (Has(s, "RD_PAUSED") => Has(t, "RD_PAUSED"))
    PROVE  Served(t)
<1>1. is_closed(t) <=> is_closed(s)
  BY DEF is_closed
<1>2. Attended(t)
  BY <1>1 DEF Served, Attended, SameRun, Armed, Queued
<1>3. Handed(t, t.sched \/ "WR" \in t.item)
  BY <1>1 DEF Served, SameRun, Handed
<1> QED BY <1>2, <1>3 DEF Served

\* A change of fields that nobody looks at.
LEMMA FieldsServe ==
    ASSUME NEW s, NEW t, Served(s), t.flags = s.flags, t.wapp = s.wapp, t.wbuf = s.wbuf,
           SameRun(s, t), t.pc = s.pc
    PROVE  Served(t) /\ write_buf_size(t) = write_buf_size(s)
<1>1. Together(t)
  BY DEF Served, Attended, Together, Has
<1>2. \A f : Has(t, f) <=> Has(s, f)
  BY DEF Has
<1>3. write_buf_size(t) = write_buf_size(s)
  BY DEF write_buf_size
<1> QED BY <1>1, <1>2, <1>3, FlagsServe

\* A poll of the connection task leaves nothing undone.
LEMMA RunPollServes ==
    ASSUME Good(c), Served(c), NEW f \in FilterReads, NEW fails, RunPoll(f, fails)
    PROVE  Served(c') /\ Informs(c, c')
<1> DEFINE b  == [c EXCEPT !.sched = FALSE]
           s  == shutdown_filters(b, fails)
           r  == [s EXCEPT !.read_task = TRUE, !.write_task = TRUE]
           rd == Has(s, "IO_STOPPING_FILTERS") \/ ~is_read_paused_or_backpressure(s)
           wr == ~Has(s, "WR_PAUSED")
           t  == interest(r, rd, wr, f)
<1>1. c' = (IF is_closed(s) THEN [s EXCEPT !.pc = "closing"] ELSE t) /\ c \in IoState
  BY Zenon DEF RunPoll, Good, Sound
<1>2. /\ b \in IoState /\ b.flags = c.flags /\ b.wapp = c.wapp /\ b.wbuf = c.wbuf /\ b.handle = c.handle
      /\ b.item = c.item /\ b.ops = c.ops /\ b.registered = c.registered /\ SameApp(c, b)
  BY <1>1, ZenonT(60) DEF IoState, SameApp
<1> HIDE DEF b
<1>3. Sound(b) /\ HandleOk(b) /\ write_buf_size(b) = write_buf_size(c) /\ \A g : Has(b, g) <=> Has(c, g)
  BY <1>2 DEF Good, Sound, Ordered, HandleOk, Has, write_buf_size
<1>4. Handed(b, TRUE) /\ Queued(b) /\ Together(b) /\ (~is_closed(b) => b.registered /\ Armed(b))
  BY <1>2, <1>3 DEF Served, Attended, Handed, Queued, Together, Armed, is_closed
<1>5. Tells(b, s) /\ Sound(s) /\ Handed(s, TRUE) /\ s \in IoState
  BY <1>3, <1>4, ShutdownFiltersTells, Zenon DEF Sound
<1>6. HandleOk(s) /\ (is_closed(b) => is_closed(s))
  <2>1. Good(b) /\ b.pc = "poll"
    <3>1. b.pc = c.pc /\ b.slot = c.slot /\ b.delayed = c.delayed /\ b.busy = c.busy
      BY <1>1 DEF b, IoState
    <3>2. Owned(b)
      BY <1>2, <3>1 DEF Good, Owned
    <3> QED BY <1>3, <3>1, <3>2 DEF Good, TaskOk, RunPoll
  <2>2. Steps(b, s)
    BY <2>1, ShutdownFiltersSteps
  <2> QED BY <2>2 DEF Steps, Good, Stops, is_closed
<1> HIDE DEF s
<1>7. Runs(b, s) /\ Informs(b, s)
  BY <1>3, <1>5 DEF Tells
<1>8. Queued(s) /\ Together(s) /\ (~is_closed(s) => s.registered /\ Armed(s))
  BY <1>4, <1>6, <1>7 DEF Runs, Schedules, Armed, Interest
<1>9. Informs(c, s)
  BY <1>2, <1>3, <1>7 DEF Informs, Above, SameApp
<1>10. CASE is_closed(s)
  <2>1. c' = [s EXCEPT !.pc = "closing"]
    BY <1>1, <1>10
  <2>2. /\ c'.flags = s.flags /\ c'.wapp = s.wapp /\ c'.wbuf = s.wbuf /\ c'.pc = "closing"
        /\ SameRun(s, c') /\ SameApp(s, c')
    BY <1>5, <2>1 DEF IoState, SameRun, SameApp
  <2>3. Served(c')
    BY <1>8, <1>10, <2>2 DEF Served, Attended, Handed, Queued, Together, is_closed, Has, SameRun
  <2>4. Informs(c, c')
    BY <1>9, <2>2 DEF Informs, Above, SameApp, Has, write_buf_size
  <2> QED BY <2>3, <2>4
<1>11. CASE ~is_closed(s)
  <2>1. r \in IoState
    <3>1. ASSUME NEW x \in BOOLEAN, NEW y \in BOOLEAN PROVE [s EXCEPT !.read_task = x, !.write_task = y] \in IoState
      BY <1>5, ZenonT(60) DEF IoState
    <3> QED BY <3>1, Zenon
  <2>2. /\ r.flags = s.flags /\ r.wapp = s.wapp /\ r.wbuf = s.wbuf /\ r.handle = s.handle
        /\ r.item = s.item /\ r.ops = s.ops /\ r.registered = s.registered /\ SameApp(s, r)
        /\ r.read_task /\ r.write_task
    BY <1>5, <2>1 DEF IoState, SameApp
  <2> HIDE DEF r
  <2>3. /\ Sound(r) /\ HandleOk(r) /\ Together(r) /\ Armed(r) /\ Queued(r) /\ r.registered
        /\ Handed(r, wr) /\ (rd \/ Has(r, "RD_PAUSED")) /\ Informs(c, r)
    <3>1. \A g : Has(r, g) <=> Has(s, g)
      BY <2>2 DEF Has
    <3>2. write_buf_size(r) = write_buf_size(s)
      BY <2>2 DEF write_buf_size
    <3>3. Sound(r) /\ HandleOk(r) /\ Together(r) /\ Armed(r) /\ Queued(r) /\ r.registered
      BY <1>5, <1>6, <1>8, <1>11, <2>1, <2>2, <3>1 DEF Sound, Ordered, HandleOk, Together, Armed, Queued
    <3>4. Handed(r, wr)
      BY <1>5, <3>1, <3>2 DEF Handed, is_closed
    <3>5. rd \/ Has(r, "RD_PAUSED")
      BY <1>8, <3>1 DEF is_read_paused_or_backpressure, Together
    <3>6. Informs(c, r)
      BY <1>9, <2>2, <3>1, <3>2 DEF Informs, Above, SameApp
    <3> QED BY <3>3, <3>4, <3>5, <3>6
  <2>4. rd \in BOOLEAN /\ wr \in BOOLEAN
    BY DEF is_read_paused_or_backpressure, Has
  <2> HIDE DEF rd, wr
  <2>5. /\ Calls(r, t)
        /\ ~is_closed(t) => Armed(t) /\ ("RD" \in t.item \/ Has(t, "RD_PAUSED"))
        /\ Handed(t, "WR" \in t.item)
    BY <2>3, <2>4, InterestServes
  <2> HIDE DEF t
  <2>6. Schedules(r, t) /\ Informs(r, t)
    BY <2>3, <2>5 DEF Calls
  <2>7. Served(t)
    <3>1. Attended(t)
      BY <2>2, <2>3, <2>5, <2>6 DEF Attended, Schedules
    <3>2. Handed(t, t.sched \/ "WR" \in t.item)
      BY <2>5 DEF Handed
    <3> QED BY <3>1, <3>2 DEF Served
  <2>8. Informs(c, t)
    BY <2>3, <2>6 DEF Informs, Marks
  <2> QED BY <1>1, <1>11, <2>7, <2>8, SMTT(30)
<1> QED BY <1>10, <1>11

\* An action that applies a handler which leaves the poller alone.
LEMMA HandlerServes ==
    ASSUME NEW s, NEW t, Sound(s), Served(s), Tells(s, t), Reaches(s, t), \A b : Handed(s, b) => Handed(t, b)
    PROVE  Served(t) /\ Informs(s, t)
<1>1. (is_closed(s) => is_closed(t)) /\ t.pc = s.pc
  BY DEF Reaches, is_closed, Stops
<1>2. Attended(s) /\ Handed(s, s.sched \/ "WR" \in s.item)
  BY DEF Served
<1> QED BY <1>1, <1>2, TellsServed DEF Tells

\* The poller's report, and the end of the driver's turn.
LEMMA EventActionServes ==
    ASSUME Good(c), Served(c), OtherEvent \/ \E f \in FilterReads : Event(f)
    PROVE  Served(c') /\ Informs(c, c')
<1>1. Sound(c) /\ HandleOk(c) /\ ~c.busy
  BY DEF Good
<1>2. ASSUME NEW s, Sound(s), ~s.busy, Served(s)
      PROVE  Served(check_delayed_feed(s)) /\ Informs(s, check_delayed_feed(s))
  BY <1>2, DelayedFeedTells, DelayedFeedReaches, HandlerServes
<1>3. CASE OtherEvent
  BY <1>1, <1>2, <1>3 DEF OtherEvent
<1>4. ASSUME NEW f \in FilterReads, Event(f) PROVE Served(c') /\ Informs(c, c')
  <2> DEFINE e == event(c, Readiness, f)
  <2>1. c' = check_delayed_feed(e)
    BY <1>4 DEF Event
  <2>2. Calls(c, e) /\ Served(e)
    BY <1>1, EventServes
  <2>3. Keeps(c, e)
    BY <1>1, EventKeeps
  <2> HIDE DEF e
  <2>4. Sound(e) /\ ~e.busy /\ Informs(c, e)
    BY <1>1, <2>2, <2>3 DEF Keeps, Reaches, Calls
  <2>5. Served(check_delayed_feed(e)) /\ Informs(e, check_delayed_feed(e))
    BY <1>2, <2>2, <2>4
  <2> QED BY <2>1, <2>4, <2>5 DEF Informs, Marks
<1> QED BY <1>3, <1>4

\* What was queued with Iops is sent, or left to the connection task.
LEMMA IopsRunServes ==
    ASSUME Good(c), Served(c), IopsRun
    PROVE  Served(c') /\ Informs(c, c')
<1> DEFINE x == [c EXCEPT !.ops = FALSE]
           t == ops_send_buf(x)
<1>1. c \in IoState /\ c' = IF c.registered THEN t ELSE x
  BY DEF Good, Sound, IopsRun
<1>2. /\ x \in IoState /\ x.flags = c.flags /\ x.wapp = c.wapp /\ x.wbuf = c.wbuf /\ x.handle = c.handle
      /\ x.item = c.item /\ x.registered = c.registered /\ x.pc = c.pc /\ SameApp(c, x)
      /\ x.sched = c.sched /\ x.read_task = c.read_task /\ x.write_task = c.write_task
  BY <1>1, ZenonT(60) DEF IoState, SameApp
<1> HIDE DEF x
<1>3. \A g : Has(x, g) <=> Has(c, g)
  BY <1>2 DEF Has
<1>4. write_buf_size(x) = write_buf_size(c)
  BY <1>2 DEF write_buf_size
<1>5. Informs(c, x)
  BY <1>2, <1>3, <1>4 DEF Informs, Above, SameApp
<1>6. Sound(x) /\ HandleOk(x) /\ TaskOk(x)
  BY <1>2, <1>3 DEF Good, Sound, Ordered, HandleOk, TaskOk, is_closed
<1>7. /\ x.pc = "poll" => (x.sched \/ x.read_task) /\ (x.sched \/ x.write_task)
      /\ Together(x)
      /\ ~is_closed(x) => x.registered /\ Armed(x) /\ (x.sched \/ "RD" \in x.item \/ Has(x, "RD_PAUSED"))
      /\ Handed(x, x.sched \/ "WR" \in x.item)
  BY <1>2, <1>3, <1>4 DEF Served, Attended, Together, Armed, Handed, is_closed
<1>8. CASE ~c.registered
  <2>1. c' = x /\ Queued(x)
    BY <1>1, <1>2, <1>8 DEF Queued
  <2> QED BY <1>5, <1>7, <2>1 DEF Served, Attended
<1>9. CASE c.registered
  <2> DEFINE y == Remove(x, {"WR_SEND_OP"})
  <2>1. Tells(x, t) /\ Sound(t)
    BY <1>6, OpsSendTells DEF Tells
  <2>2. Runs(x, t) /\ Informs(x, t)
    BY <1>6, <2>1 DEF Tells
  <2>3. Queued(t)
    <3>1. CASE ~Has(x, "WR_SEND_OP")
      BY <3>1 DEF ops_send_buf, Queued
    <3>2. CASE Has(x, "WR_SEND_OP")
      <4> DEFINE w == call_write(y)
      <4>1. Sound(y) /\ Queued(y)
        <5>1. y.flags = x.flags \ {"WR_SEND_OP"} /\ Unmoved(x, y)
          BY <1>2, FlagsUpdate DEF FlagsKind
        <5> HIDE DEF y
        <5> QED BY <1>6, <5>1 DEF Sound, Ordered, Has, Unmoved, Frame, Queued
      <4>2. t \in {w, wake_write_task(w), wake_write_task(y)}
        BY <3>2 DEF ops_send_buf
      <4> HIDE DEF y, t
      <4>3. Tells(y, w) /\ Tells(y, wake_write_task(y)) /\ Tells(w, wake_write_task(w))
        BY CallWriteTells, WakeTells
      <4>4. Tells(y, t)
        BY <4>2, <4>3, TellsTransitive
      <4> QED BY <4>1, <4>4 DEF Tells, Runs, Schedules
    <3> QED BY <3>1, <3>2
  <2>4. (is_closed(x) => is_closed(t)) /\ t.pc = x.pc
    BY <1>6, OpsSendKeeps, StaysClosed
  <2>5. Handed(t, t.sched \/ "WR" \in t.item)
    <3>1. CASE is_closed(x)
      BY <2>4, <3>1 DEF Handed
    <3>2. CASE ~is_closed(x)
      <4> DEFINE b == x.sched \/ "WR" \in x.item
      <4>1. x.sched \/ x.write_task
        BY <1>6, <1>7, <3>2 DEF TaskOk
      <4>2. Handed(x, b)
        BY <1>7
      <4> HIDE DEF b
      <4>3. Handed(t, b \/ t.sched)
        BY <1>6, <4>1, <4>2, OpsSendTells
      <4> QED BY <2>2, <4>3 DEF b, Handed, Runs, Schedules, Interest
    <3> QED BY <3>1, <3>2
  <2>6. Attended(t)
    BY <1>7, <2>2, <2>3, <2>4 DEF Attended, Runs, Schedules, Armed, Interest
  <2>7. Informs(c, t)
    BY <1>5, <2>2 DEF Informs, Marks
  <2> QED BY <1>1, <1>9, <2>5, <2>6, <2>7 DEF Served
<1> QED BY <1>8, <1>9

\* Every action of the runtime and the driver.
LEMMA DriverServes ==
    ASSUME Good(c), Served(c), Driver PROVE Served(c') /\ Informs(c, c')
<1>1. c \in IoState /\ Sound(c)
  BY DEF Good, Sound
<1>2. CASE \E f \in FilterReads, fails \in FilterFails : RunPoll(f, fails)
  BY <1>2, RunPollServes
<1>3. CASE OtherEvent \/ \E f \in FilterReads : Event(f)
  BY <1>3, EventActionServes
<1>4. CASE IopsRun
  BY <1>4, IopsRunServes
<1>5. CASE RunDone
  <2> DEFINE x == [c EXCEPT !.pc = "done", !.busy = TRUE]
             d == drop_stream(x)
  <2>1. c' = [d EXCEPT !.busy = FALSE] /\ is_closed(c)
    BY <1>5 DEF RunDone, Good, TaskOk
  <2>2. /\ x \in IoState /\ x.flags = c.flags /\ x.wapp = c.wapp /\ x.wbuf = c.wbuf /\ x.pc = "done"
        /\ SameRun(c, x) /\ SameApp(c, x)
    <3>1. ASSUME NEW p \in {"poll", "closing", "done"}, NEW b \in BOOLEAN PROVE [c EXCEPT !.pc = p, !.busy = b] \in IoState
      BY <1>1, ZenonT(60) DEF IoState
    <3>2. x \in IoState
      BY <3>1, Zenon
    <3> QED BY <1>1, <3>2 DEF IoState, SameRun, SameApp
  <2> HIDE DEF x
  <2>3. d = IF "DROPPED_SEC" \in x.item THEN [x EXCEPT !.slot = FALSE] ELSE [x EXCEPT !.item = @ \cup {"DROPPED_PRI"}]
    BY <2>1, <2>2, Zenon DEF drop_stream, is_closed, Has
  <2> HIDE DEF d
  <2>4. /\ c'.flags = c.flags /\ c'.wapp = c.wapp /\ c'.wbuf = c.wbuf /\ c'.pc = "done" /\ SameApp(c, c')
        /\ c'.ops = c.ops /\ c'.registered = c.registered
    <3>1. /\ d.flags = x.flags /\ d.wapp = x.wapp /\ d.wbuf = x.wbuf /\ d.pc = x.pc /\ SameApp(x, d)
          /\ d.ops = x.ops /\ d.registered = x.registered
      BY <2>2, <2>3 DEF IoState, SameApp
    <3>2. /\ c'.flags = d.flags /\ c'.wapp = d.wapp /\ c'.wbuf = d.wbuf /\ c'.pc = d.pc /\ SameApp(d, c')
          /\ c'.ops = d.ops /\ c'.registered = d.registered
      <4>1. d \in IoState
        <5> DEFINE i == x.item \cup {"DROPPED_PRI"}
        <5>1. i \in SUBSET ItemFlags
          BY <2>2 DEF IoState, ItemFlags
        <5>2. d \in {[x EXCEPT !.slot = FALSE], [x EXCEPT !.item = i]}
          BY <2>3
        <5> HIDE DEF i
        <5>3. [x EXCEPT !.slot = FALSE] \in IoState /\ [x EXCEPT !.item = i] \in IoState
          BY <2>2, <5>1, ZenonT(60) DEF IoState
        <5> QED BY <5>2, <5>3, Zenon
      <4> QED BY <2>1, <4>1 DEF IoState, SameApp
    <3> QED BY <2>2, <3>1, <3>2 DEF SameRun, SameApp
  <2>5. Served(c')
    BY <2>1, <2>4 DEF Served, Attended, Queued, Together, is_closed, Has, Handed
  <2> QED BY <2>4, <2>5 DEF Informs, Above, SameApp, Has, write_buf_size
<1>6. CASE DisconnectTimeout
  <2>1. c' = [c EXCEPT !.timer = "elapsed", !.sched = TRUE]
    BY <1>6 DEF DisconnectTimeout
  <2>2. /\ c'.flags = c.flags /\ c'.wapp = c.wapp /\ c'.wbuf = c.wbuf /\ c'.pc = c.pc /\ c'.sched
        /\ c'.ops = c.ops /\ c'.registered = c.registered /\ c'.item = c.item /\ SameApp(c, c')
    BY <1>1, <2>1 DEF IoState, SameApp
  <2>3. Served(c')
    BY <2>2 DEF Served, Attended, Queued, Together, is_closed, Has, Handed, Armed, write_buf_size
  <2> QED BY <2>2, <2>3 DEF Informs, Above, SameApp, Has, write_buf_size
<1>7. CASE KeepAliveTimeout
  <2> DEFINE F == {"DSP_TIMEOUT"}
  <2>1. c' = wake_dispatch_task(Insert(c, F))
    BY <1>7 DEF KeepAliveTimeout, notify_timeout
  <2>2. /\ F \in SUBSET (FlagsKind \ Stops) /\ "WR_SEND_OP" \notin F /\ "RD_BACKPRESSURE" \notin F
        /\ "WR_PAUSED" \notin F
    BY DEF FlagsKind, Stops
  <2> HIDE DEF F
  <2>3. Tells(c, c') /\ Unmoved(c, c') /\ c'.flags = c.flags \cup F
    BY <1>1, <2>1, <2>2, NewsTells
  <2>4. /\ \A b : Handed(c, b) => Handed(c', b)
        /\ is_closed(c) => is_closed(c')
        /\ c'.pc = c.pc
    BY <2>2, <2>3 DEF Handed, is_closed, Has, Unmoved, Frame, write_buf_size
  <2>5. Attended(c) /\ Handed(c, c.sched \/ "WR" \in c.item)
    BY DEF Served
  <2> QED BY <1>1, <2>3, <2>4, <2>5, TellsServed DEF Tells
<1> QED BY <1>2, <1>3, <1>4, <1>5, <1>6, <1>7 DEF Driver

(***************************************************************************)
(* The operations of the application                                       *)
(***************************************************************************)
Resume == {"BUF_R_READY", "RD_BACKPRESSURE", "RD_PAUSED"}

\* Waking the read task brings the connection task to its next poll.
LEMMA WakeReadServes ==
    ASSUME NEW s, Sound(s), TaskOk(s), Served(s)
    PROVE  /\ Served(wake_read_task(s)) /\ Unmoved(s, wake_read_task(s)) /\ SameApp(s, wake_read_task(s))
           /\ wake_read_task(s).flags = s.flags
           /\ is_closed(s) \/ wake_read_task(s).sched
<1> DEFINE t == wake_read_task(s)
<1>1. s \in IoState
  BY DEF Sound
<1>2. Unmoved(s, t) /\ SameApp(s, t) /\ t.flags = s.flags /\ t.sched = (s.sched \/ s.read_task)
  BY <1>1, WakeUnmoved, WakeFields
<1>3. Tells(s, t)
  BY WakeTells
<1> HIDE DEF t
<1>4. /\ \A b : Handed(s, b) => Handed(t, b)
      /\ is_closed(s) => is_closed(t)
      /\ t.pc = s.pc
  BY <1>2 DEF Handed, is_closed, Has, Unmoved, Frame, write_buf_size
<1>5. Attended(s) /\ Handed(s, s.sched \/ "WR" \in s.item)
  BY DEF Served
<1>6. Served(t)
  BY <1>3, <1>4, <1>5, TellsServed
<1>7. is_closed(s) \/ t.sched
  BY <1>2, Zenon DEF Served, Attended, TaskOk
<1> QED BY <1>2, <1>6, <1>7 DEF t

\* Reading is resumed: the flags go and the connection task is told.
LEMMA ResumeServes ==
    ASSUME NEW s, Sound(s), TaskOk(s), Served(s)
    PROVE  LET t == wake_read_task(Remove(s, Resume))
           IN  Served(t) /\ Unmoved(s, t) /\ SameApp(s, t) /\ t.flags = s.flags \ Resume
<1> DEFINE x == Remove(s, Resume)
           t == wake_read_task(x)
<1>1. s \in IoState /\ Resume \in SUBSET FlagsKind
  BY DEF Sound, FlagsKind, Resume
<1>2. Unmoved(s, x) /\ x.flags = s.flags \ Resume /\ SameRun(s, x) /\ SameApp(s, x)
  BY <1>1, FlagsUpdate, FlagsSame
<1>3. x \in IoState
  BY <1>2 DEF Unmoved, Frame
<1> HIDE DEF x
<1>4. /\ Unmoved(x, t) /\ t.flags = x.flags /\ SameApp(x, t) /\ t.sched = (x.sched \/ x.read_task)
      /\ t.write_task = x.write_task /\ t.ops = x.ops /\ t.registered = x.registered
  BY <1>3, WakeUnmoved, WakeFields
<1> HIDE DEF t
<1>5. /\ Unmoved(s, t) /\ SameApp(s, t) /\ t.flags = s.flags \ Resume /\ t.sched = (s.sched \/ s.read_task)
      /\ t.write_task = s.write_task /\ t.ops = s.ops /\ t.registered = s.registered
  BY <1>2, <1>4 DEF Unmoved, Frame, SameApp, SameRun
<1>6. /\ \A f \in {"IO_STOPPED", "IO_STOPPING", "WR_SEND_OP", "WR_PAUSED"} : Has(t, f) <=> Has(s, f)
      /\ ~Has(t, "RD_BACKPRESSURE") /\ write_buf_size(t) = write_buf_size(s) /\ t.item = s.item /\ t.pc = s.pc
  BY <1>5 DEF Has, Resume, Unmoved, Frame, write_buf_size
<1>7. is_closed(t) <=> is_closed(s)
  BY <1>6 DEF is_closed
<1>8. is_closed(s) \/ t.sched
  BY <1>5, Zenon DEF Served, Attended, TaskOk
<1>9. Attended(t)
  BY <1>5, <1>6, <1>7, <1>8, Zenon DEF Served, Attended, Queued, Together, Armed
<1>10. Handed(t, t.sched \/ "WR" \in t.item)
  <2>1. s.sched => t.sched
    BY <1>5, Zenon
  <2> QED BY <1>6, <1>7, <2>1 DEF Served, Handed
<1>11. Served(t)
  BY <1>9, <1>10 DEF Served
<1> QED BY <1>5, <1>11 DEF t, x

\* Removing flags that the connection task does not look at.
LEMMA RemoveServes ==
    ASSUME NEW s, Sound(s), Served(s),
           NEW F \in SUBSET {"BUF_R_READY", "DSP_TIMEOUT", "RD_NOTIFY", "RD_NOTIFIED", "DSP_W_BACKPRESSURE",
                             "WR_FLUSH", "RD_BACKPRESSURE", "RD_PAUSED"},
           "RD_PAUSED" \in F => ~Has(s, "RD_BACKPRESSURE") /\ (is_closed(s) \/ s.sched)
    PROVE  LET t == Remove(s, F)
           IN  Sound(t) /\ Served(t) /\ Unmoved(s, t) /\ SameApp(s, t) /\ t.flags = s.flags \ F
<1> DEFINE t == Remove(s, F)
<1>1. s \in IoState /\ F \in SUBSET FlagsKind
  BY DEF Sound, FlagsKind
<1>2. Unmoved(s, t) /\ t.flags = s.flags \ F /\ SameRun(s, t) /\ SameApp(s, t)
  BY <1>1, FlagsUpdate, FlagsSame
<1> HIDE DEF t
<1>3. /\ \A f \in {"IO_STOPPED", "IO_STOPPING", "IO_STOPPING_FILTERS", "WR_SEND_OP", "WR_PAUSED"} : Has(t, f) <=> Has(s, f)
      /\ write_buf_size(t) = write_buf_size(s) /\ t.pc = s.pc /\ t \in IoState
  BY <1>2 DEF Has, Unmoved, Frame, write_buf_size
<1>4. Together(t)
  BY <1>2 DEF Served, Attended, Together, Has
<1>5. is_closed(s) \/ s.sched \/ (Has(s, "RD_PAUSED") => Has(t, "RD_PAUSED"))
  BY <1>2 DEF Has
<1>6. Served(t)
  BY <1>2, <1>3, <1>4, <1>5, FlagsServe
<1>7. Sound(t)
  BY <1>3 DEF Sound, Ordered
<1> QED BY <1>2, <1>6, <1>7 DEF t

\* So does adding one of them, or registering the application's waker.
LEMMA InsertServes ==
    ASSUME NEW s, Sound(s), Served(s),
           NEW F \in SUBSET {"RD_NOTIFY", "DSP_W_BACKPRESSURE", "WR_FLUSH", "RD_PAUSED"}
    PROVE  LET t == Insert(s, F)
           IN  Sound(t) /\ Served(t) /\ Unmoved(s, t) /\ SameApp(s, t) /\ t.flags = s.flags \cup F
<1> DEFINE t == Insert(s, F)
<1>1. s \in IoState /\ F \in SUBSET FlagsKind
  BY DEF Sound, FlagsKind
<1>2. Unmoved(s, t) /\ t.flags = s.flags \cup F /\ SameRun(s, t) /\ SameApp(s, t)
  BY <1>1, FlagsUpdate, FlagsSame
<1> HIDE DEF t
<1>3. /\ \A f \in {"IO_STOPPED", "IO_STOPPING", "IO_STOPPING_FILTERS", "WR_SEND_OP", "WR_PAUSED"} : Has(t, f) <=> Has(s, f)
      /\ write_buf_size(t) = write_buf_size(s) /\ t.pc = s.pc /\ t \in IoState
  BY <1>2 DEF Has, Unmoved, Frame, write_buf_size
<1>4. Together(t) /\ (Has(s, "RD_PAUSED") => Has(t, "RD_PAUSED"))
  BY <1>2 DEF Served, Attended, Together, Has
<1>5. Served(t)
  BY <1>2, <1>3, <1>4, FlagsServe
<1>6. Sound(t)
  BY <1>3 DEF Sound, Ordered
<1> QED BY <1>2, <1>5, <1>6 DEF t

\* Registering the application's waker changes nothing for the task, Iops and the poller.
LEMMA RegisterServes ==
    ASSUME NEW s, Sound(s), Served(s)
    PROVE  LET t == register_dispatch(s)
           IN  Sound(t) /\ Served(t) /\ Unmoved(s, t) /\ t.flags = s.flags /\ t.dispatch_task
<1> DEFINE t == register_dispatch(s)
<1>1. s \in IoState
  BY DEF Sound
<1>2. Unmoved(s, t) /\ t.flags = s.flags /\ SameRun(s, t) /\ t.dispatch_task
  BY <1>1, WakeUnmoved DEF register_dispatch, IoState, SameRun
<1> HIDE DEF t
<1>3. Served(t)
  BY <1>2, FieldsServe DEF Unmoved, Frame
<1>4. Sound(t)
  BY <1>2 DEF Sound, Ordered, Has, Unmoved, Frame
<1> QED BY <1>2, <1>3, <1>4 DEF t

\* The three ways in which an operation resumes or pauses reading.
LEMMA ReadReadyServes ==
    ASSUME NEW s, Sound(s), TaskOk(s), Served(s)
    PROVE  LET u == update_read_destination(s)
               p == poll_read_ready(s)
               q == pause(s)
           IN  /\ Served(u) /\ Unmoved(s, u) /\ SameApp(s, u) /\ u.flags \subseteq s.flags
               /\ Served(p) /\ Unmoved(s, p) /\ p.woken = s.woken /\ p.flags \subseteq s.flags
               /\ ~is_closed(s) /\ ~Has(s, "BUF_R_READY") => p.dispatch_task /\ p.flags \cap Resume = {}
               /\ Served(q) /\ Unmoved(s, q) /\ SameApp(s, q) /\ q.flags = s.flags \cup {"RD_PAUSED"}
<1>1. s \in IoState /\ Unmoved(s, s) /\ SameApp(s, s)
  BY DEF Sound, Unmoved, Frame, SameApp
<1>2. LET u == update_read_destination(s)
      IN  Served(u) /\ Unmoved(s, u) /\ SameApp(s, u) /\ u.flags \subseteq s.flags
  <2> DEFINE F == {"BUF_R_READY", "RD_BACKPRESSURE"}
             P == {"RD_PAUSED"}
             x == Remove(s, F)
             w == wake_read_task(x)
             y == Remove(w, P)
             u == update_read_destination(s)
  <2>1. u = IF Has(s, "RD_BACKPRESSURE") /\ s.rbuf >= ReadHigh THEN s
            ELSE IF Has(s, "RD_PAUSED") THEN y ELSE x
    BY DEF update_read_destination
  <2>2. "RD_PAUSED" \notin F /\ "RD_BACKPRESSURE" \in F /\ "RD_BACKPRESSURE" \notin P
    OBVIOUS
  <2>3. /\ F \in SUBSET {"BUF_R_READY", "DSP_TIMEOUT", "RD_NOTIFY", "RD_NOTIFIED", "DSP_W_BACKPRESSURE",
                          "WR_FLUSH", "RD_BACKPRESSURE", "RD_PAUSED"}
        /\ P \in SUBSET {"BUF_R_READY", "DSP_TIMEOUT", "RD_NOTIFY", "RD_NOTIFIED", "DSP_W_BACKPRESSURE",
                          "WR_FLUSH", "RD_BACKPRESSURE", "RD_PAUSED"}
    OBVIOUS
  <2> HIDE DEF F, P, u
  <2>4. Sound(x) /\ Served(x) /\ Unmoved(s, x) /\ SameApp(s, x) /\ x.flags = s.flags \ F
    BY <2>2, <2>3, RemoveServes
  <2> HIDE DEF x
  <2>5. TaskOk(x)
    <3>1. Has(x, "IO_STOPPING") <=> Has(s, "IO_STOPPING")
      BY <2>4 DEF F, Has
    <3>2. Has(x, "IO_STOPPED") <=> Has(s, "IO_STOPPED")
      BY <2>4 DEF F, Has
    <3> QED BY <2>4, <3>1, <3>2 DEF TaskOk, is_closed, Unmoved, Frame
  <2>6. Served(w) /\ Unmoved(x, w) /\ SameApp(x, w) /\ w.flags = x.flags /\ (is_closed(x) \/ w.sched)
    BY <2>4, <2>5, WakeReadServes
  <2> HIDE DEF w
  <2>7. Sound(w) /\ ~Has(w, "RD_BACKPRESSURE") /\ (is_closed(w) \/ w.sched)
    BY <2>2, <2>4, <2>6 DEF Sound, Ordered, Has, is_closed, Unmoved, Frame
  <2>8. Served(y) /\ Unmoved(w, y) /\ SameApp(w, y) /\ y.flags = w.flags \ P
    BY <2>3, <2>6, <2>7, RemoveServes, ZenonT(60)
  <2> HIDE DEF y
  <2>9. Unmoved(s, y) /\ SameApp(s, y) /\ y.flags \subseteq s.flags
    BY <2>4, <2>6, <2>8, ZenonT(60) DEF Unmoved, Frame, SameApp
  <2>10. Served(u) /\ Unmoved(s, u) /\ SameApp(s, u) /\ u.flags \subseteq s.flags
    BY <1>1, <2>1, <2>4, <2>8, <2>9
  <2> QED BY <2>10 DEF u
<1>3. LET p == poll_read_ready(s)
      IN  /\ Served(p) /\ Unmoved(s, p) /\ p.woken = s.woken /\ p.flags \subseteq s.flags
          /\ ~is_closed(s) /\ ~Has(s, "BUF_R_READY") => p.dispatch_task /\ p.flags \cap Resume = {}
  <2> DEFINE w == wake_read_task(Remove(s, Resume))
             r == IF is_read_paused_or_backpressure(s) THEN w ELSE s
             d == register_dispatch(r)
             p == poll_read_ready(s)
  <2>1. p = IF is_closed(s) THEN s ELSE IF Has(s, "BUF_R_READY") THEN r ELSE d
    BY DEF poll_read_ready, Resume
  <2>2. Served(w) /\ Unmoved(s, w) /\ SameApp(s, w) /\ w.flags = s.flags \ Resume
    BY ResumeServes
  <2> HIDE DEF w, p
  <2>3. Served(r) /\ Unmoved(s, r) /\ SameApp(s, r) /\ r.flags \subseteq s.flags
    BY <1>1, <2>2
  <2>4. ~Has(s, "BUF_R_READY") => r.flags \cap Resume = {}
    BY <2>2 DEF is_read_paused_or_backpressure, Has, Resume
  <2>5. Sound(r)
    <3>1. r.flags \in {s.flags, s.flags \ Resume}
      BY <2>2
    <3> HIDE DEF r
    <3> QED BY <2>3, <3>1 DEF Sound, Ordered, Has, Resume, Unmoved, Frame
  <2> HIDE DEF r
  <2>6. Sound(d) /\ Served(d) /\ Unmoved(r, d) /\ d.flags = r.flags /\ d.dispatch_task /\ d.woken = r.woken
    <3>1. d.woken = r.woken
      BY <2>5, SMTT(30) DEF register_dispatch, Sound, IoState
    <3> QED BY <2>3, <2>5, <3>1, RegisterServes
  <2> HIDE DEF d
  <2>7. Served(p) /\ Unmoved(s, p) /\ p.woken = s.woken /\ p.flags \subseteq s.flags
    BY <1>1, <2>1, <2>3, <2>6 DEF SameApp, Unmoved, Frame
  <2>8. ~is_closed(s) /\ ~Has(s, "BUF_R_READY") => p.dispatch_task /\ p.flags \cap Resume = {}
    BY <2>1, <2>4, <2>6
  <2> QED BY <2>7, <2>8 DEF p
<1>4. LET q == pause(s)
      IN  Served(q) /\ Unmoved(s, q) /\ SameApp(s, q) /\ q.flags = s.flags \cup {"RD_PAUSED"}
  <2> DEFINE P == {"RD_PAUSED"}
             w == wake_read_task(s)
             i == Insert(w, P)
             q == pause(s)
  <2>1. q = IF Has(s, "RD_PAUSED") THEN s ELSE i
    BY DEF pause
  <2>2. P \in SUBSET {"RD_NOTIFY", "DSP_W_BACKPRESSURE", "WR_FLUSH", "RD_PAUSED"}
    OBVIOUS
  <2> HIDE DEF P, q
  <2>3. Served(w) /\ Unmoved(s, w) /\ SameApp(s, w) /\ w.flags = s.flags
    BY WakeReadServes
  <2> HIDE DEF w
  <2>4. Sound(w)
    BY <2>3 DEF Sound, Ordered, Has, Unmoved, Frame
  <2>5. Served(i) /\ Unmoved(w, i) /\ SameApp(w, i) /\ i.flags = w.flags \cup P
    BY <2>2, <2>3, <2>4, InsertServes
  <2> HIDE DEF i
  <2>6. Served(q) /\ Unmoved(s, q) /\ SameApp(s, q) /\ q.flags = s.flags \cup P
    <3>1. CASE Has(s, "RD_PAUSED")
      BY <1>1, <2>1, <3>1, SMTT(30) DEF Has, P
    <3>2. CASE ~Has(s, "RD_PAUSED")
      BY <2>1, <2>3, <2>5, <3>2, ZenonT(60) DEF Unmoved, Frame, SameApp
    <3> QED BY <3>1, <3>2
  <2> QED BY <2>6 DEF q, P
<1> QED BY <1>2, <1>3, <1>4

\* A consolidation after bytes were added hands all of them over.
LEMMA ConsolidateServes ==
    ASSUME NEW s, NEW force, Sound(s), HandleOk(s), Attended(s), Looked(s, s.sched \/ "WR" \in s.item)
    PROVE  LET t == consolidate_write_state(s, force)
           IN  Served(t) /\ Tells(s, t) /\ Sound(t)
<1> DEFINE t == consolidate_write_state(s, force)
           b == s.sched \/ "WR" \in s.item
<1>1. Tells(s, t) /\ Sound(t)
  BY ConsolidateTells DEF Tells
<1>2. (is_closed(s) => is_closed(t)) /\ t.pc = s.pc
  BY ConsolidateKeeps, StaysClosed
<1>3. Handed(t, b)
  <2> HIDE DEF b
  <2>1. Looked(s, b)
    BY DEF b
  <2> QED BY <2>1, ConsolidateTells
<1> HIDE DEF t
<1>4. Served(t)
  BY <1>1, <1>2, <1>3, TellsServed
<1> QED BY <1>1, <1>4 DEF t

\* A task that starts to poll has taken its wake-up.
LEMMA PolledServes ==
    ASSUME Good(c), Served(c)
    PROVE  /\ Sound(Polled) /\ HandleOk(Polled) /\ TaskOk(Polled) /\ Served(Polled)
           /\ Polled.flags = c.flags /\ Polled.rbuf = c.rbuf
<1>1. c \in IoState
  BY DEF Good, Sound
<1>2. /\ Polled \in IoState /\ Polled.flags = c.flags /\ Polled.rbuf = c.rbuf /\ Polled.wapp = c.wapp
      /\ Polled.wbuf = c.wbuf /\ Polled.handle = c.handle /\ Polled.pc = c.pc /\ SameRun(c, Polled)
  BY <1>1, ZenonT(60) DEF Polled, IoState, SameRun
<1>3. Sound(Polled) /\ HandleOk(Polled) /\ TaskOk(Polled)
  BY <1>2 DEF Good, Sound, Ordered, HandleOk, TaskOk, is_closed, Has
<1>4. Served(Polled)
  BY <1>2, FieldsServe
<1> QED BY <1>2, <1>3, <1>4

\* Io::recv registers its waker only after it looked at everything it waits for.
LEMMA RecvServes ==
    ASSUME Good(c), Served(c), PollRecv PROVE Served(c') /\ Waits(c', app')
<1> DEFINE item    == c.rbuf >= ItemLen
           B       == {"BUF_R_READY"}
           T       == {"DSP_TIMEOUT"}
           x       == Remove(Polled, B)
           decoded == [x EXCEPT !.rbuf = IF item THEN @ - ItemLen ELSE @]
           s       == update_read_destination(decoded)
           r       == poll_read_ready(s)
<1>1. \/ c' \in {s, Remove(s, T)} /\ app' = "idle"
      \/ s.flags \cap {"IO_STOPPING", "DSP_TIMEOUT", "DSP_W_BACKPRESSURE"} = {} /\ c' = r /\ app' = "recv"
  BY DEF PollRecv
<1>2. /\ B \in SUBSET {"BUF_R_READY", "DSP_TIMEOUT", "RD_NOTIFY", "RD_NOTIFIED", "DSP_W_BACKPRESSURE",
                        "WR_FLUSH", "RD_BACKPRESSURE", "RD_PAUSED"}
      /\ T \in SUBSET {"BUF_R_READY", "DSP_TIMEOUT", "RD_NOTIFY", "RD_NOTIFIED", "DSP_W_BACKPRESSURE",
                        "WR_FLUSH", "RD_BACKPRESSURE", "RD_PAUSED"}
      /\ "RD_PAUSED" \notin B /\ "RD_PAUSED" \notin T
  OBVIOUS
<1> HIDE DEF B, T
<1>3. Sound(x) /\ Served(x) /\ Unmoved(Polled, x) /\ x.flags = c.flags \ B
  BY <1>2, PolledServes, RemoveServes
<1>4. x \in IoState /\ x.rbuf = c.rbuf /\ c.rbuf \in Nat
  <2>1. Polled \in IoState /\ Polled.rbuf = c.rbuf
    BY PolledServes DEF Sound
  <2>2. x.rbuf = Polled.rbuf
    BY <2>1 DEF Remove, IoState
  <2> QED BY <1>3, <2>1, <2>2 DEF Sound, IoState
<1> HIDE DEF x
<1>5. item => c.rbuf - ItemLen \in Nat
  BY <1>4, SizesAssumption
<1>6. /\ decoded \in IoState /\ decoded.flags = x.flags /\ decoded.wapp = x.wapp /\ decoded.wbuf = x.wbuf
      /\ decoded.pc = x.pc /\ SameRun(x, decoded)
  BY <1>4, <1>5 DEF IoState, SameRun
<1> HIDE DEF decoded
<1>7. Served(decoded)
  BY <1>3, <1>6, FieldsServe
<1>8. Sound(decoded) /\ TaskOk(decoded)
  <2>1. \A g \in Stops : Has(decoded, g) <=> Has(Polled, g)
    BY <1>3, <1>6, PolledServes DEF Has, Stops, B
  <2>2. decoded.pc = Polled.pc
    BY <1>3, <1>6 DEF Unmoved, Frame
  <2> QED BY <1>6, <2>1, <2>2, PolledServes, ZenonT(60) DEF Stops, Sound, Ordered, TaskOk, is_closed
<1>9. Keeps(decoded, s)
  BY ReadReadyKeeps
<1>10. Served(s) /\ Unmoved(decoded, s) /\ s.flags \subseteq decoded.flags
  BY <1>7, <1>8, ReadReadyServes
<1> HIDE DEF s
<1>11. Sound(s) /\ TaskOk(s)
  BY <1>8, <1>9, StaysClosed DEF TaskOk
<1>12. CASE c' \in {s, Remove(s, T)} /\ app' = "idle"
  <2>1. Served(Remove(s, T))
    BY <1>2, <1>10, <1>11, RemoveServes
  <2> QED BY <1>10, <1>12, <2>1 DEF Waits, Waiting
<1>13. CASE s.flags \cap {"IO_STOPPING", "DSP_TIMEOUT", "DSP_W_BACKPRESSURE"} = {} /\ c' = r /\ app' = "recv"
  <2>1. ~is_closed(s) /\ ~Has(s, "BUF_R_READY") /\ ~Has(s, "DSP_TIMEOUT") /\ ~Has(s, "IO_STOPPING")
    BY <1>3, <1>6, <1>10, <1>11, <1>13, ZenonT(60) DEF Sound, Ordered, is_closed, Has, B
  <2>2. Served(r) /\ r.flags \subseteq s.flags /\ r.dispatch_task /\ r.flags \cap Resume = {}
    BY <1>10, <1>11, <2>1, ReadReadyServes, ZenonT(60)
  <2> HIDE DEF r
  <2>3. Waits(r, "recv")
    BY <2>1, <2>2 DEF Waits, Has, is_read_paused_or_backpressure, Resume
  <2> QED BY <1>13, <2>2, <2>3, ZenonT(60)
<1> QED BY <1>1, <1>12, <1>13

\* Io::poll_read_notify: it waits registered, without the notice it waits for.
LEMMA NotifyServes ==
    ASSUME Good(c), Served(c), PollReadNotify PROVE Served(c') /\ Waits(c', app')
<1> DEFINE N == {"RD_NOTIFY"}
           F == {"RD_NOTIFY", "RD_NOTIFIED"}
           x == Insert(Polled, N)
           y == poll_read_ready(x)
           r == register_dispatch(y)
<1>1. \/ c' \in {Polled, Remove(Polled, F)} /\ app' = "idle"
      \/ ~Has(c, "IO_STOPPING") /\ ~Has(c, "RD_NOTIFIED") /\ c' = r /\ app' = "notify"
  BY DEF PollReadNotify
<1>2. /\ N \in SUBSET {"RD_NOTIFY", "DSP_W_BACKPRESSURE", "WR_FLUSH", "RD_PAUSED"}
      /\ F \in SUBSET {"BUF_R_READY", "DSP_TIMEOUT", "RD_NOTIFY", "RD_NOTIFIED", "DSP_W_BACKPRESSURE",
                        "WR_FLUSH", "RD_BACKPRESSURE", "RD_PAUSED"}
      /\ "RD_PAUSED" \notin F
  OBVIOUS
<1> HIDE DEF N, F
<1>3. CASE c' \in {Polled, Remove(Polled, F)} /\ app' = "idle"
  <2>1. Served(Polled) /\ Served(Remove(Polled, F))
    BY <1>2, PolledServes, RemoveServes
  <2> QED BY <1>3, <2>1 DEF Waits, Waiting
<1>4. CASE ~Has(c, "IO_STOPPING") /\ ~Has(c, "RD_NOTIFIED") /\ c' = r /\ app' = "notify"
  <2>1. Sound(x) /\ Served(x) /\ Unmoved(Polled, x) /\ x.flags = c.flags \cup N
    BY <1>2, PolledServes, InsertServes
  <2> HIDE DEF x
  <2>2. TaskOk(x) /\ ~Has(x, "IO_STOPPING") /\ ~Has(x, "RD_NOTIFIED")
    BY <1>4, <2>1, PolledServes, ZenonT(60) DEF TaskOk, is_closed, Has, N, Unmoved, Frame
  <2>3. Served(y) /\ Unmoved(x, y) /\ y.flags \subseteq x.flags
    BY <2>1, <2>2, ReadReadyServes
  <2>4. Sound(y)
    BY <2>1, ReadReadyKeeps, StaysClosed
  <2> HIDE DEF y
  <2>5. Served(r) /\ r.flags = y.flags /\ r.dispatch_task
    BY <2>3, <2>4, RegisterServes, SMTT(30)
  <2> HIDE DEF r
  <2>6. Waits(r, "notify")
    BY <2>2, <2>3, <2>5 DEF Waits, Has
  <2> QED BY <1>4, <2>5, <2>6, ZenonT(60)
<1> QED BY <1>1, <1>3, <1>4

\* Io::poll_read_pause: it waits registered, without a timeout it has not seen.
LEMMA PauseServes ==
    ASSUME Good(c), Served(c), PollReadPause PROVE Served(c') /\ Waits(c', app')
<1> DEFINE T == {"DSP_TIMEOUT"}
           W == {"DSP_W_BACKPRESSURE"}
           x == pause(Polled)
           s == register_dispatch(x)
<1>1. \/ c' \in {s, Remove(s, T), Remove(s, W)} /\ app' = "idle"
      \/ ~is_closed(s) /\ s.flags \cap {"DSP_TIMEOUT", "DSP_W_BACKPRESSURE"} = {} /\ c' = s /\ app' = "pause"
  BY DEF PollReadPause
<1>2. /\ W \in SUBSET {"BUF_R_READY", "DSP_TIMEOUT", "RD_NOTIFY", "RD_NOTIFIED", "DSP_W_BACKPRESSURE",
                        "WR_FLUSH", "RD_BACKPRESSURE", "RD_PAUSED"}
      /\ T \in SUBSET {"BUF_R_READY", "DSP_TIMEOUT", "RD_NOTIFY", "RD_NOTIFIED", "DSP_W_BACKPRESSURE",
                        "WR_FLUSH", "RD_BACKPRESSURE", "RD_PAUSED"}
      /\ "RD_PAUSED" \notin W /\ "RD_PAUSED" \notin T
  BY ZenonT(60)
<1> HIDE DEF T, W
<1>3. Served(x) /\ Sound(x)
  BY PolledServes, ReadReadyServes, ReadReadyKeeps, StaysClosed
<1> HIDE DEF x
<1>4. Served(s) /\ Sound(s) /\ s.dispatch_task
  BY <1>3, RegisterServes
<1> HIDE DEF s
<1>5. CASE c' \in {s, Remove(s, T), Remove(s, W)} /\ app' = "idle"
  <2>1. Served(Remove(s, T)) /\ Served(Remove(s, W))
    BY <1>2, <1>4, RemoveServes
  <2> QED BY <1>4, <1>5, <2>1 DEF Waits, Waiting
<1>6. CASE ~is_closed(s) /\ s.flags \cap {"DSP_TIMEOUT", "DSP_W_BACKPRESSURE"} = {} /\ c' = s /\ app' = "pause"
  BY <1>4, <1>6 DEF Waits, is_closed, Has
<1> QED BY <1>1, <1>5, <1>6, ZenonT(60)

\* Io::poll_shutdown: it waits registered, and only while the connection is not closed.
LEMMA ShutdownServes ==
    ASSUME Good(c), Served(c), PollShutdown PROVE Served(c') /\ Waits(c', app')
<1> DEFINE x == start_shutdown(Polled)
           z == wake_read_task(Remove(x, Resume))
           r == register_dispatch(z)
<1>1. \/ c' = Polled /\ app' = "idle"
      \/ ~Has(c, "IO_STOPPING") /\ c' = r /\ app' = "shutdown"
  BY DEF PollShutdown, Resume
<1>2. CASE c' = Polled /\ app' = "idle"
  BY <1>2, PolledServes DEF Waits, Waiting
<1>3. CASE ~Has(c, "IO_STOPPING") /\ c' = r /\ app' = "shutdown"
  <2>1. Polled \in IoState
    BY PolledServes DEF Sound
  <2>2. /\ x.flags \in {c.flags, c.flags \cup {"IO_STOPPING_FILTERS"}}
        /\ x.wapp = Polled.wapp /\ x.wbuf = Polled.wbuf
    BY <2>1, PolledServes, StartShutdownFlags
  <2>3. Tells(Polled, x) /\ Keeps(Polled, x)
    BY StartShutdownTells, StartShutdownKeeps
  <2>4. Sound(x) /\ x.pc = Polled.pc /\ (is_closed(Polled) => is_closed(x))
    BY <2>3, PolledServes, StaysClosed, SMTT(30)
  <2> HIDE DEF x
  <2>5. \A b : Handed(Polled, b) => Handed(x, b)
    BY <2>2, PolledServes, ZenonT(60) DEF Handed, is_closed, Has, write_buf_size
  <2>6. Served(x)
    BY <2>3, <2>5, PolledServes, HandlerServes, ZenonT(60) DEF Keeps
  <2>7. TaskOk(x) /\ ~Has(x, "IO_STOPPING")
    BY <1>3, <2>2, <2>4, PolledServes, ZenonT(60) DEF TaskOk, Has
  <2>8. Served(z) /\ Unmoved(x, z) /\ z.flags = x.flags \ Resume
    BY <2>4, <2>6, <2>7, ResumeServes, ZenonT(60)
  <2> HIDE DEF z
  <2>9. Sound(z) /\ ~Has(z, "IO_STOPPING")
    BY <2>4, <2>7, <2>8, ZenonT(60) DEF Sound, Ordered, Has, Resume, Unmoved, Frame
  <2>10. Served(r) /\ r.flags = z.flags /\ r.dispatch_task
    BY <2>8, <2>9, RegisterServes, SMTT(30)
  <2> HIDE DEF r
  <2>11. Waits(r, "shutdown")
    BY <2>9, <2>10 DEF Waits, Has
  <2> QED BY <1>3, <2>10, <2>11
<1> QED BY <1>1, <1>2, <1>3

\* Io::flush waits only while bytes are unsent, and leaves its mark.
LEMMA FlushServes ==
    ASSUME Good(c), Served(c), NEW full \in BOOLEAN, PollFlush(full) PROVE Served(c') /\ Waits(c', app')
<1> DEFINE x == process_write_buf(Polled)
           s == consolidate_write_state(x, FALSE)
           M == {IF full THEN "WR_FLUSH" ELSE "DSP_W_BACKPRESSURE"}
           F == {"DSP_W_BACKPRESSURE", "WR_FLUSH"}
           y == Insert(s, M)
           r == register_dispatch(y)
           op == IF full THEN "flush" ELSE "flush_part"
<1>1. \/ c' \in {s, Remove(s, F)} /\ app' = "idle"
      \/ /\ ~is_closed(s) /\ write_buf_size(s) > 0 /\ (full \/ write_buf_size(s) >= WriteHigh)
         /\ c' = r /\ app' = op
  BY Zenon DEF PollFlush
<1>2. /\ M \in SUBSET {"RD_NOTIFY", "DSP_W_BACKPRESSURE", "WR_FLUSH", "RD_PAUSED"}
      /\ F \in SUBSET {"BUF_R_READY", "DSP_TIMEOUT", "RD_NOTIFY", "RD_NOTIFIED", "DSP_W_BACKPRESSURE",
                        "WR_FLUSH", "RD_BACKPRESSURE", "RD_PAUSED"}
      /\ "RD_PAUSED" \notin F
  OBVIOUS
<1> HIDE DEF M, F
<1>3. Served(x) /\ Sound(x) /\ HandleOk(x)
  <2>1. Tells(Polled, x) /\ Keeps(Polled, x)
    BY ProcessWriteTells, ProcessWriteKeeps
  <2>2. x.flags = Polled.flags /\ write_buf_size(x) = write_buf_size(Polled)
    BY PolledServes, ProcessWriteKeeps DEF Sound
  <2> HIDE DEF x
  <2>3. \A b : Handed(Polled, b) => Handed(x, b)
    BY <2>2, ZenonT(60) DEF Handed, is_closed, Has
  <2>4. Served(x)
    BY <2>1, <2>3, PolledServes, HandlerServes, SMTT(30) DEF Keeps
  <2> QED BY <2>1, <2>4, PolledServes, StaysClosed
<1> HIDE DEF x
<1>4. Served(s) /\ Sound(s)
  <2>1. Attended(x) /\ Looked(x, x.sched \/ "WR" \in x.item)
    BY <1>3 DEF Served, Handed, Looked
  <2> QED BY <1>3, <2>1, ConsolidateServes, Zenon
<1> HIDE DEF s
<1>5. CASE c' \in {s, Remove(s, F)} /\ app' = "idle"
  <2>1. Served(Remove(s, F))
    BY <1>2, <1>4, RemoveServes
  <2> QED BY <1>4, <1>5, <2>1 DEF Waits, Waiting
<1>6. CASE /\ ~is_closed(s) /\ write_buf_size(s) > 0 /\ (full \/ write_buf_size(s) >= WriteHigh)
           /\ c' = r /\ app' = op
  <2>1. Sound(y) /\ Served(y) /\ Unmoved(s, y) /\ y.flags = s.flags \cup M
    BY <1>2, <1>4, InsertServes
  <2> HIDE DEF y
  <2>2. Served(r) /\ Unmoved(y, r) /\ r.flags = y.flags /\ r.dispatch_task
    BY <2>1, RegisterServes, ZenonT(60)
  <2> HIDE DEF r
  <2>3. write_buf_size(r) > 0 /\ ~Has(r, "IO_STOPPING") /\ Has(r, IF full THEN "WR_FLUSH" ELSE "DSP_W_BACKPRESSURE")
    <3>1. r.wbuf = s.wbuf /\ r.wapp = s.wapp /\ r.flags = s.flags \cup M
      BY <2>1, <2>2, Zenon DEF Unmoved, Frame
    <3>2. write_buf_size(r) > 0
      BY <1>6, <3>1, Zenon DEF write_buf_size
    <3>3. ~Has(r, "IO_STOPPING") /\ Has(r, IF full THEN "WR_FLUSH" ELSE "DSP_W_BACKPRESSURE")
      BY <1>6, <3>1 DEF is_closed, Has, M
    <3> QED BY <3>2, <3>3, Zenon
  <2>4. ~full => Above(r)
    <3>1. write_buf_size(r) = write_buf_size(s)
      BY <2>1, <2>2, Zenon DEF Unmoved, Frame, write_buf_size
    <3>2. write_buf_size(s) \in Nat
      BY <1>4, Sizes DEF Sound
    <3> QED BY <1>6, <3>1, <3>2, SizesAssumption DEF Above
  <2>5. Waits(r, op)
    BY <2>2, <2>3, <2>4 DEF Waits
  <2> QED BY <1>6, <2>2, <2>5
<1> QED BY <1>1, <1>5, <1>6, SMTT(30)

\* A field that no task waits for.
LEMMA QuietServes ==
    ASSUME NEW s, NEW t, Served(s), t.flags = s.flags, t.wapp = s.wapp, t.wbuf = s.wbuf,
           SameRun(s, t), SameApp(s, t), t.pc = s.pc
    PROVE  Served(t) /\ Informs(s, t)
<1>1. Served(t) /\ write_buf_size(t) = write_buf_size(s)
  BY FieldsServe, SMTT(30)
<1>2. \A f : Has(t, f) <=> Has(s, f)
  BY DEF Has
<1> QED BY <1>1, <1>2 DEF Informs, Above, SameApp

\* IoRef::encode adds bytes and hands them over in the same call.
LEMMA EncodeServes ==
    ASSUME Good(c), Served(c), NEW n \in Nat, Encode(n) PROVE Served(c') /\ Informs(c, c')
<1> DEFINE a == IF cfg.layer THEN c.wapp + n ELSE c.wapp
           b == IF cfg.layer THEN c.wbuf ELSE c.wbuf + n
           x == [c EXCEPT !.out_left = @ - n, !.wapp = a, !.wbuf = b]
<1>1. c \in IoState /\ c' = consolidate_write_state(x, FALSE)
  BY DEF Good, Sound, Encode
<1>2. c.out_left - n \in Nat /\ a \in Nat /\ b \in Nat /\ a + b >= c.wapp + c.wbuf
  <2>1. c.out_left \in Nat /\ c.wapp \in Nat /\ c.wbuf \in Nat
    BY <1>1, SMTT(30) DEF IoState
  <2> QED BY <2>1 DEF Encode
<1> HIDE DEF a, b
<1>3. x \in IoState
  <2>1. ASSUME NEW u \in Nat, NEW v \in Nat, NEW w \in Nat
        PROVE  [c EXCEPT !.out_left = u, !.wapp = v, !.wbuf = w] \in IoState
    BY <1>1, ZenonT(60) DEF IoState
  <2> QED BY <1>2, <2>1, Zenon
<1>4. /\ x.flags = c.flags /\ x.pc = c.pc /\ x.handle = c.handle /\ x.wapp = a /\ x.wbuf = b
      /\ SameRun(c, x) /\ SameApp(c, x)
  BY <1>1, <1>3 DEF IoState, SameRun, SameApp
<1> HIDE DEF x
<1>5. \A f : Has(x, f) <=> Has(c, f)
  BY <1>4 DEF Has
<1>6. write_buf_size(x) >= write_buf_size(c) /\ write_buf_size(x) \in Nat /\ write_buf_size(c) \in Nat
  BY <1>1, <1>2, <1>3, <1>4, Sizes DEF write_buf_size
<1>7. Sound(x) /\ HandleOk(x) /\ (is_closed(x) <=> is_closed(c))
  BY <1>3, <1>4, <1>5, ZenonT(60) DEF Good, Sound, Ordered, HandleOk, is_closed
<1>8. Attended(x) /\ Looked(x, x.sched \/ "WR" \in x.item)
  BY <1>4, <1>5, <1>7 DEF Served, Attended, Handed, Looked, SameRun, Queued, Together, Armed
<1>9. Informs(c, x)
  BY <1>4, <1>5, <1>6, SizesAssumption DEF Informs, Above, SameApp
<1>10. Served(c') /\ Tells(x, c')
  BY <1>1, <1>7, <1>8, ConsolidateServes, Zenon
<1> QED BY <1>7, <1>9, <1>10 DEF Tells, Informs, Marks

\* Every operation that does not wait.
LEMMA CallServes ==
    ASSUME Good(c), Served(c),
           \/ SendBuf \/ Close \/ Terminate \/ OnDisconnect
           \/ \E n \in Nat : TryWriteVectored(n)
    PROVE  Served(c') /\ Informs(c, c')
<1>1. c \in IoState /\ Sound(c) /\ HandleOk(c) /\ Attended(c) /\ Looked(c, c.sched \/ "WR" \in c.item)
  BY DEF Good, Sound, Served, Handed, Looked
<1>2. CASE SendBuf
  <2> DEFINE s == consolidate_write_state(c, TRUE)
             x == [s EXCEPT !.error = "none"]
  <2>1. c' \in {s, x}
    BY <1>2 DEF SendBuf
  <2>2. Served(s) /\ Tells(c, s) /\ Sound(s)
    BY <1>1, ConsolidateServes, ZenonT(60)
  <2> HIDE DEF s
  <2>3. /\ x.flags = s.flags /\ x.wapp = s.wapp /\ x.wbuf = s.wbuf /\ x.pc = s.pc
        /\ SameRun(s, x) /\ SameApp(s, x)
    BY <2>2 DEF Sound, IoState, SameRun, SameApp
  <2> HIDE DEF x
  <2>4. Served(x) /\ Informs(s, x)
    BY <2>2, <2>3, QuietServes
  <2>5. Informs(c, s) /\ Informs(c, x)
    BY <1>1, <2>2, <2>4, Zenon DEF Tells, Informs, Marks
  <2> QED BY <2>1, <2>2, <2>4, <2>5
<1>3. CASE Close
  <2> DEFINE t == start_shutdown(c)
  <2>1. c' = t /\ Tells(c, t) /\ Keeps(c, t)
    BY <1>3, StartShutdownTells, StartShutdownKeeps, ZenonT(60) DEF Close
  <2>2. t.flags \in {c.flags, c.flags \cup {"IO_STOPPING_FILTERS"}} /\ t.wapp = c.wapp /\ t.wbuf = c.wbuf
    BY <1>1, StartShutdownFlags
  <2> HIDE DEF t
  <2>3. \A b : Handed(c, b) => Handed(t, b)
    BY <2>2, ZenonT(60) DEF Handed, is_closed, Has, write_buf_size
  <2> QED BY <1>1, <2>1, <2>3, HandlerServes DEF Keeps
<1>4. CASE Terminate
  <2> DEFINE t == terminate_connection(c, "none")
  <2>1. c' = t /\ Tells(c, t) /\ Keeps(c, t) /\ is_closed(t)
    BY <1>1, <1>4, TerminateTells, TerminateKeeps, TerminateFlags DEF Terminate
  <2> HIDE DEF t
  <2> QED BY <1>1, <2>1, HandlerServes, ZenonT(60) DEF Keeps, Handed
<1>5. CASE OnDisconnect
  <2> DEFINE w == IF Has(c, "IO_STOPPING") THEN "woken" ELSE "waiting"
  <2>1. c' = [c EXCEPT !.waiter = w]
    BY <1>5 DEF OnDisconnect
  <2> HIDE DEF w
  <2>2. /\ c'.flags = c.flags /\ c'.wapp = c.wapp /\ c'.wbuf = c.wbuf /\ c'.pc = c.pc
        /\ SameRun(c, c') /\ SameApp(c, c')
    BY <1>1, <2>1 DEF IoState, SameRun, SameApp
  <2> QED BY <2>2, QuietServes
<1>6. ASSUME NEW n \in Nat, TryWriteVectored(n) PROVE Served(c') /\ Informs(c, c')
  <2> DEFINE sent == Min2(Min2(n, c.space), Chunk)
  <2>1. c' = [c EXCEPT !.out_left = @ - sent, !.space = @ - sent]
    BY <1>6, Zenon DEF TryWriteVectored
  <2> HIDE DEF sent
  <2>2. /\ c'.flags = c.flags /\ c'.wapp = c.wapp /\ c'.wbuf = c.wbuf /\ c'.pc = c.pc
        /\ SameRun(c, c') /\ SameApp(c, c')
    BY <1>1, <2>1 DEF IoState, SameRun, SameApp
  <2> QED BY <2>2, QuietServes, SMTT(30)
<1> QED BY <1>2, <1>3, <1>4, <1>5, <1>6, ZenonT(60)

\* Dropping the Io ends the connection, and the application is gone.
LEMMA DropServes ==
    ASSUME Good(c), Served(c), DropIo PROVE Served(c') /\ Waits(c', app')
<1> DEFINE s == terminate_connection(c, "none")
<1>1. Sound(c) /\ c' = [s EXCEPT !.registered = FALSE, !.woken = FALSE] /\ app' = "gone"
  BY DEF Good, DropIo
<1>2. Tells(c, s) /\ Keeps(c, s) /\ is_closed(s)
  BY <1>1, TerminateTells, TerminateKeeps, TerminateFlags
<1> HIDE DEF s
<1>3. Served(s) /\ s \in IoState
  BY <1>1, <1>2, HandlerServes DEF Keeps, Handed, Tells, Sound
<1>4. /\ c'.flags = s.flags /\ c'.pc = s.pc /\ c'.sched = s.sched /\ c'.read_task = s.read_task
      /\ c'.write_task = s.write_task /\ ~c'.registered
  BY <1>1, <1>3, ZenonT(60) DEF IoState
<1>5. Served(c')
  BY <1>2, <1>3, <1>4, ZenonT(60) DEF Served, Attended, Handed, Queued, Together, is_closed, Has
<1> QED BY <1>1, <1>5 DEF Waits, Waiting

\* Nothing the peer or the kernel does leaves anybody behind.
LEMMA PeerServes ==
    ASSUME Good(c), Served(c), Peer PROVE Served(c') /\ Informs(c, c')
<1>1. c \in IoState /\ Sound(c)
  BY DEF Good, Sound
<1>2. CASE PeerSend \/ PeerDrain \/ \E x \in cfg.faults : PeerFault(x)
  <2>1. /\ c'.flags = c.flags /\ c'.wapp = c.wapp /\ c'.wbuf = c.wbuf /\ c'.pc = c.pc
        /\ SameRun(c, c') /\ SameApp(c, c')
    <3>1. CASE PeerSend
      BY <1>1, <3>1 DEF IoState, SameRun, SameApp, PeerSend
    <3>2. CASE PeerDrain
      BY <1>1, <3>2 DEF IoState, SameRun, SameApp, PeerDrain
    <3>3. ASSUME NEW x \in cfg.faults, PeerFault(x)
          PROVE  /\ c'.flags = c.flags /\ c'.wapp = c.wapp /\ c'.wbuf = c.wbuf /\ c'.pc = c.pc
                 /\ SameRun(c, c') /\ SameApp(c, c')
      BY <1>1, <3>3 DEF IoState, SameRun, SameApp, PeerFault
    <3> QED BY <1>2, <3>1, <3>2, <3>3
  <2> QED BY <2>1, QuietServes
<1>3. CASE FilterReady
  <2> DEFINE x == [c EXCEPT !.filter_ready = TRUE]
             t == wake_read_task(x)
  <2>1. c' = t
    BY <1>3 DEF FilterReady
  <2>2. /\ x \in IoState /\ x.flags = c.flags /\ x.wapp = c.wapp /\ x.wbuf = c.wbuf /\ x.pc = c.pc
        /\ SameRun(c, x) /\ SameApp(c, x)
    BY <1>1, ZenonT(60) DEF IoState, SameRun, SameApp
  <2> HIDE DEF x
  <2>3. Served(x) /\ Informs(c, x)
    BY <2>2, QuietServes
  <2>4. Sound(x) /\ TaskOk(x)
    BY <1>1, <2>2 DEF Good, Sound, Ordered, TaskOk, is_closed, Has
  <2>5. Served(t) /\ Tells(x, t)
    BY <2>3, <2>4, WakeReadServes, WakeTells
  <2> QED BY <2>1, <2>3, <2>4, <2>5 DEF Tells, Informs, Marks
<1> QED BY <1>2, <1>3 DEF Peer

(***************************************************************************)
(* The theorems                                                            *)
(***************************************************************************)
WakeInv == Served(c) /\ Waits(c, app)

\* Every action keeps what the connection task, Iops, the poller and the application
\* rely on.
LEMMA NextServes ==
    ASSUME IInv, WakeInv, Next PROVE Served(c') /\ Waits(c', app')
<1>1. cfg \in Config /\ Good(c) /\ Served(c) /\ Waits(c, app)
  BY DEF IInv, TypeOK, WakeInv
<1>2. app' = app /\ Served(c') /\ Informs(c, c') => Served(c') /\ Waits(c', app')
  BY <1>1, InformsWaits
<1>3. CASE Driver
  <2>1. app' = app
    BY <1>3, Zenon DEF Driver, RunPoll, Event, RunDone, OtherEvent, IopsRun, DisconnectTimeout, KeepAliveTimeout
  <2> QED BY <1>1, <1>2, <1>3, <2>1, DriverServes, SMTT(30)
<1>4. CASE Application
  <2>1. 1 .. cfg.max_out \subseteq Nat
    BY <1>1 DEF Config
  <2>2. CASE PollRecv \/ PollReadNotify \/ PollReadPause \/ PollShutdown \/ \E full \in BOOLEAN : PollFlush(full)
    BY <1>1, <1>2, <2>2, RecvServes, NotifyServes, PauseServes, ShutdownServes, FlushServes, ZenonT(60)
  <2>3. CASE \E n \in 1 .. cfg.max_out : Encode(n)
    <3>1. app' = app
      BY <2>3 DEF Encode
    <3> QED BY <1>1, <1>2, <2>1, <2>3, <3>1, EncodeServes
  <2>4. CASE \/ SendBuf \/ Close \/ Terminate \/ OnDisconnect
             \/ \E n \in 1 .. cfg.max_out : TryWriteVectored(n)
    <3>1. app' = app
      BY <2>4, Zenon DEF SendBuf, Close, Terminate, OnDisconnect, TryWriteVectored
    <3> QED BY <1>1, <1>2, <2>1, <2>4, <3>1, CallServes, ZenonT(60)
  <2>5. CASE DropIo
    BY <1>1, <1>2, <2>5, DropServes, ZenonT(60)
  <2>6. CASE Cancel
    <3>1. c' = c /\ app' = "idle"
      BY <2>6 DEF Cancel
    <3> QED BY <1>1, <1>2, <3>1 DEF Waits, Waiting
  <2> QED BY <1>4, <2>2, <2>3, <2>4, <2>5, <2>6 DEF Application
<1>5. CASE Peer
  <2>1. app' = app
    BY <1>5 DEF Peer, PeerSend, PeerDrain, FilterReady, PeerFault
  <2> QED BY <1>1, <1>2, <1>5, <2>1, PeerServes
<1> QED BY <1>3, <1>4, <1>5 DEF Next

\* In every reachable state the tasks, Iops and the poller know what they have to do.
THEOREM WakeInvariance == Spec => []WakeInv
<1>1. Init => WakeInv
  <2> SUFFICES ASSUME Init PROVE WakeInv
    BY ZenonT(60)
  <2>1. /\ c.flags = {"WR_PAUSED"} \cup (IF cfg.threshold > 0 THEN {"DIRECT_WR_SUP"} ELSE {})
        /\ c.wapp = 0 /\ c.wbuf = 0 /\ c.registered /\ c.sched /\ c.item = {} /\ app = "idle"
    BY DEF Init
  <2>2. ~Has(c, "RD_BACKPRESSURE") /\ ~Has(c, "WR_SEND_OP") /\ Has(c, "WR_PAUSED")
    BY <2>1 DEF Has
  <2>3. write_buf_size(c) = 0 /\ app \notin Waiting /\ Armed(c)
    BY <2>1 DEF write_buf_size, Waiting, Armed
  <2> QED BY <2>1, <2>2, <2>3 DEF WakeInv, Served, Attended, Handed, Queued, Together, Waits
<1>2. IInv /\ WakeInv /\ [Next]_vars => WakeInv'
  <2> SUFFICES ASSUME IInv, WakeInv, [Next]_vars PROVE WakeInv'
    OBVIOUS
  <2>1. CASE Next
    BY <2>1, NextServes DEF WakeInv
  <2>2. CASE UNCHANGED vars
    BY <2>2 DEF vars, WakeInv
  <2> QED BY <2>1, <2>2
<1> QED BY <1>1, <1>2, Invariance, PTL DEF Spec

\* No unsent byte of an open connection is forgotten: consolidate_write_state,
\* ops_send_buf and update_write_status always leave it to Iops, to the connection
\* task or to the poller.
THEOREM NoWriteStranded == Spec => []WriteNotStranded
<1>1. WakeInv => WriteNotStranded
  BY SMTT(30) DEF WakeInv, Served, Attended, Handed, Queued, Armed, WriteNotStranded
<1> QED BY <1>1, WakeInvariance, PTL

\* No open connection that may read is forgotten: whoever lifts a pause or the
\* back-pressure wakes the task, and an event takes the interest away only after it
\* paused reading.
THEOREM NoReadStranded == Spec => []ReadNotStranded
<1>1. WakeInv => ReadNotStranded
  BY DEF WakeInv, Served, Attended, Armed, ReadNotStranded, is_read_paused_or_backpressure
<1> QED BY <1>1, WakeInvariance, PTL

\* No waiting application misses its wake-up: dispatch_task is taken only by a wake,
\* and everything the application may wait for wakes it.
THEOREM NoAppStranded == Spec => []AppNotStranded
<1>1. WakeInv => AppNotStranded
  BY DEF WakeInv, Waits, AppNotStranded, Above
<1> QED BY <1>1, WakeInvariance, PTL
=============================================================================

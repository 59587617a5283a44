---------------------------- MODULE IoConnProofs ----------------------------
EXTENDS IoConn, TLAPS

(***************************************************************************)
(* Proofs about IoConn, for every configuration and every buffer size.     *)
(*                                                                         *)
(* Every handler of IoConn is an operator from a connection state to the   *)
(* next, so the argument follows the call graph: one relation, Keeps, says *)
(* what no handler may do, it is reflexive and transitive, and one lemma   *)
(* per handler shows it from the lemmas of the handlers it calls.  The     *)
(* inductive invariant IInv is then a matter of one step per action, and   *)
(* the theorems follow from it.                                            *)
(***************************************************************************)
Stops == {"IO_STOPPED", "IO_STOPPING", "IO_STOPPING_FILTERS"}

\* The stop flags are set from the weakest to the strongest.
Ordered(s) ==
    /\ Has(s, "IO_STOPPED") => Has(s, "IO_STOPPING")
    /\ Has(s, "IO_STOPPING") => Has(s, "IO_STOPPING_FILTERS")

\* The handle is given up by terminate_connection only.
HandleOk(s) == ~Has(s, "IO_STOPPED") => s.handle

Sound(s) == s \in IoState /\ Ordered(s)

\* What holds between the states before and after a handler: stop flags are never
\* taken back, only terminate_connection closes, after the first step of a shutdown
\* nothing is added to the write buffer (but by a layer), and the slab entry's
\* owners stay accounted for.
Reaches(s, t) ==
    Sound(s) =>
    /\ Sound(t)
    /\ \A f \in Stops : Has(s, f) => Has(t, f)
    /\ Has(t, "IO_STOPPING") => Has(s, "IO_STOPPING") \/ Has(t, "IO_STOPPED")
    /\ Has(s, "IO_STOPPING_FILTERS") /\ ~cfg.layer => write_buf_size(t) <= write_buf_size(s)
    /\ t.pc = s.pc /\ t.busy = s.busy
    /\ Owned(s) => Owned(t)
    /\ HandleOk(s) => HandleOk(t)

\* The same for the handlers below shutdown_filters: they leave the shutdown timer
\* and the filter's progress alone, and while the handle is out of its cell (as
\* call_write has it) they release nothing.
Keeps(s, t) ==
    /\ Reaches(s, t)
    /\ Sound(s) => /\ t.timer = s.timer /\ t.filter_done = s.filter_done
                   /\ ~s.handle =>
                        /\ ~t.handle /\ t.slot = s.slot
                        /\ ("DROPPED_PRI" \in t.item) <=> ("DROPPED_PRI" \in s.item)
                        /\ ("DROPPED_SEC" \in t.item) <=> ("DROPPED_SEC" \in s.item)
                        /\ ("Weak" \in t.delayed) <=> ("Weak" \in s.delayed)

\* t is s but for flags, buffers, wakers and the socket.
Frame(s, t) ==
    /\ t \in IoState
    /\ t.handle = s.handle /\ t.slot = s.slot /\ t.item = s.item /\ t.delayed = s.delayed
    /\ t.pc = s.pc /\ t.busy = s.busy /\ t.timer = s.timer /\ t.filter_done = s.filter_done

Unmoved(s, t) == Frame(s, t) /\ t.wapp = s.wapp /\ t.wbuf = s.wbuf

\* The flags that close a connection are the same; a shutdown may have begun.
Steady(s, t) ==
    /\ Has(t, "IO_STOPPED") <=> Has(s, "IO_STOPPED")
    /\ Has(t, "IO_STOPPING") <=> Has(s, "IO_STOPPING")
    /\ Has(s, "IO_STOPPING_FILTERS") => Has(t, "IO_STOPPING_FILTERS")

\* The fields of a connection state that the arguments below count with.
LEMMA Sizes ==
    ASSUME NEW s \in IoState
    PROVE  /\ s.wapp \in Nat /\ s.wbuf \in Nat /\ write_buf_size(s) \in Nat
           /\ s.space \in Nat /\ s.flags \in SUBSET FlagsKind
BY DEF IoState, write_buf_size

\* A handler that calls two others in turn reaches what both reach.
LEMMA ReachesTransitive ==
    ASSUME NEW s, NEW t, NEW u, Reaches(s, t), Reaches(t, u)
    PROVE  Reaches(s, u)
<1>1. SUFFICES ASSUME Sound(s) PROVE Reaches(s, u)
  BY DEF Reaches
<1>2. Sound(t) /\ Sound(u)
  BY <1>1 DEF Reaches
<1>3. write_buf_size(s) \in Nat /\ write_buf_size(t) \in Nat /\ write_buf_size(u) \in Nat
  BY <1>1, <1>2, Sizes DEF Sound
<1>4. QED
  BY <1>1, <1>2, <1>3 DEF Reaches, Stops, Has

\* The same for Keeps.
LEMMA KeepsTransitive ==
    ASSUME NEW s, NEW t, NEW u, Keeps(s, t), Keeps(t, u)
    PROVE  Keeps(s, u)
BY ReachesTransitive DEF Keeps, Reaches

\* A step that changes neither owners nor closing flags, and does not grow the
\* write buffer once a shutdown began, is allowed.
LEMMA FrameKeeps ==
    ASSUME NEW s, NEW t,
           s \in IoState => /\ Frame(s, t) /\ Steady(s, t)
                            /\ Has(s, "IO_STOPPING_FILTERS") /\ ~cfg.layer
                                 => write_buf_size(t) <= write_buf_size(s)
    PROVE  Keeps(s, t)
<1>1. SUFFICES ASSUME Sound(s) PROVE Keeps(s, t)
  BY DEF Keeps, Reaches
<1>2. Frame(s, t) /\ Steady(s, t)
  BY <1>1 DEF Sound
<1>3. Ordered(t) /\ (HandleOk(s) => HandleOk(t)) /\ (Owned(s) => Owned(t))
  BY <1>1, <1>2 DEF Sound, Ordered, HandleOk, Owned, Frame, Steady
<1> QED BY <1>1, <1>2, <1>3 DEF Keeps, Reaches, Sound, Frame, Steady, Stops

\* In particular one that leaves the write buffers alone.
LEMMA UnmovedKeeps ==
    ASSUME NEW s, NEW t, s \in IoState => Unmoved(s, t) /\ Steady(s, t)
    PROVE  Keeps(s, t)
<1>1. s \in IoState => write_buf_size(t) <= write_buf_size(s)
  BY Sizes DEF Unmoved, write_buf_size
<1> QED BY <1>1, FrameKeeps DEF Unmoved

\* Flags::insert and Flags::remove change the flags only.
LEMMA FlagsUpdate ==
    ASSUME NEW s \in IoState, NEW F \in SUBSET FlagsKind
    PROVE  /\ Unmoved(s, Insert(s, F)) /\ Insert(s, F).flags = s.flags \cup F
           /\ Unmoved(s, Remove(s, F)) /\ Remove(s, F).flags = s.flags \ F
BY DEF IoState, Unmoved, Frame, Insert, Remove

\* Waking or registering a task changes wakers and run queues only.
LEMMA WakeUnmoved ==
    ASSUME NEW s \in IoState
    PROVE  /\ Unmoved(s, wake_read_task(s)) /\ wake_read_task(s).flags = s.flags
           /\ Unmoved(s, wake_write_task(s)) /\ wake_write_task(s).flags = s.flags
           /\ Unmoved(s, wake_dispatch_task(s)) /\ wake_dispatch_task(s).flags = s.flags
           /\ Unmoved(s, register_dispatch(s)) /\ register_dispatch(s).flags = s.flags
           /\ Unmoved(s, notify_disconnect(s)) /\ notify_disconnect(s).flags = s.flags
<1>1. wake_read_task(s) \in IoState /\ wake_write_task(s) \in IoState /\ wake_dispatch_task(s) \in IoState
  <2>1. \A a, b \in BOOLEAN : /\ [s EXCEPT !.read_task = a, !.sched = b] \in IoState
                             /\ [s EXCEPT !.write_task = a, !.sched = b] \in IoState
                             /\ [s EXCEPT !.dispatch_task = a, !.woken = b] \in IoState
    <3>1. SUFFICES ASSUME NEW a \in BOOLEAN, NEW b \in BOOLEAN
                   PROVE  /\ [s EXCEPT !.read_task = a, !.sched = b] \in IoState
                          /\ [s EXCEPT !.write_task = a, !.sched = b] \in IoState
                          /\ [s EXCEPT !.dispatch_task = a, !.woken = b] \in IoState
      BY Zenon
    <3>2. [s EXCEPT !.read_task = a, !.sched = b] \in IoState
      BY ZenonT(60) DEF IoState
    <3>3. [s EXCEPT !.write_task = a, !.sched = b] \in IoState
      BY ZenonT(60) DEF IoState
    <3>4. [s EXCEPT !.dispatch_task = a, !.woken = b] \in IoState
      BY ZenonT(60) DEF IoState
    <3> QED BY <3>2, <3>3, <3>4
  <2>2. (s.sched \/ s.read_task) \in BOOLEAN /\ (s.sched \/ s.write_task) \in BOOLEAN
       /\ (s.woken \/ s.dispatch_task) \in BOOLEAN
    OBVIOUS
  <2> QED BY <2>1, <2>2, Zenon DEF wake_read_task, wake_write_task, wake_dispatch_task
<1>2. register_dispatch(s) \in IoState
  BY Zenon DEF IoState, register_dispatch
<1>3. notify_disconnect(s) \in IoState
  BY DEF IoState, notify_disconnect
<1>4. Unmoved(s, wake_read_task(s)) /\ wake_read_task(s).flags = s.flags
  BY <1>1 DEF Unmoved, Frame, IoState, wake_read_task
<1>5. Unmoved(s, wake_write_task(s)) /\ wake_write_task(s).flags = s.flags
  BY <1>1 DEF Unmoved, Frame, IoState, wake_write_task
<1>6. Unmoved(s, wake_dispatch_task(s)) /\ wake_dispatch_task(s).flags = s.flags
  BY <1>1 DEF Unmoved, Frame, IoState, wake_dispatch_task
<1>7. Unmoved(s, register_dispatch(s)) /\ register_dispatch(s).flags = s.flags
  BY <1>2 DEF Unmoved, Frame, IoState, register_dispatch
<1>8. Unmoved(s, notify_disconnect(s)) /\ notify_disconnect(s).flags = s.flags
  BY <1>3 DEF Unmoved, Frame, IoState, notify_disconnect
<1> QED BY <1>4, <1>5, <1>6, <1>7, <1>8

\* An early return is allowed.
LEMMA KeepsItself == ASSUME NEW s PROVE Keeps(s, s)
<1>1. Sound(s) => write_buf_size(s) <= write_buf_size(s)
  BY Sizes DEF Sound
<1> QED BY <1>1 DEF Keeps, Reaches

\* Dropping the handle of a terminated connection keeps the entry's owners
\* accounted for, whether it is done at once or queued in delayed_feed.
LEMMA DropHandleKeeps ==
    ASSUME NEW s \in IoState, Has(s, "IO_STOPPED")
    PROVE  /\ Keeps(s, DropHandle(s))
           /\ DropHandle(s) \in IoState
           /\ DropHandle(s).flags = s.flags
           /\ write_buf_size(DropHandle(s)) = write_buf_size(s)
<1>1. CASE ~s.handle
  BY <1>1, KeepsItself DEF DropHandle
<1>2. CASE s.handle
  <2> DEFINE t == DropHandle(s)
  <2>1. t \in IoState
    <3>1. [s EXCEPT !.handle = FALSE] \in IoState
      BY Zenon DEF IoState
    <3>2. [s EXCEPT !.handle = FALSE, !.delayed = @ \cup {"Weak"}] \in IoState
      <4>1. ASSUME NEW d \in SUBSET IdType PROVE [s EXCEPT !.handle = FALSE, !.delayed = d] \in IoState
        BY ZenonT(60) DEF IoState
      <4>2. s.delayed \cup {"Weak"} \in SUBSET IdType
        BY DEF IoState, IdType
      <4> QED BY <4>1, <4>2, Zenon
    <3>3. ASSUME NEW r \in IoState PROVE drop_weak_stream(r) \in IoState
      <4>1. [r EXCEPT !.slot = FALSE] \in IoState
        BY ZenonT(60) DEF IoState
      <4>2. r.item \cup {"DROPPED_SEC"} \in SUBSET ItemFlags
        BY DEF IoState, ItemFlags
      <4>3. [r EXCEPT !.item = r.item \cup {"DROPPED_SEC"}] \in IoState
        BY <4>2 DEF IoState
      <4> QED BY <4>1, <4>3 DEF drop_weak_stream
    <3> QED BY <1>2, <3>1, <3>2, <3>3 DEF DropHandle
  <2>2. /\ t.flags = s.flags /\ t.wapp = s.wapp /\ t.wbuf = s.wbuf /\ t.pc = s.pc /\ t.busy = s.busy
        /\ t.timer = s.timer /\ t.filter_done = s.filter_done /\ ~t.handle
    BY <1>2 DEF DropHandle, drop_weak_stream, IoState
  <2>3. Owned(s) => Owned(t)
    <3>1. CASE s.busy
      <4>1. t.slot = s.slot /\ t.item = s.item /\ t.delayed = s.delayed \cup {"Weak"}
        BY <1>2, <3>1 DEF DropHandle, IoState
      <4> QED BY <1>2, <2>2, <4>1 DEF Owned
    <3>2. CASE ~s.busy
      <4>1. /\ t.delayed = s.delayed
            /\ "DROPPED_PRI" \in s.item => t.slot = FALSE /\ t.item = s.item
            /\ "DROPPED_PRI" \notin s.item => t.slot = s.slot /\ t.item = s.item \cup {"DROPPED_SEC"}
        BY <1>2, <3>2, Zenon DEF DropHandle, drop_weak_stream, IoState
      <4> QED BY <1>2, <2>2, <4>1 DEF Owned
    <3> QED BY <3>1, <3>2
  <2>4. write_buf_size(t) = write_buf_size(s) /\ write_buf_size(s) \in Nat
    BY <2>2, Sizes DEF write_buf_size
  <2>5. (Ordered(s) => Ordered(t)) /\ HandleOk(t)
    BY <2>2 DEF Ordered, HandleOk, Has
  <2> QED BY <1>2, <2>1, <2>2, <2>3, <2>4, <2>5 DEF Keeps, Reaches, Sound, Has
<1> QED BY <1>1, <1>2

\* IoState::terminate_connection is allowed, terminates, and pauses no write.
LEMMA TerminateKeeps ==
    ASSUME NEW s, NEW err \in {"none", "io", "tls"}
    PROVE  /\ Keeps(s, terminate_connection(s, err))
           /\ s \in IoState =>
                /\ Has(terminate_connection(s, err), "IO_STOPPED")
                /\ Has(terminate_connection(s, err), "WR_PAUSED") => Has(s, "WR_PAUSED")
<1>1. SUFFICES ASSUME s \in IoState PROVE /\ Keeps(s, terminate_connection(s, err))
                                          /\ Has(terminate_connection(s, err), "IO_STOPPED")
                                          /\ Has(terminate_connection(s, err), "WR_PAUSED") => Has(s, "WR_PAUSED")
  BY DEF Keeps, Reaches, Sound
<1>2. CASE Has(s, "IO_STOPPED")
  BY <1>2, KeepsItself DEF terminate_connection
<1>3. CASE ~Has(s, "IO_STOPPED")
  <2> DEFINE failed == IF err = "none" THEN s ELSE [s EXCEPT !.error = err]
             w      == notify_disconnect(wake_dispatch_task(wake_write_task(wake_read_task(
                           set_terminate(failed)))))
             ends   == {"IO_STOPPED", "IO_STOPPING", "IO_STOPPING_FILTERS", "BUF_R_READY"}
  <2>1. Unmoved(s, failed) /\ failed.flags = s.flags
    BY <1>1 DEF IoState, Unmoved, Frame
  <2>2. Unmoved(failed, set_terminate(failed)) /\ set_terminate(failed).flags = s.flags \cup ends
    <3>1. ends \in SUBSET FlagsKind
      BY DEF FlagsKind
    <3>2. failed \in IoState
      BY <2>1 DEF Unmoved, Frame
    <3> HIDE DEF failed
    <3> QED BY <2>1, <3>1, <3>2, FlagsUpdate DEF set_terminate
  <2>3. Unmoved(s, w) /\ w.flags = s.flags \cup ends
    <3> HIDE DEF failed
    <3> QED BY <2>1, <2>2, WakeUnmoved DEF Unmoved, Frame
  <2> HIDE DEF w
  <2>4. Keeps(s, w)
    <3>1. write_buf_size(w) = write_buf_size(s) /\ write_buf_size(s) \in Nat
      BY <1>1, <2>3, Sizes DEF Unmoved, write_buf_size
    <3>2. Ordered(w) /\ HandleOk(w) /\ (Owned(s) => Owned(w))
      BY <2>3 DEF Ordered, HandleOk, Owned, Unmoved, Frame, Has
    <3> QED BY <2>3, <3>1, <3>2 DEF Keeps, Reaches, Sound, Unmoved, Frame, Has
  <2>5. w \in IoState /\ Has(w, "IO_STOPPED")
    BY <2>3 DEF Unmoved, Frame, Has
  <2>6. terminate_connection(s, err) = DropHandle(w)
    BY <1>3 DEF terminate_connection, w
  <2>7. Keeps(w, DropHandle(w)) /\ DropHandle(w).flags = w.flags
    BY <2>5, DropHandleKeeps
  <2>8. Keeps(s, DropHandle(w))
    BY <2>4, <2>7, KeepsTransitive
  <2> QED BY <2>3, <2>6, <2>7, <2>8 DEF Has
<1> QED BY <1>2, <1>3

\* IoState::start_shutdown is allowed.
LEMMA StartShutdownKeeps ==
    ASSUME NEW s PROVE Keeps(s, start_shutdown(s))
<1>1. ASSUME s \in IoState, ~is_stopping_any(s)
      PROVE  Unmoved(s, start_shutdown(s)) /\ Steady(s, start_shutdown(s))
  <2> DEFINE x == Insert(s, {"IO_STOPPING_FILTERS"})
  <2>1. Unmoved(s, x) /\ x.flags = s.flags \cup {"IO_STOPPING_FILTERS"}
    BY <1>1, FlagsUpdate DEF FlagsKind
  <2> HIDE DEF x
  <2>2. start_shutdown(s) = wake_write_task(wake_read_task(x))
    BY <1>1 DEF start_shutdown, x
  <2>3. Unmoved(s, start_shutdown(s)) /\ start_shutdown(s).flags = x.flags
    BY <2>1, <2>2, WakeUnmoved DEF Unmoved, Frame
  <2> QED BY <2>1, <2>3 DEF Steady, Has
<1>2. CASE is_stopping_any(s)
  BY <1>2, KeepsItself DEF start_shutdown
<1>3. CASE ~is_stopping_any(s)
  BY <1>1, <1>3, UnmovedKeeps
<1> QED BY <1>2, <1>3

\* IoRef::close_with is allowed.
LEMMA CloseWithKeeps ==
    ASSUME NEW s, NEW err \in {"none", "io", "tls"} PROVE Keeps(s, close_with(s, err))
<1> DEFINE x == [s EXCEPT !.error = IF @ = "none" THEN err ELSE "none"]
<1>1. s \in IoState => Unmoved(s, x) /\ Steady(s, x)
  BY DEF IoState, Unmoved, Frame, Steady, Has
<1>2. Keeps(s, x)
  BY <1>1, UnmovedKeeps
<1> HIDE DEF x
<1>3. Keeps(x, start_shutdown(x))
  BY StartShutdownKeeps
<1> QED BY <1>2, <1>3, KeepsTransitive DEF close_with, x

\* Stack::process_write_buf moves bytes down the chain and loses none.
LEMMA ProcessWriteKeeps ==
    ASSUME NEW s
    PROVE  /\ Keeps(s, process_write_buf(s))
           /\ s \in IoState => /\ Frame(s, process_write_buf(s))
                               /\ process_write_buf(s).flags = s.flags
                               /\ write_buf_size(process_write_buf(s)) = write_buf_size(s)
<1> DEFINE t == process_write_buf(s)
<1>1. ASSUME s \in IoState
      PROVE  Frame(s, t) /\ t.flags = s.flags /\ write_buf_size(t) = write_buf_size(s)
  <2>1. t \in IoState
    <3>1. ASSUME NEW a \in Nat, NEW b \in Nat PROVE [s EXCEPT !.wbuf = a, !.wapp = b] \in IoState
      BY <1>1, ZenonT(60) DEF IoState
    <3>2. s.wbuf + s.wapp \in Nat
      BY <1>1, Sizes
    <3> QED BY <1>1, <3>1, <3>2, Zenon DEF process_write_buf
  <2>2. Frame(s, t) /\ t.flags = s.flags
    BY <1>1, <2>1 DEF Frame, IoState, process_write_buf
  <2>3. t.wbuf + t.wapp = s.wbuf + s.wapp
    BY <1>1 DEF IoState, process_write_buf
  <2> QED BY <1>1, <2>1, <2>2, <2>3, Sizes DEF write_buf_size
<1>2. s \in IoState => Steady(s, t) /\ write_buf_size(t) <= write_buf_size(s)
  BY <1>1, Sizes DEF Steady, Has
<1> QED BY <1>1, <1>2, FrameKeeps

\* IoContext::update_write_status pauses writing only when nothing is left.
LEMMA WriteStatusKeeps ==
    ASSUME NEW s
    PROVE  /\ Keeps(s, update_write_status(s))
           /\ s \in IoState /\ ~Has(s, "WR_PAUSED") /\ Has(update_write_status(s), "WR_PAUSED")
                => write_buf_size(update_write_status(s)) = 0
<1> DEFINE t == update_write_status(s)
<1>1. ASSUME s \in IoState
      PROVE  /\ Unmoved(s, t) /\ Steady(s, t)
             /\ ~Has(s, "WR_PAUSED") /\ Has(t, "WR_PAUSED") => write_buf_size(s) = 0
  <2> DEFINE len   == write_buf_size(s)
             awake == IF \/ Has(s, "WR_FLUSH") /\ len = 0
                         \/ /\ ~Has(s, "WR_FLUSH")
                            /\ Has(s, "DSP_W_BACKPRESSURE")
                            /\ len <= WriteHalf
                      THEN wake_dispatch_task(s) ELSE s
  <2>1. Unmoved(s, awake) /\ awake.flags = s.flags
    BY <1>1, WakeUnmoved DEF Unmoved, Frame
  <2> HIDE DEF awake
  <2>2. awake \in IoState
    BY <2>1 DEF Unmoved, Frame
  <2>3. /\ Unmoved(awake, Remove(awake, {"WR_PAUSED"}))
        /\ Remove(awake, {"WR_PAUSED"}).flags = s.flags \ {"WR_PAUSED"}
        /\ Unmoved(awake, Insert(awake, {"WR_PAUSED"}))
        /\ Insert(awake, {"WR_PAUSED"}).flags = s.flags \cup {"WR_PAUSED"}
    BY <2>1, <2>2, FlagsUpdate DEF FlagsKind
  <2>4. /\ Unmoved(awake, wake_read_task(Insert(awake, {"WR_PAUSED"})))
        /\ wake_read_task(Insert(awake, {"WR_PAUSED"})).flags = s.flags \cup {"WR_PAUSED"}
    BY <2>3, WakeUnmoved DEF Unmoved, Frame
  <2>5. t = IF is_closed(awake) THEN awake
            ELSE IF len > 0 THEN Remove(awake, {"WR_PAUSED"})
            ELSE IF Has(s, "IO_STOPPING_FILTERS")
                 THEN wake_read_task(Insert(awake, {"WR_PAUSED"})) ELSE Insert(awake, {"WR_PAUSED"})
    BY DEF update_write_status, awake
  <2>6. Unmoved(s, t)
    BY <2>1, <2>3, <2>4, <2>5 DEF Unmoved, Frame
  <2>7. len \in Nat
    BY <1>1, Sizes
  <2> QED BY <2>1, <2>3, <2>4, <2>5, <2>6, <2>7 DEF Steady, Has
<1>2. s \in IoState => write_buf_size(t) = write_buf_size(s)
  BY <1>1 DEF Unmoved, write_buf_size
<1> QED BY <1>1, <1>2, UnmovedKeeps

\* StreamItem::write never grows the write buffer, and pauses only an empty one.
LEMMA ItemWriteKeeps ==
    ASSUME NEW s
    PROVE  /\ Keeps(s, item_write(s))
           /\ s \in IoState /\ ~Has(s, "WR_PAUSED") /\ Has(item_write(s), "WR_PAUSED")
                => write_buf_size(item_write(s)) = 0
<1> DEFINE p == process_write_buf(s)
           n == Min2(Min2(p.wbuf, p.space), Chunk)
           x == [p EXCEPT !.wbuf = @ - n, !.space = @ - n]
<1>1. Keeps(s, p) /\ (s \in IoState => p \in IoState /\ p.flags = s.flags)
  BY ProcessWriteKeeps DEF Frame
<1> HIDE DEF p
<1>2. ASSUME p \in IoState
      PROVE  Frame(p, x) /\ x.flags = p.flags /\ write_buf_size(x) <= write_buf_size(p)
  <2>1. p.wbuf \in Nat /\ p.space \in Nat /\ p.wapp \in Nat
    BY <1>2, Sizes
  <2>2. n \in Nat /\ p.wbuf - n \in Nat /\ p.space - n \in Nat
    BY <2>1, SizesAssumption DEF Min2
  <2> HIDE DEF n
  <2>3. x \in IoState
    <3>1. ASSUME NEW a \in Nat, NEW b \in Nat PROVE [p EXCEPT !.wbuf = a, !.space = b] \in IoState
      BY <1>2, ZenonT(60) DEF IoState
    <3> QED BY <2>2, <3>1, Zenon
  <2>4. Frame(p, x) /\ x.flags = p.flags /\ x.wapp = p.wapp /\ x.wbuf = p.wbuf - n
    BY <1>2, <2>3 DEF Frame, IoState
  <2> QED BY <2>1, <2>2, <2>4 DEF write_buf_size
<1>3. Keeps(p, x)
  <2>1. p \in IoState => Steady(p, x)
    BY <1>2 DEF Steady, Has
  <2> QED BY <1>2, <2>1, FrameKeeps
<1> HIDE DEF x
<1>4. CASE p.wbuf > 0 /\ "reset" \in p.fault
  <2>1. item_write(s) = terminate_connection(p, "io")
    BY <1>4 DEF item_write, p
  <2>2. /\ Keeps(p, terminate_connection(p, "io"))
        /\ p \in IoState => (Has(terminate_connection(p, "io"), "WR_PAUSED") => Has(p, "WR_PAUSED"))
    BY TerminateKeeps
  <2> QED BY <1>1, <2>1, <2>2, KeepsTransitive DEF Has
<1>5. CASE ~(p.wbuf > 0 /\ "reset" \in p.fault)
  <2>1. item_write(s) = update_write_status(x)
    BY <1>5 DEF item_write, p, x
  <2>2. Keeps(x, update_write_status(x)) /\ Keeps(s, x)
    BY <1>1, <1>3, KeepsTransitive, WriteStatusKeeps
  <2>3. s \in IoState => x \in IoState /\ x.flags = s.flags
    BY <1>1, <1>2 DEF Frame
  <2> QED BY <2>1, <2>2, <2>3, KeepsTransitive, WriteStatusKeeps DEF Has
<1> QED BY <1>4, <1>5

\* A handler that runs with the streams slab taken is allowed if its body is.
LEMMA BusyKeeps ==
    ASSUME NEW s, NEW u, s \in IoState => ~s.busy, Keeps([s EXCEPT !.busy = TRUE], u)
    PROVE  Keeps(s, [u EXCEPT !.busy = FALSE])
<1> DEFINE b == [s EXCEPT !.busy = TRUE]
           t == [u EXCEPT !.busy = FALSE]
<1>1. SUFFICES ASSUME Sound(s) PROVE Keeps(s, t)
  BY Zenon DEF Keeps, Reaches
<1>2. /\ b \in IoState /\ b.flags = s.flags /\ b.wapp = s.wapp /\ b.wbuf = s.wbuf /\ b.handle = s.handle
      /\ b.slot = s.slot /\ b.item = s.item /\ b.delayed = s.delayed /\ b.pc = s.pc
      /\ b.timer = s.timer /\ b.filter_done = s.filter_done
  BY <1>1, Zenon DEF Sound, IoState
<1>3. /\ Sound(b) /\ write_buf_size(b) = write_buf_size(s) /\ (Owned(b) <=> Owned(s))
      /\ HandleOk(b) <=> HandleOk(s)
  BY <1>1, <1>2 DEF Sound, Ordered, Has, write_buf_size, Owned, HandleOk
<1>4. Keeps(b, u)
  OBVIOUS
<1> HIDE DEF b
<1>5. Sound(u)
  BY <1>3, <1>4 DEF Keeps, Reaches
<1>6. /\ t \in IoState /\ t.flags = u.flags /\ t.wapp = u.wapp /\ t.wbuf = u.wbuf /\ t.handle = u.handle
      /\ t.slot = u.slot /\ t.item = u.item /\ t.delayed = u.delayed /\ t.pc = u.pc
      /\ t.timer = u.timer /\ t.filter_done = u.filter_done /\ t.busy = FALSE
  BY <1>5, ZenonT(60) DEF Sound, IoState
<1> HIDE DEF t
<1>7. /\ Sound(t) /\ write_buf_size(t) = write_buf_size(u) /\ (Owned(t) <=> Owned(u))
      /\ HandleOk(t) <=> HandleOk(u)
  BY <1>5, <1>6 DEF Sound, Ordered, Has, write_buf_size, Owned, HandleOk
<1>8. s.busy = FALSE
  BY <1>1 DEF Sound, IoState
<1> QED BY <1>2, <1>3, <1>4, <1>6, <1>7, <1>8, Zenon DEF Keeps, Reaches, Has

\* WeakStreamCtl::write is allowed, done at once or queued.
LEMMA WriteStreamKeeps ==
    ASSUME NEW s
    PROVE  /\ Keeps(s, write_stream(s))
           /\ Sound(s) /\ ~Has(s, "WR_PAUSED") /\ Has(write_stream(s), "WR_PAUSED")
                => write_buf_size(write_stream(s)) = 0
<1>1. SUFFICES ASSUME Sound(s), s \in IoState
               PROVE  /\ Keeps(s, write_stream(s))
                      /\ ~Has(s, "WR_PAUSED") /\ Has(write_stream(s), "WR_PAUSED")
                           => write_buf_size(write_stream(s)) = 0
  BY DEF Keeps, Reaches, Sound
<1>2. CASE s.busy
  <2> DEFINE t == write_stream(s)
  <2>1. t = [s EXCEPT !.delayed = s.delayed \cup {"Write"}]
    BY <1>2 DEF write_stream
  <2>2. s.delayed \cup {"Write"} \in SUBSET IdType
    BY <1>1 DEF IoState, IdType
  <2>3. t \in IoState
    BY <1>1, <2>1, <2>2 DEF IoState
  <2>4. /\ t.flags = s.flags /\ t.wapp = s.wapp /\ t.wbuf = s.wbuf /\ t.handle = s.handle
        /\ t.slot = s.slot /\ t.item = s.item /\ t.delayed = s.delayed \cup {"Write"} /\ t.pc = s.pc
        /\ t.timer = s.timer /\ t.filter_done = s.filter_done /\ t.busy = s.busy
    BY <1>1, <2>1 DEF IoState
  <2> HIDE DEF t
  <2>5. /\ Ordered(s) => Ordered(t)
        /\ Owned(s) => Owned(t)
        /\ HandleOk(s) => HandleOk(t)
        /\ write_buf_size(t) = write_buf_size(s) /\ write_buf_size(s) \in Nat
    BY <1>1, <2>4, Sizes DEF Ordered, Has, write_buf_size, Owned, HandleOk
  <2>6. Keeps(s, t)
    BY <1>1, <2>3, <2>4, <2>5 DEF Keeps, Reaches, Sound, Has
  <2> QED BY <2>4, <2>6 DEF Has, t
<1>3. CASE ~s.busy /\ s.slot
  <2> DEFINE b == [s EXCEPT !.busy = TRUE]
             u == item_write(b)
  <2>1. write_stream(s) = [u EXCEPT !.busy = FALSE]
    BY <1>3 DEF write_stream
  <2>2. b \in IoState /\ b.flags = s.flags
    BY <1>1, ZenonT(60) DEF IoState
  <2> HIDE DEF b
  <2>3. Keeps(b, u) /\ (~Has(b, "WR_PAUSED") /\ Has(u, "WR_PAUSED") => write_buf_size(u) = 0)
    BY <2>2, ItemWriteKeeps
  <2> HIDE DEF u
  <2>4. Keeps(s, write_stream(s))
    BY <1>3, <2>1, <2>3, BusyKeeps DEF b
  <2>5. u \in IoState
    <3>1. Sound(b)
      BY <1>1, <2>2 DEF Sound, Ordered, Has
    <3> QED BY <2>3, <3>1 DEF Keeps, Reaches, Sound
  <2>6. write_stream(s).flags = u.flags /\ write_buf_size(write_stream(s)) = write_buf_size(u)
    BY <2>1, <2>5 DEF IoState, write_buf_size
  <2> QED BY <2>2, <2>3, <2>4, <2>6 DEF Has
<1>4. CASE ~s.busy /\ ~s.slot
  BY <1>4, KeepsItself DEF write_stream
<1> QED BY <1>2, <1>3, <1>4

\* IoRef::call_write is allowed although it puts the handle back after a write that
\* terminated the connection: while the handle was out nobody could release it.
LEMMA CallWriteKeeps ==
    ASSUME NEW s
    PROVE  /\ Keeps(s, call_write(s))
           /\ Sound(s) /\ s.handle /\ Has(call_write(s), "WR_PAUSED")
                => write_buf_size(call_write(s)) = 0
<1>1. SUFFICES ASSUME Sound(s), s \in IoState
               PROVE  /\ Keeps(s, call_write(s))
                      /\ s.handle /\ Has(call_write(s), "WR_PAUSED") => write_buf_size(call_write(s)) = 0
  BY DEF Keeps, Reaches, Sound
<1>2. CASE ~s.handle
  BY <1>2, KeepsItself DEF call_write
<1>3. CASE s.handle
  <2> DEFINE x == Remove(s, {"WR_PAUSED"})
             y == [x EXCEPT !.handle = FALSE]
             w == write_stream(y)
             t == call_write(s)
  <2>1. Unmoved(s, x) /\ x.flags = s.flags \ {"WR_PAUSED"}
    BY <1>1, FlagsUpdate DEF FlagsKind
  <2>2. t = [w EXCEPT !.handle = TRUE]
    BY <1>3 DEF call_write
  <2> HIDE DEF x
  <2>3. /\ y \in IoState /\ y.flags = s.flags \ {"WR_PAUSED"} /\ y.wapp = s.wapp /\ y.wbuf = s.wbuf
        /\ y.slot = s.slot /\ y.item = s.item /\ y.delayed = s.delayed /\ y.pc = s.pc /\ y.busy = s.busy
        /\ y.timer = s.timer /\ y.filter_done = s.filter_done /\ ~y.handle
    BY <2>1, ZenonT(60) DEF Unmoved, Frame, IoState
  <2> HIDE DEF y
  <2>4. Sound(y) /\ ~Has(y, "WR_PAUSED") /\ write_buf_size(y) = write_buf_size(s)
    BY <1>1, <2>3 DEF Sound, Ordered, Has, write_buf_size
  <2>5. Keeps(y, w) /\ (Has(w, "WR_PAUSED") => write_buf_size(w) = 0)
    BY <2>4, WriteStreamKeeps
  <2> HIDE DEF w
  <2>6. Sound(w)
    BY <2>4, <2>5 DEF Keeps, Reaches
  <2>7. /\ t \in IoState /\ t.flags = w.flags /\ t.wapp = w.wapp /\ t.wbuf = w.wbuf
        /\ t.slot = w.slot /\ t.item = w.item /\ t.delayed = w.delayed /\ t.pc = w.pc /\ t.busy = w.busy
        /\ t.timer = w.timer /\ t.filter_done = w.filter_done /\ t.handle
    <3>1. [w EXCEPT !.handle = TRUE] \in IoState
      BY <2>6, ZenonT(60) DEF Sound, IoState
    <3> HIDE DEF t
    <3>2. t \in IoState
      BY <2>2, <3>1
    <3> QED BY <2>2, <2>6, <3>2 DEF Sound, IoState
  <2> HIDE DEF t
  <2>8. Sound(t) /\ HandleOk(t) /\ write_buf_size(t) = write_buf_size(w)
    BY <2>6, <2>7 DEF Sound, Ordered, Has, write_buf_size, HandleOk
  <2>9. Owned(s) => Owned(t)
    <3>1. /\ w.slot = y.slot /\ w.pc = y.pc
          /\ ("DROPPED_PRI" \in w.item) <=> ("DROPPED_PRI" \in y.item)
          /\ ("DROPPED_SEC" \in w.item) <=> ("DROPPED_SEC" \in y.item)
          /\ ("Weak" \in w.delayed) <=> ("Weak" \in y.delayed)
      BY <2>3, <2>4, <2>5 DEF Keeps, Reaches
    <3> QED BY <1>3, <2>3, <2>7, <3>1 DEF Owned
  <2>10. Keeps(s, t)
    BY <1>3, <2>3, <2>4, <2>5, <2>7, <2>8, <2>9 DEF Keeps, Reaches, Has, Stops
  <2> QED BY <2>5, <2>7, <2>8, <2>10 DEF Has, t
<1> QED BY <1>2, <1>3

\* Iops::schedule_write is allowed and leaves the connection marked as queued.
LEMMA ScheduleWriteKeeps ==
    ASSUME NEW s
    PROVE  /\ Keeps(s, schedule_write(s))
           /\ s \in IoState => Has(schedule_write(s), "WR_SEND_OP")
<1> DEFINE x == Insert(s, {"WR_SEND_OP"})
           y == [x EXCEPT !.ops = @ \/ s.registered]
<1>1. ASSUME s \in IoState PROVE Unmoved(s, y) /\ y.flags = s.flags \cup {"WR_SEND_OP"}
  <2>1. Unmoved(s, x) /\ x.flags = s.flags \cup {"WR_SEND_OP"}
    BY <1>1, FlagsUpdate DEF FlagsKind
  <2> HIDE DEF x
  <2> QED BY <2>1, ZenonT(60) DEF Unmoved, Frame, IoState
<1>2. s \in IoState => Steady(s, y)
  BY <1>1 DEF Steady, Has
<1>3. Keeps(s, y)
  BY <1>1, <1>2, UnmovedKeeps
<1> QED BY <1>1, <1>3, KeepsItself DEF schedule_write, Has

\* Flags other than the stop flags, and wake-ups, may change at any time.
LEMMA QuietKeeps ==
    ASSUME NEW s, NEW F \in SUBSET (FlagsKind \ Stops)
    PROVE  /\ Keeps(s, Insert(s, F)) /\ Keeps(s, Remove(s, F))
           /\ Keeps(s, wake_read_task(s)) /\ Keeps(s, wake_write_task(s))
           /\ Keeps(s, wake_dispatch_task(s)) /\ Keeps(s, register_dispatch(s))
<1>1. F \in SUBSET FlagsKind
  OBVIOUS
<1>2. s \in IoState => Steady(s, Insert(s, F)) /\ Steady(s, Remove(s, F))
  BY <1>1, FlagsUpdate DEF Steady, Has, Stops
<1>3. Keeps(s, Insert(s, F)) /\ Keeps(s, Remove(s, F))
  BY <1>1, <1>2, FlagsUpdate, UnmovedKeeps
<1>4. s \in IoState => /\ Steady(s, wake_read_task(s)) /\ Steady(s, wake_write_task(s))
                       /\ Steady(s, wake_dispatch_task(s)) /\ Steady(s, register_dispatch(s))
  BY WakeUnmoved DEF Steady, Has
<1> QED BY <1>3, <1>4, WakeUnmoved, UnmovedKeeps

\* IoRef::consolidate_write_state is allowed; if it leaves writing paused with no
\* write queued, every byte went to the socket.
LEMMA ConsolidateKeeps ==
    ASSUME NEW s, NEW force
    PROVE  /\ Keeps(s, consolidate_write_state(s, force))
           /\ /\ Sound(s) /\ s.handle
              /\ Has(consolidate_write_state(s, force), "WR_PAUSED")
              /\ ~Has(consolidate_write_state(s, force), "WR_SEND_OP")
              => write_buf_size(consolidate_write_state(s, force)) = 0
<1> DEFINE size   == write_buf_size(s)
           direct == Has(s, "DIRECT_WR_SUP") /\ (force \/ size >= cfg.threshold)
           wrote  == call_write(s)
           sent   == IF size = 0 \/ ~Has(s, "WR_PAUSED") THEN s
                     ELSE IF ~direct THEN schedule_write(s)
                     ELSE IF Has(wrote, "WR_PAUSED") THEN Remove(wrote, {"WR_SEND_OP"})
                     ELSE schedule_write(wrote)
           marked == wake_dispatch_task(Insert(sent, {"DSP_W_BACKPRESSURE"}))
           t      == consolidate_write_state(s, force)
<1>1. {"WR_SEND_OP"} \in SUBSET (FlagsKind \ Stops) /\ {"DSP_W_BACKPRESSURE"} \in SUBSET (FlagsKind \ Stops)
  BY DEF FlagsKind, Stops
<1>2. Keeps(s, wrote) /\ (Sound(s) /\ s.handle /\ Has(wrote, "WR_PAUSED") => write_buf_size(wrote) = 0)
  BY CallWriteKeeps
<1>3. t = IF ~Has(sent, "DSP_W_BACKPRESSURE") /\ size >= WriteHigh THEN marked ELSE sent
  BY DEF consolidate_write_state
<1> HIDE DEF wrote, direct
<1>4. Sound(s) => wrote \in IoState
  BY <1>2 DEF Keeps, Reaches, Sound
<1>5. Keeps(s, sent)
  <2>1. Keeps(s, schedule_write(s)) /\ Keeps(wrote, schedule_write(wrote)) /\ Keeps(s, s)
    BY ScheduleWriteKeeps, KeepsItself
  <2>2. Keeps(wrote, Remove(wrote, {"WR_SEND_OP"}))
    BY <1>1, QuietKeeps
  <2> QED BY <1>2, <2>1, <2>2, KeepsTransitive
<1>6. ASSUME Sound(s), s.handle, Has(sent, "WR_PAUSED"), ~Has(sent, "WR_SEND_OP")
      PROVE  write_buf_size(sent) = 0
  <2>1. s \in IoState
    BY <1>6 DEF Sound
  <2>2. CASE size = 0 \/ ~Has(s, "WR_PAUSED")
    BY <1>6, <2>2
  <2>3. CASE ~(size = 0 \/ ~Has(s, "WR_PAUSED"))
    <3>1. direct /\ Has(wrote, "WR_PAUSED")
      BY <1>4, <1>6, <2>1, <2>3, ScheduleWriteKeeps
    <3>2. sent = Remove(wrote, {"WR_SEND_OP"})
      BY <2>3, <3>1
    <3>3. Unmoved(wrote, Remove(wrote, {"WR_SEND_OP"}))
      BY <1>4, <1>6, FlagsUpdate DEF FlagsKind
    <3> QED BY <1>2, <1>6, <3>1, <3>2, <3>3 DEF Unmoved, write_buf_size
  <2> QED BY <2>2, <2>3
<1> HIDE DEF sent
<1>7. Sound(s) => sent \in IoState
  BY <1>5 DEF Keeps, Reaches, Sound
<1>8. Keeps(sent, marked)
  BY <1>1, QuietKeeps, KeepsTransitive
<1>9. Sound(s) => Unmoved(sent, marked) /\ marked.flags = sent.flags \cup {"DSP_W_BACKPRESSURE"}
  <2>1. SUFFICES ASSUME Sound(s)
                 PROVE Unmoved(sent, marked) /\ marked.flags = sent.flags \cup {"DSP_W_BACKPRESSURE"}
    OBVIOUS
  <2> DEFINE x == Insert(sent, {"DSP_W_BACKPRESSURE"})
  <2>2. Unmoved(sent, x) /\ x.flags = sent.flags \cup {"DSP_W_BACKPRESSURE"}
    BY <1>7, <2>1, FlagsUpdate DEF FlagsKind
  <2> HIDE DEF x
  <2> QED BY <2>2, WakeUnmoved DEF Unmoved, Frame, x
<1> HIDE DEF marked
<1>10. Sound(s) => /\ write_buf_size(marked) = write_buf_size(sent)
                   /\ Has(marked, "WR_PAUSED") => Has(sent, "WR_PAUSED")
                   /\ Has(sent, "WR_SEND_OP") => Has(marked, "WR_SEND_OP")
  BY <1>9 DEF Unmoved, write_buf_size, Has
<1> QED BY <1>3, <1>5, <1>6, <1>8, <1>10, KeepsTransitive

\* IoRef::ops_send_buf is allowed.
LEMMA OpsSendKeeps ==
    ASSUME NEW s PROVE Keeps(s, ops_send_buf(s))
<1> DEFINE x == Remove(s, {"WR_SEND_OP"})
           w == call_write(x)
<1>1. {"WR_SEND_OP"} \in SUBSET (FlagsKind \ Stops)
  BY DEF FlagsKind, Stops
<1>2. Keeps(s, x)
  BY <1>1, QuietKeeps
<1> HIDE DEF x
<1>3. Keeps(x, w) /\ Keeps(x, wake_write_task(x))
  BY <1>1, CallWriteKeeps, QuietKeeps, Zenon
<1> HIDE DEF w
<1>4. Keeps(w, wake_write_task(w))
  BY <1>1, QuietKeeps, Zenon
<1>5. ops_send_buf(s) \in {s, wake_write_task(x), w, wake_write_task(w)}
  BY DEF ops_send_buf, x, w
<1> QED BY <1>2, <1>3, <1>4, <1>5, KeepsTransitive, KeepsItself

\* Stack::process_read_buf is allowed, whatever a layer does with the bytes.
LEMMA ReadBufKeeps ==
    ASSUME NEW s, NEW n \in Nat, NEW f \in FilterReads
    PROVE  Keeps(s, process_read_buf(s, n, f))
<1> DEFINE held    == [s EXCEPT !.rraw = @ + n]
           replied == [s EXCEPT !.rraw = 0, !.wbuf = @ + 1]
           passed  == [s EXCEPT !.rbuf = @ + s.rraw + n, !.rraw = 0]
           spent   == [s EXCEPT !.rraw = 0]
<1>1. s \in IoState => s.rraw \in Nat /\ s.rbuf \in Nat /\ s.wbuf \in Nat
  BY DEF IoState
<1>2. s \in IoState => /\ Unmoved(s, held) /\ Steady(s, held)
                      /\ Unmoved(s, spent) /\ Steady(s, spent)
  BY DEF IoState, Unmoved, Frame, Steady, Has
<1>3. s \in IoState => Unmoved(s, passed) /\ Steady(s, passed)
  <2>1. ASSUME s \in IoState, NEW a \in Nat, NEW b \in Nat PROVE [s EXCEPT !.rbuf = a, !.rraw = b] \in IoState
    BY <2>1, Zenon DEF IoState
  <2>2. s \in IoState => s.rbuf + s.rraw + n \in Nat
    BY <1>1
  <2>3. s \in IoState => passed \in IoState
    BY <2>1, <2>2, Zenon
  <2> QED BY <2>3 DEF IoState, Unmoved, Frame, Steady, Has
<1>4. s \in IoState => Frame(s, replied) /\ Steady(s, replied)
  <2>1. ASSUME s \in IoState, NEW a \in Nat, NEW b \in Nat PROVE [s EXCEPT !.rraw = a, !.wbuf = b] \in IoState
    BY <2>1, ZenonT(60) DEF IoState
  <2>2. s \in IoState => s.wbuf + 1 \in Nat /\ 0 \in Nat
    BY <1>1
  <2>3. s \in IoState => replied \in IoState
    BY <2>1, <2>2, Zenon
  <2> QED BY <2>3 DEF IoState, Frame, Steady, Has
<1>5. Keeps(s, held) /\ Keeps(s, passed) /\ Keeps(s, spent)
  BY <1>2, <1>3, UnmovedKeeps
<1>6. cfg.layer => Keeps(s, replied)
  BY <1>4, FrameKeeps
<1> HIDE DEF held, replied, passed, spent
<1>7. Keeps(replied, close_with(replied, "tls")) /\ Keeps(spent, start_shutdown(spent))
  BY CloseWithKeeps, StartShutdownKeeps
<1>8. CASE f \in {"reply", "fatal"}
  <2>1. cfg.layer
    BY <1>8 DEF FilterReads
  <2>2. process_read_buf(s, n, f) \in {held, replied, close_with(replied, "tls")}
    BY <1>8 DEF process_read_buf, held, replied, passed, spent
  <2> QED BY <1>5, <1>6, <1>7, <2>1, <2>2, KeepsTransitive
<1>9. CASE f \notin {"reply", "fatal"}
  <2>1. process_read_buf(s, n, f) \in {held, passed, start_shutdown(spent)}
    BY <1>9 DEF process_read_buf, held, replied, passed, spent
  <2> QED BY <1>5, <1>7, <2>1, KeepsTransitive
<1> QED BY <1>8, <1>9

\* IoContext::update_read_status is allowed.
LEMMA ReadStatusKeeps ==
    ASSUME NEW s, NEW n \in Nat, NEW f \in FilterReads
    PROVE  Keeps(s, update_read_status(s, n, f))
<1> DEFINE read     == process_read_buf(s, n, f)
           new      == IF read.rbuf >= ReadHigh
                       THEN {"RD_PAUSED", "BUF_R_READY", "RD_BACKPRESSURE"} ELSE {"BUF_R_READY"}
           ready    == IF read.rbuf = s.rbuf THEN read ELSE wake_dispatch_task(Insert(read, new))
           notified == IF Has(ready, "RD_NOTIFY")
                       THEN Insert(wake_dispatch_task(ready), {"RD_NOTIFIED"}) ELSE ready
           written  == process_write_buf(notified)
<1>1. new \in SUBSET (FlagsKind \ Stops) /\ {"RD_NOTIFIED"} \in SUBSET (FlagsKind \ Stops)
  BY DEF FlagsKind, Stops
<1>2. Keeps(s, read)
  BY ReadBufKeeps
<1>3. update_read_status(s, n, f) \in {s, notified, terminate_connection(read, "io"),
                                      consolidate_write_state(written, FALSE)}
  BY DEF update_read_status
<1> HIDE DEF read, new
<1>4. Keeps(read, ready)
  BY <1>1, QuietKeeps, KeepsTransitive, KeepsItself
<1> HIDE DEF ready
<1>5. Keeps(ready, notified)
  BY <1>1, QuietKeeps, KeepsTransitive, KeepsItself, Zenon
<1> HIDE DEF notified
<1>6. Keeps(notified, written) /\ Keeps(written, consolidate_write_state(written, FALSE))
  BY ProcessWriteKeeps, ConsolidateKeeps, Zenon
<1> HIDE DEF written
<1>7. Keeps(s, notified)
  BY <1>2, <1>4, <1>5, KeepsTransitive
<1>8. Keeps(s, consolidate_write_state(written, FALSE))
  BY <1>6, <1>7, KeepsTransitive, Zenon
<1>9. Keeps(s, terminate_connection(read, "io"))
  BY <1>2, TerminateKeeps, KeepsTransitive
<1> QED BY <1>3, <1>7, <1>8, <1>9, KeepsItself, Zenon

\* StreamItem::read is allowed.
LEMMA ItemReadKeeps ==
    ASSUME NEW s, NEW f \in FilterReads
    PROVE  Keeps(s, item_read(s, f))
<1> DEFINE n == Min2(s.inq, Chunk)
           x == [s EXCEPT !.inq = @ - n]
<1>1. s \in IoState => n \in Nat /\ s.inq - n \in Nat
  <2>1. s \in IoState => s.inq \in Nat
    BY DEF IoState
  <2> QED BY <2>1, SizesAssumption DEF Min2
<1>2. item_read(s, f) \in {terminate_connection(s, "io"), terminate_connection(s, "none"),
                            update_read_status(x, n, f)}
  BY DEF item_read
<1> HIDE DEF n
<1>3. s \in IoState => Unmoved(s, x) /\ Steady(s, x)
  BY <1>1 DEF IoState, Unmoved, Frame, Steady, Has
<1>4. Keeps(s, x)
  BY <1>3, UnmovedKeeps
<1> HIDE DEF x
<1>5. s \in IoState => Keeps(x, update_read_status(x, n, f))
  BY <1>1, ReadStatusKeeps
<1>6. s \in IoState => Keeps(s, update_read_status(x, n, f))
  BY <1>4, <1>5, KeepsTransitive
<1>7. s \in IoState => Keeps(s, item_read(s, f))
  BY <1>2, <1>6, TerminateKeeps
<1> QED BY <1>7 DEF Keeps, Reaches, Sound

\* StreamItem::arm changes what is polled for and nothing about the owners.
LEMMA InterestKept ==
    ASSUME NEW s, NEW rd, NEW wr, NEW arm
    PROVE  Keeps(s, SetInterest(s, rd, wr, arm))
<1> DEFINE t == SetInterest(s, rd, wr, arm)
           kept == s.item \cap {"DROPPED_PRI", "DROPPED_SEC"}
           want == (IF rd THEN {"RD"} ELSE {}) \cup (IF wr THEN {"WR"} ELSE {})
           held == IF arm
                   THEN (IF rd THEN {"ARM_RD"} ELSE {}) \cup (IF wr THEN {"ARM_WR"} ELSE {})
                   ELSE s.item \cap {"ARM_RD", "ARM_WR"}
           new  == kept \cup want \cup held
<1>1. SUFFICES ASSUME Sound(s), s \in IoState PROVE Keeps(s, t)
  BY DEF Keeps, Reaches, Sound
<1>2. t = [s EXCEPT !.item = new]
  BY DEF SetInterest
<1>3. /\ new \in SUBSET ItemFlags
      /\ ("DROPPED_PRI" \in new) <=> ("DROPPED_PRI" \in s.item)
      /\ ("DROPPED_SEC" \in new) <=> ("DROPPED_SEC" \in s.item)
  BY DEF ItemFlags
<1> HIDE DEF new
<1>4. [s EXCEPT !.item = new] \in IoState
  BY <1>1, <1>3 DEF IoState
<1> HIDE DEF t
<1>5. /\ t \in IoState /\ t.flags = s.flags /\ t.wapp = s.wapp /\ t.wbuf = s.wbuf /\ t.handle = s.handle
      /\ t.slot = s.slot /\ t.item = new /\ t.delayed = s.delayed /\ t.pc = s.pc
      /\ t.timer = s.timer /\ t.filter_done = s.filter_done /\ t.busy = s.busy
  BY <1>1, <1>2, <1>4 DEF IoState
<1>6. /\ Ordered(t) /\ (HandleOk(s) => HandleOk(t)) /\ (Owned(s) => Owned(t))
      /\ write_buf_size(t) <= write_buf_size(s)
  BY <1>1, <1>3, <1>5, Sizes DEF Sound, Ordered, HandleOk, Owned, Has, write_buf_size
<1> QED BY <1>3, <1>5, <1>6 DEF Keeps, Reaches, Sound, Has

\* StreamCtl::interest is allowed.
LEMMA InterestKeeps ==
    ASSUME NEW s, NEW rd, NEW wr, NEW f \in FilterReads, s \in IoState => ~s.busy
    PROVE  Keeps(s, interest(s, rd, wr, f))
<1> DEFINE taken == [s EXCEPT !.busy = TRUE]
           read  == IF rd /\ "RD" \notin s.item THEN item_read(taken, f) ELSE taken
           rdOn  == rd /\ ("RD" \in s.item \/ ReadIo(read))
           wrote == IF wr /\ "WR" \notin s.item THEN item_write(read) ELSE read
           wrOn  == wr /\ ("WR" \in s.item \/ WriteIo(wrote))
           upd   == rdOn # ("RD" \in s.item) \/ wrOn # ("WR" \in s.item)
           u     == SetInterest(wrote, rdOn, wrOn, upd)
<1>1. interest(s, rd, wr, f) = [u EXCEPT !.busy = FALSE]
  BY DEF interest
<1>2. Keeps(taken, read)
  <2> HIDE DEF taken
  <2> QED BY ItemReadKeeps, KeepsItself
<1> HIDE DEF read
<1>3. Keeps(read, wrote)
  BY ItemWriteKeeps, KeepsItself
<1> HIDE DEF wrote
<1>4. Keeps(wrote, u)
  BY InterestKept
<1> HIDE DEF u, taken
<1>5. Keeps(taken, u)
  BY <1>2, <1>3, <1>4, KeepsTransitive
<1> QED BY <1>1, <1>5, BusyKeeps DEF taken

\* StreamOpsHandler::event is allowed.
LEMMA EventKeeps ==
    ASSUME NEW s, NEW ev, NEW f \in FilterReads, s \in IoState => ~s.busy
    PROVE  Keeps(s, event(s, ev, f))
<1> DEFINE taken == [s EXCEPT !.busy = TRUE]
           read  == IF "rd" \in ev THEN item_read(taken, f) ELSE taken
           rdOn  == IF "rd" \in ev THEN ReadIo(read) ELSE "RD" \in s.item
           wrote == IF "wr" \in ev THEN item_write(read) ELSE read
           wrOn  == IF "wr" \in ev THEN WriteIo(wrote) ELSE "WR" \in s.item
           armed == SetInterest(wrote, rdOn, wrOn, "int" \notin ev)
           u     == IF "int" \in ev THEN terminate_connection(armed, "none") ELSE armed
<1>1. event(s, ev, f) = [u EXCEPT !.busy = FALSE]
  BY DEF event
<1>2. Keeps(taken, read)
  <2> HIDE DEF taken
  <2> QED BY ItemReadKeeps, KeepsItself
<1> HIDE DEF read
<1>3. Keeps(read, wrote)
  BY ItemWriteKeeps, KeepsItself
<1> HIDE DEF wrote
<1>4. Keeps(wrote, armed)
  BY InterestKept
<1> HIDE DEF armed
<1>5. Keeps(armed, u)
  BY TerminateKeeps, KeepsItself
<1> HIDE DEF u, taken
<1>6. Keeps(taken, u)
  BY <1>2, <1>3, <1>4, <1>5, KeepsTransitive
<1> QED BY <1>1, <1>6, BusyKeeps DEF taken

\* StreamOps::check_delayed_feed removes the entry only when the task is gone, and
\* marks it otherwise.
LEMMA DelayedFeedReaches ==
    ASSUME NEW s, s \in IoState => ~s.busy
    PROVE  Reaches(s, check_delayed_feed(s))
<1> DEFINE taken   == [s EXCEPT !.busy = TRUE, !.delayed = @ \ {"Write"}]
           wrote   == IF "Write" \in s.delayed /\ s.slot /\ ~is_closed(s)
                      THEN item_write(taken) ELSE taken
           less    == [wrote EXCEPT !.delayed = @ \ {"Weak"}]
           dropped == IF "Weak" \in wrote.delayed THEN drop_weak_stream(less) ELSE wrote
           t       == [dropped EXCEPT !.busy = FALSE]
<1>1. SUFFICES ASSUME Sound(s), s \in IoState, ~s.busy PROVE Reaches(s, t)
  BY Zenon DEF Reaches, Sound, check_delayed_feed
<1>2. taken \in IoState
  <2>1. ASSUME NEW d \in SUBSET IdType PROVE [s EXCEPT !.busy = TRUE, !.delayed = d] \in IoState
    BY <1>1, ZenonT(60) DEF IoState
  <2>2. s.delayed \ {"Write"} \in SUBSET IdType
    BY <1>1 DEF IoState
  <2> QED BY <2>1, <2>2, Zenon
<1>3. /\ taken.flags = s.flags /\ taken.wapp = s.wapp /\ taken.wbuf = s.wbuf /\ taken.handle = s.handle
      /\ taken.slot = s.slot /\ taken.item = s.item /\ taken.delayed = s.delayed \ {"Write"}
      /\ taken.pc = s.pc
  BY <1>1 DEF IoState
<1>4. /\ Sound(taken) /\ write_buf_size(taken) = write_buf_size(s) /\ write_buf_size(s) \in Nat
      /\ Owned(s) => Owned(taken)
      /\ HandleOk(s) => HandleOk(taken)
  BY <1>1, <1>2, <1>3, Sizes DEF Sound, Ordered, Has, write_buf_size, Owned, HandleOk
<1> HIDE DEF taken
<1>5. Reaches(taken, wrote)
  BY ItemWriteKeeps, KeepsItself DEF Keeps
<1> HIDE DEF wrote
<1>6. Sound(wrote) /\ wrote \in IoState /\ wrote.pc = s.pc
  BY <1>3, <1>4, <1>5 DEF Reaches, Sound
<1>7. /\ dropped \in IoState /\ dropped.flags = wrote.flags /\ dropped.wapp = wrote.wapp
      /\ dropped.wbuf = wrote.wbuf /\ dropped.handle = wrote.handle /\ dropped.pc = wrote.pc
      /\ Owned(wrote) => Owned(dropped)
  <2>1. CASE "Weak" \notin wrote.delayed
    BY <1>6, <2>1
  <2>2. CASE "Weak" \in wrote.delayed
    <3>1. /\ less \in IoState /\ less.flags = wrote.flags /\ less.wapp = wrote.wapp
          /\ less.wbuf = wrote.wbuf /\ less.handle = wrote.handle /\ less.pc = wrote.pc
          /\ less.slot = wrote.slot /\ less.item = wrote.item /\ less.delayed = wrote.delayed \ {"Weak"}
      BY <1>6 DEF IoState
    <3> HIDE DEF less
    <3>2. CASE "DROPPED_PRI" \in less.item
      <4>1. dropped = [less EXCEPT !.slot = FALSE]
        BY <2>2, <3>2 DEF drop_weak_stream
      <4> HIDE DEF dropped
      <4>2. /\ dropped \in IoState /\ dropped.flags = less.flags /\ dropped.wapp = less.wapp
            /\ dropped.wbuf = less.wbuf /\ dropped.handle = less.handle /\ dropped.pc = less.pc
            /\ dropped.slot = FALSE /\ dropped.item = less.item /\ dropped.delayed = less.delayed
        BY <3>1, <4>1, ZenonT(60) DEF IoState
      <4> QED BY <2>2, <3>1, <3>2, <4>2 DEF Owned
    <3>3. CASE "DROPPED_PRI" \notin less.item
      <4> DEFINE i == less.item \cup {"DROPPED_SEC"}
      <4>1. dropped = [less EXCEPT !.item = i]
        BY <2>2, <3>3 DEF drop_weak_stream
      <4>2. i \in SUBSET ItemFlags
        BY <3>1 DEF IoState, ItemFlags
      <4>3. "DROPPED_PRI" \notin i /\ "DROPPED_SEC" \in i
        BY <3>3
      <4> HIDE DEF dropped, i
      <4>4. /\ dropped \in IoState /\ dropped.flags = less.flags /\ dropped.wapp = less.wapp
            /\ dropped.wbuf = less.wbuf /\ dropped.handle = less.handle /\ dropped.pc = less.pc
            /\ dropped.slot = less.slot /\ dropped.item = i /\ dropped.delayed = less.delayed
        BY <3>1, <4>1, <4>2 DEF IoState
      <4> QED BY <2>2, <3>1, <3>3, <4>3, <4>4 DEF Owned
    <3> QED BY <3>2, <3>3
  <2> QED BY <2>1, <2>2
<1> HIDE DEF dropped
<1>8. /\ t \in IoState /\ t.flags = dropped.flags /\ t.wapp = dropped.wapp /\ t.wbuf = dropped.wbuf
      /\ t.handle = dropped.handle /\ t.slot = dropped.slot /\ t.item = dropped.item
      /\ t.delayed = dropped.delayed /\ t.pc = dropped.pc /\ t.busy = FALSE
  BY <1>7, ZenonT(60) DEF IoState
<1> HIDE DEF t
<1>9. /\ Sound(t) /\ write_buf_size(t) = write_buf_size(wrote)
      /\ Owned(wrote) => Owned(t)
      /\ HandleOk(wrote) => HandleOk(t)
  BY <1>6, <1>7, <1>8 DEF Sound, Ordered, Has, write_buf_size, Owned, HandleOk
<1>10. s.busy = FALSE /\ t.pc = s.pc
  BY <1>1, <1>6, <1>7, <1>8 DEF IoState
<1> QED BY <1>3, <1>4, <1>5, <1>7, <1>8, <1>9, <1>10, Zenon DEF Reaches, Has

\* Stack::process_shutdown touches buffers and the filter's progress only.
LEMMA ProcessShutdownReaches ==
    ASSUME NEW s
    PROVE  /\ Reaches(s, process_shutdown(s))
           /\ Sound(s) => /\ process_shutdown(s).flags = s.flags
                          /\ process_shutdown(s).handle = s.handle
<1> DEFINE w == process_write_buf(s)
           v == process_write_buf(w)
           d == [v EXCEPT !.filter_done = TRUE, !.wapp = 0]
<1>1. SUFFICES ASSUME Sound(s), s \in IoState
               PROVE  /\ Reaches(s, process_shutdown(s))
                      /\ process_shutdown(s).flags = s.flags
                      /\ process_shutdown(s).handle = s.handle
  BY DEF Reaches, Sound
<1>2. process_shutdown(s) \in {w, d}
  BY DEF process_shutdown
<1>3. Reaches(s, w) /\ Frame(s, w) /\ w.flags = s.flags /\ w \in IoState
  BY <1>1, ProcessWriteKeeps DEF Keeps, Frame
<1> HIDE DEF w
<1>4. Reaches(w, v) /\ Frame(w, v) /\ v.flags = w.flags /\ v \in IoState
  BY <1>3, ProcessWriteKeeps, ZenonT(60) DEF Keeps, Frame
<1> HIDE DEF v
<1>5. d \in IoState
  <2>1. ASSUME NEW a \in BOOLEAN, NEW b \in Nat PROVE [v EXCEPT !.filter_done = a, !.wapp = b] \in IoState
    BY <1>4, ZenonT(60) DEF IoState
  <2> QED BY <2>1, Zenon
<1>6. /\ d.flags = v.flags /\ d.wapp = 0 /\ d.wbuf = v.wbuf /\ d.handle = v.handle
      /\ d.slot = v.slot /\ d.item = v.item /\ d.delayed = v.delayed /\ d.pc = v.pc /\ d.busy = v.busy
  BY <1>4 DEF IoState
<1> HIDE DEF d
<1>7. Reaches(v, d)
  <2>1. write_buf_size(d) <= write_buf_size(v)
    BY <1>4, <1>6, Sizes DEF write_buf_size
  <2>2. /\ Ordered(v) => Ordered(d)
        /\ Owned(v) => Owned(d)
        /\ HandleOk(v) => HandleOk(d)
    BY <1>6 DEF Ordered, Has, Owned, HandleOk
  <2> QED BY <1>5, <1>6, <2>1, <2>2 DEF Reaches, Sound, Has
<1>8. Reaches(s, d)
  BY <1>3, <1>4, <1>7, ReachesTransitive
<1> QED BY <1>2, <1>3, <1>4, <1>6, <1>8 DEF Frame

\* A graceful close may be reported: nothing is unsent, or it had to give up.
Excused(s) == write_buf_size(s) = 0 \/ s.timer = "elapsed" \/ ~s.filter_done

\* The first loop of the task ends only once the connection is closed.
TaskOk(s) == s.pc # "poll" => is_closed(s)

\* What holds of the connection between two actions.
Good(s) == Sound(s) /\ Owned(s) /\ HandleOk(s) /\ TaskOk(s) /\ ~s.busy

\* What an action may do.
Steps(s, t) ==
    /\ Good(t)
    /\ \A f \in Stops : Has(s, f) => Has(t, f)
    /\ Has(t, "IO_STOPPING") =>
          \/ Has(s, "IO_STOPPING") \/ Has(t, "IO_STOPPED")
          \/ Has(s, "IO_STOPPING_FILTERS") /\ Excused(t)
    /\ Has(s, "IO_STOPPING_FILTERS") /\ ~cfg.layer => write_buf_size(t) <= write_buf_size(s)

\* An action that applies a handler to a good state does what an action may do.
LEMMA ReachesSteps ==
    ASSUME NEW s, NEW t, Good(s), Reaches(s, t)
    PROVE  Steps(s, t)
BY DEF Good, Reaches, Steps, TaskOk, is_closed, Stops

\* A poll of the task goes on to set its interest after shutdown_filters.
LEMMA StepsThenReaches ==
    ASSUME NEW s, NEW t, NEW u, Good(s), Steps(s, t), Reaches(t, u),
           Has(t, "IO_STOPPING") => Has(t, "IO_STOPPED")
    PROVE  Steps(s, u)
<1>1. Steps(t, u)
  BY ReachesSteps DEF Steps
<1>2. t \in IoState /\ s \in IoState /\ u \in IoState
  BY <1>1 DEF Steps, Good, Sound
<1>3. write_buf_size(s) \in Nat /\ write_buf_size(t) \in Nat /\ write_buf_size(u) \in Nat
  BY <1>2, Sizes
<1>4. Has(u, "IO_STOPPING") => Has(u, "IO_STOPPED")
  BY <1>1, ZenonT(60) DEF Steps, Stops, Reaches, Good
<1> QED BY <1>1, <1>3, <1>4 DEF Steps, Stops

\* IoState::filters_stopped sets IO_STOPPING and wakes everybody.
LEMMA FiltersStopped ==
    ASSUME NEW s \in IoState
    PROVE  Unmoved(s, filters_stopped(s)) /\ filters_stopped(s).flags = s.flags \cup {"IO_STOPPING"}
<1> DEFINE w == wake_dispatch_task(wake_write_task(wake_read_task(s)))
<1>1. Unmoved(s, w) /\ w.flags = s.flags
  BY WakeUnmoved DEF Unmoved, Frame
<1> HIDE DEF w
<1>2. Unmoved(w, Insert(w, {"IO_STOPPING"})) /\ Insert(w, {"IO_STOPPING"}).flags = w.flags \cup {"IO_STOPPING"}
  BY <1>1, FlagsUpdate DEF Unmoved, Frame, FlagsKind
<1> QED BY <1>1, <1>2 DEF filters_stopped, w, Unmoved, Frame

\* IoContext::shutdown_filters reports the filters stopped only when nothing is
\* unsent, the timeout elapsed or the filter is not done.  This needs HandleOk: a
\* connection without a handle would look flushed.
LEMMA ShutdownFiltersSteps ==
    ASSUME NEW s, NEW fails, Good(s), s.pc = "poll"
    PROVE  Steps(s, shutdown_filters(s, fails)) /\ shutdown_filters(s, fails).pc = "poll"
<1> DEFINE down  == process_shutdown(s)
           sent  == consolidate_write_state(down, TRUE)
           ready == down.filter_done
           stop  == \/ ready /\ Has(sent, "WR_PAUSED") /\ ~Has(sent, "WR_SEND_OP")
                    \/ /\ ~ready
                       /\ \/ Has(sent, "RD_PAUSED")
                          \/ Has(sent, "BUF_R_READY") /\ Has(sent, "RD_BACKPRESSURE")
                    \/ sent.timer = "elapsed"
           t     == shutdown_filters(s, fails)
<1>1. CASE ~is_shutting_down_filters(s)
  <2>1. Reaches(s, s)
    BY KeepsItself DEF Keeps
  <2> QED BY <1>1, <2>1, ReachesSteps DEF shutdown_filters
<1>2. CASE is_shutting_down_filters(s) /\ fails /\ ~s.filter_done
  <2> DEFINE w == process_write_buf(s)
  <2>1. t = terminate_connection(w, "io")
    BY <1>2 DEF shutdown_filters
  <2>2. Keeps(s, w) /\ Keeps(w, terminate_connection(w, "io"))
    BY ProcessWriteKeeps, TerminateKeeps
  <2> HIDE DEF w, t
  <2>3. Reaches(s, t)
    BY <2>1, <2>2, KeepsTransitive DEF Keeps
  <2>4. Steps(s, t) /\ t.pc = "poll"
    BY <2>3, ReachesSteps DEF Reaches, Good
  <2> QED BY <2>4 DEF t
<1>3. CASE is_shutting_down_filters(s) /\ ~(fails /\ ~s.filter_done)
  <2>1. t = IF stop THEN filters_stopped(sent) ELSE [sent EXCEPT !.timer = "armed"]
    BY <1>3, Zenon DEF shutdown_filters
  <2>2. Reaches(s, down) /\ Sound(down) /\ down.flags = s.flags /\ down.handle
    BY <1>3, ProcessShutdownReaches DEF Good, Reaches, HandleOk, is_shutting_down_filters, is_closed
  <2> HIDE DEF down
  <2>3. /\ Keeps(down, sent)
        /\ Has(sent, "WR_PAUSED") /\ ~Has(sent, "WR_SEND_OP") => write_buf_size(sent) = 0
    BY <2>2, ConsolidateKeeps, Zenon
  <2> HIDE DEF sent
  <2>4. Reaches(s, sent) /\ sent.filter_done = ready
    BY <2>2, <2>3, ReachesTransitive DEF Keeps
  <2>5. Steps(s, sent) /\ sent.pc = "poll"
    BY <2>4, ReachesSteps DEF Reaches, Good
  <2>6. sent \in IoState /\ Has(s, "IO_STOPPING_FILTERS") /\ Has(sent, "IO_STOPPING_FILTERS")
    BY <1>3, <2>5 DEF Steps, Good, Sound, is_shutting_down_filters, Stops
  <2>7. CASE stop
    <3>1. t = filters_stopped(sent)
      BY <2>1, <2>7
    <3>2. Unmoved(sent, t) /\ t.flags = sent.flags \cup {"IO_STOPPING"}
      BY <2>6, <3>1, FiltersStopped
    <3> HIDE DEF t
    <3>3. write_buf_size(t) = write_buf_size(sent)
      BY <3>2 DEF Unmoved, write_buf_size
    <3>4. Excused(t)
      BY <2>3, <2>4, <2>7, <3>2, <3>3 DEF Excused, Unmoved, Frame
    <3>5. Good(t)
      BY <2>5, <2>6, <3>2 DEF Steps, Good, Sound, Ordered, Owned, HandleOk, TaskOk, Has, Unmoved, Frame
    <3>6. t.pc = "poll" /\ \A f \in Stops : Has(s, f) => Has(t, f)
      BY <2>5, <3>2 DEF Steps, Has, Unmoved, Frame
    <3> QED BY <2>5, <2>6, <3>3, <3>4, <3>5, <3>6 DEF Steps, t
  <2>8. CASE ~stop
    <3>1. t = [sent EXCEPT !.timer = "armed"]
      BY <2>1, <2>8
    <3> HIDE DEF t
    <3>2. t \in IoState /\ t.flags = sent.flags /\ t.wapp = sent.wapp /\ t.wbuf = sent.wbuf
          /\ t.handle = sent.handle /\ t.slot = sent.slot /\ t.item = sent.item
          /\ t.delayed = sent.delayed /\ t.pc = sent.pc /\ t.busy = sent.busy
      BY <2>6, <3>1 DEF IoState
    <3>3. Good(t) /\ write_buf_size(t) = write_buf_size(sent)
      BY <2>5, <3>2 DEF Steps, Good, Sound, Ordered, Owned, HandleOk, TaskOk, is_closed, Has, write_buf_size
    <3>4. Has(t, "IO_STOPPING") => Has(s, "IO_STOPPING") \/ Has(t, "IO_STOPPED")
      BY <2>4, <3>2 DEF Reaches, Good, Has
    <3> QED BY <2>5, <3>2, <3>3, <3>4 DEF Steps, Has, t
  <2> QED BY <2>7, <2>8
<1> QED BY <1>1, <1>2, <1>3

\* The disconnect timeout changes no other part of the connection.
LEMMA TimerReaches ==
    ASSUME NEW s
    PROVE  Reaches(s, [s EXCEPT !.timer = "elapsed", !.sched = TRUE])
<1> DEFINE t == [s EXCEPT !.timer = "elapsed", !.sched = TRUE]
<1>1. SUFFICES ASSUME Sound(s), s \in IoState PROVE Reaches(s, t)
  BY ZenonT(60) DEF Reaches, Sound
<1>2. t \in IoState
  <2>1. ASSUME NEW a \in {"none", "armed", "elapsed"}, NEW b \in BOOLEAN
        PROVE  [s EXCEPT !.timer = a, !.sched = b] \in IoState
    BY <1>1, ZenonT(60) DEF IoState
  <2> QED BY <2>1, Zenon
<1>3. /\ t.flags = s.flags /\ t.wapp = s.wapp /\ t.wbuf = s.wbuf /\ t.handle = s.handle
      /\ t.slot = s.slot /\ t.item = s.item /\ t.delayed = s.delayed /\ t.pc = s.pc /\ t.busy = s.busy
  BY <1>1 DEF IoState
<1> HIDE DEF t
<1>4. /\ Ordered(t) /\ (Owned(s) => Owned(t)) /\ (HandleOk(s) => HandleOk(t))
      /\ write_buf_size(t) <= write_buf_size(s)
  BY <1>1, <1>3, Sizes DEF Sound, Ordered, Has, Owned, HandleOk, write_buf_size
<1> QED BY <1>2, <1>3, <1>4 DEF Reaches, Sound, Has

\* One poll of the connection task keeps the invariant.
LEMMA RunPollSteps ==
    ASSUME Good(c), NEW f \in FilterReads, NEW fails, RunPoll(f, fails) PROVE Steps(c, c')
<1> DEFINE b == [c EXCEPT !.sched = FALSE]
           s == shutdown_filters(b, fails)
           r == [s EXCEPT !.read_task = TRUE, !.write_task = TRUE]
           rd == \/ Has(s, "IO_STOPPING_FILTERS") \/ ~is_read_paused_or_backpressure(s)
           wr == ~Has(s, "WR_PAUSED")
<1>1. c' = IF is_closed(s) THEN [s EXCEPT !.pc = "closing"] ELSE interest(r, rd, wr, f)
  BY DEF RunPoll
<1>2. c \in IoState /\ c.pc = "poll"
  BY DEF Good, Sound, RunPoll
<1>3. Unmoved(c, b) /\ b.flags = c.flags
  BY <1>2, ZenonT(60) DEF IoState, Unmoved, Frame
<1> HIDE DEF b
<1>4. Good(b) /\ b.pc = "poll" /\ write_buf_size(b) = write_buf_size(c) /\ \A g \in Stops : Has(b, g) <=> Has(c, g)
  BY <1>2, <1>3 DEF Good, Sound, Ordered, Owned, HandleOk, TaskOk, is_closed, Has, Unmoved, Frame, write_buf_size
<1>5. Steps(b, s) /\ s.pc = "poll"
  BY <1>4, ShutdownFiltersSteps
<1> HIDE DEF s
<1>6. Steps(c, s) /\ s \in IoState
  BY <1>4, <1>5 DEF Steps, Stops, Good, Sound
<1>7. CASE is_closed(s)
  <2>1. c' = [s EXCEPT !.pc = "closing"]
    BY <1>1, <1>7
  <2>2. [s EXCEPT !.pc = "closing"] \in IoState
    BY <1>6 DEF IoState
  <2>3. /\ c' \in IoState /\ c'.flags = s.flags /\ c'.wapp = s.wapp /\ c'.wbuf = s.wbuf /\ c'.handle = s.handle
        /\ c'.slot = s.slot /\ c'.item = s.item /\ c'.delayed = s.delayed /\ c'.pc = "closing"
        /\ c'.busy = s.busy /\ c'.timer = s.timer /\ c'.filter_done = s.filter_done
    BY <1>6, <2>1, <2>2 DEF IoState
  <2>4. Good(c') /\ write_buf_size(c') = write_buf_size(s) /\ (Excused(s) => Excused(c'))
    BY <1>5, <1>6, <1>7, <2>3 DEF Steps, Good, Sound, Ordered, Owned, HandleOk, TaskOk, is_closed, Has,
       write_buf_size, Excused
  <2> QED BY <1>6, <2>3, <2>4 DEF Steps, Has
<1>8. CASE ~is_closed(s)
  <2>1. r \in IoState
    <3>1. ASSUME NEW x \in BOOLEAN, NEW y \in BOOLEAN PROVE [s EXCEPT !.read_task = x, !.write_task = y] \in IoState
      BY <1>6, ZenonT(60) DEF IoState
    <3> QED BY <3>1, Zenon
  <2>2. Unmoved(s, r) /\ r.flags = s.flags
    BY <1>6, <2>1 DEF IoState, Unmoved, Frame
  <2> HIDE DEF r
  <2>3. Keeps(s, r)
    BY <2>2, UnmovedKeeps DEF Steady, Has
  <2>4. ~r.busy
    BY <1>6, <2>2 DEF Steps, Good, Unmoved, Frame
  <2>5. Keeps(r, interest(r, rd, wr, f))
    <3> HIDE DEF rd, wr
    <3> QED BY <2>4, InterestKeeps
  <2> HIDE DEF rd, wr
  <2>6. c' = interest(r, rd, wr, f)
    BY <1>1, <1>8
  <2>7. Keeps(s, interest(r, rd, wr, f))
    BY <2>3, <2>5, KeepsTransitive
  <2>8. Reaches(s, c')
    BY <2>6, <2>7 DEF Keeps
  <2> QED BY <1>6, <1>8, <2>8, StepsThenReaches, ZenonT(60) DEF is_closed
<1> QED BY <1>7, <1>8

\* The end of the connection task removes the entry, or marks its half dropped.
LEMMA RunDoneSteps ==
    ASSUME Good(c), RunDone PROVE Steps(c, c')
<1> DEFINE x == [c EXCEPT !.pc = "done", !.busy = TRUE]
           i == x.item \cup {"DROPPED_PRI"}
           d == drop_stream(x)
<1>1. c \in IoState /\ c.pc = "closing" /\ is_closed(c) /\ c' = [d EXCEPT !.busy = FALSE]
  BY ZenonT(60) DEF Good, Sound, TaskOk, RunDone
<1>2. x \in IoState
  <2>1. ASSUME NEW p \in {"poll", "closing", "done"}, NEW b \in BOOLEAN PROVE [c EXCEPT !.pc = p, !.busy = b] \in IoState
    BY <1>1, ZenonT(60) DEF IoState
  <2> QED BY <2>1, Zenon
<1>3. /\ x.flags = c.flags /\ x.wapp = c.wapp /\ x.wbuf = c.wbuf /\ x.handle = c.handle
      /\ x.slot = c.slot /\ x.item = c.item /\ x.delayed = c.delayed /\ x.pc = "done"
  BY <1>1 DEF IoState
<1>4. d = IF "DROPPED_SEC" \in x.item THEN [x EXCEPT !.slot = FALSE] ELSE [x EXCEPT !.item = i]
  <2>1. is_closed(x)
    BY <1>1, <1>3 DEF is_closed, Has
  <2> QED BY <2>1 DEF drop_stream
<1>5. i \in SUBSET ItemFlags /\ "DROPPED_PRI" \in i /\ (("DROPPED_SEC" \in i) <=> ("DROPPED_SEC" \in x.item))
  <2>1. x.item \in SUBSET ItemFlags
    BY <1>2, Zenon DEF IoState
  <2> QED BY <2>1 DEF ItemFlags
<1> HIDE DEF x, i, d
<1>6. /\ d \in IoState /\ d.flags = x.flags /\ d.wapp = x.wapp /\ d.wbuf = x.wbuf /\ d.handle = x.handle
      /\ d.delayed = x.delayed /\ d.pc = x.pc
      /\ "DROPPED_SEC" \in x.item => d.slot = FALSE
      /\ "DROPPED_SEC" \notin x.item => d.slot = x.slot /\ d.item = i
  <2>1. [x EXCEPT !.slot = FALSE] \in IoState /\ [x EXCEPT !.item = i] \in IoState
    BY <1>2, <1>5, ZenonT(60) DEF IoState
  <2> QED BY <1>2, <1>4, <2>1, Zenon DEF IoState
<1>7. Owned(d)
  <2>1. Owned(c)
    BY DEF Good
  <2> QED BY <1>1, <1>3, <1>5, <1>6, <2>1 DEF Owned
<1>8. /\ c' \in IoState /\ c'.flags = d.flags /\ c'.wapp = d.wapp /\ c'.wbuf = d.wbuf /\ c'.handle = d.handle
      /\ c'.slot = d.slot /\ c'.item = d.item /\ c'.delayed = d.delayed /\ c'.pc = d.pc /\ c'.busy = FALSE
  <2>1. [d EXCEPT !.busy = FALSE] \in IoState
    BY <1>6, ZenonT(60) DEF IoState
  <2> QED BY <1>1, <1>6, <2>1 DEF IoState
<1>9. Good(c') /\ write_buf_size(c') = write_buf_size(c) /\ write_buf_size(c) \in Nat
  BY <1>1, <1>3, <1>6, <1>7, <1>8, Sizes
     DEF Good, Sound, Ordered, Owned, HandleOk, TaskOk, is_closed, Has, write_buf_size
<1> QED BY <1>3, <1>6, <1>8, <1>9 DEF Steps, Has

\* Every action of the runtime and the driver keeps the invariant.
LEMMA DriverSteps ==
    ASSUME Good(c), Driver PROVE Steps(c, c')
<1>1. c \in IoState /\ ~c.busy
  BY DEF Good, Sound
<1>2. ASSUME NEW f \in FilterReads, Event(f) PROVE Steps(c, c')
  <2> DEFINE e == event(c, Readiness, f)
  <2>1. c' = check_delayed_feed(e)
    BY <1>2 DEF Event
  <2>2. Keeps(c, e)
    BY <1>1, <1>2, EventKeeps
  <2> HIDE DEF e
  <2>3. ~e.busy
    BY <1>1, <2>2 DEF Keeps, Reaches, Good
  <2>4. Reaches(e, check_delayed_feed(e))
    BY <2>3, DelayedFeedReaches
  <2>5. Reaches(c, c')
    BY <2>1, <2>2, <2>4, ReachesTransitive DEF Keeps
  <2> QED BY <2>5, ReachesSteps
<1>3. ASSUME OtherEvent PROVE Steps(c, c')
  BY <1>1, <1>3, DelayedFeedReaches, ReachesSteps DEF OtherEvent
<1>4. ASSUME IopsRun PROVE Steps(c, c')
  <2> DEFINE x == [c EXCEPT !.ops = FALSE]
  <2>1. c' \in {x, ops_send_buf(x)}
    BY <1>4 DEF IopsRun
  <2>2. Unmoved(c, x) /\ Steady(c, x)
    BY <1>1, ZenonT(60) DEF IoState, Unmoved, Frame, Steady, Has
  <2>3. Keeps(c, x)
    BY <2>2, UnmovedKeeps
  <2> HIDE DEF x
  <2>4. Keeps(x, ops_send_buf(x))
    BY OpsSendKeeps
  <2>5. Keeps(c, c')
    BY <2>1, <2>3, <2>4, KeepsTransitive
  <2> QED BY <2>5, ReachesSteps DEF Keeps
<1>5. ASSUME DisconnectTimeout PROVE Steps(c, c')
  BY <1>5, TimerReaches, ReachesSteps, Zenon DEF DisconnectTimeout
<1>6. ASSUME KeepAliveTimeout PROVE Steps(c, c')
  <2> DEFINE x == Insert(c, {"DSP_TIMEOUT"})
  <2>1. {"DSP_TIMEOUT"} \in SUBSET (FlagsKind \ Stops)
    BY DEF FlagsKind, Stops
  <2>2. Keeps(c, x) /\ Keeps(x, wake_dispatch_task(x)) /\ Keeps(c, c)
    BY <2>1, QuietKeeps, KeepsItself
  <2>3. c' \in {c, wake_dispatch_task(x)}
    BY <1>6 DEF KeepAliveTimeout, notify_timeout
  <2>4. Keeps(c, c')
    BY <2>2, <2>3, KeepsTransitive
  <2> QED BY <2>4, ReachesSteps DEF Keeps
<1> QED BY <1>2, <1>3, <1>4, <1>5, <1>6, RunPollSteps, RunDoneSteps DEF Driver

\* Resuming and pausing reads is allowed.
LEMMA ReadReadyKeeps ==
    ASSUME NEW s
    PROVE  Keeps(s, poll_read_ready(s)) /\ Keeps(s, update_read_destination(s)) /\ Keeps(s, pause(s))
<1>1. /\ {"BUF_R_READY", "RD_BACKPRESSURE", "RD_PAUSED"} \in SUBSET (FlagsKind \ Stops)
      /\ {"BUF_R_READY", "RD_BACKPRESSURE"} \in SUBSET (FlagsKind \ Stops)
      /\ {"RD_PAUSED"} \in SUBSET (FlagsKind \ Stops)
  BY DEF FlagsKind, Stops
<1>2. Keeps(s, poll_read_ready(s))
  <2> DEFINE x == Remove(s, {"BUF_R_READY", "RD_BACKPRESSURE", "RD_PAUSED"})
             r == IF is_read_paused_or_backpressure(s) THEN wake_read_task(x) ELSE s
  <2>1. poll_read_ready(s) \in {s, r, register_dispatch(r)}
    BY DEF poll_read_ready
  <2>2. Keeps(s, x) /\ Keeps(x, wake_read_task(x)) /\ Keeps(s, s)
    BY <1>1, QuietKeeps, KeepsItself
  <2>3. Keeps(s, r)
    BY <2>2, KeepsTransitive
  <2> HIDE DEF r
  <2>4. Keeps(r, register_dispatch(r))
    BY <1>1, QuietKeeps, Zenon
  <2> QED BY <2>1, <2>2, <2>3, <2>4, KeepsTransitive
<1>3. Keeps(s, update_read_destination(s))
  <2> DEFINE x == Remove(s, {"BUF_R_READY", "RD_BACKPRESSURE"})
             w == wake_read_task(x)
  <2>1. update_read_destination(s) \in {s, x, Remove(w, {"RD_PAUSED"})}
    BY DEF update_read_destination
  <2>2. Keeps(s, x) /\ Keeps(x, w) /\ Keeps(s, s)
    BY <1>1, QuietKeeps, KeepsItself
  <2> HIDE DEF w
  <2>3. Keeps(w, Remove(w, {"RD_PAUSED"}))
    BY <1>1, QuietKeeps
  <2> QED BY <2>1, <2>2, <2>3, KeepsTransitive
<1>4. Keeps(s, pause(s))
  <2> DEFINE w == wake_read_task(s)
  <2>1. pause(s) \in {s, Insert(w, {"RD_PAUSED"})}
    BY DEF pause
  <2>2. Keeps(s, w) /\ Keeps(s, s)
    BY <1>1, QuietKeeps, KeepsItself, Zenon
  <2> HIDE DEF w
  <2>3. Keeps(w, Insert(w, {"RD_PAUSED"}))
    BY <1>1, QuietKeeps
  <2> QED BY <2>1, <2>2, <2>3, KeepsTransitive
<1> QED BY <1>2, <1>3, <1>4

\* Every operation that may wait keeps the invariant.
LEMMA PollSteps ==
    ASSUME Good(c),
           \/ PollRecv \/ PollReadNotify \/ PollReadPause \/ PollShutdown
           \/ \E full \in BOOLEAN : PollFlush(full)
    PROVE  Steps(c, c')
<1>1. c \in IoState
  BY DEF Good, Sound
<1>2. Keeps(c, Polled)
  <2>1. Unmoved(c, Polled) /\ Steady(c, Polled)
    BY <1>1, ZenonT(60) DEF Polled, IoState, Unmoved, Frame, Steady, Has
  <2> QED BY <2>1, UnmovedKeeps
<1>3. SUFFICES Keeps(c, c')
  BY ReachesSteps DEF Keeps
<1>4. Polled \in IoState /\ Polled.rbuf = c.rbuf
  BY <1>1, ZenonT(60) DEF Polled, IoState
<1>5. ASSUME NEW g \in FlagsKind \ Stops PROVE {g} \in SUBSET (FlagsKind \ Stops)
  BY <1>5
<1>6. {"BUF_R_READY", "DSP_TIMEOUT", "RD_NOTIFY", "RD_NOTIFIED", "DSP_W_BACKPRESSURE", "WR_FLUSH",
       "RD_BACKPRESSURE", "RD_PAUSED"} \subseteq FlagsKind \ Stops
  BY DEF FlagsKind, Stops
<1>7. ASSUME PollRecv PROVE Keeps(c, c')
  <2> DEFINE item == c.rbuf >= ItemLen
             x == Remove(Polled, {"BUF_R_READY"})
             decoded == [x EXCEPT !.rbuf = IF item THEN @ - ItemLen ELSE @]
             s == update_read_destination(decoded)
  <2>1. c' \in {s, Remove(s, {"DSP_TIMEOUT"}), poll_read_ready(s)}
    BY <1>7 DEF PollRecv
  <2>2. Keeps(Polled, x)
    BY <1>5, <1>6, QuietKeeps
  <2>3. x \in IoState /\ x.rbuf = c.rbuf
    <3>1. [Polled EXCEPT !.flags = Polled.flags \ {"BUF_R_READY"}] \in IoState
      BY <1>4 DEF IoState
    <3> QED BY <1>4, <3>1 DEF Remove, IoState
  <2> HIDE DEF x
  <2>4. c.rbuf \in Nat /\ (item => c.rbuf - ItemLen \in Nat)
    BY <1>1, SizesAssumption DEF IoState
  <2>5. Unmoved(x, decoded) /\ Steady(x, decoded)
    BY <2>3, <2>4 DEF IoState, Unmoved, Frame, Steady, Has
  <2>6. Keeps(x, decoded)
    BY <2>5, UnmovedKeeps
  <2> HIDE DEF decoded
  <2>7. Keeps(decoded, s)
    BY ReadReadyKeeps
  <2> HIDE DEF s
  <2>8. Keeps(s, Remove(s, {"DSP_TIMEOUT"})) /\ Keeps(s, poll_read_ready(s))
    BY <1>5, <1>6, QuietKeeps, ReadReadyKeeps
  <2>9. Keeps(c, s)
    BY <1>2, <2>2, <2>6, <2>7, KeepsTransitive
  <2> QED BY <2>1, <2>8, <2>9, KeepsTransitive
<1>8. ASSUME PollReadNotify PROVE Keeps(c, c')
  <2> DEFINE x == Insert(Polled, {"RD_NOTIFY"})
             y == poll_read_ready(x)
  <2>1. c' \in {Polled, Remove(Polled, {"RD_NOTIFY", "RD_NOTIFIED"}), register_dispatch(y)}
    BY <1>8 DEF PollReadNotify
  <2>2. {"RD_NOTIFY", "RD_NOTIFIED"} \in SUBSET (FlagsKind \ Stops) /\ {"RD_NOTIFY"} \in SUBSET (FlagsKind \ Stops)
    BY <1>6
  <2>3. Keeps(Polled, x) /\ Keeps(Polled, Remove(Polled, {"RD_NOTIFY", "RD_NOTIFIED"}))
    BY <2>2, QuietKeeps
  <2> HIDE DEF x
  <2>4. Keeps(x, y)
    BY ReadReadyKeeps
  <2> HIDE DEF y
  <2>5. Keeps(y, register_dispatch(y))
    BY <2>2, QuietKeeps, Zenon
  <2> QED BY <1>2, <2>1, <2>3, <2>4, <2>5, KeepsTransitive
<1>9. ASSUME PollReadPause PROVE Keeps(c, c')
  <2> DEFINE x == pause(Polled)
             s == register_dispatch(x)
  <2>1. c' \in {s, Remove(s, {"DSP_TIMEOUT"}), Remove(s, {"DSP_W_BACKPRESSURE"})}
    BY <1>9 DEF PollReadPause
  <2>2. Keeps(Polled, x)
    BY ReadReadyKeeps
  <2> HIDE DEF x
  <2>3. Keeps(x, s)
    BY <1>5, <1>6, QuietKeeps, Zenon
  <2> HIDE DEF s
  <2>4. Keeps(s, Remove(s, {"DSP_TIMEOUT"})) /\ Keeps(s, Remove(s, {"DSP_W_BACKPRESSURE"}))
    BY <1>5, <1>6, QuietKeeps
  <2> QED BY <1>2, <2>1, <2>2, <2>3, <2>4, KeepsTransitive
<1>10. ASSUME PollShutdown PROVE Keeps(c, c')
  <2> DEFINE x == start_shutdown(Polled)
             y == Remove(x, {"BUF_R_READY", "RD_BACKPRESSURE", "RD_PAUSED"})
             z == wake_read_task(y)
  <2>1. c' \in {Polled, register_dispatch(z)}
    BY <1>10 DEF PollShutdown
  <2>2. {"BUF_R_READY", "RD_BACKPRESSURE", "RD_PAUSED"} \in SUBSET (FlagsKind \ Stops)
    BY <1>6
  <2>3. Keeps(Polled, x)
    BY StartShutdownKeeps
  <2> HIDE DEF x
  <2>4. Keeps(x, y)
    BY <2>2, QuietKeeps
  <2> HIDE DEF y
  <2>5. Keeps(y, z)
    BY <2>2, QuietKeeps, Zenon
  <2> HIDE DEF z
  <2>6. Keeps(z, register_dispatch(z))
    BY <2>2, QuietKeeps, ZenonT(60)
  <2>7. Keeps(c, z)
    BY <1>2, <2>3, <2>4, <2>5, KeepsTransitive
  <2> QED BY <1>2, <2>1, <2>6, <2>7, KeepsTransitive
<1>11. ASSUME NEW full \in BOOLEAN, PollFlush(full) PROVE Keeps(c, c')
  <2> DEFINE x == process_write_buf(Polled)
             s == consolidate_write_state(x, FALSE)
             mark == IF full THEN "WR_FLUSH" ELSE "DSP_W_BACKPRESSURE"
             y == Insert(s, {mark})
  <2>1. c' \in {s, register_dispatch(y), Remove(s, {"DSP_W_BACKPRESSURE", "WR_FLUSH"})}
    BY <1>11, Zenon DEF PollFlush
  <2>2. {"DSP_W_BACKPRESSURE", "WR_FLUSH"} \in SUBSET (FlagsKind \ Stops) /\ {mark} \in SUBSET (FlagsKind \ Stops)
    BY <1>6
  <2>3. Keeps(Polled, x)
    BY ProcessWriteKeeps
  <2> HIDE DEF x, mark
  <2>4. Keeps(x, s)
    BY ConsolidateKeeps, Zenon
  <2> HIDE DEF s
  <2>5. Keeps(s, y) /\ Keeps(s, Remove(s, {"DSP_W_BACKPRESSURE", "WR_FLUSH"}))
    BY <2>2, QuietKeeps
  <2> HIDE DEF y
  <2>6. Keeps(y, register_dispatch(y))
    BY <2>2, QuietKeeps, Zenon
  <2>7. Keeps(c, s)
    BY <1>2, <2>3, <2>4, KeepsTransitive
  <2> QED BY <2>1, <2>5, <2>6, <2>7, KeepsTransitive
<1> QED BY <1>7, <1>8, <1>9, <1>10, <1>11

\* Encoding keeps the invariant; it is refused once a shutdown began.
LEMMA EncodeSteps ==
    ASSUME Good(c), NEW n \in Nat, Encode(n) PROVE Steps(c, c')
<1> DEFINE a == IF cfg.layer THEN c.wapp + n ELSE c.wapp
           b == IF cfg.layer THEN c.wbuf ELSE c.wbuf + n
           x == [c EXCEPT !.out_left = @ - n, !.wapp = a, !.wbuf = b]
<1>1. c \in IoState /\ ~Has(c, "IO_STOPPING_FILTERS")
  BY DEF Good, Sound, Encode, is_stopping_any
<1>2. c' = consolidate_write_state(x, FALSE)
  BY DEF Encode
<1>3. c.out_left - n \in Nat /\ a \in Nat /\ b \in Nat
  <2>1. c.out_left \in Nat /\ c.wapp \in Nat /\ c.wbuf \in Nat
    BY <1>1 DEF IoState
  <2> QED BY <2>1 DEF Encode
<1> HIDE DEF a, b
<1>4. x \in IoState
  <2>1. ASSUME NEW u \in Nat, NEW v \in Nat, NEW w \in Nat
        PROVE  [c EXCEPT !.out_left = u, !.wapp = v, !.wbuf = w] \in IoState
    BY <1>1, Zenon DEF IoState
  <2> QED BY <1>3, <2>1, Zenon
<1>5. Frame(c, x) /\ x.flags = c.flags
  BY <1>1, <1>4 DEF IoState, Frame
<1> HIDE DEF x
<1>6. Keeps(c, x)
  BY <1>1, <1>5, FrameKeeps DEF Steady, Has
<1>7. Keeps(c, c')
  BY <1>2, <1>6, ConsolidateKeeps, KeepsTransitive, Zenon
<1> QED BY <1>7, ReachesSteps DEF Keeps

\* Every operation that does not wait keeps the invariant.
LEMMA CallSteps ==
    ASSUME Good(c),
           \/ SendBuf \/ Close \/ Terminate \/ OnDisconnect \/ DropIo \/ Cancel
           \/ \E n \in Nat : TryWriteVectored(n)
    PROVE  Steps(c, c')
<1>1. c \in IoState
  BY DEF Good, Sound
<1>2. SUFFICES Keeps(c, c')
  BY ReachesSteps DEF Keeps
<1>3. ASSUME SendBuf PROVE Keeps(c, c')
  <2> DEFINE s == consolidate_write_state(c, TRUE)
             x == [s EXCEPT !.error = "none"]
  <2>1. c' \in {s, x}
    BY <1>3 DEF SendBuf
  <2>2. Keeps(c, s)
    BY ConsolidateKeeps, Zenon
  <2> HIDE DEF s
  <2>3. s \in IoState => Unmoved(s, x) /\ Steady(s, x)
    BY DEF IoState, Unmoved, Frame, Steady, Has
  <2>4. Keeps(s, x)
    BY <2>3, UnmovedKeeps
  <2> QED BY <2>1, <2>2, <2>4, KeepsTransitive
<1>4. ASSUME Close PROVE Keeps(c, c')
  BY <1>4, StartShutdownKeeps DEF Close
<1>5. ASSUME Terminate PROVE Keeps(c, c')
  BY <1>5, TerminateKeeps DEF Terminate
<1>6. ASSUME OnDisconnect PROVE Keeps(c, c')
  <2> DEFINE w == IF Has(c, "IO_STOPPING") THEN "woken" ELSE "waiting"
             x == [c EXCEPT !.waiter = w]
  <2>1. c' = x
    BY <1>6 DEF OnDisconnect
  <2>2. w \in {"none", "waiting", "woken"}
    OBVIOUS
  <2> HIDE DEF w
  <2>3. Unmoved(c, x) /\ Steady(c, x)
    BY <1>1, <2>2 DEF IoState, Unmoved, Frame, Steady, Has
  <2> QED BY <2>1, <2>3, UnmovedKeeps
<1>7. ASSUME DropIo PROVE Keeps(c, c')
  <2> DEFINE s == terminate_connection(c, "none")
             x == [s EXCEPT !.registered = FALSE, !.woken = FALSE]
  <2>1. c' = x
    BY <1>7 DEF DropIo
  <2>2. Keeps(c, s)
    BY TerminateKeeps
  <2> HIDE DEF s
  <2>3. s \in IoState => Unmoved(s, x) /\ Steady(s, x)
    <3>1. ASSUME s \in IoState, NEW u \in BOOLEAN, NEW v \in BOOLEAN
          PROVE  [s EXCEPT !.registered = u, !.woken = v] \in IoState
      BY <3>1, ZenonT(60) DEF IoState
    <3>2. s \in IoState => x \in IoState
      BY <3>1, Zenon
    <3> QED BY <3>2 DEF IoState, Unmoved, Frame, Steady, Has
  <2>4. Keeps(s, x)
    BY <2>3, UnmovedKeeps
  <2> QED BY <2>1, <2>2, <2>4, KeepsTransitive
<1>8. ASSUME Cancel PROVE Keeps(c, c')
  BY <1>8, KeepsItself DEF Cancel
<1>9. ASSUME NEW n \in Nat, TryWriteVectored(n) PROVE Keeps(c, c')
  <2> DEFINE sent == Min2(Min2(n, c.space), Chunk)
             x == [c EXCEPT !.out_left = @ - sent, !.space = @ - sent]
  <2>1. c' = x
    BY <1>9, Zenon DEF TryWriteVectored
  <2>2. c.out_left - sent \in Nat /\ c.space - sent \in Nat
    <3>1. c.out_left \in Nat /\ c.space \in Nat /\ n <= c.out_left
      BY <1>1, <1>9, ZenonT(60) DEF IoState, TryWriteVectored
    <3> QED BY <3>1, SizesAssumption DEF Min2
  <2> HIDE DEF sent
  <2>3. x \in IoState
    <3>1. ASSUME NEW u \in Nat, NEW v \in Nat PROVE [c EXCEPT !.out_left = u, !.space = v] \in IoState
      BY <1>1, ZenonT(60) DEF IoState
    <3> QED BY <2>2, <3>1, Zenon
  <2>4. Unmoved(c, x) /\ Steady(c, x)
    BY <1>1, <2>3 DEF IoState, Unmoved, Frame, Steady, Has
  <2> QED BY <2>1, <2>4, UnmovedKeeps, ZenonT(60)
<1> QED BY <1>3, <1>4, <1>5, <1>6, <1>7, <1>8, <1>9

\* Nothing the peer or the kernel does breaks the invariant.
LEMMA PeerSteps ==
    ASSUME Good(c), cfg \in Config, Peer PROVE Steps(c, c')
<1>1. c \in IoState
  BY DEF Good, Sound
<1>2. SUFFICES Keeps(c, c')
  BY ReachesSteps DEF Keeps
<1>3. ASSUME PeerSend PROVE Keeps(c, c')
  <2> DEFINE x == [c EXCEPT !.in_left = @ - 1, !.inq = @ + 1]
  <2>1. c.in_left - 1 \in Nat /\ c.inq + 1 \in Nat
    <3>1. c.in_left \in Nat /\ c.inq \in Nat /\ c.in_left > 0
      BY <1>1, <1>3, ZenonT(60) DEF IoState, PeerSend
    <3> QED BY <3>1
  <2>2. x \in IoState
    <3>1. ASSUME NEW u \in Nat, NEW v \in Nat PROVE [c EXCEPT !.in_left = u, !.inq = v] \in IoState
      BY <1>1, ZenonT(60) DEF IoState
    <3> QED BY <2>1, <3>1, Zenon
  <2>3. Unmoved(c, x) /\ Steady(c, x)
    BY <1>1, <2>2 DEF IoState, Unmoved, Frame, Steady, Has
  <2> QED BY <1>3, <2>3, UnmovedKeeps DEF PeerSend
<1>4. ASSUME PeerDrain PROVE Keeps(c, c')
  <2> DEFINE x == [c EXCEPT !.space = SndBuf]
  <2>1. Unmoved(c, x) /\ Steady(c, x)
    BY <1>1, SizesAssumption DEF IoState, Unmoved, Frame, Steady, Has
  <2> QED BY <1>4, <2>1, UnmovedKeeps DEF PeerDrain
<1>5. ASSUME FilterReady PROVE Keeps(c, c')
  <2> DEFINE x == [c EXCEPT !.filter_ready = TRUE]
  <2>1. Unmoved(c, x) /\ Steady(c, x)
    BY <1>1, ZenonT(60) DEF IoState, Unmoved, Frame, Steady, Has
  <2>2. Keeps(c, x)
    BY <2>1, UnmovedKeeps
  <2> HIDE DEF x
  <2>3. Keeps(x, wake_read_task(x))
    <3>1. {} \in SUBSET (FlagsKind \ Stops)
      OBVIOUS
    <3> QED BY <3>1, QuietKeeps, Zenon
  <2> QED BY <1>5, <2>2, <2>3, KeepsTransitive DEF FilterReady, x
<1>6. ASSUME NEW f \in cfg.faults, PeerFault(f) PROVE Keeps(c, c')
  <2> DEFINE x == [c EXCEPT !.fault = {f}]
  <2>1. {f} \in SUBSET {"eof", "reset"}
    BY <1>6 DEF Config
  <2>2. Unmoved(c, x) /\ Steady(c, x)
    BY <1>1, <2>1 DEF IoState, Unmoved, Frame, Steady, Has
  <2> QED BY <1>6, <2>2, UnmovedKeeps DEF PeerFault
<1> QED BY <1>3, <1>4, <1>5, <1>6 DEF Peer

\* The inductive invariant.
IInv == TypeOK /\ Good(c)

\* Every action keeps the invariant and the configuration.
LEMMA NextSteps ==
    ASSUME IInv, Next
    PROVE  Steps(c, c') /\ cfg' = cfg /\ app' \in {"idle", "gone"} \cup Waiting
<1>1. cfg \in Config /\ Good(c) /\ app \in {"idle", "gone"} \cup Waiting
  BY DEF IInv, TypeOK
<1>2. CASE Driver
  <2>1. cfg' = cfg /\ app' = app
    BY <1>2, Zenon DEF Driver, RunPoll, Event, RunDone, OtherEvent, IopsRun, DisconnectTimeout, KeepAliveTimeout
  <2> QED BY <1>1, <1>2, <2>1, DriverSteps, ZenonT(60)
<1>3. CASE Application
  <2>1. 1 .. cfg.max_out \subseteq Nat
    BY <1>1 DEF Config
  <2>2. CASE \/ PollRecv \/ PollReadNotify \/ PollReadPause \/ PollShutdown
             \/ \E full \in BOOLEAN : PollFlush(full)
    <3>1. cfg' = cfg /\ app' \in {"idle"} \cup Waiting
      BY <2>2, Zenon DEF PollRecv, PollReadNotify, PollReadPause, PollShutdown, PollFlush, Waiting
    <3> QED BY <1>1, <2>2, <3>1, PollSteps
  <2>3. CASE \E n \in 1 .. cfg.max_out : Encode(n)
    <3>1. cfg' = cfg /\ app' = app
      BY <2>3 DEF Encode
    <3> QED BY <1>1, <2>1, <2>3, <3>1, EncodeSteps
  <2>4. CASE \/ SendBuf \/ Close \/ Terminate \/ OnDisconnect \/ DropIo \/ Cancel
             \/ \E n \in 1 .. cfg.max_out : TryWriteVectored(n)
    <3>1. cfg' = cfg /\ (app' = app \/ app' \in {"idle", "gone"})
      BY <2>4, Zenon DEF SendBuf, Close, Terminate, OnDisconnect, DropIo, Cancel, TryWriteVectored
    <3> QED BY <1>1, <2>1, <2>4, <3>1, CallSteps
  <2> QED BY <1>3, <2>2, <2>3, <2>4 DEF Application
<1>4. CASE Peer
  <2>1. cfg' = cfg /\ app' = app
    BY <1>4 DEF Peer, PeerSend, PeerDrain, FilterReady, PeerFault
  <2> QED BY <1>1, <1>4, <2>1, PeerSteps
<1> QED BY <1>2, <1>3, <1>4 DEF Next

\* A new connection satisfies the invariant.
LEMMA InitGood == Init => IInv
<1> SUFFICES ASSUME Init PROVE IInv
  OBVIOUS
<1>1. cfg \in Config /\ app = "idle"
  BY ConfigsAssumption, ZenonT(60) DEF Init
<1>2. c \in IoState
  <2>1. SndBuf \in Nat /\ cfg.max_in \in Nat /\ cfg.max_out \in Nat /\ (~cfg.layer) \in BOOLEAN
    BY <1>1, SizesAssumption DEF Config
  <2>2. {"WR_PAUSED"} \cup (IF cfg.threshold > 0 THEN {"DIRECT_WR_SUP"} ELSE {}) \in SUBSET FlagsKind
    BY DEF FlagsKind
  <2> QED BY <2>1, <2>2 DEF Init, IoState
<1>3. /\ ~Has(c, "IO_STOPPED") /\ ~Has(c, "IO_STOPPING") /\ ~Has(c, "IO_STOPPING_FILTERS")
      /\ c.handle /\ c.slot /\ c.item = {} /\ c.delayed = {} /\ c.pc = "poll" /\ ~c.busy
  BY DEF Init, Has
<1> QED BY <1>1, <1>2, <1>3 DEF IInv, TypeOK, Good, Sound, Ordered, Owned, HandleOk, TaskOk

\* The inductive invariant holds in every reachable state.
THEOREM Invariance == Spec => []IInv
<1>1. IInv /\ [Next]_vars => IInv'
  <2> SUFFICES ASSUME IInv, [Next]_vars PROVE IInv'
    OBVIOUS
  <2>1. CASE Next
    <3>1. Steps(c, c') /\ cfg' = cfg /\ app' \in {"idle", "gone"} \cup Waiting
      BY <2>1, NextSteps
    <3> QED BY <3>1 DEF IInv, TypeOK, Steps, Good, Sound
  <2>2. CASE UNCHANGED vars
    BY <2>2 DEF vars, IInv, TypeOK
  <2> QED BY <2>1, <2>2
<1> QED BY <1>1, InitGood, PTL DEF Spec

\* Every variable keeps its type: no buffer size goes below zero.
THEOREM TypeCorrect == Spec => []TypeOK
BY Invariance, PTL DEF IInv

\* No reachable state uses a slab entry that was removed, removes one twice or
\* loses track of an owner (drop_stream, drop_weak_stream, check_delayed_feed).
THEOREM SlotSafety == Spec => []SlotOwned
<1>1. IInv => SlotOwned
  BY DEF IInv, Good, SlotOwned
<1> QED BY <1>1, Invariance, PTL

\* The connection implements the abstract connection: phases advance in order, no
\* byte is accepted after a shutdown began, and filters_stopped after a graceful
\* close means that every accepted byte went to the socket or the close gave up.
THEOREM Refinement == Spec => ImplementsConnection
<1>1. Init => Lifecycle!Init
  <2> SUFFICES ASSUME Init PROVE Lifecycle!Init
    OBVIOUS
  <2>1. cfg \in Config
    BY ConfigsAssumption DEF Init
  <2>2. Phase = "open" /\ write_buf_size(c) = 0
    BY DEF Init, Phase, Has, write_buf_size
  <2> QED BY <2>1, <2>2 DEF Lifecycle!Init, Config
<1>2. IInv /\ [Next]_vars => [Lifecycle!Next]_(Lifecycle!vars)
  <2> SUFFICES ASSUME IInv, [Next]_vars PROVE [Lifecycle!Next]_(Lifecycle!vars)
    OBVIOUS
  <2>1. CASE Next
    <3>1. Steps(c, c') /\ cfg' = cfg
      BY <2>1, NextSteps
    <3>2. write_buf_size(c') \in Nat /\ write_buf_size(c)' = write_buf_size(c')
      BY <3>1, Sizes DEF Steps, Good, Sound, write_buf_size
    <3> DEFINE Late == c.timer = "elapsed" \/ ~c.filter_done
    <3>3. Lifecycle!Exchange \/ Lifecycle!BeginClose \/ Lifecycle!FinishClose \/ Lifecycle!Terminate
      <4>1. Ordered(c) /\ Ordered(c')
        BY <3>1 DEF IInv, Good, Sound, Steps
      <4>2. CASE Phase' = Phase
        BY <3>1, <3>2, <4>1, <4>2 DEF Lifecycle!Exchange, Phase, Steps, Ordered, Has
      <4>3. CASE Phase' # Phase /\ Phase' = "closing"
        <5>1. Phase = "open"
          BY <3>1, <4>1, <4>3 DEF Phase, Steps, Ordered, Has, Stops
        <5> QED BY <3>2, <4>3, <5>1 DEF Lifecycle!BeginClose
      <4>4. CASE Phase' # Phase /\ Phase' = "stopped"
        <5>1. Phase = "closing" /\ Excused(c')
          BY <3>1, <4>1, <4>4 DEF Phase, Steps, Ordered, Has, Stops
        <5> QED BY <3>2, <4>4, <5>1 DEF Lifecycle!FinishClose, Excused
      <4>5. CASE Phase' # Phase /\ Phase' = "terminated"
        BY <3>2, <4>5 DEF Lifecycle!Terminate
      <4>6. CASE Phase' # Phase /\ Phase' = "open"
        BY <3>1, <4>1, <4>6 DEF Phase, Steps, Ordered, Has, Stops
      <4>7. Phase' \in {"open", "closing", "stopped", "terminated"}
        BY DEF Phase
      <4> QED BY <4>2, <4>3, <4>4, <4>5, <4>6, <4>7
    <3> QED BY <3>1, <3>3 DEF Lifecycle!Next
  <2>2. CASE UNCHANGED vars
    BY <2>2 DEF vars, Lifecycle!vars, Phase, write_buf_size, Has
  <2> QED BY <2>1, <2>2
<1> QED BY <1>1, <1>2, Invariance, PTL DEF Spec, ImplementsConnection, Lifecycle!Spec
=============================================================================

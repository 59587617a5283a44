------------------------------ MODULE Dispatcher ------------------------------
(***************************************************************************)
(* The framed dispatcher (geario/src/dispatcher/mod.rs) and the one-second *)
(* timers of the I/O streams it uses (geario/src/io/ops.rs, start_timer    *)
(* and stop_timer of ioref.rs).                                            *)
(*                                                                         *)
(* The dispatcher is one task of a single-threaded runtime: a poll takes   *)
(* the service's answer to the first call, then loops over its states      *)
(* until it has to wait.  Each turn of the loop is a step; only the        *)
(* dispatcher moves while it is being polled (pc = "loop").  Between polls *)
(* the peer, the write task, the service and the timer task move.          *)
(*                                                                         *)
(* The stream is reduced to what the dispatcher sees of it: bytes in the   *)
(* read buffer (a frame is two of them), answers in the write buffer, the  *)
(* flags and the dispatcher's waker.  Connection.tla has the stream's own  *)
(* life.                                                                   *)
(***************************************************************************)
EXTENDS Naturals, FiniteSets

CONSTANTS
  Profiles,   \* [ka, rate, bytes, answers, unready, faults, others, idle, talk]: keepalive_timeout,
              \*   frame_read_rate (<<timeout, max_timeout, rate>>, <<>> for None), bytes the peer sends, what the
              \*   service answers, how often it is not ready, which faults happen, how many
              \*   timers other streams start, seconds that may pass before a timer runs, and
              \*   how many answers are not Ok(None)
  MaxClock    \* seconds a behaviour lasts

\* The seconds are natural numbers, zero among them (set_frame_read_rate refuses none).
ASSUME ProfilesAssumption ==
  \A p \in Profiles :
    /\ p.ka \in Nat
    /\ p.rate = <<>> \/ p.rate \in Nat \X Nat \X Nat
    /\ p.answers \subseteq {"some", "unencodable", "err"}
    /\ p.talk \in Nat

VARIABLES
  cfg,   \* one of Profiles
  d,     \* DispatcherInner and DispatcherShared
  io,    \* the stream
  tm,    \* TimerStorage of the thread
  svc,   \* the service
  env,   \* what is left of the profile's bounds
  log    \* what the service was given, for the properties

vars == <<cfg, d, io, tm, svc, env, log>>

FrameLen == 2        \* bytes of a frame
High == 2            \* write_buf().high, in answers
Half == 1            \* write_buf().half
U32 == 256           \* 2^w of the byte counters, w reduced from 32

\* The whole state, as the handlers see and change it.
World == [d |-> d, io |-> io, tm |-> tm, svc |-> svc, log |-> log]
Becomes(w) ==
  /\ d' = w.d
  /\ io' = w.io
  /\ tm' = w.tm
  /\ svc' = w.svc
  /\ log' = w.log

IsClosed(w) == w.io.life = "closed"

\* wake_dispatch_task(): the waker is taken.
WakeDispatch(w) ==
  IF w.io.waker THEN [w EXCEPT !.io.waker = FALSE, !.d.woken = TRUE] ELSE w

Registered(w) == [w EXCEPT !.io.waker = TRUE]

-----------------------------------------------------------------------------
(* The timers of a thread: one task that sleeps a second at a time.        *)

Listed(t, key, id) == <<key, id>> \in t.listed

TimerUnregister(t, key, id) == [t EXCEPT !.listed = @ \ {<<key, id>>}]

\* `present` has the keys of the BTreeMap and `listed` what their sets hold: a key stays when
\* its set empties.
TimerRegister(t, timeout, id) ==
  LET cur == IF t.running THEN t.current ELSE t.clock
      key == cur + timeout
  IN [t EXCEPT !.current = cur, !.running = TRUE, !.present = @ \cup {key},
               !.listed = @ \cup {<<key, id>>}]

\* The handle register() returns for that call.
NewHandle(t, timeout) == (IF t.running THEN t.current ELSE t.clock) + timeout

\* update() that keeps every handle that is not later than the new one.
KeepsEarlierHandle(t, hnd, timeout) == hnd <= t.current + timeout + 1

\* update() compares with a `current` that is stale while the task does not run.
KeepsHandle(t, hnd, timeout) == hnd \in {t.current + timeout, t.current + timeout + 1}

StartTimer(w, timeout) ==
  IF timeout = 0
  THEN IF w.io.hnd = 0 THEN w
       ELSE [w EXCEPT !.io.hnd = 0, !.tm = TimerUnregister(w.tm, w.io.hnd, "io")]
  ELSE IF w.io.hnd # 0 /\ KeepsHandle(w.tm, w.io.hnd, timeout) THEN w
  ELSE LET t == IF w.io.hnd = 0 THEN w.tm ELSE TimerUnregister(w.tm, w.io.hnd, "io")
       IN [w EXCEPT !.tm = TimerRegister(t, timeout, "io"), !.io.hnd = NewHandle(t, timeout)]

StopTimer(w) ==
  IF w.io.hnd = 0 THEN w
  ELSE [w EXCEPT !.io.hnd = 0, !.tm = TimerUnregister(w.tm, w.io.hnd, "io")]

NotifyTimeout(w) ==
  IF w.io.dspTimeout THEN w ELSE WakeDispatch([w EXCEPT !.io.dspTimeout = TRUE])

\* One turn of the timer task: keys up to the second that has passed go off.
TimerTurn(w) ==
  LET t == w.tm
      due == {k \in t.present : k <= t.current}
      left == t.present \ due
      t1 == [t EXCEPT !.current = @ + 1, !.clock = @ + 1, !.present = left,
                      !.running = left # {},
                      !.listed = {x \in @ : x[1] \notin due}]
      w1 == [w EXCEPT !.tm = t1]
  IN IF \E k \in due : Listed(t, k, "io") THEN NotifyTimeout(w1) ELSE w1

-----------------------------------------------------------------------------
(* The stream, as the dispatcher uses it.                                  *)

\* encode(): dropped once the stream is stopping; the write buffer may reach its limit.
Encode(w) ==
  IF w.io.life # "open" THEN w
  ELSE LET n == w.io.wbuf + 1
           w1 == [w EXCEPT !.io.wbuf = n]
       IN IF ~w.io.bp /\ n >= High THEN WakeDispatch([w1 EXCEPT !.io.bp = TRUE]) ELSE w1

\* decode_item and what follows it: [w, r].  A malformed frame is an error once complete.
PollRecvDecode(w) ==
  LET frame == w.io.rbuf >= FrameLen
      w1 == [w EXCEPT !.io.rbuf = IF frame /\ ~w.io.bad THEN @ - FrameLen ELSE @]
  IN IF frame /\ w.io.bad THEN [w |-> w, r |-> "Decoder"]
     ELSE IF frame THEN [w |-> w1, r |-> "item"]
     ELSE IF IsClosed(w) THEN [w |-> w, r |-> "PeerGone"]
     ELSE IF w.io.dspTimeout THEN [w |-> [w EXCEPT !.io.dspTimeout = FALSE], r |-> "KeepAlive"]
     ELSE IF w.io.bp THEN [w |-> w, r |-> "WriteBackpressure"]
     ELSE [w |-> Registered([w EXCEPT !.io.paused = FALSE]), r |-> "none"]

\* poll_status_update: [w, r].
PollStatusUpdate(w0) ==
  LET w == Registered(w0)
  IN IF IsClosed(w) THEN [w |-> w, r |-> "PeerGone"]
     ELSE IF w.io.dspTimeout THEN [w |-> [w EXCEPT !.io.dspTimeout = FALSE], r |-> "KeepAlive"]
     ELSE IF w.io.bp THEN [w |-> [w EXCEPT !.io.bp = w.io.wbuf > Half], r |-> "WriteBackpressure"]
     ELSE [w |-> w, r |-> "pending"]

PollReadPause(w) == PollStatusUpdate([w EXCEPT !.io.paused = TRUE])

\* poll_flush: [w, r].
PollFlush(w, full) ==
  LET n == w.io.wbuf
      ok == [w EXCEPT !.io.bp = FALSE, !.io.flush = FALSE]
  IN IF n > 0 /\ IsClosed(w) THEN [w |-> w, r |-> "err"]
     ELSE IF n > 0 /\ full THEN [w |-> Registered([w EXCEPT !.io.flush = TRUE]), r |-> "pending"]
     ELSE IF n >= High THEN [w |-> Registered([w EXCEPT !.io.bp = TRUE]), r |-> "pending"]
     ELSE IF IsClosed(w) /\ ~w.io.flush THEN [w |-> w, r |-> "err"]
     ELSE [w |-> ok, r |-> "ok"]

\* poll_shutdown that returns Pending without registering the waker.
PollShutdownUnregistered(w) ==
  IF IsClosed(w) THEN [w |-> w, r |-> "ready"]
  ELSE [w |-> [w EXCEPT !.io.life = "filters", !.io.paused = FALSE], r |-> "pending"]

\* poll_shutdown of the stream: starts the shutdown of its filters.
PollShutdown(w) ==
  IF IsClosed(w) THEN [w |-> w, r |-> "ready"]
  ELSE [w |-> Registered([w EXCEPT !.io.life = "filters", !.io.paused = FALSE]), r |-> "pending"]

-----------------------------------------------------------------------------
(* Calls of the service and their answers.                                 *)

Timers == {"KA_TIMEOUT", "READ_TIMEOUT"}
Has(w, f) == f \in w.d.flags

\* handle_result that returns early with the error of the service.
HandleResultLeaks(w, a, wake) ==
  LET w1 == CASE a = "some" -> Encode(w)
              [] a = "unencodable" /\ w.io.life = "open" -> [w EXCEPT !.d.failed = "Encoder"]
              [] a = "err" -> [w EXCEPT !.d.failed = "Service"]
              [] OTHER -> w
      n == IF a = "err" THEN w1.d.inflight ELSE w1.d.inflight - 1
      w2 == [w1 EXCEPT !.d.inflight = n,
                       !.d.flags = IF n = 0 THEN @ \cup {"IDLE"} ELSE @]
  IN IF wake THEN WakeDispatch(w2) ELSE w2

\* An answer: "none" is Ok(None), "some" is Ok(Some(_)), "unencodable" one the codec refuses,
\* "err" the service's error.
HandleResult(w, a, wake) ==
  LET w1 == CASE a = "some" -> Encode(w)
              [] a = "unencodable" /\ w.io.life = "open" -> [w EXCEPT !.d.failed = "Encoder"]
              [] a = "err" -> [w EXCEPT !.d.failed = "Service"]
              [] OTHER -> w
      n == w1.d.inflight - 1
      w2 == [w1 EXCEPT !.d.inflight = n,
                       !.d.flags = IF n = 0 THEN @ \cup {"IDLE"} ELSE @]
  IN IF wake THEN WakeDispatch(w2) ELSE w2

\* What the service may answer: an answer other than Ok(None) is counted.
Answers(w) == {"none"} \cup (IF w.svc.talk > 0 THEN cfg.answers ELSE {})
Counted(w, a) == IF a = "none" THEN w ELSE [w EXCEPT !.svc.talk = @ - 1]

\* The history of what the service was given.
Given(l, item) ==
  CASE item[1] = "Stop" -> [l EXCEPT !.stops = IF @ = 0 THEN 1 ELSE 2]
    [] item[1] = "Enabled" -> [l EXCEPT !.bp = IF @ = "off" THEN "on" ELSE "bad"]
    [] item[1] = "Disabled" -> [l EXCEPT !.bp = IF @ = "on" THEN "off" ELSE "bad"]
    [] OTHER -> l

\* call_service: the outcomes.  The first call is polled at once and kept in `response`,
\* the others are spawned.  call_static waits until the service is ready.
CallService(w, item, nowait) ==
  LET n == w.d.inflight + 1
      w1 == [w EXCEPT !.d.inflight = n, !.log = Given(w.log, item),
                      !.d.flags = IF n = 1 THEN @ \ {"IDLE"} ELSE @]
      atOnce == CASE nowait \/ w.svc.ready = "yes" -> Answers(w)
                  [] w.svc.ready = "err" -> Answers(w) \cap {"err"}
                  [] OTHER -> {}
  IN IF w.d.response = "empty"
     THEN {HandleResult(Counted(w1, a), a, FALSE) : a \in atOnce}
          \cup {[w1 EXCEPT !.d.response = "pending"]}
     ELSE {[w1 EXCEPT !.d.spawned = @ + 1]}

CheckError(w) ==
  CASE w.d.failed = "none" -> [w |-> w, r |-> "ready"]
    [] w.d.failed = "Encoder" ->
         [w |-> [w EXCEPT !.d.failed = "none", !.d.st = "Stop"], r |-> "item",
          item |-> <<"Stop", "Encoder">>]
    [] w.d.failed = "Service" ->
         [w |-> [w EXCEPT !.d.failed = "none", !.d.st = "Stop", !.d.error = TRUE],
          r |-> "continue"]

\* poll_service: [w, r, item].
PollService(w) ==
  CASE w.svc.ready = "yes" -> CheckError(w)
    [] w.svc.ready = "err" ->
         [w |-> [w EXCEPT !.d.st = "Stop", !.d.error = TRUE, !.d.flags = @ \cup {"READY_ERR"}],
          r |-> "continue"]
    [] w.svc.ready = "no" ->
         LET w1 == StopTimer([w EXCEPT !.d.flags = @ \ (Timers \cup {"IDLE"}), !.svc.waker = TRUE])
             p == PollReadPause(w1)
         IN CASE p.r = "pending" -> [w |-> p.w, r |-> "pending"]
              [] p.r = "KeepAlive" /\ ~Has(w, "KA_ENABLED") -> [w |-> p.w, r |-> "continue"]
              [] p.r = "KeepAlive" /\ Has(w, "KA_ENABLED") ->
                   [w |-> [p.w EXCEPT !.d.st = "Stop"], r |-> "wait",
                    item |-> <<"Stop", "KeepAlive">>]
              [] p.r = "PeerGone" ->
                   [w |-> [p.w EXCEPT !.d.st = "Stop"], r |-> "wait", item |-> <<"Stop", "Io">>]
              [] p.r = "WriteBackpressure" ->
                   [w |-> [p.w EXCEPT !.d.st = "Backpressure"], r |-> "wait",
                    item |-> <<"Enabled">>]

-----------------------------------------------------------------------------
(* Keep-alive and the read rate of a frame.                                *)

UpdateTimer(w, item) ==
  LET remains == w.io.rbuf
  IN IF item THEN [w EXCEPT !.d.remains = 0, !.d.flags = @ \ (Timers \cup {"IDLE"})]
     ELSE IF Has(w, "READ_TIMEOUT") THEN [w EXCEPT !.d.remains = remains]
     ELSE IF w.d.remains = 0 /\ remains = 0
     THEN IF Has(w, "KA_ENABLED") /\ ~Has(w, "KA_TIMEOUT")
          THEN StartTimer([w EXCEPT !.d.flags = @ \cup {"KA_TIMEOUT"}], cfg.ka)
          ELSE w
     ELSE IF cfg.rate # <<>>
     THEN StartTimer([w EXCEPT !.d.flags = @ \cup {"READ_TIMEOUT"}, !.d.remains = remains,
                               !.d.prev = 0, !.d.maxto = cfg.rate[2]], cfg.rate[1])
     ELSE w

\* handle_timeout: [w, r], r is "ok" or the reason to stop.  The difference is a u32.
HandleTimeout(w) ==
  IF Has(w, "READ_TIMEOUT")
  THEN LET total == (w.d.remains + U32 - w.d.prev) % U32
           left == IF w.d.maxto > cfg.rate[1] THEN w.d.maxto - cfg.rate[1] ELSE 0
           w1 == [w EXCEPT !.d.prev = w.d.remains, !.d.remains = 0,
                           !.d.maxto = IF cfg.rate[2] # 0 THEN left ELSE @]
       IN IF total <= cfg.rate[3] THEN [w |-> w, r |-> "ReadTimeout"]
          ELSE IF cfg.rate[2] = 0 \/ left # 0
          THEN [w |-> StartTimer(w1, cfg.rate[1]), r |-> "ok"]
          ELSE [w |-> w1, r |-> "ReadTimeout"]
  ELSE IF Has(w, "KA_TIMEOUT") \/ Has(w, "IDLE") THEN [w |-> w, r |-> "KeepAlive"]
  ELSE [w |-> w, r |-> "ok"]

-----------------------------------------------------------------------------
(* Dispatcher::poll.                                                       *)

\* The response of the first call is taken before the loop.
PollBegin ==
  /\ d.pc = "wait"
  /\ d.woken
  /\ LET w == [World EXCEPT !.d.woken = FALSE, !.d.pc = "loop"]
     IN Becomes(IF d.response \in {"empty", "pending"} THEN w
                ELSE HandleResult([w EXCEPT !.d.response = "empty"], d.response, FALSE))
  /\ UNCHANGED <<cfg, env>>

Pending(w) == Becomes([w EXCEPT !.d.pc = "wait"])
Calls(w, item, nowait) == \E v \in CallService(w, item, nowait) : Becomes(v)
Stops(w, reason) == Calls([w EXCEPT !.d.st = "Stop"], <<"Stop", reason>>, TRUE)

\* PollService::Ready in the Processing state: decode what was received.
Receive(w) ==
  LET q == PollRecvDecode(w)
      h == HandleTimeout(q.w)
  IN CASE q.r = "none" -> Pending(UpdateTimer(q.w, FALSE))
       [] q.r = "item" -> Calls(UpdateTimer(q.w, TRUE), <<"Item">>, TRUE)
       [] q.r = "KeepAlive" -> IF h.r = "ok" THEN Becomes(h.w) ELSE Stops(h.w, h.r)
       [] q.r = "WriteBackpressure" ->
            Calls([q.w EXCEPT !.d.st = "Backpressure"], <<"Enabled">>, TRUE)
       [] q.r = "Decoder" -> Stops(q.w, "Decoder")
       [] q.r = "PeerGone" -> Stops(q.w, "Io")

Processing ==
  /\ d.pc = "loop"
  /\ d.st = "Processing"
  /\ LET p == PollService(World)
     IN CASE p.r = "pending" -> Pending(p.w)
          [] p.r = "ready" -> Receive(p.w)
          [] p.r = "item" -> Calls(p.w, p.item, TRUE)
          [] p.r = "wait" -> Calls(p.w, p.item, FALSE)
          [] p.r = "continue" -> Becomes(p.w)
  /\ UNCHANGED <<cfg, env>>

\* The flush that ends the Backpressure arm.
FlushArm(w) ==
  LET f == PollFlush(w, FALSE)
  IN CASE f.r = "pending" -> Pending(f.w)
       [] f.r = "err" -> Calls([f.w EXCEPT !.d.st = "Stop"], <<"Stop", "Io">>, FALSE)
       [] f.r = "ok" -> Calls([f.w EXCEPT !.d.st = "Processing"], <<"Disabled">>, FALSE)

\* The Backpressure arm that tells the service again while it is not ready.
BackpressureTells ==
  /\ d.pc = "loop"
  /\ d.st = "Backpressure"
  /\ LET p == PollService(World)
     IN CASE p.r = "pending" -> Pending(p.w)
          [] p.r = "continue" -> Becomes(p.w)
          [] p.r = "ready" -> FlushArm(p.w)
          [] p.r = "item" -> \E v \in CallService(p.w, p.item, TRUE) : FlushArm(v)
          [] p.r = "wait" -> \E v \in CallService(p.w, p.item, FALSE) : FlushArm(v)
  /\ UNCHANGED <<cfg, env>>

Backpressure ==
  /\ d.pc = "loop"
  /\ d.st = "Backpressure"
  /\ LET p == PollService(World)
     IN CASE p.r = "pending" -> Pending(p.w)
          [] p.r = "continue" -> Becomes(p.w)
          [] p.r = "ready" -> FlushArm(p.w)
          [] p.r = "wait" /\ p.item = <<"Enabled">> -> FlushArm(p.w)
          [] p.r = "item" -> \E v \in CallService(p.w, p.item, TRUE) : FlushArm(v)
          [] p.r = "wait" /\ p.item # <<"Enabled">> ->
               \E v \in CallService(p.w, p.item, FALSE) : FlushArm(v)
  /\ UNCHANGED <<cfg, env>>

\* service.poll_ready of the Stop arm, which a service may rely on.
StopReady(w) ==
  CASE Has(w, "READY_ERR") -> w
    [] w.svc.ready = "no" -> [w EXCEPT !.svc.waker = TRUE]
    [] w.svc.ready = "err" -> [w EXCEPT !.d.flags = @ \cup {"READY_ERR"}]
    [] OTHER -> w

Stop ==
  /\ d.pc = "loop"
  /\ d.st = "Stop"
  /\ LET w == StopReady(StopTimer(World))
         down == PollShutdown(w)
         p == PollStatusUpdate(w)
         f == PollFlush(p.w, TRUE)
         IoErr(v) == [v EXCEPT !.d.flags = @ \cup {"IO_ERR"}]
     IN CASE w.d.inflight = 0 /\ down.r = "ready" -> Becomes([w EXCEPT !.d.st = "Shutdown"])
          [] w.d.inflight = 0 /\ down.r = "pending" -> Pending(down.w)
          [] w.d.inflight > 0 /\ Has(w, "IO_ERR") -> Pending(Registered(w))
          [] w.d.inflight > 0 /\ ~Has(w, "IO_ERR") ->
               CASE p.r = "pending" -> Pending(p.w)
                 [] p.r \in {"PeerGone", "KeepAlive"} -> Becomes(IoErr(p.w))
                 [] p.r = "WriteBackpressure" ->
                      CASE f.r = "pending" -> Pending(f.w)
                        [] f.r = "err" -> Becomes(IoErr(f.w))
                        [] f.r = "ok" -> Becomes(f.w)
  /\ UNCHANGED <<cfg, env>>

Shutdown ==
  /\ d.pc = "loop"
  /\ d.st = "Shutdown"
  /\ IF svc.down = "down" THEN Becomes([World EXCEPT !.d.pc = "done"])
     ELSE Pending([World EXCEPT !.svc.down = "asked"])
  /\ UNCHANGED <<cfg, env>>

-----------------------------------------------------------------------------
(* What happens between two polls.                                         *)

Between == d.pc = "wait"

\* The read task has bytes for the dispatcher (update_read_status).
Recv ==
  /\ Between
  /\ io.life = "open"
  /\ ~io.paused
  /\ \E n \in 1 .. FrameLen, bad \in {FALSE} \cup (env.faults \cap {TRUE}) :
       /\ n <= env.bytes
       /\ io.rbuf + n <= FrameLen + 1
       /\ Becomes(WakeDispatch([World EXCEPT !.io.rbuf = @ + n, !.io.bad = @ \/ bad]))
       /\ env' = [env EXCEPT !.bytes = @ - n, !.faults = IF bad THEN @ \ {TRUE} ELSE @]
  /\ UNCHANGED cfg

\* The peer disconnects (terminate_connection).
PeerGone ==
  /\ Between
  /\ env.gone
  /\ ~IsClosed(World)
  /\ Becomes(WakeDispatch([World EXCEPT !.io.life = "closed"]))
  /\ UNCHANGED <<cfg, env>>

\* The filters finish a shutdown the dispatcher asked for.
FiltersStopped ==
  /\ Between
  /\ io.life = "filters"
  /\ Becomes(WakeDispatch([World EXCEPT !.io.life = "closed"]))
  /\ UNCHANGED <<cfg, env>>

\* The write task has written some of the answers (update_write_status).
Written ==
  /\ Between
  /\ ~IsClosed(World)
  /\ \E n \in 0 .. io.wbuf - 1 :
       LET w == [World EXCEPT !.io.wbuf = n]
       IN Becomes(IF IF io.flush THEN n = 0 ELSE io.bp /\ n <= Half THEN WakeDispatch(w) ELSE w)
  /\ UNCHANGED <<cfg, env>>

Tick ==
  /\ Between
  /\ tm.running
  /\ tm.clock < MaxClock
  /\ Becomes(TimerTurn(World))
  /\ UNCHANGED <<cfg, env>>

\* Time passes while no timer task runs.
Elapse ==
  /\ Between
  /\ ~tm.running
  /\ tm.clock < cfg.idle
  /\ tm' = [tm EXCEPT !.clock = @ + 1]
  /\ UNCHANGED <<cfg, d, io, svc, env, log>>

\* Another stream of the thread starts a timer.
OtherTimer ==
  /\ Between
  /\ env.others > 0
  /\ tm' = TimerRegister(tm, 1, "other")
  /\ env' = [env EXCEPT !.others = @ - 1]
  /\ UNCHANGED <<cfg, d, io, svc, log>>

SvcUnready ==
  /\ Between
  /\ env.unready > 0
  /\ svc.ready = "yes"
  /\ svc' = [svc EXCEPT !.ready = "no"]
  /\ env' = [env EXCEPT !.unready = @ - 1]
  /\ UNCHANGED <<cfg, d, io, tm, log>>

\* The service becomes ready, or fails its readiness check: who waits for it is woken.
SvcReady ==
  /\ Between
  /\ svc.ready = "no"
  /\ \E r \in {"yes"} \cup (IF env.sick THEN {"err"} ELSE {}) :
       svc' = [svc EXCEPT !.ready = r, !.waker = FALSE]
  /\ d' = [d EXCEPT !.woken = @ \/ svc.waker]
  /\ UNCHANGED <<cfg, io, tm, env, log>>

\* The call kept in `response` is answered: its future wakes the dispatcher.
Answered ==
  /\ Between
  /\ d.response = "pending"
  /\ \E a \in Answers(World) :
       Becomes(Counted([World EXCEPT !.d.response = a, !.d.woken = TRUE], a))
  /\ UNCHANGED <<cfg, env>>

\* A spawned call is answered: the task runs handle_result itself.
SpawnedAnswered ==
  /\ Between
  /\ d.spawned > 0
  /\ \E a \in Answers(World) :
       Becomes(HandleResult(Counted([World EXCEPT !.d.spawned = @ - 1], a), a, TRUE))
  /\ UNCHANGED <<cfg, env>>

SvcDown ==
  /\ Between
  /\ svc.down = "asked"
  /\ svc' = [svc EXCEPT !.down = "down"]
  /\ d' = [d EXCEPT !.woken = TRUE]
  /\ UNCHANGED <<cfg, io, tm, env, log>>

-----------------------------------------------------------------------------
Init ==
  /\ cfg \in Profiles
  /\ d = [st |-> "Processing", pc |-> "wait", woken |-> TRUE, error |-> FALSE, failed |-> "none",
          response |-> "empty", spawned |-> 0, inflight |-> 0, remains |-> 0, prev |-> 0,
          maxto |-> 0, flags |-> IF cfg.ka = 0 THEN {} ELSE {"KA_ENABLED"}]
  /\ io = [life |-> "open", rbuf |-> 0, bad |-> FALSE, wbuf |-> 0, bp |-> FALSE, flush |-> FALSE,
           paused |-> FALSE, waker |-> FALSE, dspTimeout |-> FALSE, hnd |-> 0]
  /\ tm = [running |-> FALSE, clock |-> 0, current |-> 0, present |-> {}, listed |-> {}]
  /\ svc = [ready |-> "yes", waker |-> FALSE, down |-> "up", talk |-> cfg.talk]
  /\ env = [bytes |-> cfg.bytes, unready |-> cfg.unready, others |-> cfg.others,
            faults |-> IF "malformed" \in cfg.faults THEN {TRUE} ELSE {},
            gone |-> "gone" \in cfg.faults, sick |-> "sick" \in cfg.faults]
  /\ log = [stops |-> 0, bp |-> "off"]

Poll == PollBegin \/ Processing \/ Backpressure \/ Stop \/ Shutdown
Environment ==
  \/ Recv \/ PeerGone \/ Elapse \/ OtherTimer \/ SvcUnready
  \/ FiltersStopped \/ Written \/ Tick \/ SvcReady \/ Answered \/ SpawnedAnswered \/ SvcDown

Next == Poll \/ Environment
Spec == Init /\ [][Next]_vars

\* The executor runs a woken task, sleeps end, the write task and the filters of a healthy
\* stream make progress, and the service answers, becomes ready and shuts down in the end.
FairSpec ==
  /\ Spec
  /\ WF_vars(Poll)
  /\ WF_vars(Tick)
  /\ WF_vars(FiltersStopped)
  /\ WF_vars(Written)
  /\ WF_vars(SvcReady)
  /\ WF_vars(Answered)
  /\ WF_vars(SpawnedAnswered)
  /\ WF_vars(SvcDown)

-----------------------------------------------------------------------------
(* Properties.                                                             *)

\* handle_result runs once per call_service, whether the call was polled inline, kept in
\* `response` or spawned: `inflight` is the number of calls not answered, and the service is
\* not shut down before all of them are (mod.rs, DispatcherState::Stop).
InflightCounted ==
  /\ d.inflight = d.spawned + (IF d.response = "empty" THEN 0 ELSE 1)
  /\ (d.st = "Shutdown" \/ d.pc = "done") => d.inflight = 0

\* A read rate with a timeout of zero seconds: start_timer takes the stream's timer back, and
\* READ_TIMEOUT is set with none behind it.
Untimed(x) == "READ_TIMEOUT" \in x.flags /\ cfg.rate[1] = 0

\* While a dispatcher works with KA_TIMEOUT or READ_TIMEOUT set, the timer behind the flag is
\* listed with a running timer task, or it has fired and the notice is kept for the dispatcher;
\* one that waits for input has been woken for that notice.  And only the timer of the stream's
\* handle is listed: one that was stopped or moved never fires.  A read rate of zero seconds is
\* the exception (update_timer, handle_timeout, TimerHandle::update, TimerStorage::run_timer).
TimerBehindFlag ==
  /\ (d.st \in {"Processing", "Backpressure"} /\ d.flags \cap Timers # {} /\ ~Untimed(d)) =>
       \/ tm.running /\ io.hnd # 0 /\ Listed(tm, io.hnd, "io") /\ io.hnd \in tm.present
       \/ io.dspTimeout
  /\ (d.pc = "wait" /\ d.st = "Processing" /\ io.dspTimeout) => d.woken
  /\ \A x \in tm.listed : x[2] = "io" => io.hnd # 0 /\ x[1] = io.hnd

\* The service hears WBackPressureEnabled and WBackPressureDisabled in turns, also when it is
\* not ready while the write buffer is full (the Backpressure arm of poll and poll_service).
ControlsAlternate == log.bp # "bad"

\* A dispatcher whose peer is gone, or that has keep-alive enabled and is not in the middle of a
\* frame nobody times, completes: every way of waiting leaves a waker behind that is called.
DispatcherCompletes ==
  []<>(\/ d.pc = "done"
       \/ io.life = "open" /\ cfg.ka = 0
       \/ io.life = "open" /\ io.rbuf > 0 /\ (cfg.rate = <<>> \/ cfg.rate[1] = 0))

====

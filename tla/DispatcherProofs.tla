-------------------------- MODULE DispatcherProofs --------------------------
(***************************************************************************)
(* Proofs about the framed dispatcher: the arms of poll and what happens   *)
(* between two polls keep the invariant of DispatcherStepProofs, which     *)
(* implies the safety properties of Dispatcher.                            *)
(*                                                                         *)
(* An arm is a chain of operators, so its proof is the chain of their      *)
(* lemmas, with a case for each early return.  It ends in PendingGood when *)
(* the arm waits, which is where the wakers matter, and in LoopGood when   *)
(* the loop turns once more.                                               *)
(***************************************************************************)
EXTENDS DispatcherStepProofs

-----------------------------------------------------------------------------
(* The arms of poll.                                                       *)

\* Poll::Pending: a dispatcher that waits for input has registered and has no notice left.
LEMMA PendingGood ==
  ASSUME NEW w \in Worlds, Turns(w), Told(w), w.d.st = "Shutdown" => w.d.inflight = 0,
         w.d.st = "Processing" => w.io.waker /\ ~w.io.dspTimeout,
         Pending(w)
  PROVE  Good(World')
<1> DEFINE x == [w.d EXCEPT !.pc = "wait"]
           v == [w EXCEPT !.d.pc = "wait"]
<1>1. w.d \in DType
  BY DEF Worlds
<1>2. x \in DType /\ x.flags = w.d.flags /\ x.inflight = w.d.inflight /\ x.spawned = w.d.spawned
      /\ x.response = w.d.response /\ x.st = w.d.st /\ x.pc = "wait"
  BY <1>1 DEF DType
<1>3. v = [w EXCEPT !.d = x]
  BY DEF Worlds
<1>4. Becomes(v)
  BY DEF Pending
<1> HIDE DEF x, v
<1>5. v \in Worlds /\ v.d = x /\ v.io = w.io /\ v.tm = w.tm /\ v.log = w.log
  BY <1>2, <1>3 DEF Worlds
<1>6. World' = v
  BY <1>4, <1>5 DEF Becomes, World, Worlds
<1>7. SameCalls(w, v) /\ SameFlags(w, v)
  BY <1>2, <1>5 DEF SameCalls, SameFlags
<1>8. Turns(v)
  BY <1>2, <1>5, <1>7, DspSound DEF Turns, Working
<1>9. Told(v) /\ Waits(v) /\ Ends(v)
  BY <1>2, <1>5 DEF Told, Waits, Ends
<1>10. QED
  BY <1>5, <1>6, <1>8, <1>9 DEF Good

\* A turn that goes on with the loop.
LEMMA LoopGood ==
  ASSUME NEW w \in Worlds, Turns(w), Told(w), w.d.st = "Shutdown" => w.d.inflight = 0,
         w.d.pc = "loop", Becomes(w)
  PROVE  Good(World')
<1>1. World' = w
  BY DEF Becomes, World, Worlds
<1>2. Waits(w) /\ Ends(w)
  BY DEF Waits, Ends
<1>3. QED
  BY <1>1, <1>2 DEF Good

\* An item may be given in the state the dispatcher has gone to.
Fits(w, item) ==
  \/ item = <<"Enabled">> /\ w.d.st = "Backpressure" /\ w.log.bp = "off"
  \/ item = <<"Disabled">> /\ w.d.st = "Processing" /\ w.log.bp = "on"
  \/ item \notin {<<"Enabled">>, <<"Disabled">>} /\ Told(w)

\* call_service keeps what holds in every turn, and what the service was told fits.
LEMMA CallServiceTold ==
  ASSUME NEW w \in Worlds, cfg \in Profiles, Turns(w), NEW item \in Items, Fits(w, item),
         NEW nowait \in BOOLEAN, NEW v \in CallService(w, item, nowait)
  PROVE  /\ v \in Worlds /\ Turns(v) /\ Told(v) /\ v.d.pc = w.d.pc /\ v.d.st = w.d.st
         /\ Sound(w) => Sound(v)
         /\ v.log = Given(w.log, item)
<1>1. /\ v \in Worlds /\ Count(v)
      /\ SameFlags(w, v) /\ SameTimers(w, v) /\ Woken(w, v)
      /\ v.d.st = w.d.st /\ v.d.pc = w.d.pc /\ v.log = Given(w.log, item)
  BY CallServiceKeeps DEF Turns
<1>2. Live(w) <=> Live(v)
  BY <1>1 DEF SameTimers, Live, Listed
<1>3. Handle(v)
  BY <1>1, <1>2 DEF Turns, SameTimers, Handle
<1>4. Backed(w) => Backed(v)
  BY <1>1, <1>2 DEF SameFlags, SameTimers, TimerFlags, Timers, Backed, Untimed
<1>5. Configured(v)
  BY <1>1 DEF Turns, SameFlags, TimerFlags, Configured
<1>6. Turns(v) /\ (Sound(w) => Sound(v))
  BY <1>1, <1>3, <1>4, <1>5 DEF Turns, Working, Sound
<1>7. Told(v)
  <2>1. w.log \in LogType
    BY DEF Worlds
  <2>2. CASE item = <<"Enabled">> /\ w.d.st = "Backpressure" /\ w.log.bp = "off"
    BY <1>1, <2>1, <2>2, GivenIs DEF Told
  <2>3. CASE item = <<"Disabled">> /\ w.d.st = "Processing" /\ w.log.bp = "on"
    BY <1>1, <2>1, <2>3, GivenIs DEF Told
  <2>4. CASE item \notin {<<"Enabled">>, <<"Disabled">>} /\ Told(w)
    <3>1. v.log.bp = w.log.bp
      BY <1>1, <2>1, <2>4, GivenIs
    <3>2. QED
      BY <1>1, <2>4, <3>1 DEF Told
  <2>5. QED
    BY <2>2, <2>3, <2>4 DEF Fits
<1>8. QED
  BY <1>1, <1>6, <1>7

\* call_service: a call that is made is counted, whether its answer is awaited in place or spawned.
LEMMA CallsGood ==
  ASSUME NEW w \in Worlds, cfg \in Profiles, Turns(w), NEW item \in Items, Fits(w, item),
         NEW nowait \in BOOLEAN, w.d.pc = "loop", w.d.st # "Shutdown", Calls(w, item, nowait)
  PROVE  Good(World')
<1>1. PICK v \in CallService(w, item, nowait) : Becomes(v)
  BY DEF Calls
<1>2. v \in Worlds /\ Turns(v) /\ Told(v) /\ v.d.pc = w.d.pc /\ v.d.st = w.d.st
  BY CallServiceTold
<1>3. QED
  BY <1>1, <1>2, LoopGood

\* What the service is called with.
LEMMA ItemsAre ==
  /\ \A r \in {"Encoder", "KeepAlive", "Io", "Decoder", "ReadTimeout"} :
       <<"Stop", r>> \in Items /\ <<"Stop", r>> \notin {<<"Enabled">>, <<"Disabled">>}
  /\ <<"Enabled">> \in Items /\ <<"Disabled">> \in Items
  /\ <<"Item">> \in Items /\ <<"Item">> \notin {<<"Enabled">>, <<"Disabled">>}
  BY DEF Items

\* Stopping is possible in every turn: no timer is needed any more.
LEMMA StopsGood ==
  ASSUME NEW w \in Worlds, cfg \in Profiles, Count(w), Handle(w), Configured(w),
         w.log.bp # "bad", w.d.pc = "loop", NEW nowait \in BOOLEAN,
         NEW r \in {"Encoder", "KeepAlive", "Io", "Decoder", "ReadTimeout"},
         Calls([w EXCEPT !.d.st = "Stop"], <<"Stop", r>>, nowait)
  PROVE  Good(World')
<1> DEFINE v == [w EXCEPT !.d.st = "Stop"]
           item == <<"Stop", r>>
<1>1. /\ v \in Worlds
      /\ v.d.st = "Stop" /\ v.d.pc = w.d.pc
      /\ v.io = w.io /\ v.tm = w.tm /\ v.log = w.log
      /\ SameFlags(w, v) /\ SameCalls(w, v)
  BY StateSet, Zenon
<1> HIDE DEF v
<1>2. Turns(v) /\ Told(v)
  BY <1>1, DspSound DEF Turns, Working, Told
<1>3. item \in Items /\ Fits(v, item)
  BY <1>2, ItemsAre DEF Fits
<1>4. Calls(v, item, nowait)
  BY DEF v
<1> HIDE DEF item
<1>5. QED
  BY <1>1, <1>2, <1>3, <1>4, CallsGood, SMTT(30)

\* The receiving half of the Processing arm: poll_recv_decode and each of its answers.
LEMMA ReceiveGood ==
  ASSUME NEW w \in Worlds, cfg \in Profiles, Sound(w), Told(w), w.d.st = "Processing",
         w.d.pc = "loop", Receive(w)
  PROVE  Good(World')
<1> DEFINE q == PollRecvDecode(w)
           h == HandleTimeout(q.w)
<1>1. (CASE q.r = "none" -> Pending(UpdateTimer(q.w, FALSE))
        [] q.r = "item" -> Calls(UpdateTimer(q.w, TRUE), <<"Item">>, TRUE)
        [] q.r = "KeepAlive" -> IF h.r = "ok" THEN Becomes(h.w) ELSE Stops(h.w, h.r)
        [] q.r = "WriteBackpressure" ->
             Calls([q.w EXCEPT !.d.st = "Backpressure"], <<"Enabled">>, TRUE)
        [] q.r = "Decoder" -> Stops(q.w, "Decoder")
        [] q.r = "PeerGone" -> Stops(q.w, "Io"))
  BY Zenon DEF Receive
<1> HIDE DEF q, h
<1>2. /\ q.w \in Worlds /\ Seen(w, q.w)
      /\ q.r \in {"Decoder", "item", "PeerGone", "KeepAlive", "WriteBackpressure", "none"}
      /\ q.r # "KeepAlive" => Same(w, q.w)
      /\ q.r = "none" => q.w.io.waker /\ ~q.w.io.dspTimeout
  BY PollRecvDecodeKeeps DEF q
<1>3. q.w.d.st = "Processing" /\ q.w.d.pc = "loop" /\ q.w.log = w.log /\ Told(q.w)
      /\ q.w.log.bp = "off"
  BY <1>2 DEF Seen, SamePlace, Told
<1>4. Count(q.w) /\ Handle(q.w) /\ Configured(q.w)
  <2>1. Live(w) <=> Live(q.w)
    BY <1>2 DEF Seen, Live, Listed
  <2>2. Handle(q.w)
    BY <1>2, <2>1 DEF Sound, Seen, Handle
  <2>3. Count(q.w)
    BY <1>2 DEF Sound, Seen, SameCalls, Count, Calling
  <2>4. Configured(q.w)
    BY <1>2 DEF Sound, Seen, SameFlags, TimerFlags, Configured
  <2>5. QED
    BY <2>2, <2>3, <2>4
<1>5. q.r # "KeepAlive" => Sound(q.w)
  <2> HAVE q.r # "KeepAlive"
  <2>1. Turns(w)
    BY DEF Turns, Sound
  <2>2. Turns(q.w)
    BY <1>2, <2>1, SameKeeps
  <2>3. QED
    BY <1>3, <2>2 DEF Turns, Sound, Working
<1>6. CASE q.r = "none"
  <2> DEFINE v == UpdateTimer(q.w, FALSE)
  <2>1. Pending(v)
    BY <1>1, <1>6, Zenon
  <2>2. /\ v \in Worlds /\ Sound(v) /\ SameCalls(q.w, v) /\ SamePlace(q.w, v)
        /\ v.io.waker = q.w.io.waker /\ v.io.dspTimeout = q.w.io.dspTimeout
    BY <1>2, <1>5, <1>6, UpdateTimerKeeps, Zenon
  <2> HIDE DEF v
  <2>3. Turns(v) /\ Told(v) /\ v.d.st = "Processing" /\ v.io.waker /\ ~v.io.dspTimeout
    BY <1>2, <1>3, <1>6, <2>2 DEF Turns, Sound, Told, SamePlace
  <2>4. QED
    BY <2>1, <2>2, <2>3, PendingGood
<1>7. CASE q.r = "item"
  <2> DEFINE v == UpdateTimer(q.w, TRUE)
             item == <<"Item">>
  <2>1. Calls(v, item, TRUE)
    BY <1>1, <1>7, Zenon
  <2>2. v \in Worlds /\ Sound(v) /\ SamePlace(q.w, v)
    BY <1>2, <1>5, <1>7, UpdateTimerKeeps, Zenon
  <2> HIDE DEF v
  <2>3. Turns(v) /\ Told(v) /\ v.d.st = "Processing" /\ v.d.pc = "loop"
    BY <1>3, <2>2 DEF Turns, Sound, Told, SamePlace
  <2>4. item \in Items /\ Fits(v, item)
    BY <2>3, ItemsAre DEF Fits
  <2> HIDE DEF item
  <2>5. QED
    BY <2>1, <2>2, <2>3, <2>4, CallsGood, Zenon
<1>8. CASE q.r = "KeepAlive"
  <2>1. IF h.r = "ok" THEN Becomes(h.w) ELSE Stops(h.w, h.r)
    BY <1>1, <1>8
  <2>2. /\ h.w \in Worlds /\ Count(h.w) /\ Handle(h.w) /\ Configured(h.w) /\ SamePlace(q.w, h.w)
        /\ h.r \in {"ok", "ReadTimeout", "KeepAlive"}
        /\ h.r = "ok" => Sound(h.w)
    BY <1>2, <1>4, HandleTimeoutKeeps DEF h
  <2>3. h.w.d.st = "Processing" /\ h.w.d.pc = "loop" /\ Told(h.w) /\ h.w.log.bp # "bad"
    BY <1>3, <2>2 DEF SamePlace, Told
  <2>4. CASE h.r = "ok"
    BY <2>1, <2>2, <2>3, <2>4, LoopGood DEF Turns, Sound
  <2>5. CASE h.r # "ok"
    <3>1. h.r \in {"Encoder", "KeepAlive", "Io", "Decoder", "ReadTimeout"}
      BY <2>2, <2>5
    <3>2. Calls([h.w EXCEPT !.d.st = "Stop"], <<"Stop", h.r>>, TRUE)
      BY <2>1, <2>5, Zenon DEF Stops
    <3>3. QED
      BY <2>2, <2>3, <3>1, <3>2, StopsGood, Zenon
  <2>6. QED
    BY <2>4, <2>5
<1>9. CASE q.r = "WriteBackpressure"
  <2> DEFINE v == [q.w EXCEPT !.d.st = "Backpressure"]
             item == <<"Enabled">>
  <2>1. Calls(v, item, TRUE)
    BY <1>1, <1>9, Zenon
  <2>2. v \in Worlds /\ v.d.st = "Backpressure" /\ v.d.pc = q.w.d.pc /\ v.log = q.w.log
        /\ (Sound(q.w) => Sound(v))
    BY <1>2, StateSet, Zenon
  <2> HIDE DEF v
  <2>3. Turns(v) /\ v.d.pc = "loop" /\ v.log.bp = "off"
    BY <1>3, <1>5, <1>9, <2>2 DEF Turns, Sound
  <2>4. item \in Items /\ Fits(v, item)
    BY <2>2, <2>3, ItemsAre DEF Fits
  <2> HIDE DEF item
  <2>5. QED
    BY <2>1, <2>2, <2>3, <2>4, CallsGood, Zenon
<1>10. CASE q.r = "Decoder"
  <2>1. Calls([q.w EXCEPT !.d.st = "Stop"], <<"Stop", "Decoder">>, TRUE)
    BY <1>1, <1>10, Zenon DEF Stops
  <2>2. QED
    BY <1>2, <1>3, <1>4, <2>1, StopsGood, Zenon
<1>11. CASE q.r = "PeerGone"
  <2>1. Calls([q.w EXCEPT !.d.st = "Stop"], <<"Stop", "Io">>, TRUE)
    BY <1>1, <1>11, Zenon DEF Stops
  <2>2. QED
    BY <1>2, <1>3, <1>4, <2>1, StopsGood, Zenon
<1>12. QED
  BY <1>2, <1>6, <1>7, <1>8, <1>9, <1>10, <1>11

\* The Processing arm: poll_service, then receive, with the way back when the service is not ready.
LEMMA ProcessingGood ==
  ASSUME cfg \in Profiles, Good(World), Processing
  PROVE  Good(World')
<1> DEFINE w == World
           p == PollService(w)
<1>1. w.d.pc = "loop" /\ w.d.st = "Processing"
  BY DEF Processing, World
<1>2. (CASE p.r = "pending" -> Pending(p.w)
         [] p.r = "ready" -> Receive(p.w)
         [] p.r = "item" -> Calls(p.w, p.item, TRUE)
         [] p.r = "wait" -> Calls(p.w, p.item, FALSE)
         [] p.r = "continue" -> Becomes(p.w))
  BY Zenon DEF Processing
<1> HIDE DEF w, p
<1>3. w \in Worlds /\ Sound(w) /\ Told(w) /\ w.log.bp = "off"
  BY <1>1 DEF Good, Turns, Sound, Working, Told, w
<1>4. Polled(w, p)
  BY <1>3, PollServiceKeeps DEF p
<1>5. p.w \in Worlds /\ Sound(p.w) /\ Turns(p.w) /\ p.w.log.bp = "off" /\ p.w.d.pc = "loop"
      /\ p.r \in {"pending", "ready", "item", "wait", "continue"}
  BY <1>1, <1>3, <1>4 DEF Polled, Turns, Sound
<1>6. CASE p.r = "pending"
  <2>1. Pending(p.w)
    BY <1>2, <1>6
  <2>2. p.w.d.st = "Processing" /\ p.w.io.waker /\ ~p.w.io.dspTimeout
    BY <1>1, <1>4, <1>6 DEF Polled
  <2>3. Told(p.w)
    BY <1>5, <2>2 DEF Told
  <2>4. QED
    BY <1>5, <2>1, <2>2, <2>3, PendingGood
<1>7. CASE p.r = "ready"
  <2>1. p.w = w /\ Receive(p.w)
    BY <1>2, <1>4, <1>7 DEF Polled
  <2>2. QED
    BY <1>1, <1>3, <2>1, ReceiveGood
<1>8. CASE p.r = "item"
  <2>1. Calls(p.w, p.item, TRUE) /\ p.w.d.st = "Stop" /\ p.item = <<"Stop", "Encoder">>
    BY <1>2, <1>4, <1>8, Zenon DEF Polled
  <2>2. Told(p.w)
    BY <1>5, <2>1 DEF Told
  <2>3. p.item \in Items /\ Fits(p.w, p.item)
    BY <2>1, <2>2, ItemsAre DEF Fits
  <2>4. QED
    BY <1>5, <2>1, <2>3, CallsGood, Zenon
<1>9. CASE p.r = "wait"
  <2>1. Calls(p.w, p.item, FALSE)
    BY <1>2, <1>9, Zenon
  <2>2. CASE p.item = <<"Enabled">> /\ p.w.d.st = "Backpressure"
    <3>1. p.item \in Items /\ Fits(p.w, p.item)
      BY <1>5, <2>2, ItemsAre DEF Fits
    <3>2. QED
      BY <1>5, <2>1, <2>2, <3>1, CallsGood, Zenon
  <2>3. CASE p.item \in {<<"Stop", "KeepAlive">>, <<"Stop", "Io">>} /\ p.w.d.st = "Stop"
    <3>1. Told(p.w)
      BY <1>5, <2>3 DEF Told
    <3>2. p.item \in Items /\ Fits(p.w, p.item)
      BY <2>3, <3>1, ItemsAre DEF Fits
    <3>3. QED
      BY <1>5, <2>1, <2>3, <3>2, CallsGood, Zenon
  <2>4. QED
    BY <1>4, <1>9, <2>2, <2>3 DEF Polled
<1>10. CASE p.r = "continue"
  <2>1. Becomes(p.w) /\ p.w.d.st \in {"Processing", "Stop"}
    BY <1>1, <1>2, <1>4, <1>10 DEF Polled
  <2>2. Told(p.w)
    BY <1>5, <2>1 DEF Told
  <2>3. QED
    BY <1>5, <2>1, <2>2, LoopGood
<1>11. QED
  BY <1>5, <1>6, <1>7, <1>8, <1>9, <1>10

\* The flush that ends the Backpressure arm: the service is told that the pressure is over
\* exactly when the dispatcher goes back to work.
LEMMA FlushArmGood ==
  ASSUME NEW w \in Worlds, cfg \in Profiles, Sound(w), w.log.bp = "on",
         w.d.st \in {"Backpressure", "Stop"}, w.d.pc = "loop", FlushArm(w)
  PROVE  Good(World')
<1> DEFINE f == PollFlush(w, FALSE)
<1>1. (CASE f.r = "pending" -> Pending(f.w)
         [] f.r = "err" -> Calls([f.w EXCEPT !.d.st = "Stop"], <<"Stop", "Io">>, FALSE)
         [] f.r = "ok" -> Calls([f.w EXCEPT !.d.st = "Processing"], <<"Disabled">>, FALSE))
  BY Zenon DEF FlushArm
<1> HIDE DEF f
<1>2. f.w \in Worlds /\ Same(w, f.w) /\ f.r \in {"err", "pending", "ok"}
  BY PollFlushKeeps, Zenon DEF f
<1>3. Turns(w) /\ Told(w)
  BY DEF Turns, Sound, Told
<1>4. Turns(f.w) /\ Told(f.w)
  BY <1>2, <1>3, SameKeeps
<1>5. f.w.d.st \in {"Backpressure", "Stop"} /\ f.w.d.pc = "loop" /\ f.w.log.bp = "on"
  BY <1>2 DEF Same, SamePlace
<1>6. CASE f.r = "pending"
  <2>1. Pending(f.w)
    BY <1>1, <1>6
  <2>2. QED
    BY <1>2, <1>4, <1>5, <2>1, PendingGood
<1>7. CASE f.r = "err"
  <2>1. Calls([f.w EXCEPT !.d.st = "Stop"], <<"Stop", "Io">>, FALSE)
    BY <1>1, <1>7, Zenon
  <2>2. Count(f.w) /\ Handle(f.w) /\ Configured(f.w)
    BY <1>4 DEF Turns
  <2>3. QED
    BY <1>2, <1>5, <2>1, <2>2, StopsGood, Zenon
<1>8. CASE f.r = "ok"
  <2> DEFINE v == [f.w EXCEPT !.d.st = "Processing"]
             item == <<"Disabled">>
  <2>1. Calls(v, item, FALSE)
    BY <1>1, <1>8, Zenon
  <2>2. v \in Worlds /\ v.d.st = "Processing" /\ v.d.pc = f.w.d.pc /\ v.log = f.w.log
        /\ (Sound(f.w) => Sound(v))
    BY <1>2, StateSet, Zenon
  <2> HIDE DEF v
  <2>3. Sound(f.w)
    <3>1. Live(w) <=> Live(f.w)
      BY <1>2 DEF Same, SameTimers, Live, Listed
    <3>2. Backed(f.w)
      BY <1>2, <3>1 DEF Sound, Same, SameTimers, SameFlags, TimerFlags, Timers, Backed, Untimed
    <3>3. QED
      BY <1>4, <3>2 DEF Turns, Sound
  <2>4. Turns(v) /\ v.d.pc = "loop" /\ v.log.bp = "on"
    BY <1>5, <2>2, <2>3 DEF Turns, Sound
  <2>5. item \in Items /\ Fits(v, item)
    BY <2>2, <2>4, ItemsAre DEF Fits
  <2> HIDE DEF item
  <2>6. QED
    BY <2>1, <2>2, <2>4, <2>5, CallsGood, Zenon
<1>9. QED
  BY <1>2, <1>6, <1>7, <1>8

\* The Backpressure arm: the service is told once on the way in and once on the way out.
LEMMA BackpressureGood ==
  ASSUME cfg \in Profiles, Good(World), Backpressure
  PROVE  Good(World')
<1> DEFINE w == World
           p == PollService(w)
<1>1. w.d.pc = "loop" /\ w.d.st = "Backpressure"
  BY DEF Backpressure, World
<1>2. (CASE p.r = "pending" -> Pending(p.w)
         [] p.r = "continue" -> Becomes(p.w)
         [] p.r = "ready" -> FlushArm(p.w)
         [] p.r = "wait" /\ p.item = <<"Enabled">> -> FlushArm(p.w)
         [] p.r = "item" -> \E v \in CallService(p.w, p.item, TRUE) : FlushArm(v)
         [] p.r = "wait" /\ p.item # <<"Enabled">> ->
              \E v \in CallService(p.w, p.item, FALSE) : FlushArm(v))
  BY Zenon DEF Backpressure
<1> HIDE DEF w, p
<1>3. w \in Worlds /\ Sound(w) /\ Told(w) /\ w.log.bp = "on"
  BY <1>1 DEF Good, Turns, Sound, Working, Told, w
<1>4. Polled(w, p)
  BY <1>3, PollServiceKeeps DEF p
<1>5. p.w \in Worlds /\ Sound(p.w) /\ Turns(p.w) /\ p.w.log.bp = "on" /\ p.w.d.pc = "loop"
      /\ p.r \in {"pending", "ready", "item", "wait", "continue"}
  BY <1>1, <1>3, <1>4 DEF Polled, Turns, Sound
<1>6. CASE p.r = "pending"
  <2>1. Pending(p.w) /\ p.w.d.st = "Backpressure"
    BY <1>1, <1>2, <1>4, <1>6 DEF Polled
  <2>2. Told(p.w)
    BY <1>5, <2>1 DEF Told
  <2>3. QED
    BY <1>5, <2>1, <2>2, PendingGood
<1>7. CASE p.r = "continue"
  <2>1. Becomes(p.w) /\ p.w.d.st \in {"Backpressure", "Stop"}
    BY <1>1, <1>2, <1>4, <1>7 DEF Polled
  <2>2. Told(p.w)
    BY <1>5, <2>1 DEF Told
  <2>3. QED
    BY <1>5, <2>1, <2>2, LoopGood
<1>8. CASE p.r = "ready"
  <2>1. p.w = w /\ FlushArm(p.w)
    BY <1>2, <1>4, <1>8 DEF Polled
  <2>2. QED
    BY <1>1, <1>5, <2>1, FlushArmGood
<1>9. CASE p.r = "wait" /\ p.item = <<"Enabled">>
  <2>1. FlushArm(p.w)
    BY <1>2, <1>9
  <2>2. p.w.d.st \in {"Backpressure", "Stop"}
    BY <1>4, <1>9 DEF Polled
  <2>3. QED
    BY <1>5, <2>1, <2>2, FlushArmGood
<1>10. ASSUME NEW nowait \in BOOLEAN, p.w.d.st = "Stop", p.item \in Items,
              p.item \notin {<<"Enabled">>, <<"Disabled">>},
              NEW v \in CallService(p.w, p.item, nowait), FlushArm(v)
       PROVE  Good(World')
  <2>1. Told(p.w)
    BY <1>5, <1>10 DEF Told
  <2>2. Fits(p.w, p.item)
    BY <1>10, <2>1 DEF Fits
  <2>3. v \in Worlds /\ v.d.pc = p.w.d.pc /\ v.d.st = p.w.d.st
        /\ (Sound(p.w) => Sound(v)) /\ v.log = Given(p.w.log, p.item)
    BY <1>5, <1>10, <2>2, CallServiceTold
  <2>4. p.w.log \in LogType
    BY <1>5 DEF Worlds
  <2>5. v.log.bp = "on"
    BY <1>5, <1>10, <2>3, <2>4, GivenIs
  <2>6. QED
    BY <1>5, <1>10, <2>3, <2>5, FlushArmGood
<1>11. CASE p.r = "item"
  <2>1. p.w.d.st = "Stop" /\ p.item = <<"Stop", "Encoder">>
    BY <1>4, <1>11 DEF Polled
  <2>2. p.item \in Items /\ p.item \notin {<<"Enabled">>, <<"Disabled">>}
    BY <2>1, ItemsAre
  <2>3. \E v \in CallService(p.w, p.item, TRUE) : FlushArm(v)
    BY <1>2, <1>11, Zenon
  <2>4. QED
    BY <1>10, <2>1, <2>2, <2>3, Zenon
<1>12. CASE p.r = "wait" /\ p.item # <<"Enabled">>
  <2>1. p.w.d.st = "Stop" /\ p.item \in {<<"Stop", "KeepAlive">>, <<"Stop", "Io">>}
    BY <1>4, <1>12 DEF Polled
  <2>2. p.item \in Items /\ p.item \notin {<<"Enabled">>, <<"Disabled">>}
    BY <2>1, ItemsAre
  <2>3. \E v \in CallService(p.w, p.item, FALSE) : FlushArm(v)
    BY <1>2, <1>12, Zenon
  <2>4. QED
    BY <1>10, <2>1, <2>2, <2>3, Zenon
<1>13. QED
  BY <1>5, <1>6, <1>7, <1>8, <1>9, <1>11, <1>12

\* A dispatcher that stops needs no timer: what is left of the invariant.
Stopping(w) ==
  /\ w \in Worlds
  /\ Count(w) /\ Handle(w) /\ Configured(w)
  /\ w.d.st = "Stop" /\ w.d.pc = "loop" /\ w.log.bp # "bad"

\* What happens to the stream leaves a stopping dispatcher a stopping one.
LEMMA SeenStopping ==
  ASSUME NEW w, NEW v \in Worlds, Stopping(w), Seen(w, v)
  PROVE  Stopping(v)
<1>1. Live(w) <=> Live(v)
  BY DEF Seen, Live, Listed
<1>2. Handle(v)
  BY <1>1 DEF Stopping, Seen, Handle
<1>3. Count(v)
  BY DEF Stopping, Seen, SameCalls, Count, Calling
<1>4. Configured(v)
  BY DEF Stopping, Seen, SameFlags, TimerFlags, Configured
<1>5. QED
  BY <1>2, <1>3, <1>4 DEF Stopping, Seen, SamePlace

\* A stopping dispatcher may wait or turn once more.
LEMMA StoppingGood ==
  ASSUME NEW w, Stopping(w)
  PROVE  Pending(w) \/ Becomes(w) => Good(World')
<1>1. w \in Worlds /\ Turns(w) /\ Told(w) /\ w.d.st = "Stop" /\ w.d.pc = "loop"
  BY DEF Stopping, Turns, Working, Told
<1>2. QED
  BY <1>1, PendingGood, LoopGood

\* A flag that is no timeout flag is set.
LEMMA FlagSet ==
  ASSUME NEW w \in Worlds, NEW f \in {"READY_ERR", "IO_ERR"}
  PROVE  LET v == [w EXCEPT !.d.flags = @ \cup {f}] IN v \in Worlds /\ Seen(w, v)
<1> DEFINE fl == w.d.flags \cup {f}
           x == [w.d EXCEPT !.flags = fl]
           v == [w EXCEPT !.d.flags = @ \cup {f}]
<1>1. w.d \in DType
  BY DEF Worlds
<1>2. fl \in SUBSET AllFlags /\ \A g \in TimerFlags : g \in fl <=> g \in w.d.flags
  BY <1>1 DEF DType, AllFlags, TimerFlags
<1>3. v = [w EXCEPT !.d = x]
  BY DEF Worlds
<1> HIDE DEF fl, v
<1>4. x \in DType /\ x.flags = fl /\ x.inflight = w.d.inflight /\ x.spawned = w.d.spawned
      /\ x.response = w.d.response /\ x.st = w.d.st /\ x.pc = w.d.pc /\ x.woken = w.d.woken
  BY <1>1, <1>2 DEF DType
<1> HIDE DEF x
<1>5. v \in Worlds /\ v.d = x /\ v.io = w.io /\ v.tm = w.tm /\ v.log = w.log
  BY <1>3, <1>4 DEF Worlds
<1>6. Seen(w, v)
  BY <1>2, <1>4, <1>5 DEF Seen, SameFlags, SameCalls, SamePlace, Woken
<1>7. QED
  BY <1>5, <1>6 DEF v

\* The poll of the service in the Stop arm leaves what the invariant speaks of.
LEMMA StopReadyKeeps ==
  ASSUME NEW w \in Worlds
  PROVE  StopReady(w) \in Worlds /\ Seen(w, StopReady(w))
<1> DEFINE s == [w.svc EXCEPT !.waker = TRUE]
           a == [w EXCEPT !.svc.waker = TRUE]
           b == [w EXCEPT !.d.flags = @ \cup {"READY_ERR"}]
<1>1. StopReady(w) \in {w, a, b}
  BY DEF StopReady
<1>2. s \in SvcType /\ a = [w EXCEPT !.svc = s]
  BY Zenon DEF Worlds, SvcType
<1>3. b \in Worlds /\ Seen(w, b)
  BY FlagSet, Zenon
<1> HIDE DEF s, a, b
<1>4. a \in Worlds /\ a.d = w.d /\ a.io = w.io /\ a.tm = w.tm /\ a.log = w.log
  BY <1>2 DEF Worlds
<1>5. Seen(w, a)
  BY <1>4 DEF Seen, SameFlags, SameCalls, SamePlace, Woken
<1>6. Seen(w, w)
  BY SameRefl, SameSeen
<1>7. QED
  BY <1>1, <1>3, <1>4, <1>5, <1>6

\* The Stop arm: it goes on to Shutdown only when inflight is zero.
LEMMA StopGood ==
  ASSUME cfg \in Profiles, Good(World), Stop
  PROVE  Good(World')
<1> DEFINE w0 == World
           w1 == StopTimer(w0)
           w == StopReady(w1)
           down == PollShutdown(w)
           p == PollStatusUpdate(w)
           f == PollFlush(p.w, TRUE)
           e1 == [p.w EXCEPT !.d.flags = @ \cup {"IO_ERR"}]
           e2 == [f.w EXCEPT !.d.flags = @ \cup {"IO_ERR"}]
<1>1. w0.d.pc = "loop" /\ w0.d.st = "Stop"
  BY DEF Stop, World
<1>2. (CASE w.d.inflight = 0 /\ down.r = "ready" -> Becomes([w EXCEPT !.d.st = "Shutdown"])
         [] w.d.inflight = 0 /\ down.r = "pending" -> Pending(down.w)
         [] w.d.inflight > 0 /\ Has(w, "IO_ERR") -> Pending(Registered(w))
         [] w.d.inflight > 0 /\ ~Has(w, "IO_ERR") ->
              CASE p.r = "pending" -> Pending(p.w)
                [] p.r \in {"PeerGone", "KeepAlive"} -> Becomes(e1)
                [] p.r = "WriteBackpressure" ->
                     CASE f.r = "pending" -> Pending(f.w)
                       [] f.r = "err" -> Becomes(e2)
                       [] f.r = "ok" -> Becomes(f.w))
  BY Zenon DEF Stop
<1> HIDE DEF w0, w1, w, down, p, f, e1, e2
<1>3. Stopping(w0)
  BY <1>1 DEF Good, Turns, Told, Stopping, w0
<1>4. Stopping(w1)
  <2>1. w1 \in Worlds /\ TimerStep(w0, w1) /\ Handle(w1)
    BY <1>3, StopTimerKeeps DEF w1, Stopping
  <2>2. QED
    BY <1>3, <2>1 DEF Stopping, TimerStep, Count, Calling, Configured
<1>5. w \in Worlds /\ Stopping(w)
  <2>1. w1 \in Worlds
    BY <1>4 DEF Stopping
  <2>2. w \in Worlds /\ Seen(w1, w)
    BY <2>1, StopReadyKeeps DEF w
  <2>3. QED
    BY <1>4, <2>2, SeenStopping
<1>6. down.w \in Worlds /\ Stopping(down.w) /\ down.r \in {"ready", "pending"}
  <2>1. down.w \in Worlds /\ Same(w, down.w) /\ down.r \in {"ready", "pending"}
    BY <1>5, PollShutdownKeeps DEF down
  <2>2. QED
    BY <1>5, <2>1, SameSeen, SeenStopping
<1>7. Stopping(Registered(w))
  BY <1>5, RegisteredKeeps, SameSeen, SeenStopping
<1>8. p.w \in Worlds /\ Stopping(p.w)
      /\ p.r \in {"PeerGone", "KeepAlive", "WriteBackpressure", "pending"}
  <2>1. p.w \in Worlds /\ Seen(w, p.w)
        /\ p.r \in {"PeerGone", "KeepAlive", "WriteBackpressure", "pending"}
    BY <1>5, PollStatusUpdateKeeps DEF p
  <2>2. QED
    BY <1>5, <2>1, SeenStopping
<1>9. f.w \in Worlds /\ Stopping(f.w) /\ f.r \in {"err", "pending", "ok"}
  <2>1. f.w \in Worlds /\ Same(p.w, f.w) /\ f.r \in {"err", "pending", "ok"}
    BY <1>8, PollFlushKeeps, Zenon DEF f
  <2>2. QED
    BY <1>8, <2>1, SameSeen, SeenStopping
<1>10. Stopping(e1)
  <2>1. e1 \in Worlds /\ Seen(p.w, e1)
    BY <1>8, FlagSet, Zenon DEF e1
  <2>2. QED
    BY <1>8, <2>1, SeenStopping
<1>11. Stopping(e2)
  <2>1. e2 \in Worlds /\ Seen(f.w, e2)
    BY <1>9, FlagSet, Zenon DEF e2
  <2>2. QED
    BY <1>9, <2>1, SeenStopping
<1>12. CASE w.d.inflight = 0 /\ down.r = "ready"
  <2> DEFINE v == [w EXCEPT !.d.st = "Shutdown"]
  <2>1. Becomes(v)
    BY <1>2, <1>12
  <2>2. v \in Worlds /\ v.d.st = "Shutdown" /\ v.d.pc = w.d.pc /\ v.d.inflight = w.d.inflight
        /\ v.io = w.io /\ v.tm = w.tm /\ v.log = w.log /\ SameFlags(w, v) /\ SameCalls(w, v)
    BY <1>5, StateSet, Zenon
  <2> HIDE DEF v
  <2>3. Turns(v) /\ Told(v) /\ v.d.pc = "loop"
    BY <1>5, <2>2, DspSound DEF Stopping, Turns, Working, Told
  <2>4. QED
    BY <1>12, <2>1, <2>2, <2>3, LoopGood
<1>13. CASE w.d.inflight = 0 /\ down.r = "pending"
  BY <1>2, <1>6, <1>13, StoppingGood
<1>18. w.d.inflight > 0 => w.d.inflight # 0
  BY <1>5 DEF Worlds, DType
<1>14. CASE w.d.inflight > 0 /\ Has(w, "IO_ERR")
  <2>1. Pending(Registered(w))
    BY <1>2, <1>14, <1>18, Zenon
  <2>2. QED
    BY <1>7, <2>1, StoppingGood
<1>15. CASE w.d.inflight > 0 /\ ~Has(w, "IO_ERR")
  <2>1. (CASE p.r = "pending" -> Pending(p.w)
           [] p.r \in {"PeerGone", "KeepAlive"} -> Becomes(e1)
           [] p.r = "WriteBackpressure" ->
                CASE f.r = "pending" -> Pending(f.w)
                  [] f.r = "err" -> Becomes(e2)
                  [] f.r = "ok" -> Becomes(f.w))
    BY <1>2, <1>15, <1>18, Zenon
  <2>2. CASE p.r = "pending"
    BY <1>8, <2>1, <2>2, StoppingGood
  <2>3. CASE p.r \in {"PeerGone", "KeepAlive"}
    BY <1>10, <2>1, <2>3, StoppingGood, Zenon
  <2>4. CASE p.r = "WriteBackpressure"
    <3>1. (CASE f.r = "pending" -> Pending(f.w)
             [] f.r = "err" -> Becomes(e2)
             [] f.r = "ok" -> Becomes(f.w))
      BY <2>1, <2>4, Zenon
    <3>2. QED
      BY <1>9, <1>11, <3>1, StoppingGood, Zenon
  <2>5. QED
    BY <1>8, <2>2, <2>3, <2>4
<1>16. w.d.inflight = 0 \/ w.d.inflight > 0
  BY <1>5 DEF Stopping, Count, Calling, Worlds, DType
<1>17. QED
  BY <1>6, <1>12, <1>13, <1>14, <1>15, <1>16, SMTT(30)

\* The Shutdown arm: service shutdown, then the stream.
LEMMA ShutdownGood ==
  ASSUME cfg \in Profiles, Good(World), Shutdown
  PROVE  Good(World')
<1> DEFINE w == World
           v1 == [w EXCEPT !.d.pc = "done"]
           v2 == [w EXCEPT !.svc.down = "asked"]
<1>1. w.d.pc = "loop" /\ w.d.st = "Shutdown"
  BY DEF Shutdown, World
<1>2. Becomes(v1) \/ Pending(v2)
  BY DEF Shutdown
<1>3. w \in Worlds /\ Turns(w) /\ Told(w) /\ w.d.inflight = 0
  BY <1>1 DEF Good, Ends
<1> HIDE DEF w
<1>4. CASE Becomes(v1)
  <2> DEFINE x == [w.d EXCEPT !.pc = "done"]
  <2>1. v1 = [w EXCEPT !.d = x]
    BY <1>3 DEF Worlds
  <2>2. x \in DType /\ x.flags = w.d.flags /\ x.inflight = w.d.inflight
        /\ x.spawned = w.d.spawned /\ x.response = w.d.response /\ x.st = w.d.st
        /\ x.pc = "done"
    BY <1>3 DEF Worlds, DType
  <2> HIDE DEF x, v1
  <2>3. v1 \in Worlds /\ v1.d = x /\ v1.io = w.io /\ v1.tm = w.tm /\ v1.log = w.log
    BY <1>3, <2>1, <2>2 DEF Worlds
  <2>4. World' = v1
    BY <1>4, <2>3 DEF Becomes, World, Worlds
  <2>5. SameCalls(w, v1) /\ SameFlags(w, v1)
    BY <2>2, <2>3 DEF SameCalls, SameFlags
  <2>6. Turns(v1)
    BY <1>1, <1>3, <2>2, <2>3, <2>5, DspSound DEF Turns, Working
  <2>7. Told(v1) /\ Waits(v1) /\ Ends(v1)
    BY <1>1, <1>3, <2>2, <2>3 DEF Told, Waits, Ends
  <2>8. QED
    BY <2>3, <2>4, <2>6, <2>7 DEF Good
<1>5. CASE Pending(v2)
  <2> DEFINE s == [w.svc EXCEPT !.down = "asked"]
  <2>1. v2 = [w EXCEPT !.svc = s] /\ s \in SvcType
    BY <1>3 DEF Worlds, SvcType
  <2> HIDE DEF s, v2
  <2>2. v2 \in Worlds /\ v2.d = w.d /\ v2.io = w.io /\ v2.tm = w.tm /\ v2.log = w.log
    BY <1>3, <2>1 DEF Worlds
  <2>3. Same(w, v2)
    BY <2>2 DEF Same, SameFlags, SameCalls, SameTimers, SamePlace, Woken
  <2>4. Turns(v2) /\ Told(v2)
    BY <1>3, <2>2, <2>3, SameKeeps
  <2>5. QED
    BY <1>1, <1>3, <1>5, <2>2, <2>4, PendingGood
<1>6. QED
  BY <1>2, <1>4, <1>5

\* The start of poll: the answer of the first call is taken, if there is one.
LEMMA PollBeginGood ==
  ASSUME cfg \in Profiles, Good(World), PollBegin
  PROVE  Good(World')
<1> DEFINE w0 == World
           x == [w0.d EXCEPT !.woken = FALSE, !.pc = "loop"]
           w == [w0 EXCEPT !.d.woken = FALSE, !.d.pc = "loop"]
           y == [w.d EXCEPT !.response = "empty"]
           u == [w EXCEPT !.d.response = "empty"]
           a == w0.d.response
           v == HandleResult(u, a, FALSE)
<1>1. w0.d.pc = "wait"
  BY DEF PollBegin, World
<1>2. IF a \in {"empty", "pending"} THEN Becomes(w) ELSE Becomes(v)
  BY Zenon DEF PollBegin, World
<1>3. w0 \in Worlds /\ Turns(w0) /\ Told(w0) /\ Ends(w0)
  BY DEF Good
<1> HIDE DEF w0
<1>4. w = [w0 EXCEPT !.d = x]
  BY <1>3, Zenon DEF Worlds, DType
<1>5. x \in DType /\ x.flags = w0.d.flags /\ x.inflight = w0.d.inflight
      /\ x.spawned = w0.d.spawned /\ x.response = w0.d.response /\ x.st = w0.d.st
      /\ x.pc = "loop"
  BY <1>3, Zenon DEF Worlds, DType
<1> HIDE DEF x, w
<1>6. w \in Worlds /\ w.d = x /\ w.io = w0.io /\ w.tm = w0.tm /\ w.log = w0.log
  BY <1>3, <1>4, <1>5 DEF Worlds
<1>7. SameCalls(w0, w) /\ SameFlags(w0, w)
  BY <1>5, <1>6 DEF SameCalls, SameFlags
<1>8. Turns(w) /\ Told(w)
  BY <1>3, <1>5, <1>6, <1>7, DspSound DEF Turns, Working, Told
<1>9. w.d.st = "Shutdown" => w.d.inflight = 0
  BY <1>3, <1>5, <1>6 DEF Ends
<1>10. CASE a \in {"empty", "pending"}
  BY <1>2, <1>5, <1>6, <1>8, <1>9, <1>10, LoopGood
<1>11. CASE a \notin {"empty", "pending"}
  <2>1. Becomes(v) /\ a \in Responses /\ w.d.response = a
    BY <1>2, <1>3, <1>5, <1>6, <1>11, Zenon DEF Worlds, DType
  <2>2. u = [w EXCEPT !.d = y]
    BY <1>6 DEF Worlds
  <2>3. y \in DType /\ y.flags = w.d.flags /\ y.inflight = w.d.inflight
        /\ y.spawned = w.d.spawned /\ y.response = "empty" /\ y.st = w.d.st /\ y.pc = w.d.pc
    BY <1>6 DEF Worlds, DType, Responses
  <2> HIDE DEF y, u, v, a
  <2>4. u \in Worlds /\ u.d = y /\ u.io = w.io /\ u.tm = w.tm /\ u.log = w.log
    BY <1>6, <2>2, <2>3 DEF Worlds
  <2>5. SameFlags(w, u)
    BY <2>3, <2>4 DEF SameFlags
  <2>6. Handle(u) /\ (Backed(w) => Backed(u)) /\ Configured(u)
    BY <1>8, <2>4, <2>5, DspSound DEF Turns
  <2>7. /\ v \in Worlds
        /\ v.d.inflight = u.d.inflight - 1
        /\ v.d.spawned = u.d.spawned
        /\ v.d.response = u.d.response
        /\ SameFlags(u, v) /\ SameTimers(u, v) /\ SamePlace(u, v)
    BY <2>1, <2>4, HandleResultKeeps, Zenon DEF v
  <2>8. Live(u) <=> Live(v)
    BY <2>7 DEF SameTimers, Live, Listed
  <2>9. Handle(v) /\ (Backed(u) => Backed(v)) /\ Configured(v)
    BY <2>6, <2>7, <2>8
       DEF SameTimers, SameFlags, TimerFlags, Timers, Handle, Backed, Untimed, Configured
  <2>10. w.d.inflight = w.d.spawned + 1 /\ w.d.spawned \in Nat
    BY <1>6, <1>8, <1>11, <2>1 DEF Turns, Count, Calling, Worlds, DType
  <2>11. Count(v)
    BY <2>3, <2>4, <2>7, <2>10 DEF Count, Calling
  <2>12. v.d.st = w.d.st /\ v.d.pc = "loop" /\ v.log = w.log
    BY <1>5, <1>6, <2>3, <2>4, <2>7 DEF SamePlace
  <2>13. Turns(v) /\ Told(v)
    BY <1>8, <2>6, <2>9, <2>11, <2>12 DEF Turns, Working, Told
  <2>14. v.d.st # "Shutdown"
    BY <1>9, <2>10, <2>12
  <2>15. QED
    BY <2>1, <2>7, <2>12, <2>13, <2>14, LoopGood
<1>12. QED
  BY <1>10, <1>11

-----------------------------------------------------------------------------
(* What happens between two polls.                                         *)

\* A step that the invariant cannot tell from none keeps it.
LEMMA SameGood ==
  ASSUME NEW w \in Worlds, NEW v \in Worlds, Good(w), Same(w, v), Becomes(v)
  PROVE  Good(World')
<1>1. World' = v
  BY DEF Becomes, World, Worlds
<1>2. QED
  BY <1>1, SameKeeps DEF Good

\* The stream changes in what the invariant does not look at, and the dispatcher may be woken.
LEMMA StreamGood ==
  ASSUME NEW w \in Worlds, Good(w), NEW i \in IoType, NEW v, v = [w EXCEPT !.io = i],
         i.hnd = w.io.hnd, i.dspTimeout = w.io.dspTimeout, i.waker = w.io.waker,
         Becomes(v) \/ Becomes(WakeDispatch(v))
  PROVE  Good(World')
<1>1. v \in Worlds /\ v.d = w.d /\ v.io = i /\ v.tm = w.tm /\ v.log = w.log
  BY DEF Worlds
<1>2. Same(w, v)
  BY <1>1 DEF Same, SameFlags, SameCalls, SameTimers, SamePlace, Woken
<1>3. Same(w, WakeDispatch(v)) /\ WakeDispatch(v) \in Worlds
  BY <1>1, <1>2, WakeDispatchKeeps, SameTrans
<1>4. QED
  BY <1>1, <1>2, <1>3, SameGood

\* Bytes from the peer: they may wake the dispatcher and change no timer.
LEMMA RecvGood ==
  ASSUME Good(World), Recv
  PROVE  Good(World')
<1> DEFINE w == World
<1>1. PICK n \in 1 .. FrameLen, bad \in {FALSE} \cup (env.faults \cap {TRUE}) :
        Becomes(WakeDispatch([w EXCEPT !.io.rbuf = @ + n, !.io.bad = @ \/ bad]))
  BY Zenon DEF Recv
<1>2. w \in Worlds
  BY DEF Good
<1>3. n \in Nat /\ bad \in BOOLEAN
  <2>1. n \in Nat
    BY DEF FrameLen
  <2>2. bad \in BOOLEAN
    BY Zenon
  <2>3. QED
    BY <2>1, <2>2
<1> HIDE DEF w
<1> DEFINE b == w.io.bad \/ bad
           i == [w.io EXCEPT !.rbuf = @ + n, !.bad = b]
           v == [w EXCEPT !.io.rbuf = @ + n, !.io.bad = @ \/ bad]
<1>4. v = [w EXCEPT !.io = i]
  BY <1>2, Zenon DEF Worlds, IoType
<1>5. w.io \in IoType /\ w.io.rbuf + n \in Nat
  BY <1>2, <1>3 DEF Worlds, IoType
<1>6. b \in BOOLEAN
  BY <1>3, <1>5 DEF IoType
<1> DEFINE m == w.io.rbuf + n
<1>7. i = [w.io EXCEPT !.rbuf = m, !.bad = b]
  BY <1>5 DEF IoType
<1> HIDE DEF b, m, i, v
<1>8. m \in Nat
  BY <1>5 DEF m
<1>9. i \in IoType
  BY <1>5, <1>6, <1>7, <1>8, Zenon DEF IoType
<1>10. i.hnd = w.io.hnd /\ i.dspTimeout = w.io.dspTimeout /\ i.waker = w.io.waker
  BY <1>5, <1>7 DEF IoType
<1>11. Good(w)
  BY DEF w
<1>12. Becomes(WakeDispatch(v))
  BY <1>1 DEF v
<1>13. QED
  BY <1>2, <1>4, <1>9, <1>10, <1>11, <1>12, StreamGood, SMTT(30)

\* The stream stops or its filters have stopped: the dispatcher is woken.
LEMMA ClosedGood ==
  ASSUME Good(World), PeerGone \/ FiltersStopped
  PROVE  Good(World')
<1> DEFINE w == World
           i == [w.io EXCEPT !.life = "closed"]
           v == [w EXCEPT !.io.life = "closed"]
<1>1. Becomes(WakeDispatch(v)) /\ Good(w) /\ w \in Worlds
  BY DEF PeerGone, FiltersStopped, Good
<1> HIDE DEF w
<1>2. v = [w EXCEPT !.io = i] /\ i \in IoType
      /\ i.hnd = w.io.hnd /\ i.dspTimeout = w.io.dspTimeout /\ i.waker = w.io.waker
  BY <1>1 DEF Worlds, IoType
<1> HIDE DEF i, v
<1>3. QED
  BY <1>1, <1>2, StreamGood

\* The driver has written: a flush that waits is woken.
LEMMA WrittenGood ==
  ASSUME Good(World), Written
  PROVE  Good(World')
<1> DEFINE w == World
<1>1. Good(w) /\ w \in Worlds
  BY DEF Good
<1>2. PICK n \in 0 .. io.wbuf - 1 :
        \/ Becomes([w EXCEPT !.io.wbuf = n])
        \/ Becomes(WakeDispatch([w EXCEPT !.io.wbuf = n]))
  BY DEF Written
<1>3. io.wbuf \in Nat
  BY <1>1 DEF World, Worlds, IoType
<1>4. n \in Nat
  BY <1>3
<1> HIDE DEF w
<1> DEFINE i == [w.io EXCEPT !.wbuf = n]
           v == [w EXCEPT !.io.wbuf = n]
<1>5. v = [w EXCEPT !.io = i] /\ i \in IoType
      /\ i.hnd = w.io.hnd /\ i.dspTimeout = w.io.dspTimeout /\ i.waker = w.io.waker
  BY <1>1, <1>4 DEF Worlds, IoType
<1>6. Becomes(v) \/ Becomes(WakeDispatch(v))
  BY <1>2
<1> HIDE DEF i, v
<1>7. QED
  BY <1>1, <1>5, <1>6, StreamGood

\* run_timer: the handles that are due are notified, and each one taken from the map.
LEMMA TickGood ==
  ASSUME Good(World), Tick
  PROVE  Good(World')
<1> DEFINE w == World
           v == TimerTurn(w)
<1>1. Becomes(v) /\ Good(w) /\ w \in Worlds /\ Turns(w)
  BY DEF Tick, Good
<1>2. /\ v \in Worlds
      /\ SameFlags(w, v) /\ SameCalls(w, v) /\ SamePlace(w, v)
      /\ Handle(v)
      /\ Backed(w) => Backed(v)
      /\ Waits(w) => Waits(v)
  BY <1>1, TimerTurnKeeps DEF Turns
<1> HIDE DEF w, v
<1>3. World' = v
  BY <1>1, <1>2 DEF Becomes, World, Worlds
<1>4. Count(v) /\ Configured(v)
  BY <1>1, <1>2 DEF Turns, Count, Calling, SameCalls, Configured, SameFlags, TimerFlags
<1>5. Turns(v)
  BY <1>1, <1>2, <1>4, ZenonT(60) DEF Turns, Working, SamePlace
<1>6. Told(v) /\ Ends(v)
  BY <1>1, <1>2 DEF Good, Told, Ends, SamePlace, SameCalls
<1>7. QED
  BY <1>1, <1>2, <1>3, <1>5, <1>6 DEF Good

\* The timers change under the stream's handle only by a turn of the timer task: the clock may
\* advance and others may be listed.
LEMMA TimersGood ==
  ASSUME NEW w \in Worlds, Good(w), NEW t \in TmType, NEW v, v = [w EXCEPT !.tm = t],
         w.tm.running => t.running,
         w.tm.current <= t.current, t.current <= t.clock,
         w.tm.present \subseteq t.present, w.tm.listed \subseteq t.listed,
         \A k \in Nat : <<k, "io">> \in t.listed => <<k, "io">> \in w.tm.listed,
         Becomes(v)
  PROVE  Good(World')
<1>1. v \in Worlds /\ v.d = w.d /\ v.io = w.io /\ v.tm = t /\ v.log = w.log
  BY DEF Worlds
<1>2. World' = v
  BY <1>1 DEF Becomes, World, Worlds
<1>3. Live(w) => Live(v)
  BY <1>1 DEF Live, Listed
<1>4. Handle(w) /\ (Working(w) => Backed(w)) /\ Configured(w) /\ Count(w)
  BY DEF Good, Turns
<1>5. w.io.hnd \in Nat /\ w.tm.current \in Nat /\ t.current \in Nat
  BY DEF Worlds, IoType, TmType
<1>6. Handle(v)
  BY <1>1, <1>3, <1>4, <1>5 DEF Handle
<1>7. Turns(v)
  BY <1>1, <1>3, <1>4, <1>6 DEF Turns, Working, Backed, Configured, Count
<1>8. Told(v) /\ Waits(v) /\ Ends(v)
  BY <1>1 DEF Good, Told, Waits, Ends
<1>9. QED
  BY <1>1, <1>2, <1>7, <1>8 DEF Good

\* The clock goes on while the timer task does not run, and `current` falls behind it.
LEMMA ElapseGood ==
  ASSUME Good(World), Elapse
  PROVE  Good(World')
<1> DEFINE w == World
           t == [tm EXCEPT !.clock = @ + 1]
           v == [w EXCEPT !.tm = t]
<1>1. w \in Worlds /\ Handle(w) /\ w.tm = tm /\ tm \in TmType
  BY DEF Good, Turns, Worlds, World
<1>2. t \in TmType /\ t.running = tm.running /\ t.current = tm.current
      /\ t.present = tm.present /\ t.listed = tm.listed /\ t.clock = tm.clock + 1
  BY <1>1 DEF TmType
<1>3. tm.current <= t.clock /\ tm.current <= tm.current
  BY <1>1, <1>2 DEF Handle, TmType
<1>4. Becomes(v)
  BY DEF Elapse, Becomes, World
<1> HIDE DEF w, t
<1>5. QED
  <2>1. Good(w)
    BY DEF w
  <2>2. w.tm.current <= t.current /\ t.current <= t.clock
    BY <1>1, <1>2, <1>3
  <2>3. QED
    BY <1>1, <1>2, <1>4, <2>1, <2>2, TimersGood

\* Another stream of the thread registers a timer in the shared map.
LEMMA OtherTimerGood ==
  ASSUME Good(World), OtherTimer
  PROVE  Good(World')
<1> DEFINE w == World
           t == TimerRegister(tm, 1, "other")
           v == [w EXCEPT !.tm = t]
<1>1. w \in Worlds /\ Handle(w) /\ w.tm = tm /\ tm \in TmType
  BY DEF Good, Turns, Worlds, World
<1>2. tm.current <= tm.clock
  BY <1>1 DEF Handle
<1>3. Becomes(v)
  BY DEF OtherTimer, Becomes, World
<1> HIDE DEF w
<1>4. /\ t \in TmType
      /\ t.running
      /\ tm.current <= t.current /\ t.current <= t.clock
      /\ tm.present \subseteq t.present
      /\ tm.listed \subseteq t.listed
      /\ \A k \in Nat : <<k, "io">> \in t.listed => <<k, "io">> \in tm.listed
  <2> DEFINE n == 1
             id == "other"
             key == NewHandle(tm, n)
  <2>1. tm \in TmType /\ n \in Nat /\ id \in {"io", "other"}
    BY <1>1
  <2>2. t = TimerRegister(tm, n, id) /\ key = NewHandle(tm, n)
    OBVIOUS
  <2> HIDE DEF t, key, n, id
  <2>3. t \in TmType
    BY <1>2, <2>1, <2>2, RegisterKeeps, Zenon
  <2>4. t.running
    BY <1>2, <2>1, <2>2, RegisterKeeps, Zenon
  <2>5. tm.current <= t.current /\ t.current <= t.clock
    BY <1>2, <2>1, <2>2, RegisterKeeps, Zenon
  <2>6. tm.present \subseteq t.present
    BY <2>1, <2>2 DEF TimerRegister, TmType
  <2>7. t.listed = tm.listed \cup {<<key, id>>}
    BY <2>1, <2>2 DEF TimerRegister, NewHandle, TmType
  <2>8. \A k \in Nat : <<k, "io">> \in t.listed => <<k, "io">> \in tm.listed
    BY <2>7 DEF id
  <2>9. QED
    BY <2>3, <2>4, <2>5, <2>6, <2>7, <2>8
<1> HIDE DEF t
<1>5. Good(w)
  BY DEF w
<1>6. QED
  BY <1>1, <1>3, <1>4, <1>5, TimersGood

\* The service or its waker changes; the dispatcher may be woken.
LEMMA ServiceGood ==
  ASSUME Good(World), svc' \in SvcType, d' = d \/ d' = [d EXCEPT !.woken = TRUE],
         UNCHANGED <<io, tm, log>>
  PROVE  Good(World')
<1> DEFINE w == World
           v == World'
<1>1. w \in Worlds /\ d \in DType
  BY DEF Good, World, Worlds
<1>2. d' \in DType /\ d'.flags = d.flags /\ d'.inflight = d.inflight
      /\ d'.spawned = d.spawned /\ d'.response = d.response /\ d'.st = d.st
      /\ d'.pc = d.pc /\ (d.woken => d'.woken)
  BY <1>1, Zenon DEF DType
<1>3. /\ w.d = d /\ w.io = io /\ w.tm = tm /\ w.log = log
      /\ v.d = d' /\ v.io = io /\ v.tm = tm /\ v.log = log
  BY DEF World
<1>4. v \in Worlds
  BY <1>1, <1>2 DEF World, Worlds
<1> HIDE DEF w, v
<1>5. Same(w, v)
  BY <1>2, <1>3 DEF Same, SameFlags, SameCalls, SameTimers, SamePlace, Woken
<1>6. Good(w)
  BY DEF w
<1>7. Good(v)
  BY <1>1, <1>4, <1>5, <1>6, SameKeeps DEF Good
<1>8. QED
  BY <1>7 DEF v

\* The service becomes unready or ready, or its shutdown completes.
LEMMA ServiceStepsGood ==
  ASSUME Good(World), SvcUnready \/ SvcReady \/ SvcDown
  PROVE  Good(World')
<1>1. svc \in SvcType /\ d \in DType
  BY DEF Good, World, Worlds
<1>2. CASE SvcUnready
  <2>1. svc' \in SvcType /\ d' = d /\ UNCHANGED <<io, tm, log>>
    BY <1>1, <1>2 DEF SvcUnready, SvcType
  <2>2. QED
    BY <2>1, ServiceGood
<1>3. CASE SvcReady
  <2>1. PICK r \in {"yes", "err"} : svc' = [svc EXCEPT !.ready = r, !.waker = FALSE]
    BY <1>3, Zenon DEF SvcReady
  <2>2. svc' \in SvcType
    BY <1>1, <2>1, Zenon DEF SvcType
  <2> DEFINE b == d.woken \/ svc.waker
  <2>3. d' = [d EXCEPT !.woken = b] /\ UNCHANGED <<io, tm, log>>
    BY <1>3, Zenon DEF SvcReady
  <2>4. b = d.woken \/ b = TRUE
    BY <1>1 DEF DType, SvcType
  <2> HIDE DEF b
  <2>5. [d EXCEPT !.woken = d.woken] = d
    BY <1>1 DEF DType
  <2>6. d' = d \/ d' = [d EXCEPT !.woken = TRUE]
    BY <2>3, <2>4, <2>5, Zenon
  <2>7. QED
    BY <2>2, <2>3, <2>6, ServiceGood
<1>4. CASE SvcDown
  <2>1. svc' \in SvcType /\ d' = [d EXCEPT !.woken = TRUE] /\ UNCHANGED <<io, tm, log>>
    BY <1>1, <1>4 DEF SvcDown, SvcType
  <2>2. QED
    BY <2>1, ServiceGood
<1>5. QED
  BY <1>2, <1>3, <1>4

\* The call kept in `response` is still one of the calls that were not taken.
LEMMA AnsweredGood ==
  ASSUME cfg \in Profiles, Good(World), Answered
  PROVE  Good(World')
<1> DEFINE w == World
<1>1. w \in Worlds /\ Good(w) /\ w.d.response = "pending" /\ w.d.pc = "wait"
  BY SMTT(30) DEF Good, Answered, Between, World
<1>2. PICK a \in Answers(w) :
        Becomes(Counted([w EXCEPT !.d.response = a, !.d.woken = TRUE], a))
  BY Zenon DEF Answered
<1> HIDE DEF w
<1> DEFINE x == [w.d EXCEPT !.response = a, !.woken = TRUE]
           u == [w EXCEPT !.d.response = a, !.d.woken = TRUE]
           v == Counted(u, a)
<1>3. a \in Responses \ {"empty", "pending"} /\ (a = "none" \/ w.svc.talk > 0)
  BY <1>1, AnswersAre
<1>4. u = [w EXCEPT !.d = x]
  BY <1>1, Zenon DEF Worlds, DType
<1>5. x \in DType /\ x.flags = w.d.flags /\ x.inflight = w.d.inflight
      /\ x.spawned = w.d.spawned /\ x.response = a /\ x.st = w.d.st
      /\ x.pc = w.d.pc /\ x.woken
  BY <1>1, <1>3, Zenon DEF Worlds, DType
<1> HIDE DEF x, u
<1>6. u \in Worlds /\ u.d = x /\ u.io = w.io /\ u.tm = w.tm /\ u.log = w.log /\ u.svc = w.svc
  BY <1>1, <1>4, <1>5 DEF Worlds
<1>7. v \in Worlds /\ Same(u, v)
  BY <1>3, <1>6, CountedKeeps
<1>8. Turns(w)
  BY <1>1 DEF Good
<1>9. Handle(u) /\ (Backed(w) => Backed(u)) /\ Configured(u)
  BY <1>5, <1>6, <1>8, DspSound DEF Turns, SameFlags
<1>10. Count(u)
  BY <1>1, <1>3, <1>5, <1>6, <1>8, ZenonT(60) DEF Turns, Count, Calling
<1>11. Turns(u) /\ Told(u) /\ Waits(u) /\ Ends(u)
  BY <1>1, <1>5, <1>6, <1>8, <1>9, <1>10 DEF Turns, Good, Working, Told, Waits, Ends
<1>12. Good(u) /\ Becomes(v)
  BY <1>2, <1>6, <1>11, ZenonT(60) DEF Good, u
<1> HIDE DEF v
<1>13. QED
  BY <1>6, <1>7, <1>12, SameGood

\* The task of a spawned call takes its answer itself.
LEMMA SpawnedAnsweredGood ==
  ASSUME cfg \in Profiles, Good(World), SpawnedAnswered
  PROVE  Good(World')
<1> DEFINE w == World
<1>1. w \in Worlds /\ Good(w) /\ w.d.spawned > 0 /\ w.d.pc = "wait"
  BY DEF Good, SpawnedAnswered, Between, World
<1>2. PICK a \in Answers(w) :
        Becomes(HandleResult(Counted([w EXCEPT !.d.spawned = @ - 1], a), a, TRUE))
  BY Zenon DEF SpawnedAnswered
<1> HIDE DEF w
<1> DEFINE n == w.d.spawned - 1
           x == [w.d EXCEPT !.spawned = n]
           u == [w EXCEPT !.d.spawned = @ - 1]
           c == Counted(u, a)
           v == HandleResult(c, a, TRUE)
<1>3. a \in Responses /\ (a = "none" \/ w.svc.talk > 0)
  BY <1>1, AnswersAre
<1>4. u = [w EXCEPT !.d = x]
  BY <1>1 DEF Worlds, DType
<1>5. n \in Nat /\ w.d.spawned = n + 1
  BY <1>1 DEF Worlds, DType
<1> HIDE DEF n
<1>6. x \in DType /\ x.flags = w.d.flags /\ x.inflight = w.d.inflight
      /\ x.spawned = n /\ x.response = w.d.response /\ x.st = w.d.st
      /\ x.pc = w.d.pc /\ x.woken = w.d.woken
  BY <1>1, <1>5 DEF Worlds, DType
<1> HIDE DEF x, u
<1>7. u \in Worlds /\ u.d = x /\ u.io = w.io /\ u.tm = w.tm /\ u.log = w.log /\ u.svc = w.svc
  BY <1>1, <1>4, <1>6 DEF Worlds
<1>8. c \in Worlds /\ Same(u, c)
  BY <1>3, <1>7, CountedKeeps
<1> HIDE DEF c
<1>9. /\ v \in Worlds
      /\ v.d.inflight = c.d.inflight - 1
      /\ v.d.spawned = c.d.spawned
      /\ v.d.response = c.d.response
      /\ SameFlags(c, v) /\ SameTimers(c, v) /\ SamePlace(c, v) /\ Woken(c, v)
  BY <1>3, <1>8, HandleResultKeeps, ZenonT(60)
<1> HIDE DEF v
<1>10. /\ v.d.inflight = w.d.inflight - 1 /\ v.d.spawned = n
       /\ v.d.response = w.d.response
       /\ SameFlags(w, v) /\ SameTimers(w, v) /\ SamePlace(w, v) /\ Woken(w, v)
  BY <1>6, <1>7, <1>8, <1>9
     DEF Same, SameCalls, SameFlags, SameTimers, SamePlace, Woken
<1>11. Turns(w)
  BY <1>1 DEF Good
<1>12. w.d.inflight = Calling(w.d) /\ Calling(w.d) = Calling(v.d) + 1 /\ Calling(v.d) \in Int
  BY <1>5, <1>10, <1>11 DEF Turns, Count, Calling
<1>13. Count(v)
  BY <1>10, <1>12 DEF Count
<1>14. Live(w) <=> Live(v)
  BY <1>10 DEF SameTimers, Live, Listed
<1>15. Handle(v) /\ (Backed(w) => Backed(v)) /\ Configured(v)
  BY <1>10, <1>11, <1>14
     DEF Turns, SameTimers, SameFlags, TimerFlags, Timers, Handle, Backed, Untimed, Configured
<1>16. Turns(v)
  BY <1>10, <1>11, <1>13, <1>15, ZenonT(60) DEF Turns, Working, SamePlace
<1>17. Told(v) /\ Waits(v)
  BY <1>1, <1>10 DEF Good, Told, Waits, SamePlace, SameTimers, Woken
<1>18. w.d.st # "Shutdown"
  <2>1. w.d.inflight > 0
    BY <1>5, <1>11 DEF Turns, Count, Calling
  <2>2. QED
    BY <1>1, <2>1 DEF Good, Ends
<1>19. Ends(v)
  BY <1>1, <1>10, <1>18 DEF Ends, SamePlace
<1>20. World' = v
  BY <1>2, <1>9, Zenon DEF Becomes, World, Worlds, v, c, u
<1>21. QED
  BY <1>9, <1>16, <1>17, <1>19, <1>20 DEF Good

-----------------------------------------------------------------------------
(* The theorems.                                                           *)

\* A new dispatcher is good.
LEMMA InitGood == Init => DispatcherInv
<1> SUFFICES ASSUME Init
             PROVE  DispatcherInv
  OBVIOUS
<1>1. cfg \in Profiles /\ cfg.talk \in Nat
  BY ProfilesAssumption, Zenon DEF Init
<1> DEFINE f == IF cfg.ka = 0 THEN {} ELSE {"KA_ENABLED"}
<1>2. f \in SUBSET AllFlags /\ f \cap Timers = {} /\ ("KA_ENABLED" \in f => cfg.ka # 0)
      /\ "READ_TIMEOUT" \notin f
  BY ZenonT(60) DEF AllFlags, Timers
<1>3. d.flags = f
  BY ZenonT(60) DEF Init
<1> HIDE DEF f
<1>4. d \in DType
  BY <1>2, <1>3, SMTT(30) DEF Init, DType, Responses, f
<1>5. io \in IoType /\ tm \in TmType /\ svc \in SvcType /\ log \in LogType
  BY <1>1, Zenon DEF Init, IoType, TmType, SvcType, LogType
<1>6. World \in Worlds
  BY <1>4, <1>5 DEF World, Worlds
<1>7. World.d = d /\ World.io = io /\ World.tm = tm /\ World.log = log
  BY ZenonT(60) DEF World
<1>8. Turns(World)
  <2>1. Count(World) /\ Handle(World)
    <3>1. d.inflight = 0 /\ d.spawned = 0 /\ d.response = "empty"
      BY Zenon DEF Init
    <3>2. io.hnd = 0 /\ tm.current = 0 /\ tm.clock = 0 /\ tm.listed = {}
      BY Zenon DEF Init
    <3> QED
      BY <1>7, <3>1, <3>2 DEF Count, Calling, Handle
  <2>2. Backed(World) /\ Configured(World)
    BY <1>2, <1>3, <1>7, Zenon DEF Backed, Configured
  <2> QED
    BY <2>1, <2>2, Zenon DEF Turns
<1>9. Told(World) /\ Waits(World) /\ Ends(World)
  BY <1>7, SMTT(30) DEF Init, Told, Waits, Ends
<1>10. QED
  BY <1>1, <1>6, <1>8, <1>9 DEF DispatcherInv, Good

\* Every step keeps the invariant: one case for each action of Next.
LEMMA NextGood == DispatcherInv /\ [Next]_vars => DispatcherInv'
<1> SUFFICES ASSUME DispatcherInv, [Next]_vars
             PROVE  DispatcherInv'
  OBVIOUS
<1>1. cfg \in Profiles /\ Good(World)
  BY DEF DispatcherInv
<1>2. cfg' = cfg
  BY Zenon DEF Next, Poll, Environment, PollBegin, Processing, Backpressure, Stop, Shutdown, Recv,
         PeerGone, Elapse, OtherTimer, SvcUnready, FiltersStopped, Written, Tick, SvcReady,
         Answered, SpawnedAnswered, SvcDown, vars
<1>3. ASSUME Poll PROVE Good(World')
  BY <1>1, <1>3, PollBeginGood, ProcessingGood, BackpressureGood, StopGood, ShutdownGood, ZenonT(60) DEF Poll
<1>4. ASSUME Environment PROVE Good(World')
  BY <1>1, <1>4, RecvGood, ClosedGood, WrittenGood, TickGood, ElapseGood, OtherTimerGood,
     ServiceStepsGood, AnsweredGood, SpawnedAnsweredGood DEF Environment
<1>5. ASSUME UNCHANGED vars PROVE Good(World')
  <2>1. World' = World
    BY <1>5 DEF vars, World
  <2>2. QED
    BY <1>1, <2>1
<1>6. Good(World')
  BY <1>3, <1>4, <1>5, ZenonT(60) DEF Next
<1>7. Good(World)'
  BY <1>2, <1>6 DEF Good, Worlds, Turns, Count, Handle, Backed, Configured, Told, Waits, Ends,
     Live, Working, Untimed
<1>8. QED
  BY <1>1, <1>2, <1>7 DEF DispatcherInv

\* Every reachable state of a dispatcher is good: its calls are counted, its timer handle is
\* sound, its timeout flags are backed by a timer, and the service knows of the back-pressure.
THEOREM DispatcherInvariance == Spec => []DispatcherInv
<1>1. QED
  BY InitGood, NextGood, PTL DEF Spec

\* `inflight` counts the calls that were not answered, however they are waited for, and the
\* service is not shut down before it is zero (call_service, handle_result, the Stop arm).
THEOREM CallsCounted == Spec => []InflightCounted
<1>1. DispatcherInv => InflightCounted
  BY SMTT(30) DEF DispatcherInv, Good, Turns, Count, Calling, Ends, InflightCounted, World
<1>2. QED
  BY <1>1, DispatcherInvariance, PTL

\* A dispatcher that works with a timeout flag set has a listed timer and a timer task that runs,
\* or a timer that fired and whose notice it has not taken; one that waits for input was woken
\* for it.  No other timer of the stream is listed, so the one that fires is the one its handle
\* stands for (update_timer, handle_timeout, TimerHandle::update, run_timer).
THEOREM TimersBacked == Spec => []TimerBehindFlag
<1>1. DispatcherInv => TimerBehindFlag
  <2> SUFFICES ASSUME DispatcherInv PROVE TimerBehindFlag
    OBVIOUS
  <2>1. World.d = d /\ World.io = io /\ World.tm = tm
    BY ZenonT(60) DEF World
  <2>2. World \in Worlds /\ Handle(World) /\ Waits(World)
        /\ (d.st \in {"Processing", "Backpressure"} => Backed(World))
    BY <2>1 DEF DispatcherInv, Good, Turns, Working
  <2>3. (d.st \in {"Processing", "Backpressure"} /\ d.flags \cap Timers # {} /\ ~Untimed(d)) =>
          \/ tm.running /\ io.hnd # 0 /\ Listed(tm, io.hnd, "io") /\ io.hnd \in tm.present
          \/ io.dspTimeout
    BY <2>1, <2>2, Zenon DEF Backed, Live
  <2>4. (d.pc = "wait" /\ d.st = "Processing" /\ io.dspTimeout) => d.woken
    BY <2>1, <2>2, Zenon DEF Waits
  <2>5. \A x \in tm.listed : x[2] = "io" => io.hnd # 0 /\ x[1] = io.hnd
    <3>1. tm.listed \subseteq Nat \X {"io", "other"}
      BY <2>1, <2>2 DEF Worlds, TmType
    <3>2. \A k \in Nat : <<k, "io">> \in tm.listed => io.hnd # 0 /\ k = io.hnd
      BY <2>1, <2>2 DEF Handle
    <3>3. QED
      BY <3>1, <3>2
  <2>6. QED
    BY <2>3, <2>4, <2>5, Zenon DEF TimerBehindFlag
<1>2. QED
  BY <1>1, DispatcherInvariance, PTL

\* The service is told of write back-pressure on and off in turns (the Backpressure arm of poll).
THEOREM ControlsInTurn == Spec => []ControlsAlternate
<1>1. DispatcherInv => ControlsAlternate
  BY DEF DispatcherInv, Good, Told, ControlsAlternate, World
<1>2. QED
  BY <1>1, DispatcherInvariance, PTL
====

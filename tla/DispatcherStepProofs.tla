------------------------ MODULE DispatcherStepProofs ------------------------
(***************************************************************************)
(* What the operators of the framed dispatcher keep.                       *)
(*                                                                         *)
(* The operators of Dispatcher map worlds to worlds, so what they keep is  *)
(* stated about any world w of the type below, in one lemma per operator.  *)
(* The invariant has one conjunct per mechanism: the count of calls, the   *)
(* handle of the timer, the flags it stands behind, and what the service   *)
(* was told.  DispatcherProofs shows that every action keeps it.           *)
(***************************************************************************)
EXTENDS Dispatcher, Integers, TLAPS

AllFlags == {"KA_ENABLED", "KA_TIMEOUT", "READ_TIMEOUT", "IDLE", "READY_ERR", "IO_ERR"}
Responses == {"empty", "pending", "none", "some", "unencodable", "err"}

DType ==
  [st : {"Processing", "Backpressure", "Stop", "Shutdown"}, pc : {"wait", "loop", "done"},
   woken : BOOLEAN, error : BOOLEAN, failed : {"none", "Encoder", "Service"},
   response : Responses, spawned : Nat, inflight : Int, remains : Nat, prev : Nat, maxto : Nat,
   flags : SUBSET AllFlags]
IoType ==
  [life : {"open", "filters", "closed"}, rbuf : Nat, bad : BOOLEAN, wbuf : Nat, bp : BOOLEAN,
   flush : BOOLEAN, paused : BOOLEAN, waker : BOOLEAN, dspTimeout : BOOLEAN, hnd : Nat]
TmType ==
  [running : BOOLEAN, clock : Nat, current : Nat, present : SUBSET Nat,
   listed : SUBSET (Nat \X {"io", "other"})]
SvcType ==
  [ready : {"yes", "no", "err"}, waker : BOOLEAN, down : {"up", "asked", "down"}, talk : Nat]
LogType == [stops : Nat, bp : {"off", "on", "bad"}]
Worlds == [d : DType, io : IoType, tm : TmType, svc : SvcType, log : LogType]

\* The calls that were made and not answered.
Calling(x) == x.spawned + (IF x.response = "empty" THEN 0 ELSE 1)
Count(w) == w.d.inflight = Calling(w.d)

\* The timer of the stream is listed under its handle, and the timer task runs.
Live(w) ==
  /\ w.tm.running
  /\ w.io.hnd # 0
  /\ Listed(w.tm, w.io.hnd, "io")
  /\ w.io.hnd \in w.tm.present

\* A handle that does not stand for a listed timer lies in the past, so update() cannot take
\* it for one that may be kept.  `current` is behind the clock when it is stale.  The stream is
\* listed under no other handle.
Handle(w) ==
  /\ w.io.hnd # 0 => Live(w) \/ w.io.hnd < w.tm.current
  /\ \A k \in Nat : <<k, "io">> \in w.tm.listed => w.io.hnd # 0 /\ k = w.io.hnd
  /\ w.tm.current <= w.tm.clock

\* A timeout flag has a live timer behind it, or one that went off and was not seen yet.
Backed(w) == w.d.flags \cap Timers # {} /\ ~Untimed(w.d) => Live(w) \/ w.io.dspTimeout

\* The flags speak of timeouts that are configured.
Configured(w) ==
  /\ "KA_ENABLED" \in w.d.flags => cfg.ka # 0
  /\ "READ_TIMEOUT" \in w.d.flags => cfg.rate # <<>>

\* The service has heard of the back-pressure exactly while the dispatcher is in that state;
\* a dispatcher that stops tells it nothing more of it.
Told(w) ==
  /\ w.log.bp # "bad"
  /\ w.d.st = "Processing" => w.log.bp = "off"
  /\ w.d.st = "Backpressure" => w.log.bp = "on"

\* The states in which timers matter.
Working(w) == w.d.st \in {"Processing", "Backpressure"}

\* A dispatcher that waits for input can be woken, and was if its timer went off.
Waits(w) ==
  w.d.pc = "wait" /\ w.d.st = "Processing" =>
    /\ w.io.waker \/ w.d.woken
    /\ w.io.dspTimeout => w.d.woken

Ends(w) ==
  /\ w.d.st = "Shutdown" => w.d.inflight = 0
  /\ w.d.pc = "done" => w.d.st = "Shutdown"

\* What holds in every turn of the loop: Waits is about its end.
Turns(w) == Count(w) /\ Handle(w) /\ (Working(w) => Backed(w)) /\ Configured(w)
Good(w) == w \in Worlds /\ Turns(w) /\ Told(w) /\ Waits(w) /\ Ends(w)

DispatcherInv == cfg \in Profiles /\ Good(World)

-----------------------------------------------------------------------------
(* What the operators of the stream and of the timers keep.                *)

\* The flags the invariant speaks of.
TimerFlags == {"KA_ENABLED", "KA_TIMEOUT", "READ_TIMEOUT"}
SameFlags(w, v) == \A f \in TimerFlags : f \in v.d.flags <=> f \in w.d.flags
SameCalls(w, v) ==
  /\ v.d.inflight = w.d.inflight
  /\ v.d.spawned = w.d.spawned
  /\ v.d.response = w.d.response
SameTimers(w, v) ==
  /\ v.tm = w.tm
  /\ v.io.hnd = w.io.hnd
  /\ v.io.dspTimeout = w.io.dspTimeout
SamePlace(w, v) ==
  /\ v.d.st = w.d.st
  /\ v.d.pc = w.d.pc
  /\ v.log = w.log
\* Who could be woken still can be or has been.
Woken(w, v) ==
  /\ w.d.woken => v.d.woken
  /\ w.io.waker => v.io.waker \/ v.d.woken
Same(w, v) ==
  SameFlags(w, v) /\ SameCalls(w, v) /\ SameTimers(w, v) /\ SamePlace(w, v) /\ Woken(w, v)

\* Steps that keep all of it compose, and keep the invariant.
LEMMA SameTrans ==
  ASSUME NEW u, NEW w, NEW v, Same(u, w), Same(w, v)
  PROVE  Same(u, v)
  BY DEF Same, SameFlags, SameCalls, SameTimers, SamePlace, Woken

\* The invariant only looks at what Same keeps.
LEMMA SameKeeps ==
  ASSUME NEW w \in Worlds, NEW v \in Worlds, Same(w, v)
  PROVE  /\ Turns(w) => Turns(v)
         /\ Told(w) => Told(v)
         /\ Waits(w) => Waits(v)
         /\ Ends(w) => Ends(v)
<1>1. Count(w) => Count(v)
  BY DEF Same, SameCalls, Count, Calling
<1>2. Live(w) <=> Live(v)
  BY DEF Same, SameTimers, Live, Listed
<1>3. Handle(w) => Handle(v)
  BY <1>2 DEF Same, SameTimers, Handle
<1>4. Backed(w) => Backed(v)
  BY <1>2 DEF Same, SameFlags, SameTimers, TimerFlags, Timers, Backed, Untimed
<1>5. Configured(w) => Configured(v)
  BY DEF Same, SameFlags, TimerFlags, Configured
<1>6. Turns(w) => Turns(v)
  BY <1>1, <1>3, <1>4, <1>5 DEF Turns, Working, Same, SamePlace
<1>7. Told(w) => Told(v)
  BY DEF Same, SamePlace, Told
<1>8. Waits(w) => Waits(v)
  BY DEF Same, SamePlace, SameTimers, Woken, Waits
<1>9. Ends(w) => Ends(v)
  BY DEF Same, SamePlace, SameCalls, Ends
<1>10. QED
  BY <1>6, <1>7, <1>8, <1>9

\* wake_dispatch_task: the waker is taken and the task woken.
LEMMA WakeDispatchKeeps ==
  ASSUME NEW w \in Worlds
  PROVE  /\ WakeDispatch(w) \in Worlds
         /\ Same(w, WakeDispatch(w))
         /\ w.io.waker => WakeDispatch(w).d.woken
<1>1. CASE w.io.waker
  <2> DEFINE v == [w EXCEPT !.io.waker = FALSE, !.d.woken = TRUE]
  <2>1. WakeDispatch(w) = v
    BY <1>1 DEF WakeDispatch
  <2>2. v \in Worlds
    BY Zenon DEF Worlds, DType, IoType
  <2>3. v.d = [w.d EXCEPT !.woken = TRUE] /\ v.io = [w.io EXCEPT !.waker = FALSE]
        /\ v.tm = w.tm /\ v.log = w.log
    BY DEF Worlds
  <2>4. Same(w, v) /\ v.d.woken
    BY <2>3 DEF Worlds, DType, IoType, Same, SameFlags, SameCalls, SameTimers, SamePlace, Woken
  <2>5. QED
    BY <2>1, <2>2, <2>4
<1>2. CASE ~w.io.waker
  BY <1>2 DEF WakeDispatch, Same, SameFlags, SameCalls, SameTimers, SamePlace, Woken
<1>3. QED
  BY <1>1, <1>2

\* Registering the waker changes nothing else.
LEMMA RegisteredKeeps ==
  ASSUME NEW w \in Worlds
  PROVE  /\ Registered(w) \in Worlds
         /\ Same(w, Registered(w))
         /\ Registered(w).io.waker
<1> DEFINE v == Registered(w)
<1>1. v \in Worlds
  BY Zenon DEF Registered, Worlds, IoType
<1>2. v.d = w.d /\ v.io = [w.io EXCEPT !.waker = TRUE] /\ v.tm = w.tm /\ v.log = w.log
  BY DEF Registered, Worlds
<1>3. QED
  BY <1>1, <1>2 DEF Worlds, IoType, Same, SameFlags, SameCalls, SameTimers, SamePlace, Woken

\* A change of the stream that leaves the timer and the waker alone.
LEMMA StreamKeeps ==
  ASSUME NEW w \in Worlds, NEW i \in IoType,
         i.hnd = w.io.hnd, i.dspTimeout = w.io.dspTimeout, i.waker = w.io.waker
  PROVE  /\ [w EXCEPT !.io = i] \in Worlds
         /\ Same(w, [w EXCEPT !.io = i])
<1> DEFINE v == [w EXCEPT !.io = i]
<1>1. v \in Worlds /\ v.d = w.d /\ v.io = i /\ v.tm = w.tm /\ v.log = w.log
  BY DEF Worlds
<1>2. Same(w, v)
  BY <1>1 DEF Same, SameFlags, SameCalls, SameTimers, SamePlace, Woken
<1>3. QED
  BY <1>1, <1>2

\* encode() fills the write buffer.
LEMMA EncodeKeeps ==
  ASSUME NEW w \in Worlds
  PROVE  Encode(w) \in Worlds /\ Same(w, Encode(w))
<1> DEFINE n == w.io.wbuf + 1
           w1 == [w EXCEPT !.io.wbuf = n]
           w2 == [w1 EXCEPT !.io.bp = TRUE]
           i1 == [w.io EXCEPT !.wbuf = n]
           i2 == [w.io EXCEPT !.wbuf = n, !.bp = TRUE]
<1>1. w.io \in IoType /\ n \in Nat
  BY DEF Worlds, IoType
<1>2. i1 \in IoType /\ i1.hnd = w.io.hnd /\ i1.dspTimeout = w.io.dspTimeout /\ i1.waker = w.io.waker
  BY <1>1 DEF IoType
<1>3. i2 \in IoType /\ i2.hnd = w.io.hnd /\ i2.dspTimeout = w.io.dspTimeout /\ i2.waker = w.io.waker
  BY <1>1, Zenon DEF IoType
<1>4. w1 = [w EXCEPT !.io = i1] /\ w2 = [w EXCEPT !.io = i2]
  BY Zenon DEF Worlds, IoType
<1>5. w1 \in Worlds /\ Same(w, w1) /\ w2 \in Worlds /\ Same(w, w2)
  BY <1>2, <1>3, <1>4, StreamKeeps, Zenon
<1>6. WakeDispatch(w2) \in Worlds /\ Same(w, WakeDispatch(w2))
  BY <1>5, WakeDispatchKeeps, SameTrans
<1>7. Same(w, w)
  BY DEF Same, SameFlags, SameCalls, SameTimers, SamePlace, Woken
<1>8. Encode(w) \in {w, w1, WakeDispatch(w2)}
  BY DEF Encode
<1>9. QED
  BY <1>5, <1>6, <1>7, <1>8

\* handle_result: one call fewer, whatever the answer was.
LEMMA HandleResultKeeps ==
  ASSUME NEW w \in Worlds, NEW a \in Responses, NEW wake \in BOOLEAN
  PROVE  LET v == HandleResult(w, a, wake) IN
         /\ v \in Worlds
         /\ v.d.inflight = w.d.inflight - 1
         /\ v.d.spawned = w.d.spawned
         /\ v.d.response = w.d.response
         /\ SameFlags(w, v) /\ SameTimers(w, v) /\ SamePlace(w, v) /\ Woken(w, v)
<1> DEFINE w1 == CASE a = "some" -> Encode(w)
              [] a = "unencodable" /\ w.io.life = "open" -> [w EXCEPT !.d.failed = "Encoder"]
              [] a = "err" -> [w EXCEPT !.d.failed = "Service"]
              [] OTHER -> w
           n == w1.d.inflight - 1
           fl == IF n = 0 THEN w1.d.flags \cup {"IDLE"} ELSE w1.d.flags
           w2 == [w1 EXCEPT !.d.inflight = n, !.d.flags = IF n = 0 THEN @ \cup {"IDLE"} ELSE @]
<1>1. \A f \in {"Encoder", "Service"} :
        LET x == [w EXCEPT !.d.failed = f] IN x \in Worlds /\ Same(w, x)
  <2> TAKE f \in {"Encoder", "Service"}
  <2> DEFINE x == [w EXCEPT !.d.failed = f]
  <2>1. x \in Worlds
    BY DEF Worlds, DType
  <2>2. x.d = [w.d EXCEPT !.failed = f] /\ x.io = w.io /\ x.tm = w.tm /\ x.log = w.log
    BY DEF Worlds
  <2>3. QED
    BY <2>1, <2>2 DEF Worlds, DType, Same, SameFlags, SameCalls, SameTimers, SamePlace, Woken
<1>2. Same(w, w)
  BY DEF Same, SameFlags, SameCalls, SameTimers, SamePlace, Woken
<1>3. w1 \in {Encode(w), [w EXCEPT !.d.failed = "Encoder"], [w EXCEPT !.d.failed = "Service"], w}
  OBVIOUS
<1>4. w1 \in Worlds /\ Same(w, w1)
  BY <1>1, <1>2, <1>3, EncodeKeeps
<1> HIDE DEF w1
<1>5. n \in Int /\ fl \in SUBSET AllFlags /\ \A f \in TimerFlags : f \in fl <=> f \in w1.d.flags
  BY <1>4 DEF Worlds, DType, AllFlags, TimerFlags
<1>6. w2.d = [w1.d EXCEPT !.inflight = n, !.flags = fl] /\ w2.io = w1.io /\ w2.tm = w1.tm
      /\ w2.svc = w1.svc /\ w2.log = w1.log
  BY <1>4 DEF Worlds, DType
<1>7. w2 = [w1 EXCEPT !.d = [w1.d EXCEPT !.inflight = n, !.flags = fl]]
  BY <1>4, Zenon DEF Worlds, DType
<1> HIDE DEF n, fl, w2
<1>8. w1.d \in DType
  BY <1>4 DEF Worlds
<1>9. [w1.d EXCEPT !.inflight = n, !.flags = fl] \in DType
  BY <1>5, <1>8, Zenon DEF DType
<1>10. w2 \in Worlds
  BY <1>4, <1>7, <1>9 DEF Worlds
<1>11. w2.d.inflight = n /\ w2.d.flags = fl /\ w2.d.spawned = w1.d.spawned
       /\ w2.d.response = w1.d.response /\ w2.d.st = w1.d.st /\ w2.d.pc = w1.d.pc
       /\ w2.d.woken = w1.d.woken
  BY <1>6, <1>8 DEF DType
<1>12. n = w.d.inflight - 1
  BY <1>4 DEF n, Same, SameCalls
<1>13. /\ w2.d.inflight = w.d.inflight - 1 /\ w2.d.spawned = w.d.spawned
       /\ w2.d.response = w.d.response
       /\ SameFlags(w, w2) /\ SameTimers(w, w2) /\ SamePlace(w, w2) /\ Woken(w, w2)
  BY <1>4, <1>5, <1>6, <1>11, <1>12
     DEF Same, SameFlags, SameCalls, SameTimers, SamePlace, Woken
<1>14. LET v == WakeDispatch(w2) IN v \in Worlds /\ Same(w2, v)
  BY <1>10, WakeDispatchKeeps
<1>15. HandleResult(w, a, wake) \in {w2, WakeDispatch(w2)}
  BY DEF HandleResult, w2, w1, n
<1>16. QED
  BY <1>10, <1>13, <1>14, <1>15
     DEF Same, SameFlags, SameCalls, SameTimers, SamePlace, Woken

\* What the service may answer; an answer that is not Ok(None) uses up the profile's talk.
LEMMA AnswersAre ==
  ASSUME NEW w \in Worlds, cfg \in Profiles, NEW a \in Answers(w)
  PROVE  a \in Responses \ {"empty", "pending"} /\ (a = "none" \/ w.svc.talk > 0)
  BY ProfilesAssumption DEF Answers, Responses, Worlds, SvcType

\* Counting an answer of the service changes nothing the invariant speaks of.
LEMMA CountedKeeps ==
  ASSUME NEW w \in Worlds, NEW a, a = "none" \/ w.svc.talk > 0
  PROVE  Counted(w, a) \in Worlds /\ Same(w, Counted(w, a))
<1> DEFINE v == [w EXCEPT !.svc.talk = @ - 1]
<1>1. Same(w, w)
  BY DEF Same, SameFlags, SameCalls, SameTimers, SamePlace, Woken
<1>2. CASE a = "none"
  BY <1>1, <1>2 DEF Counted
<1>3. CASE a # "none"
  <2>1. w.svc.talk - 1 \in Nat
    BY <1>3 DEF Worlds, SvcType
  <2>2. v \in Worlds
    BY <2>1 DEF Worlds, SvcType
  <2>3. v.d = w.d /\ v.io = w.io /\ v.tm = w.tm /\ v.log = w.log
    BY DEF Worlds
  <2>4. QED
    BY <1>3, <2>2, <2>3
       DEF Counted, Same, SameFlags, SameCalls, SameTimers, SamePlace, Woken
<1>4. QED
  BY <1>2, <1>3

\* The items a service is given, and the history of them.
Items == {<<"Stop", r>> : r \in {"Encoder", "KeepAlive", "Io", "Decoder", "ReadTimeout"}}
         \cup {<<"Enabled">>, <<"Disabled">>, <<"Item">>}
\* What the log of the controls becomes with an item: only Enabled and Disabled change it.
LEMMA GivenIs ==
  ASSUME NEW l \in LogType, NEW item \in Items
  PROVE  /\ Given(l, item) \in LogType
         /\ item = <<"Enabled">> => Given(l, item).bp = IF l.bp = "off" THEN "on" ELSE "bad"
         /\ item = <<"Disabled">> => Given(l, item).bp = IF l.bp = "on" THEN "off" ELSE "bad"
         /\ item \notin {<<"Enabled">>, <<"Disabled">>} => Given(l, item).bp = l.bp
<1>1. CASE item = <<"Enabled">>
  BY <1>1 DEF Given, LogType
<1>2. CASE item = <<"Disabled">>
  BY <1>2 DEF Given, LogType
<1>3. CASE item = <<"Item">>
  BY <1>3 DEF Given, LogType
<1>4. CASE item \in {<<"Stop", r>> : r \in {"Encoder", "KeepAlive", "Io", "Decoder", "ReadTimeout"}}
  <2>1. item[1] = "Stop" /\ item \notin {<<"Enabled">>, <<"Disabled">>}
    BY <1>4
  <2>2. Given(l, item) = [l EXCEPT !.stops = IF @ = 0 THEN 1 ELSE 2]
    BY <2>1 DEF Given
  <2>3. QED
    BY <2>1, <2>2 DEF LogType
<1>5. QED
  BY <1>1, <1>2, <1>3, <1>4 DEF Items

\* call_service: one call more is counted, wherever it is kept.
LEMMA CallServiceKeeps ==
  ASSUME NEW w \in Worlds, cfg \in Profiles, Count(w), NEW item \in Items, NEW nowait \in BOOLEAN,
         NEW v \in CallService(w, item, nowait)
  PROVE  /\ v \in Worlds
         /\ Count(v)
         /\ SameFlags(w, v) /\ SameTimers(w, v) /\ Woken(w, v)
         /\ v.d.st = w.d.st /\ v.d.pc = w.d.pc
         /\ v.log = Given(w.log, item)
<1> DEFINE n == w.d.inflight + 1
           fl == IF n = 1 THEN w.d.flags \ {"IDLE"} ELSE w.d.flags
           d1 == [w.d EXCEPT !.inflight = n, !.flags = fl]
           l1 == Given(w.log, item)
           w1 == [w EXCEPT !.d.inflight = n, !.log = Given(w.log, item),
                      !.d.flags = IF n = 1 THEN @ \ {"IDLE"} ELSE @]
           atOnce == CASE nowait \/ w.svc.ready = "yes" -> Answers(w)
                  [] w.svc.ready = "err" -> Answers(w) \cap {"err"}
                  [] OTHER -> {}
           ans == {HandleResult(Counted(w1, a), a, FALSE) : a \in atOnce}
           kept == [w1 EXCEPT !.d.response = "pending"]
           more == [w1 EXCEPT !.d.spawned = @ + 1]
<1>1. w.d \in DType /\ w.log \in LogType
  BY DEF Worlds
<1>2. n \in Int /\ fl \in SUBSET AllFlags /\ \A f \in TimerFlags : f \in fl <=> f \in w.d.flags
  BY <1>1 DEF DType, AllFlags, TimerFlags
<1>3. w1 = [w EXCEPT !.d = d1, !.log = l1]
  BY <1>1, Zenon DEF Worlds, DType
<1>4. atOnce \subseteq Answers(w)
  OBVIOUS
<1>5. \/ w.d.response = "empty" /\ v \in ans
      \/ w.d.response = "empty" /\ v = kept
      \/ w.d.response # "empty" /\ v = more
  BY Zenon DEF CallService
<1> HIDE DEF fl, w1, atOnce, ans, kept, more, l1
<1>6. l1 \in LogType
  BY <1>1, GivenIs DEF l1
<1>7. d1 \in DType
  BY <1>1, <1>2, Zenon DEF DType
<1>8. /\ d1.inflight = n /\ d1.flags = fl /\ d1.spawned = w.d.spawned
      /\ d1.response = w.d.response /\ d1.st = w.d.st /\ d1.pc = w.d.pc
      /\ d1.woken = w.d.woken
  BY <1>1 DEF DType
<1> HIDE DEF d1
<1>9. /\ w1 \in Worlds /\ w1.d = d1 /\ w1.log = l1 /\ w1.io = w.io /\ w1.tm = w.tm
      /\ w1.svc = w.svc
  BY <1>3, <1>6, <1>7, Zenon DEF Worlds
<1>10. /\ SameFlags(w, w1) /\ SameTimers(w, w1) /\ Woken(w, w1)
       /\ w1.d.st = w.d.st /\ w1.d.pc = w.d.pc /\ w1.log = l1
       /\ w1.d.inflight = Calling(w.d) + 1 /\ w1.d.spawned = w.d.spawned
       /\ w1.d.response = w.d.response
  BY <1>2, <1>8, <1>9 DEF SameFlags, SameTimers, Woken, Count
<1> HIDE DEF n
<1>11. CASE w.d.response = "empty" /\ v \in ans
  <2>1. w.d.response = "empty"
    BY <1>11
  <2>2. PICK a \in atOnce : v = HandleResult(Counted(w1, a), a, FALSE)
    BY <1>11, Zenon DEF ans
  <2>3. a \in Responses /\ (a = "none" \/ w1.svc.talk > 0)
    BY <1>4, <1>9, <2>2, AnswersAre
  <2>4. Counted(w1, a) \in Worlds /\ Same(w1, Counted(w1, a))
    BY <1>9, <2>3, CountedKeeps
  <2> DEFINE x == Counted(w1, a)
  <2> HIDE DEF x
  <2>5. x \in Worlds /\ Same(w1, x) /\ v = HandleResult(x, a, FALSE)
    BY <2>2, <2>4 DEF x
  <2>6. /\ v \in Worlds /\ v.d.inflight = x.d.inflight - 1 /\ v.d.spawned = x.d.spawned
        /\ v.d.response = x.d.response
        /\ SameFlags(x, v) /\ SameTimers(x, v) /\ SamePlace(x, v) /\ Woken(x, v)
    BY <2>3, <2>5, HandleResultKeeps, Zenon
  <2>7. Calling(w.d) \in Int
    BY <1>1 DEF Calling, DType
  <2>8. v.d.inflight = Calling(w.d)
    <3>1. w1.d.inflight = Calling(w.d) + 1
      BY <1>10
    <3>2. x.d.inflight = Calling(w.d) + 1
      BY <2>5, <3>1 DEF Same, SameCalls
    <3>3. v.d.inflight = x.d.inflight - 1
      BY <2>6
    <3>4. QED
      BY <2>7, <3>2, <3>3
  <2>11. Calling(v.d) = Calling(w.d)
    BY <1>10, <2>5, <2>6, Zenon DEF Same, SameCalls, Calling
  <2>9. /\ SameFlags(w, v) /\ SameTimers(w, v) /\ Woken(w, v)
        /\ v.d.st = w.d.st /\ v.d.pc = w.d.pc /\ v.log = l1
    BY <1>10, <2>5, <2>6, Zenon DEF Same, SameFlags, SameTimers, SamePlace, Woken
  <2>10. QED
    BY <2>6, <2>8, <2>9, <2>11 DEF l1, Count
<1>12. CASE w.d.response = "empty" /\ v = kept
  <2>1. kept \in Worlds
    BY <1>9 DEF kept, Worlds, DType, Responses
  <2>2. /\ v.d = [w1.d EXCEPT !.response = "pending"] /\ v.io = w1.io /\ v.tm = w1.tm
        /\ v.log = w1.log
    BY <1>9, <1>12 DEF kept, Worlds
  <2>3. w1.d \in DType
    BY <1>9 DEF Worlds
  <2>4. v.d.response = "pending" /\ v.d.inflight = w1.d.inflight /\ v.d.spawned = w1.d.spawned
        /\ v.d.st = w1.d.st /\ v.d.pc = w1.d.pc /\ v.d.flags = w1.d.flags
        /\ v.d.woken = w1.d.woken
    BY <2>2, <2>3 DEF DType
  <2>5. QED
    BY <1>1, <1>10, <1>12, <2>1, <2>2, <2>4
       DEF Count, Calling, SameFlags, SameTimers, Woken, l1, DType
<1>13. CASE w.d.response # "empty" /\ v = more
  <2>1. more \in Worlds
    BY <1>9 DEF more, Worlds, DType
  <2>2. /\ v.d = [w1.d EXCEPT !.spawned = @ + 1] /\ v.io = w1.io /\ v.tm = w1.tm
        /\ v.log = w1.log
    BY <1>9, <1>13 DEF more, Worlds
  <2>3. w1.d \in DType
    BY <1>9 DEF Worlds
  <2>4. v.d.response = w1.d.response /\ v.d.inflight = w1.d.inflight
        /\ v.d.spawned = w1.d.spawned + 1 /\ v.d.st = w1.d.st /\ v.d.pc = w1.d.pc
        /\ v.d.flags = w1.d.flags /\ v.d.woken = w1.d.woken
    BY <2>2, <2>3 DEF DType
  <2>5. QED
    BY <1>1, <1>10, <1>13, <2>1, <2>2, <2>4
       DEF Count, Calling, SameFlags, SameTimers, Woken, l1, DType
<1>14. QED
  BY <1>5, <1>11, <1>12, <1>13

\* TimerStorage::unregister takes one stream from the set of one key.
LEMMA UnregisterKeeps ==
  ASSUME NEW t \in TmType, NEW key \in Nat, NEW id \in {"io", "other"}
  PROVE  LET u == TimerUnregister(t, key, id) IN
         /\ u \in TmType
         /\ u.running = t.running /\ u.clock = t.clock /\ u.current = t.current
         /\ u.present = t.present
         /\ u.listed = t.listed \ {<<key, id>>}
  BY DEF TimerUnregister, TmType

\* TimerStorage::register lists the stream under the handle it returns and starts the task.
LEMMA RegisterKeeps ==
  ASSUME NEW t \in TmType, NEW timeout \in Nat, NEW id \in {"io", "other"},
         t.current <= t.clock,
         NEW u, u = TimerRegister(t, timeout, id), NEW key, key = NewHandle(t, timeout)
  PROVE  /\ u \in TmType /\ key \in Nat
         /\ u.running
         /\ u.clock = t.clock
         /\ u.current \in Nat /\ t.current <= u.current /\ u.current <= u.clock
         /\ key = u.current + timeout
         /\ key \in u.present /\ t.present \subseteq u.present
         /\ Listed(u, key, id) /\ u.listed = t.listed \cup {<<key, id>>}
<1> DEFINE cur == IF t.running THEN t.current ELSE t.clock
           ls == t.listed \cup {<<key, id>>}
<1>1. cur \in Nat /\ key = cur + timeout /\ t.current <= cur /\ cur <= t.clock
  BY DEF TmType, NewHandle
<1>2. u = [t EXCEPT !.current = cur, !.running = TRUE, !.present = @ \cup {key},
                    !.listed = @ \cup {<<key, id>>}]
  BY <1>1 DEF TimerRegister
<1> HIDE DEF cur
<1>3. /\ u.current = cur /\ u.running = TRUE /\ u.clock = t.clock
      /\ u.present = t.present \cup {key} /\ u.listed = ls
  BY <1>2 DEF TmType
<1>4. ls \in SUBSET (Nat \X {"io", "other"}) /\ t.present \cup {key} \in SUBSET Nat
  BY <1>1 DEF TmType
<1> HIDE DEF ls
<1>5. u \in TmType
  BY <1>1, <1>2, <1>4, Zenon DEF TmType, ls
<1>6. QED
  BY <1>1, <1>3, <1>5 DEF ls, Listed

\* A change of the stream's timer and nothing else.
TimerStep(w, v) ==
  /\ v.d = w.d /\ v.svc = w.svc /\ v.log = w.log
  /\ v.io.waker = w.io.waker /\ v.io.dspTimeout = w.io.dspTimeout /\ v.io.rbuf = w.io.rbuf

\* Replacing timers and stream leaves the calls and the notices alone.
LEMMA TimerWorld ==
  ASSUME NEW w \in Worlds, NEW t \in TmType, NEW i \in IoType,
         i.waker = w.io.waker, i.dspTimeout = w.io.dspTimeout, i.rbuf = w.io.rbuf
  PROVE  LET v == [w EXCEPT !.tm = t, !.io = i] IN
         v \in Worlds /\ TimerStep(w, v) /\ v.tm = t /\ v.io = i
  BY Zenon DEF Worlds, TimerStep

\* start_timer with a timeout: the stream has a live timer, kept or new.
LEMMA StartTimerLives ==
  ASSUME NEW w \in Worlds, Handle(w), NEW timeout \in Nat \ {0}
  PROVE  LET v == StartTimer(w, timeout) IN
         v \in Worlds /\ TimerStep(w, v) /\ Handle(v) /\ Live(v)
<1>0. w.tm \in TmType /\ w.io.hnd \in Nat /\ w.tm.current <= w.tm.clock /\ w.tm.current \in Nat
      /\ timeout \in Nat /\ timeout > 0
  BY DEF Worlds, IoType, TmType, Handle
<1>1. CASE w.io.hnd # 0 /\ KeepsHandle(w.tm, w.io.hnd, timeout)
  <2>1. StartTimer(w, timeout) = w
    BY <1>0, <1>1 DEF StartTimer
  <2>2. w.io.hnd > w.tm.current
    BY <1>0, <1>1 DEF KeepsHandle
  <2>3. Live(w)
    BY <1>0, <1>1, <2>2 DEF Handle
  <2>4. QED
    BY <2>1, <2>3 DEF TimerStep
<1>2. CASE ~(w.io.hnd # 0 /\ KeepsHandle(w.tm, w.io.hnd, timeout))
  <2> DEFINE t == IF w.io.hnd = 0 THEN w.tm ELSE TimerUnregister(w.tm, w.io.hnd, "io")
             u == TimerRegister(t, timeout, "io")
             h == NewHandle(t, timeout)
             i == [w.io EXCEPT !.hnd = h]
             v == [w EXCEPT !.tm = u, !.io = i]
  <2>1. StartTimer(w, timeout) = v
    BY <1>0, <1>2 DEF StartTimer, Worlds
  <2>2. t \in TmType /\ t.current <= t.clock
    BY <1>0, UnregisterKeeps, Zenon
  <2>10. \A k \in Nat : <<k, "io">> \notin t.listed
    <3>1. CASE w.io.hnd = 0
      BY <3>1 DEF Handle
    <3>2. CASE w.io.hnd # 0
      <4>1. t.listed = w.tm.listed \ {<<w.io.hnd, "io">>}
        BY <1>0, <3>2, UnregisterKeeps, Zenon
      <4>2. QED
        BY <4>1 DEF Handle
    <3>3. QED
      BY <3>1, <3>2
  <2> HIDE DEF t, u, h
  <2>3. u \in TmType /\ h \in Nat /\ u.running /\ u.current \in Nat /\ u.current <= u.clock
        /\ h = u.current + timeout /\ h \in u.present /\ Listed(u, h, "io")
        /\ u.listed = t.listed \cup {<<h, "io">>}
    <3>1. u = TimerRegister(t, timeout, "io") /\ h = NewHandle(t, timeout)
      BY DEF u, h
    <3>2. timeout \in Nat /\ "io" \in {"io", "other"}
      OBVIOUS
    <3>3. u \in TmType /\ h \in Nat /\ u.running /\ u.current \in Nat
      BY <2>2, <3>1, <3>2, RegisterKeeps, Zenon
    <3>6. h = u.current + timeout /\ u.current <= u.clock
      BY <2>2, <3>1, <3>2, RegisterKeeps, ZenonT(60)
    <3>7. h \in u.present
      BY <2>2, <3>1, <3>2, RegisterKeeps, Zenon
    <3>4. Listed(u, h, "io")
      BY <2>2, <3>1, <3>2, RegisterKeeps, Zenon
    <3>8. u.listed = t.listed \cup {<<h, "io">>}
      BY <2>2, <3>1 DEF TimerRegister, NewHandle, TmType
    <3>5. QED
      BY <3>3, <3>4, <3>6, <3>7, <3>8
  <2>4. i \in IoType /\ i.hnd = h /\ i.waker = w.io.waker /\ i.dspTimeout = w.io.dspTimeout
        /\ i.rbuf = w.io.rbuf
    BY <2>3 DEF Worlds, IoType
  <2> HIDE DEF i
  <2>9. v \in Worlds /\ TimerStep(w, v) /\ v.tm = u /\ v.io = i
    <3>1. u \in TmType
      BY <2>3
    <3>2. QED
      BY <2>4, <3>1, TimerWorld, ZenonT(60)
  <2> HIDE DEF v
  <2>5. h # 0
    BY <1>0, <2>3
  <2>6. Live(v)
    BY <2>3, <2>4, <2>5, <2>9 DEF Live
  <2>7. Handle(v)
    <3>1. \A k \in Nat : <<k, "io">> \in u.listed => k = h
      BY <2>3, <2>10
    <3>2. QED
      BY <2>3, <2>4, <2>5, <2>6, <2>9, <3>1 DEF Handle
  <2>8. QED
    BY <2>1, <2>6, <2>7, <2>9
<1>3. QED
  BY <1>1, <1>2

\* start_timer with zero seconds is stop_timer.
LEMMA StartTimerZero ==
  ASSUME NEW w \in Worlds
  PROVE  StartTimer(w, 0) = StopTimer(w)
  BY DEF StartTimer, StopTimer

\* stop_timer: no handle is left.
LEMMA StopTimerKeeps ==
  ASSUME NEW w \in Worlds, Handle(w)
  PROVE  LET v == StopTimer(w) IN v \in Worlds /\ TimerStep(w, v) /\ Handle(v) /\ v.io.hnd = 0
<1>1. CASE w.io.hnd = 0
  BY <1>1 DEF StopTimer, TimerStep
<1>2. CASE w.io.hnd # 0
  <2> DEFINE t == TimerUnregister(w.tm, w.io.hnd, "io")
             i == [w.io EXCEPT !.hnd = 0]
             v == [w EXCEPT !.tm = t, !.io = i]
  <2>1. w.tm \in TmType /\ w.io.hnd \in Nat
    BY DEF Worlds, IoType
  <2>2. t \in TmType /\ t.current <= t.clock
    BY <2>1, UnregisterKeeps, Zenon DEF Handle
  <2>7. \A k \in Nat : <<k, "io">> \notin t.listed
    <3>1. t.listed = w.tm.listed \ {<<w.io.hnd, "io">>}
      BY <2>1, UnregisterKeeps, Zenon
    <3>2. QED
      BY <3>1 DEF Handle
  <2>4. StopTimer(w) = v
    BY <1>2, Zenon DEF StopTimer, Worlds
  <2> HIDE DEF t
  <2>3. i \in IoType /\ i.hnd = 0 /\ i.waker = w.io.waker /\ i.dspTimeout = w.io.dspTimeout
        /\ i.rbuf = w.io.rbuf
    BY DEF Worlds, IoType
  <2> HIDE DEF i
  <2>6. v \in Worlds /\ TimerStep(w, v) /\ v.tm = t /\ v.io = i
    BY <2>2, <2>3, TimerWorld, ZenonT(60)
  <2> HIDE DEF v
  <2>5. QED
    BY <2>2, <2>3, <2>4, <2>6, <2>7 DEF Handle
<1>3. QED
  BY <1>1, <1>2

\* notify_timeout: the flag is set, and who waits is woken unless it was set before.
LEMMA NotifyTimeoutKeeps ==
  ASSUME NEW w \in Worlds
  PROVE  LET v == NotifyTimeout(w) IN
         /\ v \in Worlds
         /\ SameFlags(w, v) /\ SameCalls(w, v) /\ SamePlace(w, v) /\ Woken(w, v)
         /\ v.tm = w.tm /\ v.io.hnd = w.io.hnd /\ v.io.dspTimeout
         /\ w.io.waker => v.d.woken \/ w.io.dspTimeout
<1>1. CASE w.io.dspTimeout
  BY <1>1 DEF NotifyTimeout, SameFlags, SameCalls, SamePlace, Woken
<1>2. CASE ~w.io.dspTimeout
  <2> DEFINE i == [w.io EXCEPT !.dspTimeout = TRUE]
             x == [w EXCEPT !.io.dspTimeout = TRUE]
  <2>1. w.io \in IoType
    BY DEF Worlds
  <2>2. i \in IoType /\ i.hnd = w.io.hnd /\ i.waker = w.io.waker /\ i.dspTimeout
    BY <2>1, Zenon DEF IoType
  <2>3. x = [w EXCEPT !.io = i]
    BY DEF Worlds
  <2> HIDE DEF i
  <2>4. x \in Worlds /\ x.d = w.d /\ x.io = i /\ x.tm = w.tm /\ x.log = w.log
    BY <2>2, <2>3 DEF Worlds
  <2>5. NotifyTimeout(w) = WakeDispatch(x)
    BY <1>2 DEF NotifyTimeout
  <2> HIDE DEF x
  <2> DEFINE v == WakeDispatch(x)
  <2>6. v \in Worlds /\ Same(x, v) /\ (x.io.waker => v.d.woken)
    BY <2>4, WakeDispatchKeeps
  <2> HIDE DEF v
  <2>7. /\ SameFlags(w, v) /\ SameCalls(w, v) /\ SamePlace(w, v) /\ Woken(w, v)
        /\ v.tm = w.tm /\ v.io.hnd = w.io.hnd /\ v.io.dspTimeout
        /\ w.io.waker => v.d.woken
    BY <2>2, <2>4, <2>6 DEF Same, SameFlags, SameCalls, SameTimers, SamePlace, Woken
  <2>8. QED
    BY <2>5, <2>6, <2>7 DEF v
<1>3. QED
  BY <1>1, <1>2

\* The timer task: what is due is taken out, and a due timer of the stream is noticed.
LEMMA TimerTurnKeeps ==
  ASSUME NEW w \in Worlds, Handle(w)
  PROVE  LET v == TimerTurn(w) IN
         /\ v \in Worlds
         /\ SameFlags(w, v) /\ SameCalls(w, v) /\ SamePlace(w, v)
         /\ Handle(v)
         /\ Backed(w) => Backed(v)
         /\ Waits(w) => Waits(v)
<1> DEFINE t == w.tm
           due == {k \in t.present : k <= t.current}
           left == t.present \ due
           ls == {x \in t.listed : x[1] \notin due}
           run == left # {}
           t1 == [t EXCEPT !.current = @ + 1, !.clock = @ + 1, !.present = left,
                           !.running = left # {}, !.listed = {x \in @ : x[1] \notin due}]
           w1 == [w EXCEPT !.tm = t1]
           fires == \E k \in due : Listed(t, k, "io")
           v == TimerTurn(w)
<1>1. t \in TmType /\ t.current \in Nat /\ t.clock \in Nat /\ t.present \in SUBSET Nat
      /\ t.current <= t.clock /\ w.io.hnd \in Nat
  BY DEF Worlds, TmType, IoType, Handle
<1>2. v = IF fires THEN NotifyTimeout(w1) ELSE w1
  BY DEF TimerTurn
<1>3. left \in SUBSET Nat /\ ls \in SUBSET (Nat \X {"io", "other"}) /\ run \in BOOLEAN
      /\ t.current + 1 \in Nat /\ t.clock + 1 \in Nat
  BY <1>1 DEF TmType
<1>4. t1.current = t.current + 1 /\ t1.clock = t.clock + 1 /\ t1.present = left
      /\ t1.running = run /\ t1.listed = ls
  BY <1>1 DEF TmType
<1>5. t1 \in TmType
  BY <1>1, <1>3, Zenon DEF TmType
<1> HIDE DEF t1
<1>6. w1 \in Worlds /\ w1.tm = t1 /\ w1.d = w.d /\ w1.io = w.io /\ w1.log = w.log
  BY <1>5 DEF Worlds
<1> HIDE DEF w1
<1>7. Live(w) => IF w.io.hnd \in due THEN fires /\ w.io.hnd <= t.current ELSE Live(w1)
  <2> HAVE Live(w)
  <2>1. CASE w.io.hnd \in due
    BY <2>1 DEF Live
  <2>2. CASE w.io.hnd \notin due
    <3>1. w.io.hnd \in left /\ <<w.io.hnd, "io">> \in ls
      BY <2>2 DEF Live, Listed
    <3>2. QED
      BY <1>4, <1>6, <2>2, <3>1, Zenon DEF Live, Listed
  <2>3. QED
    BY <2>1, <2>2
<1>14. ls \subseteq t.listed
  OBVIOUS
<1> HIDE DEF due, left, ls, run, fires
<1>8. Handle(w1)
  BY <1>1, <1>4, <1>6, <1>7, <1>14 DEF Handle
<1>9. Backed(w) => Backed(w1) \/ fires
  BY <1>6, <1>7 DEF Backed
<1>10. SameFlags(w, w1) /\ SameCalls(w, w1) /\ SamePlace(w, w1) /\ (Waits(w) => Waits(w1))
  BY <1>6 DEF SameFlags, SameCalls, SamePlace, Waits
<1>11. CASE ~fires
  BY <1>2, <1>6, <1>8, <1>9, <1>10, <1>11
<1>12. CASE fires
  <2> HIDE DEF v
  <2>1. v = NotifyTimeout(w1)
    BY <1>2, <1>12
  <2>2. /\ v \in Worlds
        /\ SameFlags(w1, v) /\ SameCalls(w1, v) /\ SamePlace(w1, v) /\ Woken(w1, v)
        /\ v.tm = w1.tm /\ v.io.hnd = w1.io.hnd /\ v.io.dspTimeout
        /\ w1.io.waker => v.d.woken \/ w1.io.dspTimeout
    BY <1>6, <2>1, NotifyTimeoutKeeps
  <2>3. SameFlags(w, v) /\ SameCalls(w, v) /\ SamePlace(w, v)
    BY <1>10, <2>2 DEF SameFlags, SameCalls, SamePlace
  <2>4. Handle(v)
    BY <1>8, <2>2 DEF Handle, Live, Listed
  <2>5. Backed(v)
    BY <2>2 DEF Backed
  <2>6. Waits(w1) => Waits(v)
    BY <2>2 DEF Waits, SamePlace, Woken
  <2>7. QED
    BY <1>10, <2>2, <2>3, <2>4, <2>5, <2>6 DEF v
<1>13. QED
  BY <1>11, <1>12

-----------------------------------------------------------------------------
(* What the polls of the stream and of the service keep.                   *)

\* Like Same, for a poll that may take the timeout notice.
Seen(w, v) ==
  /\ SameFlags(w, v) /\ SameCalls(w, v) /\ SamePlace(w, v) /\ Woken(w, v)
  /\ v.tm = w.tm /\ v.io.hnd = w.io.hnd

\* Same is reflexive.
LEMMA SameRefl ==
  ASSUME NEW w
  PROVE  Same(w, w)
  BY DEF Same, SameFlags, SameCalls, SameTimers, SamePlace, Woken

\* Where nothing changed there is nothing more to see.
LEMMA SameSeen ==
  ASSUME NEW w, NEW v, Same(w, v)
  PROVE  Seen(w, v)
  BY DEF Same, Seen, SameTimers

\* A poll that takes the timeout notice changes nothing else.
LEMMA NoticeTaken ==
  ASSUME NEW w \in Worlds
  PROVE  LET v == [w EXCEPT !.io.dspTimeout = FALSE] IN
         v \in Worlds /\ Seen(w, v) /\ ~v.io.dspTimeout
<1> DEFINE i == [w.io EXCEPT !.dspTimeout = FALSE]
           v == [w EXCEPT !.io.dspTimeout = FALSE]
<1>1. w.io \in IoType
  BY DEF Worlds
<1>2. i \in IoType /\ i.hnd = w.io.hnd /\ i.waker = w.io.waker /\ ~i.dspTimeout
  BY <1>1, Zenon DEF IoType
<1>3. v = [w EXCEPT !.io = i]
  BY DEF Worlds
<1> HIDE DEF i
<1>4. v \in Worlds /\ v.d = w.d /\ v.io = i /\ v.tm = w.tm /\ v.log = w.log
  BY <1>2, <1>3 DEF Worlds
<1>5. QED
  BY <1>2, <1>4, Zenon DEF Seen, SameFlags, SameCalls, SamePlace, Woken

\* poll_recv_decode: only the timeout notice is taken, and only when it is reported; it
\* waits with its waker registered and no notice left.
LEMMA PollRecvDecodeKeeps ==
  ASSUME NEW w \in Worlds
  PROVE  LET q == PollRecvDecode(w) IN
         /\ q.w \in Worlds /\ Seen(w, q.w)
         /\ q.r \in {"Decoder", "item", "PeerGone", "KeepAlive", "WriteBackpressure", "none"}
         /\ q.r # "KeepAlive" => Same(w, q.w)
         /\ q.r = "none" => q.w.io.waker /\ ~q.w.io.dspTimeout
<1> DEFINE frame == w.io.rbuf >= FrameLen
           n == IF frame /\ ~w.io.bad THEN w.io.rbuf - FrameLen ELSE w.io.rbuf
           i1 == [w.io EXCEPT !.rbuf = n]
           i2 == [w.io EXCEPT !.paused = FALSE]
           w1 == [w EXCEPT !.io.rbuf = IF frame /\ ~w.io.bad THEN @ - FrameLen ELSE @]
           w2 == [w EXCEPT !.io.paused = FALSE]
           q == PollRecvDecode(w)
<1>1. w.io \in IoType /\ w.io.rbuf \in Nat /\ n \in Nat
  BY DEF Worlds, IoType, FrameLen
<1>2. w1 = [w EXCEPT !.io = i1] /\ w2 = [w EXCEPT !.io = i2]
  BY DEF Worlds
<1>3. q = IF frame /\ w.io.bad THEN [w |-> w, r |-> "Decoder"]
          ELSE IF frame THEN [w |-> w1, r |-> "item"]
          ELSE IF IsClosed(w) THEN [w |-> w, r |-> "PeerGone"]
          ELSE IF w.io.dspTimeout THEN [w |-> [w EXCEPT !.io.dspTimeout = FALSE], r |-> "KeepAlive"]
          ELSE IF w.io.bp THEN [w |-> w, r |-> "WriteBackpressure"]
          ELSE [w |-> Registered(w2), r |-> "none"]
  BY DEF PollRecvDecode
<1> HIDE DEF n, q
<1>4. i1 \in IoType /\ i1.hnd = w.io.hnd /\ i1.dspTimeout = w.io.dspTimeout /\ i1.waker = w.io.waker
  BY <1>1 DEF IoType
<1>5. i2 \in IoType /\ i2.hnd = w.io.hnd /\ i2.dspTimeout = w.io.dspTimeout /\ i2.waker = w.io.waker
  BY <1>1, Zenon DEF IoType
<1> HIDE DEF i1, i2
<1>6. w1 \in Worlds /\ Same(w, w1) /\ w2 \in Worlds /\ Same(w, w2)
  BY <1>2, <1>4, <1>5, StreamKeeps
<1> HIDE DEF w1, w2, frame
<1>7. /\ Registered(w2) \in Worlds /\ Same(w, Registered(w2)) /\ Registered(w2).io.waker
      /\ Registered(w2).io.dspTimeout = w.io.dspTimeout
  <2>1. Registered(w2) \in Worlds /\ Same(w2, Registered(w2)) /\ Registered(w2).io.waker
    BY <1>6, RegisteredKeeps
  <2>2. Same(w, Registered(w2))
    BY <1>6, <2>1, SameTrans
  <2>3. QED
    BY <2>1, <2>2 DEF Same, SameTimers
<1>8. CASE q = [w |-> w, r |-> "Decoder"]
  BY <1>8, SameRefl, SameSeen DEF q
<1>9. CASE q = [w |-> w1, r |-> "item"]
  BY <1>6, <1>9, SameSeen DEF q
<1>10. CASE q = [w |-> w, r |-> "PeerGone"]
  BY <1>10, SameRefl, SameSeen DEF q
<1>11. CASE q = [w |-> [w EXCEPT !.io.dspTimeout = FALSE], r |-> "KeepAlive"]
  <2> DEFINE x == [w EXCEPT !.io.dspTimeout = FALSE]
  <2>1. x \in Worlds /\ Seen(w, x) /\ ~x.io.dspTimeout
    BY NoticeTaken
  <2> HIDE DEF x
  <2>2. q.w = x /\ q.r = "KeepAlive"
    BY <1>11 DEF x
  <2>3. QED
    BY <2>1, <2>2 DEF q
<1>12. CASE q = [w |-> w, r |-> "WriteBackpressure"]
  BY <1>12, SameRefl, SameSeen DEF q
<1>13. CASE q = [w |-> Registered(w2), r |-> "none"] /\ ~w.io.dspTimeout
  BY <1>7, <1>13, SameSeen DEF q
<1>14. QED
  BY <1>3, <1>8, <1>9, <1>10, <1>11, <1>12, <1>13

\* poll_status_update registers the waker, and waits with no notice left.
LEMMA PollStatusUpdateKeeps ==
  ASSUME NEW w0 \in Worlds
  PROVE  LET p == PollStatusUpdate(w0) IN
         /\ p.w \in Worlds /\ Seen(w0, p.w)
         /\ p.r \in {"PeerGone", "KeepAlive", "WriteBackpressure", "pending"}
         /\ p.w.io.waker
         /\ p.r # "KeepAlive" => Same(w0, p.w)
         /\ p.r = "pending" => ~p.w.io.dspTimeout
<1> DEFINE w == Registered(w0)
           x == [w EXCEPT !.io.dspTimeout = FALSE]
           full == w.io.wbuf > Half
           y == [w EXCEPT !.io.bp = w.io.wbuf > Half]
           i == [w.io EXCEPT !.bp = full]
           p == PollStatusUpdate(w0)
<1>1. w \in Worlds /\ Same(w0, w) /\ w.io.waker
  BY RegisteredKeeps
<1>2. p = IF IsClosed(w) THEN [w |-> w, r |-> "PeerGone"]
          ELSE IF w.io.dspTimeout THEN [w |-> x, r |-> "KeepAlive"]
          ELSE IF w.io.bp THEN [w |-> y, r |-> "WriteBackpressure"]
          ELSE [w |-> w, r |-> "pending"]
  BY DEF PollStatusUpdate
<1> HIDE DEF w, p
<1>3. x \in Worlds /\ Seen(w, x) /\ ~x.io.dspTimeout
  BY <1>1, NoticeTaken
<1>4. x.io.waker
  BY <1>1 DEF Worlds, IoType
<1>5. y = [w EXCEPT !.io = i]
  BY <1>1 DEF Worlds
<1>6. i \in IoType /\ i.hnd = w.io.hnd /\ i.dspTimeout = w.io.dspTimeout /\ i.waker = w.io.waker
  <2>1. w.io \in IoType /\ full \in BOOLEAN
    BY <1>1 DEF Worlds
  <2> HIDE DEF full
  <2>2. i \in IoType
    BY <2>1, Zenon DEF IoType
  <2>3. QED
    BY <2>1, <2>2 DEF IoType
<1> HIDE DEF x, i
<1>7. y \in Worlds /\ Same(w, y) /\ y.io = i
  <2>1. y \in Worlds /\ Same(w, y)
    BY <1>1, <1>5, <1>6, StreamKeeps, Zenon
  <2>2. QED
    BY <1>1, <1>5, <2>1 DEF Worlds
<1> HIDE DEF y
<1>8. Same(w0, y) /\ y.io.waker
  BY <1>1, <1>6, <1>7, SameTrans, Zenon
<1>9. Seen(w0, x)
  BY <1>1, <1>3 DEF Same, Seen, SameFlags, SameCalls, SameTimers, SamePlace, Woken
<1>10. CASE p = [w |-> w, r |-> "PeerGone"]
  BY <1>1, <1>10, SameSeen DEF p
<1>11. CASE p = [w |-> x, r |-> "KeepAlive"]
  BY <1>3, <1>4, <1>9, <1>11 DEF p
<1>12. CASE p = [w |-> y, r |-> "WriteBackpressure"]
  BY <1>7, <1>8, <1>12, SameSeen DEF p
<1>13. CASE p = [w |-> w, r |-> "pending"] /\ ~w.io.dspTimeout
  BY <1>1, <1>13, SameSeen DEF p
<1>14. QED
  BY <1>2, <1>10, <1>11, <1>12, <1>13

\* poll_flush and poll_shutdown leave alone what the invariant is about.
LEMMA PollFlushKeeps ==
  ASSUME NEW w \in Worlds, NEW full \in BOOLEAN
  PROVE  LET f == PollFlush(w, full) IN
         f.w \in Worlds /\ Same(w, f.w) /\ f.r \in {"err", "pending", "ok"}
<1> DEFINE i1 == [w.io EXCEPT !.bp = FALSE, !.flush = FALSE]
           i2 == [w.io EXCEPT !.flush = TRUE]
           i3 == [w.io EXCEPT !.bp = TRUE]
           ok == [w EXCEPT !.io.bp = FALSE, !.io.flush = FALSE]
           a == [w EXCEPT !.io.flush = TRUE]
           b == [w EXCEPT !.io.bp = TRUE]
           f == PollFlush(w, full)
<1>1. w.io \in IoType
  BY DEF Worlds
<1>2. ok = [w EXCEPT !.io = i1] /\ a = [w EXCEPT !.io = i2] /\ b = [w EXCEPT !.io = i3]
  BY Zenon DEF Worlds, IoType
<1>3. f \in {[w |-> w, r |-> "err"], [w |-> Registered(a), r |-> "pending"],
             [w |-> Registered(b), r |-> "pending"], [w |-> ok, r |-> "ok"]}
  BY DEF PollFlush
<1>4. i1 \in IoType /\ i1.hnd = w.io.hnd /\ i1.dspTimeout = w.io.dspTimeout /\ i1.waker = w.io.waker
  BY <1>1, Zenon DEF IoType
<1>5. i2 \in IoType /\ i2.hnd = w.io.hnd /\ i2.dspTimeout = w.io.dspTimeout /\ i2.waker = w.io.waker
  BY <1>1, Zenon DEF IoType
<1>6. i3 \in IoType /\ i3.hnd = w.io.hnd /\ i3.dspTimeout = w.io.dspTimeout /\ i3.waker = w.io.waker
  BY <1>1, Zenon DEF IoType
<1> HIDE DEF i1, i2, i3, f
<1>7. ok \in Worlds /\ Same(w, ok)
  BY <1>2, <1>4, StreamKeeps
<1>8. a \in Worlds /\ Same(w, a)
  BY <1>2, <1>5, StreamKeeps
<1>9. b \in Worlds /\ Same(w, b)
  BY <1>2, <1>6, StreamKeeps
<1> HIDE DEF ok, a, b
<1>10. Registered(a) \in Worlds /\ Same(w, Registered(a))
  BY <1>8, RegisteredKeeps, SameTrans
<1>11. Registered(b) \in Worlds /\ Same(w, Registered(b))
  BY <1>9, RegisteredKeeps, SameTrans
<1>12. QED
  BY <1>3, <1>7, <1>10, <1>11, SameRefl DEF f

\* Io::poll_shutdown leaves calls, flags and timers alone.
LEMMA PollShutdownKeeps ==
  ASSUME NEW w \in Worlds
  PROVE  LET s == PollShutdown(w) IN
         s.w \in Worlds /\ Same(w, s.w) /\ s.r \in {"ready", "pending"}
<1> DEFINE i == [w.io EXCEPT !.life = "filters", !.paused = FALSE]
           a == [w EXCEPT !.io.life = "filters", !.io.paused = FALSE]
           s == PollShutdown(w)
<1>1. w.io \in IoType
  BY DEF Worlds
<1>2. a = [w EXCEPT !.io = i]
  BY Zenon DEF Worlds, IoType
<1>3. s \in {[w |-> w, r |-> "ready"], [w |-> Registered(a), r |-> "pending"]}
  BY DEF PollShutdown
<1>4. i \in IoType /\ i.hnd = w.io.hnd /\ i.dspTimeout = w.io.dspTimeout /\ i.waker = w.io.waker
  BY <1>1, Zenon DEF IoType
<1> HIDE DEF i, s
<1>5. a \in Worlds /\ Same(w, a)
  BY <1>2, <1>4, StreamKeeps
<1> HIDE DEF a
<1>6. Registered(a) \in Worlds /\ Same(w, Registered(a))
  BY <1>5, RegisteredKeeps, SameTrans
<1>7. QED
  BY <1>3, <1>6, SameRefl DEF s

\* What holds in every turn of the loop that may go on working.
Sound(w) == Count(w) /\ Handle(w) /\ Backed(w) /\ Configured(w)

\* A change of the dispatcher's own record keeps the timer and, with the flags and the calls,
\* what is said of them.
LEMMA DspSound ==
  ASSUME NEW w, NEW v, v.io = w.io, v.tm = w.tm
  PROVE  /\ Handle(w) => Handle(v)
         /\ SameFlags(w, v) /\ Backed(w) => Backed(v)
         /\ v.d.flags \cap Timers = {} => Backed(v)
         /\ SameFlags(w, v) /\ Configured(w) => Configured(v)
         /\ SameCalls(w, v) /\ Count(w) => Count(v)
<1>1. Live(w) <=> Live(v)
  BY DEF Live, Listed
<1>2. Handle(w) => Handle(v)
  BY <1>1 DEF Handle
<1>3. SameFlags(w, v) /\ Backed(w) => Backed(v)
  BY <1>1 DEF SameFlags, TimerFlags, Timers, Backed, Untimed
<1>4. v.d.flags \cap Timers = {} => Backed(v)
  BY DEF Backed
<1>5. SameFlags(w, v) /\ Configured(w) => Configured(v)
  BY DEF SameFlags, TimerFlags, Configured
<1>6. SameCalls(w, v) /\ Count(w) => Count(v)
  BY DEF SameCalls, Count, Calling
<1>7. QED
  BY <1>2, <1>3, <1>4, <1>5, <1>6

\* check_error: a kept error of the service or of the codec makes the dispatcher stop.
LEMMA CheckErrorKeeps ==
  ASSUME NEW w \in Worlds, Sound(w)
  PROVE  LET p == CheckError(w) IN
         /\ p.w \in Worlds /\ Sound(p.w) /\ p.w.log = w.log /\ p.w.d.pc = w.d.pc
         /\ p.r \in {"ready", "item", "continue"}
         /\ p.r = "ready" => p.w = w
         /\ p.r = "item" => p.w.d.st = "Stop" /\ p.item = <<"Stop", "Encoder">>
         /\ p.r = "continue" => p.w.d.st = "Stop"
<1> DEFINE x1 == [w.d EXCEPT !.failed = "none", !.st = "Stop"]
           x2 == [w.d EXCEPT !.failed = "none", !.st = "Stop", !.error = TRUE]
           v1 == [w EXCEPT !.d.failed = "none", !.d.st = "Stop"]
           v2 == [w EXCEPT !.d.failed = "none", !.d.st = "Stop", !.d.error = TRUE]
           p == CheckError(w)
<1>1. w.d \in DType
  BY DEF Worlds
<1>2. v1 = [w EXCEPT !.d = x1] /\ v2 = [w EXCEPT !.d = x2]
  BY Zenon DEF Worlds, DType
<1>3. x1 \in DType /\ x1.st = "Stop" /\ x1.pc = w.d.pc /\ x1.flags = w.d.flags
      /\ x1.inflight = w.d.inflight /\ x1.spawned = w.d.spawned /\ x1.response = w.d.response
  BY <1>1, Zenon DEF DType
<1>4. x2 \in DType /\ x2.st = "Stop" /\ x2.pc = w.d.pc /\ x2.flags = w.d.flags
      /\ x2.inflight = w.d.inflight /\ x2.spawned = w.d.spawned /\ x2.response = w.d.response
  BY <1>1, Zenon DEF DType
<1>5. \/ p = [w |-> w, r |-> "ready"]
      \/ p = [w |-> v1, r |-> "item", item |-> <<"Stop", "Encoder">>]
      \/ p = [w |-> v2, r |-> "continue"]
  BY <1>1 DEF CheckError, DType
<1> HIDE DEF x1, x2, p, v1, v2
<1>6. v1 \in Worlds /\ v1.d = x1 /\ v1.io = w.io /\ v1.tm = w.tm /\ v1.log = w.log
  BY <1>2, <1>3 DEF Worlds
<1>7. v2 \in Worlds /\ v2.d = x2 /\ v2.io = w.io /\ v2.tm = w.tm /\ v2.log = w.log
  BY <1>2, <1>4 DEF Worlds
<1>8. Sound(v1)
  BY <1>3, <1>6, DspSound DEF Sound, SameFlags, SameCalls
<1>9. Sound(v2)
  BY <1>4, <1>7, DspSound DEF Sound, SameFlags, SameCalls
<1>10. CASE p = [w |-> w, r |-> "ready"]
  BY <1>10 DEF p
<1>11. CASE p = [w |-> v1, r |-> "item", item |-> <<"Stop", "Encoder">>]
  BY <1>3, <1>6, <1>8, <1>11 DEF p
<1>12. CASE p = [w |-> v2, r |-> "continue"]
  BY <1>4, <1>7, <1>9, <1>12 DEF p
<1>13. QED
  BY <1>5, <1>10, <1>11, <1>12

\* A dispatcher whose timeout flags are cleared needs no timer: any handle that is sound will
\* do, and the poll may take the notice.
Quiet(w) == w.d.flags \cap Timers = {} /\ Count(w) /\ Handle(w) /\ Configured(w)

\* Without a timeout flag nothing has to be backed by a timer.
LEMMA QuietSound ==
  ASSUME NEW w, Quiet(w)
  PROVE  Sound(w)
  BY DEF Quiet, Sound, Backed

\* Without a timeout flag it stays so, whatever else happens to the stream.
LEMMA SeenQuiet ==
  ASSUME NEW w, NEW v, Seen(w, v), Quiet(w)
  PROVE  Quiet(v)
<1>1. Live(w) <=> Live(v)
  BY DEF Seen, Live, Listed
<1>2. Handle(v)
  BY <1>1 DEF Quiet, Seen, Handle
<1>3. Count(v)
  BY DEF Quiet, Seen, SameCalls, Count, Calling
<1>4. Configured(v) /\ v.d.flags \cap Timers = {}
  BY DEF Quiet, Seen, SameFlags, TimerFlags, Timers, Configured
<1>5. QED
  BY <1>2, <1>3, <1>4 DEF Quiet

\* poll_service while the service is not ready: the timers are stopped and the stream polled.
LEMMA UnreadyPolls ==
  ASSUME NEW w \in Worlds, Sound(w), NEW w1, NEW p,
         w1 = StopTimer([w EXCEPT !.d.flags = @ \ (Timers \cup {"IDLE"}), !.svc.waker = TRUE]),
         p = PollReadPause(w1)
  PROVE  /\ p.w \in Worlds /\ Quiet(p.w)
         /\ p.w.log = w.log /\ p.w.d.pc = w.d.pc /\ p.w.d.st = w.d.st
         /\ p.r \in {"PeerGone", "KeepAlive", "WriteBackpressure", "pending"}
         /\ p.w.io.waker
         /\ p.r = "pending" => ~p.w.io.dspTimeout
<1> DEFINE fl == w.d.flags \ (Timers \cup {"IDLE"})
           x == [w.d EXCEPT !.flags = fl]
           y == [w.svc EXCEPT !.waker = TRUE]
           w0 == [w EXCEPT !.d.flags = @ \ (Timers \cup {"IDLE"}), !.svc.waker = TRUE]
<1>1. w.d \in DType /\ w.svc \in SvcType
  BY DEF Worlds
<1>2. w0 = [w EXCEPT !.d = x, !.svc = y]
  BY DEF Worlds, DType
<1>3. fl \in SUBSET AllFlags /\ fl \cap Timers = {} /\ ("KA_ENABLED" \in fl => "KA_ENABLED" \in w.d.flags)
      /\ "READ_TIMEOUT" \notin fl
  BY <1>1 DEF DType, Timers
<1> HIDE DEF fl
<1>4. x \in DType /\ x.flags = fl /\ x.inflight = w.d.inflight /\ x.spawned = w.d.spawned
      /\ x.response = w.d.response /\ x.st = w.d.st /\ x.pc = w.d.pc
  BY <1>1, <1>3 DEF DType
<1>5. y \in SvcType
  BY <1>1, Zenon DEF SvcType
<1>6. w1 = StopTimer(w0)
  OBVIOUS
<1> HIDE DEF x, y, w0
<1>7. w0 \in Worlds /\ w0.d = x /\ w0.io = w.io /\ w0.tm = w.tm /\ w0.log = w.log
  BY <1>2, <1>4, <1>5, Zenon DEF Worlds
<1>8. Handle(w0)
  BY <1>7, DspSound DEF Sound
<1>9. w1 \in Worlds /\ TimerStep(w0, w1) /\ Handle(w1)
  BY <1>6, <1>7, <1>8, StopTimerKeeps
<1>10. w1.d = x /\ w1.log = w.log
  BY <1>7, <1>9 DEF TimerStep
<1>11. Quiet(w1)
  BY <1>3, <1>4, <1>9, <1>10 DEF Quiet, Sound, Count, Calling, Configured
<1> DEFINE i == [w1.io EXCEPT !.paused = TRUE]
           w2 == [w1 EXCEPT !.io.paused = TRUE]
<1>12. p = PollStatusUpdate(w2)
  BY DEF PollReadPause
<1>13. w2 = [w1 EXCEPT !.io = i]
  BY <1>9 DEF Worlds
<1>14. i \in IoType /\ i.hnd = w1.io.hnd /\ i.dspTimeout = w1.io.dspTimeout /\ i.waker = w1.io.waker
  BY <1>9, ZenonT(60) DEF Worlds, IoType
<1> HIDE DEF i
<1>15. w2 \in Worlds /\ Same(w1, w2)
  BY <1>9, <1>13, <1>14, StreamKeeps
<1> HIDE DEF w2
<1>16. Quiet(w2) /\ w2.log = w.log /\ w2.d.st = w.d.st /\ w2.d.pc = w.d.pc
  BY <1>4, <1>10, <1>11, <1>15, SameSeen, SeenQuiet DEF Same, SamePlace
<1>17. /\ p.w \in Worlds /\ Seen(w2, p.w)
       /\ p.r \in {"PeerGone", "KeepAlive", "WriteBackpressure", "pending"}
       /\ p.w.io.waker
       /\ p.r = "pending" => ~p.w.io.dspTimeout
  BY <1>12, <1>15, PollStatusUpdateKeeps
<1>18. Quiet(p.w)
  BY <1>16, <1>17, SeenQuiet
<1>19. QED
  BY <1>16, <1>17, <1>18 DEF Seen, SamePlace

\* The result of poll_service: what it says about the state the dispatcher goes to.
Polled(w, p) ==
  /\ p.w \in Worlds /\ Sound(p.w) /\ p.w.log = w.log /\ p.w.d.pc = w.d.pc
  /\ p.r \in {"pending", "ready", "item", "wait", "continue"}
  /\ p.r = "pending" => p.w.d.st = w.d.st /\ p.w.io.waker /\ ~p.w.io.dspTimeout
  /\ p.r = "ready" => p.w = w
  /\ p.r = "continue" => p.w.d.st \in {w.d.st, "Stop"}
  /\ p.r = "item" => p.w.d.st = "Stop" /\ p.item = <<"Stop", "Encoder">>
  /\ p.r = "wait" =>
       \/ p.item = <<"Enabled">> /\ p.w.d.st = "Backpressure"
       \/ p.item \in {<<"Stop", "KeepAlive">>, <<"Stop", "Io">>} /\ p.w.d.st = "Stop"

\* Setting the state of the dispatcher.
LEMMA StateSet ==
  ASSUME NEW w \in Worlds, NEW st \in {"Processing", "Backpressure", "Stop", "Shutdown"}
  PROVE  LET v == [w EXCEPT !.d.st = st] IN
         /\ v \in Worlds
         /\ v.d.st = st /\ v.d.pc = w.d.pc /\ v.d.woken = w.d.woken /\ v.d.inflight = w.d.inflight
         /\ v.io = w.io /\ v.tm = w.tm /\ v.log = w.log /\ v.svc = w.svc
         /\ SameFlags(w, v) /\ SameCalls(w, v)
         /\ Sound(w) => Sound(v)
<1> DEFINE x == [w.d EXCEPT !.st = st]
           v == [w EXCEPT !.d.st = st]
<1>1. w.d \in DType
  BY DEF Worlds
<1>2. x \in DType /\ x.flags = w.d.flags /\ x.inflight = w.d.inflight /\ x.spawned = w.d.spawned
      /\ x.response = w.d.response /\ x.st = st /\ x.pc = w.d.pc /\ x.woken = w.d.woken
  BY <1>1 DEF DType
<1>3. v = [w EXCEPT !.d = x]
  BY DEF Worlds
<1> HIDE DEF x, v
<1>4. v \in Worlds /\ v.d = x /\ v.io = w.io /\ v.tm = w.tm /\ v.log = w.log /\ v.svc = w.svc
  BY <1>2, <1>3 DEF Worlds
<1>5. SameFlags(w, v) /\ SameCalls(w, v)
  BY <1>2, <1>4 DEF SameFlags, SameCalls
<1>6. Sound(w) => Sound(v)
  BY <1>4, <1>5, DspSound DEF Sound
<1>7. QED
  BY <1>2, <1>4, <1>5, <1>6 DEF v

\* poll_service in each of its answers: ready, pending, or an error of the service.
LEMMA PollServiceKeeps ==
  ASSUME NEW w \in Worlds, Sound(w)
  PROVE  Polled(w, PollService(w))
<1> DEFINE q == PollService(w)
<1>1. w.svc.ready \in {"yes", "no", "err"} /\ w.d \in DType
  BY DEF Worlds, SvcType
<1>2. CASE w.svc.ready = "yes"
  <2>1. q = CheckError(w)
    BY <1>2 DEF PollService
  <2> HIDE DEF q
  <2>2. /\ q.w \in Worlds /\ Sound(q.w) /\ q.w.log = w.log /\ q.w.d.pc = w.d.pc
        /\ q.r \in {"ready", "item", "continue"}
        /\ q.r = "ready" => q.w = w
        /\ q.r = "item" => q.w.d.st = "Stop" /\ q.item = <<"Stop", "Encoder">>
        /\ q.r = "continue" => q.w.d.st = "Stop"
    BY <2>1, CheckErrorKeeps
  <2>3. QED
    BY <2>2 DEF Polled, q
<1>3. CASE w.svc.ready = "err"
  <2> DEFINE fl == w.d.flags \cup {"READY_ERR"}
             x == [w.d EXCEPT !.st = "Stop", !.error = TRUE, !.flags = fl]
             v == [w EXCEPT !.d.st = "Stop", !.d.error = TRUE, !.d.flags = @ \cup {"READY_ERR"}]
  <2>1. q = [w |-> v, r |-> "continue"]
    BY <1>3 DEF PollService
  <2>2. v = [w EXCEPT !.d = x]
    BY Zenon DEF Worlds, DType
  <2>3. fl \in SUBSET AllFlags /\ \A f \in TimerFlags : f \in fl <=> f \in w.d.flags
    BY <1>1 DEF DType, AllFlags, TimerFlags
  <2> HIDE DEF fl, v, q
  <2>4. x \in DType /\ x.flags = fl /\ x.inflight = w.d.inflight /\ x.spawned = w.d.spawned
        /\ x.response = w.d.response /\ x.st = "Stop" /\ x.pc = w.d.pc
    BY <1>1, <2>3, Zenon DEF DType
  <2> HIDE DEF x
  <2>5. v \in Worlds /\ v.d = x /\ v.io = w.io /\ v.tm = w.tm /\ v.log = w.log
    BY <2>2, <2>4 DEF Worlds
  <2>6. Sound(v)
    BY <2>3, <2>4, <2>5, DspSound DEF Sound, SameFlags, SameCalls
  <2>7. q.w = v /\ q.r = "continue"
    BY <2>1
  <2>8. QED
    BY <2>4, <2>5, <2>6, <2>7 DEF Polled, q
<1>4. CASE w.svc.ready = "no"
  <2> DEFINE w1 == StopTimer([w EXCEPT !.d.flags = @ \ (Timers \cup {"IDLE"}), !.svc.waker = TRUE])
             p == PollReadPause(w1)
             a == [p.w EXCEPT !.d.st = "Stop"]
             b == [p.w EXCEPT !.d.st = "Backpressure"]
  <2>1. q = CASE p.r = "pending" -> [w |-> p.w, r |-> "pending"]
              [] p.r = "KeepAlive" /\ ~Has(w, "KA_ENABLED") -> [w |-> p.w, r |-> "continue"]
              [] p.r = "KeepAlive" /\ Has(w, "KA_ENABLED") ->
                   [w |-> a, r |-> "wait", item |-> <<"Stop", "KeepAlive">>]
              [] p.r = "PeerGone" -> [w |-> a, r |-> "wait", item |-> <<"Stop", "Io">>]
              [] p.r = "WriteBackpressure" -> [w |-> b, r |-> "wait", item |-> <<"Enabled">>]
    BY <1>4, Zenon DEF PollService
  <2> HIDE DEF w1, p
  <2>2. /\ p.w \in Worlds /\ Quiet(p.w)
        /\ p.w.log = w.log /\ p.w.d.pc = w.d.pc /\ p.w.d.st = w.d.st
        /\ p.r \in {"PeerGone", "KeepAlive", "WriteBackpressure", "pending"}
        /\ p.w.io.waker
        /\ p.r = "pending" => ~p.w.io.dspTimeout
    BY UnreadyPolls, Zenon DEF w1, p
  <2>3. Sound(p.w)
    BY <2>2, QuietSound, SMTT(30)
  <2>4. a \in Worlds /\ Sound(a) /\ a.log = w.log /\ a.d.pc = w.d.pc /\ a.d.st = "Stop"
    BY <2>2, <2>3, StateSet, Zenon
  <2>5. b \in Worlds /\ Sound(b) /\ b.log = w.log /\ b.d.pc = w.d.pc /\ b.d.st = "Backpressure"
    BY <2>2, <2>3, StateSet, ZenonT(60)
  <2> HIDE DEF a, b, q
  <2>6. CASE p.r = "pending"
    <3>1. q.w = p.w /\ q.r = "pending"
      BY <2>1, <2>6
    <3>2. QED
      BY <2>2, <2>3, <2>6, <3>1 DEF Polled, q
  <2>7. CASE p.r = "KeepAlive" /\ ~Has(w, "KA_ENABLED")
    <3>1. q.w = p.w /\ q.r = "continue"
      BY <2>1, <2>7
    <3>2. QED
      BY <2>2, <2>3, <3>1 DEF Polled, q
  <2>8. CASE p.r = "KeepAlive" /\ Has(w, "KA_ENABLED")
    <3>1. q.w = a /\ q.r = "wait" /\ q.item = <<"Stop", "KeepAlive">>
      BY <2>1, <2>8
    <3>2. QED
      BY <2>4, <3>1 DEF Polled, q
  <2>9. CASE p.r = "PeerGone"
    <3>1. q.w = a /\ q.r = "wait" /\ q.item = <<"Stop", "Io">>
      BY <2>1, <2>9
    <3>2. QED
      BY <2>4, <3>1 DEF Polled, q
  <2>10. CASE p.r = "WriteBackpressure"
    <3>1. q.w = b /\ q.r = "wait" /\ q.item = <<"Enabled">>
      BY <2>1, <2>10
    <3>2. QED
      BY <2>5, <3>1 DEF Polled, q
  <2>11. QED
    BY <2>2, <2>6, <2>7, <2>8, <2>9, <2>10, SMTT(30)
<1>5. QED
  BY <1>1, <1>2, <1>3, <1>4

\* A timer that is started behind new flags makes them backed.
LEMMA FlagsStarted ==
  ASSUME NEW w \in Worlds, cfg \in Profiles, Count(w), Handle(w), NEW x \in DType,
         NEW timeout \in Nat, timeout = 0 => Untimed(x),
         NEW v, v = StartTimer([w EXCEPT !.d = x], timeout),
         x.inflight = w.d.inflight, x.spawned = w.d.spawned, x.response = w.d.response,
         x.st = w.d.st, x.pc = w.d.pc,
         "KA_ENABLED" \in x.flags => cfg.ka # 0,
         "READ_TIMEOUT" \in x.flags => cfg.rate # <<>>
  PROVE  /\ v \in Worlds /\ Sound(v) /\ SameCalls(w, v) /\ SamePlace(w, v)
         /\ v.io.waker = w.io.waker /\ v.io.dspTimeout = w.io.dspTimeout
<1> DEFINE u == [w EXCEPT !.d = x]
<1>1. u \in Worlds /\ u.d = x /\ u.io = w.io /\ u.tm = w.tm /\ u.log = w.log
  BY DEF Worlds
<1> HIDE DEF u
<1>2. v = StartTimer(u, timeout)
  BY DEF u
<1>3. Handle(u)
  BY <1>1, DspSound, ZenonT(60)
<1>4. v \in Worlds /\ TimerStep(u, v) /\ Handle(v) /\ (timeout # 0 => Live(v))
  BY <1>1, <1>2, <1>3, StartTimerLives, StartTimerZero, StopTimerKeeps
<1>5. v.d = x /\ v.log = w.log /\ v.io.waker = w.io.waker /\ v.io.dspTimeout = w.io.dspTimeout
  BY <1>1, <1>4 DEF TimerStep
<1>6. Count(v) /\ SameCalls(w, v) /\ SamePlace(w, v)
  BY <1>5 DEF Count, Calling, SameCalls, SamePlace
<1>7. Backed(v) /\ Configured(v)
  BY <1>4, <1>5 DEF Backed, Configured
<1>8. QED
  BY <1>4, <1>5, <1>6, <1>7 DEF Sound

\* update_timer: a timeout flag that is set has a timer started behind it.
LEMMA UpdateTimerKeeps ==
  ASSUME NEW w \in Worlds, cfg \in Profiles, Sound(w), NEW item \in BOOLEAN
  PROVE  LET v == UpdateTimer(w, item) IN
         /\ v \in Worlds /\ Sound(v) /\ SameCalls(w, v) /\ SamePlace(w, v)
         /\ v.io.waker = w.io.waker /\ v.io.dspTimeout = w.io.dspTimeout
<1> DEFINE v == UpdateTimer(w, item)
           n == w.io.rbuf
<1>1. w.d \in DType /\ n \in Nat /\ Count(w) /\ Handle(w)
  BY DEF Worlds, IoType, Sound
<1>2. CASE item
  <2> DEFINE fl == w.d.flags \ (Timers \cup {"IDLE"})
             x == [w.d EXCEPT !.remains = 0, !.flags = fl]
  <2>1. v = [w EXCEPT !.d.remains = 0, !.d.flags = @ \ (Timers \cup {"IDLE"})]
    BY <1>2 DEF UpdateTimer
  <2>2. v = [w EXCEPT !.d = x]
    BY <2>1, Zenon DEF Worlds, DType
  <2>3. fl \in SUBSET AllFlags /\ fl \cap Timers = {}
        /\ ("KA_ENABLED" \in fl => "KA_ENABLED" \in w.d.flags) /\ "READ_TIMEOUT" \notin fl
    BY <1>1 DEF DType, Timers
  <2> HIDE DEF fl, v
  <2>4. x \in DType /\ x.flags = fl /\ x.inflight = w.d.inflight /\ x.spawned = w.d.spawned
        /\ x.response = w.d.response /\ x.st = w.d.st /\ x.pc = w.d.pc
    BY <1>1, <2>3, Zenon DEF DType
  <2> HIDE DEF x
  <2>5. v \in Worlds /\ v.d = x /\ v.io = w.io /\ v.tm = w.tm /\ v.log = w.log
    BY <2>2, <2>4 DEF Worlds
  <2>6. SameCalls(w, v) /\ SamePlace(w, v)
    BY <2>4, <2>5 DEF SameCalls, SamePlace
  <2>7. Handle(v) /\ Count(v) /\ Backed(v)
    BY <1>1, <2>3, <2>4, <2>5, <2>6, DspSound
  <2>8. Configured(v)
    BY <2>3, <2>4, <2>5 DEF Sound, Configured
  <2>9. QED
    BY <2>5, <2>6, <2>7, <2>8 DEF Sound, v
<1>3. CASE ~item /\ Has(w, "READ_TIMEOUT")
  <2> DEFINE x == [w.d EXCEPT !.remains = n]
  <2>1. v = [w EXCEPT !.d.remains = n]
    BY <1>3 DEF UpdateTimer
  <2>2. v = [w EXCEPT !.d = x]
    BY <2>1 DEF Worlds
  <2> HIDE DEF v, n
  <2>3. x \in DType /\ x.flags = w.d.flags /\ x.inflight = w.d.inflight
        /\ x.spawned = w.d.spawned /\ x.response = w.d.response /\ x.st = w.d.st
        /\ x.pc = w.d.pc
    BY <1>1 DEF DType
  <2> HIDE DEF x
  <2>4. v \in Worlds /\ v.d = x /\ v.io = w.io /\ v.tm = w.tm /\ v.log = w.log
    BY <2>2, <2>3 DEF Worlds
  <2>5. SameCalls(w, v) /\ SamePlace(w, v) /\ SameFlags(w, v)
    BY <2>3, <2>4 DEF SameCalls, SamePlace, SameFlags
  <2>6. Sound(v)
    BY <2>4, <2>5, DspSound DEF Sound
  <2>7. QED
    BY <2>4, <2>5, <2>6 DEF v
<1>4. CASE v = w
  BY <1>4 DEF SameCalls, SamePlace
<1>5. CASE Has(w, "KA_ENABLED") /\ v = StartTimer([w EXCEPT !.d.flags = @ \cup {"KA_TIMEOUT"}], cfg.ka)
           /\ ~Has(w, "READ_TIMEOUT")
  <2> DEFINE fl == w.d.flags \cup {"KA_TIMEOUT"}
             x == [w.d EXCEPT !.flags = fl]
  <2>1. v = StartTimer([w EXCEPT !.d = x], cfg.ka)
    BY <1>5 DEF Worlds
  <2>2. cfg.ka \in Nat \ {0}
    BY <1>5, ProfilesAssumption DEF Sound, Configured, Has
  <2>3. fl \in SUBSET AllFlags /\ "READ_TIMEOUT" \notin fl
    BY <1>1, <1>5 DEF DType, AllFlags, Has
  <2> HIDE DEF fl, v
  <2>4. x \in DType /\ x.flags = fl /\ x.inflight = w.d.inflight /\ x.spawned = w.d.spawned
        /\ x.response = w.d.response /\ x.st = w.d.st /\ x.pc = w.d.pc
    BY <1>1, <2>3 DEF DType
  <2> HIDE DEF x
  <2>5. ("KA_ENABLED" \in x.flags => cfg.ka # 0) /\ ("READ_TIMEOUT" \in x.flags => cfg.rate # <<>>)
    BY <2>2, <2>3, <2>4
  <2>6. QED
    BY <1>1, <2>1, <2>2, <2>4, <2>5, FlagsStarted DEF v
<1>6. CASE /\ cfg.rate # <<>>
           /\ v = StartTimer([w EXCEPT !.d.flags = @ \cup {"READ_TIMEOUT"}, !.d.remains = n,
                               !.d.prev = 0, !.d.maxto = cfg.rate[2]], cfg.rate[1])
  <2> DEFINE fl == w.d.flags \cup {"READ_TIMEOUT"}
             m == cfg.rate[2]
             x == [w.d EXCEPT !.flags = fl, !.remains = n, !.prev = 0, !.maxto = m]
  <2>1. v = StartTimer([w EXCEPT !.d = x], cfg.rate[1])
    BY <1>6, Zenon DEF Worlds, DType
  <2>2. cfg.rate[1] \in Nat /\ m \in Nat
    BY <1>6, ProfilesAssumption
  <2>3. fl \in SUBSET AllFlags /\ ("KA_ENABLED" \in fl => "KA_ENABLED" \in w.d.flags)
    BY <1>1 DEF DType, AllFlags
  <2> HIDE DEF fl, v, n, m
  <2>4. x \in DType /\ x.flags = fl /\ x.inflight = w.d.inflight /\ x.spawned = w.d.spawned
        /\ x.response = w.d.response /\ x.st = w.d.st /\ x.pc = w.d.pc
    BY <1>1, <2>2, <2>3, Zenon DEF DType
  <2> HIDE DEF x
  <2>5. ("KA_ENABLED" \in x.flags => cfg.ka # 0) /\ ("READ_TIMEOUT" \in x.flags => cfg.rate # <<>>)
    BY <1>6, <2>3, <2>4 DEF Sound, Configured
  <2>6. cfg.rate[1] = 0 => Untimed(x)
    BY <2>4 DEF Untimed, fl
  <2>7. QED
    BY <1>1, <2>1, <2>2, <2>4, <2>5, <2>6, FlagsStarted DEF v
<1>7. QED
  BY <1>2, <1>3, <1>4, <1>5, <1>6, Zenon DEF UpdateTimer

\* handle_timeout: it starts the timer again or gives a reason to stop.
LEMMA HandleTimeoutKeeps ==
  ASSUME NEW w \in Worlds, cfg \in Profiles, Count(w), Handle(w), Configured(w)
  PROVE  LET h == HandleTimeout(w) IN
         /\ h.w \in Worlds /\ Count(h.w) /\ Handle(h.w) /\ Configured(h.w) /\ SamePlace(w, h.w)
         /\ h.r \in {"ok", "ReadTimeout", "KeepAlive"}
         /\ h.r = "ok" => Sound(h.w)
<1> DEFINE h == HandleTimeout(w)
<1>0. SamePlace(w, w)
  BY ZenonT(60) DEF SamePlace
<1>1. CASE Has(w, "READ_TIMEOUT")
  <2> DEFINE total == (w.d.remains + U32 - w.d.prev) % U32
             left == IF w.d.maxto > cfg.rate[1] THEN w.d.maxto - cfg.rate[1] ELSE 0
             pv == w.d.remains
             m == IF cfg.rate[2] # 0 THEN left ELSE w.d.maxto
             w1 == [w EXCEPT !.d.prev = w.d.remains, !.d.remains = 0,
                             !.d.maxto = IF cfg.rate[2] # 0 THEN left ELSE @]
             x == [w.d EXCEPT !.prev = pv, !.remains = 0, !.maxto = m]
  <2>1. h = IF total <= cfg.rate[3] THEN [w |-> w, r |-> "ReadTimeout"]
            ELSE IF cfg.rate[2] = 0 \/ left # 0
            THEN [w |-> StartTimer(w1, cfg.rate[1]), r |-> "ok"]
            ELSE [w |-> w1, r |-> "ReadTimeout"]
    BY <1>1 DEF HandleTimeout
  <2>2. w1 = [w EXCEPT !.d = x]
    BY Zenon DEF Worlds, DType
  <2>3. cfg.rate # <<>>
    BY <1>1 DEF Configured, Has
  <2>4. cfg.rate[1] \in Nat /\ cfg.rate[2] \in Nat
    BY <2>3, ProfilesAssumption
  <2>5. w.d \in DType /\ pv \in Nat /\ m \in Nat
    BY <2>4 DEF Worlds, DType
  <2> HIDE DEF total, left, pv, m, w1, h
  <2>6. x \in DType /\ x.flags = w.d.flags /\ x.inflight = w.d.inflight /\ x.spawned = w.d.spawned
        /\ x.response = w.d.response /\ x.st = w.d.st /\ x.pc = w.d.pc
    BY <2>5, Zenon DEF DType
  <2> HIDE DEF x
  <2>7. w1 \in Worlds /\ w1.d = x /\ w1.io = w.io /\ w1.tm = w.tm /\ w1.log = w.log
    BY <2>2, <2>6 DEF Worlds
  <2>8. SameCalls(w, w1) /\ SamePlace(w, w1) /\ SameFlags(w, w1)
    BY <2>6, <2>7 DEF SameCalls, SamePlace, SameFlags
  <2>9. Count(w1) /\ Handle(w1) /\ Configured(w1)
    BY <2>7, <2>8, DspSound
  <2> DEFINE s == StartTimer(w1, cfg.rate[1])
  <2>10. s \in Worlds /\ TimerStep(w1, s) /\ Handle(s) /\ (cfg.rate[1] # 0 => Live(s))
    BY <2>4, <2>7, <2>9, StartTimerLives, StartTimerZero, StopTimerKeeps
  <2> HIDE DEF s
  <2>16. cfg.rate[1] = 0 => Untimed(s.d)
    BY <1>1, <2>6, <2>7, <2>10 DEF Has, TimerStep, Untimed
  <2>11. Count(s) /\ Configured(s) /\ Backed(s) /\ SamePlace(w, s)
    BY <2>8, <2>9, <2>10, <2>16 DEF TimerStep, Count, Calling, Configured, Backed, SamePlace
  <2>12. CASE h = [w |-> w, r |-> "ReadTimeout"]
    BY <1>0, <2>12 DEF h
  <2>13. CASE h = [w |-> s, r |-> "ok"]
    BY <2>10, <2>11, <2>13 DEF h, Sound
  <2>14. CASE h = [w |-> w1, r |-> "ReadTimeout"]
    BY <2>7, <2>8, <2>9, <2>14 DEF h
  <2>15. QED
    BY <2>1, <2>12, <2>13, <2>14 DEF s
<1>2. CASE ~Has(w, "READ_TIMEOUT") /\ (Has(w, "KA_TIMEOUT") \/ Has(w, "IDLE"))
  <2>1. h = [w |-> w, r |-> "KeepAlive"]
    BY <1>2 DEF HandleTimeout
  <2> HIDE DEF h
  <2>2. QED
    BY <1>0, <2>1 DEF h
<1>3. CASE ~Has(w, "READ_TIMEOUT") /\ ~Has(w, "KA_TIMEOUT") /\ ~Has(w, "IDLE")
  <2>1. h = [w |-> w, r |-> "ok"]
    BY <1>3 DEF HandleTimeout
  <2>2. Sound(w)
    BY <1>3 DEF Sound, Backed, Timers, Has
  <2> HIDE DEF h
  <2>3. QED
    BY <1>0, <2>1, <2>2 DEF h
<1>4. QED
  BY <1>1, <1>2, <1>3
====

------------------------------- MODULE TimeWheel -------------------------------
(***************************************************************************)
(* The timers of a thread (geario/src/util/time): the hierarchical wheel   *)
(* and its driver task, the low-resolution clock and its driver (wheel.rs) *)
(* and the futures built on a TimerHandle (mod.rs).                        *)
(*                                                                         *)
(* Time is counted in ms; a unit of the wheel is 2^UNITS ms.  The wheel's  *)
(* sizes are parameters.  Everything runs on one thread but the two        *)
(* futures_timer delays, which a helper thread fires: it marks a delay as  *)
(* fired and then wakes the task.  With `lateWake` the two are separate    *)
(* steps, as they are in that thread.                                      *)
(***************************************************************************)
EXTENDS Integers, FiniteSets, FiniteSetsExt

CONSTANTS
  Timers,          \* slots of the slab
  LVL_CLK_SHIFT, LVL_BITS, LVL_DEPTH, UNITS, LOWRES,
  TimeProfiles,    \* [durations, kinds, makes, resets, drops, lag, lateWake, end]: the ms and the kinds of
                   \*   the futures made, how many are made and changed, how often the
                   \*   runtime ends, how many ms late the thread is, whether wake-ups may be late, the last ms
  TimeMax          \* 2^w - 1 for the wheel's counters

VARIABLES
  tcfg,    \* one of TimeProfiles
  clock,   \* Instant::now()
  wheel,   \* TimerInner and the buckets of TimerMod
  entry,   \* TimerMod::timers: slot -> [bucket, task], bucket None is -1
  slp,     \* driver_sleep
  lslp,    \* lowres_driver_sleep
  user,    \* slot -> the future that owns the handle
  left     \* what is left of the profile's bounds

timeVars == <<tcfg, clock, wheel, entry, slp, lslp, user, left>>

LVL_CLK_DIV == 2 ^ LVL_CLK_SHIFT
LVL_SIZE == 2 ^ LVL_BITS
LvlShift(n) == 2 ^ (n * LVL_CLK_SHIFT)      \* x >> lvl_shift(n) is x \div LvlShift(n)
LvlGran(n) == LvlShift(n)
LvlStart(n) == (LVL_SIZE - 1) * 2 ^ ((n - 1) * LVL_CLK_SHIFT)
WHEEL_TIMEOUT_CUTOFF == LvlStart(LVL_DEPTH)
WHEEL_TIMEOUT_MAX == WHEEL_TIMEOUT_CUTOFF - LvlGran(LVL_DEPTH - 1)
ToUnits(ms) == ms \div 2 ^ UNITS
ToMillis(n) == n * 2 ^ UNITS
Wrap(n) == n % (TimeMax + 1)
None == -1
Slots == 0 .. LVL_DEPTH * LVL_SIZE - 1

World == [wheel |-> wheel, entry |-> entry, slp |-> slp, lslp |-> lslp, user |-> user]
Becomes(w) ==
  /\ wheel' = w.wheel
  /\ entry' = w.entry
  /\ slp' = w.slp
  /\ lslp' = w.lslp
  /\ user' = w.user

Flag(w, f) == f \in w.wheel.flags
SetFlag(w, f) == [w EXCEPT !.wheel.flags = @ \cup {f}]
UnsetFlag(w, f) == [w EXCEPT !.wheel.flags = @ \ {f}]

-----------------------------------------------------------------------------
(* The delays of futures_timer and the tasks that wait for them.           *)

\* Delay::new and Delay::reset: fires at or after `at`.  A wake-up under way still comes.
Armed(s, at) == [s EXCEPT !.at = at, !.fired = FALSE]

\* Poll of a delay: what it may find.  One that is due may fire while it is being polled, and
\* then the helper thread's wake-up is still to come.
SleepPoll(s) ==
  {[s |-> s, ready |-> s.fired]} \cup
  (IF tcfg.lateWake /\ ~s.fired /\ s.at <= clock
   THEN {[s |-> [s EXCEPT !.fired = TRUE, !.late = TRUE], ready |-> TRUE]} ELSE {})

-----------------------------------------------------------------------------
(* The wheel.                                                              *)

\* calc_index: bucket and its expiration, rounded up to the granularity of the level.
CalcIndex(expires, lvl) ==
  LET e == Wrap(expires + LvlGran(lvl)) \div LvlShift(lvl)
  IN [idx |-> lvl * LVL_SIZE + (e % LVL_SIZE), expiry |-> Wrap(e * LvlShift(lvl))]

\* calc_wheel_index: the first level whose range holds delta; a larger one expires at the
\* capacity of the wheel.
CalcWheelIndex(w, expires, delta) ==
  IF delta >= WHEEL_TIMEOUT_CUTOFF
  THEN CalcIndex(Wrap(w.wheel.elapsed + WHEEL_TIMEOUT_MAX), LVL_DEPTH - 1)
  ELSE CalcIndex(expires, Min({l \in 0 .. LVL_DEPTH - 1 : delta < LvlStart(l + 1)}))

\* `occupied` is kept apart from the buckets, as the bit field is.
AddToBucket(w, t, idx) ==
  [w EXCEPT !.wheel.buckets[idx] = @ \cup {t}, !.wheel.occupied = @ \cup {idx},
            !.entry[t].bucket = idx]

\* remove_timer_bucket that clears the bit of a bucket others are still in.
RemoveClearsBit(w, t) ==
  LET b == w.entry[t].bucket
  IN IF b = None THEN w
     ELSE [w EXCEPT !.wheel.buckets[b] = @ \ {t}, !.wheel.occupied = @ \ {b}]

RemoveFromBucket(w, t) ==
  LET b == w.entry[t].bucket
  IN IF b = None THEN w
     ELSE [w EXCEPT !.wheel.buckets[b] = @ \ {t},
                    !.wheel.occupied = IF w.wheel.buckets[b] = {t} THEN @ \ {b} ELSE @]

\* update_entry: nothing happens when the bucket stays the same.
UpdateEntry(w, t, idx) ==
  IF w.entry[t].bucket = idx THEN w ELSE AddToBucket(RemoveFromBucket(w, t), t, idx)

\* TimerEntry::complete
Complete(w, t) ==
  IF w.entry[t].bucket = None THEN w
  ELSE [w EXCEPT !.entry[t] = [bucket |-> None, task |-> FALSE],
                 !.user[t].woken = @ \/ w.entry[t].task]

\* The buckets execute_expired_timers looks at: a level is reached when the clock divides.
ExpiredBuckets(clk) ==
  {l * LVL_SIZE + ((clk \div LvlShift(l)) % LVL_SIZE) :
     l \in {l \in 0 .. LVL_DEPTH - 1 :
              \A j \in 0 .. l - 1 : (clk \div LvlShift(j)) % LVL_CLK_DIV = 0}}

ExecuteExpired(w) ==
  LET bs == ExpiredBuckets(w.wheel.next)
      due == UNION {w.wheel.buckets[b] : b \in bs}
      Done(t) == Complete(w, t)
  IN [w EXCEPT !.wheel.buckets = [b \in Slots |-> IF b \in bs THEN {} ELSE w.wheel.buckets[b]],
               !.wheel.occupied = @ \ bs,
               !.entry = [t \in Timers |-> IF t \in due THEN Done(t).entry[t] ELSE w.entry[t]],
               !.user = [t \in Timers |->
                           IF t \in due
                           THEN [Done(t).user[t] EXCEPT !.early = @ \/ clock < w.user[t].notBefore]
                           ELSE w.user[t]]]

\* The clock of each level in next_pending_bucket that does not round up.
LevelClockDown(elapsed, n) == elapsed \div LvlShift(n)

\* The clock of each level in next_pending_bucket: rounded up at every shift.
LevelClock(elapsed, n) ==
  LET c[l \in 0 .. LVL_DEPTH] ==
        IF l = 0 THEN elapsed
        ELSE (c[l - 1] \div LVL_CLK_DIV) + (IF c[l - 1] % LVL_CLK_DIV # 0 THEN 1 ELSE 0)
  IN c[n]

\* next_pending_bucket: the earliest expiration, None when no bucket is occupied.  The search
\* ends at the first level whose bucket expires before the next level is reached.
NextPendingBucket(w) ==
  LET Clk(l) == LevelClock(w.wheel.elapsed, l)
      At(l) == {p \in 0 .. LVL_SIZE - 1 : l * LVL_SIZE + ((Clk(l) + p) % LVL_SIZE) \in w.wheel.occupied}
      Pos(l) == Min(At(l))
      Ends(l) == /\ At(l) # {}
                 /\ Pos(l) <= (LVL_CLK_DIV - (Clk(l) % LVL_CLK_DIV)) % LVL_CLK_DIV
      seen == {l \in 0 .. LVL_DEPTH - 1 : At(l) # {} /\ \A j \in 0 .. l - 1 : ~Ends(j)}
  IN IF seen = {} THEN None ELSE Min({(Clk(l) + Pos(l)) * LvlShift(l) : l \in seen})

NextExpiryMs(w) ==
  ToMillis(IF w.wheel.next > w.wheel.elapsed THEN w.wheel.next - w.wheel.elapsed ELSE 0)

-----------------------------------------------------------------------------
(* The low-resolution clock.                                               *)

\* Timer::now (and system_time): the cached time, or the clock's, which is then cached and the
\* lowres driver told.
LowresNow(w) == IF w.wheel.lowres # None THEN w.wheel.lowres ELSE clock
NowRead(w) ==
  IF w.wheel.lowres # None \/ ~Flag(w, "RUNNING") THEN w
  ELSE IF Flag(w, "LOWRES_DRIVER")
  THEN [w EXCEPT !.wheel.lowres = clock, !.wheel.ldrv = "woken"]
  ELSE [SetFlag(w, "LOWRES_DRIVER") EXCEPT !.wheel.lowres = clock, !.wheel.ldrv = "woken",
                                           !.lslp = Armed(@, clock + LOWRES)]

\* LowresTimerDriver::poll
LowresPoll ==
  /\ wheel.ldrv = "woken"
  /\ LET w0 == [World EXCEPT !.wheel.ldrv = "idle"]
         w1 == IF Flag(w0, "LOWRES_TIMER") THEN w0
               ELSE [SetFlag(w0, "LOWRES_TIMER") EXCEPT !.lslp = Armed(@, clock + LOWRES)]
     IN Becomes(IF w1.lslp.fired
                THEN [UnsetFlag(w1, "LOWRES_TIMER") EXCEPT !.wheel.lowres = None]
                ELSE w1)
  /\ UNCHANGED <<tcfg, clock, left>>

-----------------------------------------------------------------------------
(* Timers are added, updated and removed.                                  *)

\* elapsed_time(): set on first use.
ElapsedTime(w) == IF w.wheel.etime = None THEN clock ELSE w.wheel.etime

\* "Check whether new bucket expire earlier": `flags` is what the caller read before.
ExpireEarlier(w, expiry, flags) ==
  IF expiry >= w.wheel.next THEN w
  ELSE LET w1 == [w EXCEPT !.wheel.next = expiry, !.wheel.drv = "woken"]
       IN IF "DRIVER_STARTED" \in flags
          THEN [w1 EXCEPT !.wheel.flags = flags \cup {"DRIVER_RECALC"}]
          ELSE [SetFlag(w1, "DRIVER_STARTED") EXCEPT !.slp = Armed(@, clock + NextExpiryMs(w1))]

\* Units from `elapsed` to the deadline, for the time `now` the caller sees.
Delta(w, now, ms) ==
  ToUnits(IF now >= ElapsedTime(w) THEN now - ElapsedTime(w) + ms ELSE ms)

\* The time before which the timer must not expire; the wheel's capacity limits the promise.
Promised(now, ms, delta) == IF delta < WHEEL_TIMEOUT_CUTOFF THEN now + ms ELSE now

\* A driver that was polled without any timer has taken the wheel's clock to the maximum, which
\* next_expiry is then.
RunOff(w) == w.wheel.elapsed = TimeMax

\* add_timer
AddTimer(w, t, ms) ==
  IF ms = 0 THEN [w EXCEPT !.entry[t] = [bucket |-> None, task |-> FALSE]]
  ELSE LET w1 == SetFlag(w, "RUNNING")
           flags == w1.wheel.flags
           now == LowresNow(w1)
           w2 == [NowRead(w1) EXCEPT !.wheel.etime = ElapsedTime(w1)]
           delta == Delta(w2, now, ms)
           ci == CalcWheelIndex(w2, Wrap(w2.wheel.elapsed + delta), delta)
           w3 == AddToBucket([w2 EXCEPT !.entry[t].task = FALSE,
                                        !.user[t].notBefore = Promised(now, ms, delta),
                                        !.user[t].runOff = RunOff(w2),
                                        !.user[t].expiry = ci.expiry], t, ci.idx)
       IN ExpireEarlier(w3, ci.expiry, flags)

\* update_timer
UpdateTimer(w, t, ms) ==
  IF ms = 0 THEN [RemoveFromBucket(w, t) EXCEPT !.entry[t].bucket = None]
  ELSE LET now == LowresNow(w)
           w2 == [NowRead(w) EXCEPT !.wheel.etime = ElapsedTime(w)]
           d == Delta(w2, now, ms)
           delta == IF d = 0 THEN 1 ELSE d
           ci == CalcWheelIndex(w2, Wrap(w2.wheel.elapsed + delta), delta)
           w3 == UpdateEntry([w2 EXCEPT !.user[t].notBefore = Promised(now, ms, delta),
                                        !.user[t].runOff = RunOff(w2),
                                        !.user[t].expiry = ci.expiry], t, ci.idx)
       IN ExpireEarlier(w3, ci.expiry, w3.wheel.flags)

\* remove_timer: elapsed at once, the task is woken.
RemoveTimer(w, t) == Complete(RemoveFromBucket(w, t), t)

\* TimerDriver::poll
DriverPoll ==
  /\ wheel.drv = "woken"
  /\ LET w0 == [World EXCEPT !.wheel.drv = "idle"]
         gone == clock - ElapsedTime(w0)
         ms == NextExpiryMs(w0)
         w1 == IF ~Flag(w0, "DRIVER_RECALC") THEN w0
               ELSE [UnsetFlag(w0, "DRIVER_RECALC") EXCEPT
                       !.wheel.etime = ElapsedTime(w0),
                       !.slp = Armed(@, clock + (IF ms > gone THEN ms - gone ELSE 0))]
     IN \E p \in SleepPoll(w1.slp) :
          LET w2 == [w1 EXCEPT !.slp = p.s]
              w3 == ExecuteExpired([w2 EXCEPT !.wheel.elapsed = w2.wheel.next,
                                              !.wheel.etime = clock])
              next == NextPendingBucket(w3)
              w4 == [w3 EXCEPT !.wheel.next = next]
          IN Becomes(IF ~p.ready THEN w2
                     ELSE IF next = None
                     THEN [w3 EXCEPT !.wheel.next = TimeMax, !.wheel.etime = None]
                     ELSE [w4 EXCEPT !.slp = Armed(@, clock + NextExpiryMs(w4))])
  /\ UNCHANGED <<tcfg, clock, left>>

\* The helper thread fires a delay and wakes its task, at once or later.
FireDriver ==
  /\ slp.at # None /\ slp.at <= clock /\ ~slp.fired
  /\ slp' = [slp EXCEPT !.fired = TRUE]
  /\ wheel' = [wheel EXCEPT !.drv = "woken"]
  /\ UNCHANGED <<tcfg, clock, entry, lslp, user, left>>

WakeLate ==
  /\ slp.late
  /\ slp' = [slp EXCEPT !.late = FALSE]
  /\ wheel' = [wheel EXCEPT !.drv = "woken"]
  /\ UNCHANGED <<tcfg, clock, entry, lslp, user, left>>

FireLowres ==
  /\ lslp.at # None /\ lslp.at <= clock /\ ~lslp.fired
  /\ lslp' = [lslp EXCEPT !.fired = TRUE]
  /\ wheel' = [wheel EXCEPT !.ldrv = "woken"]
  /\ UNCHANGED <<tcfg, clock, entry, slp, user, left>>

\* Time passes while something is due only `lag` times: how late the thread is in all.
Due ==
  \/ wheel.drv = "woken" \/ wheel.ldrv = "woken"
  \/ slp.at # None /\ slp.at <= clock /\ ~slp.fired
  \/ lslp.at # None /\ lslp.at <= clock /\ ~lslp.fired
  \/ \E t \in Timers : user[t].woken

TimePasses ==
  /\ clock < tcfg.end
  /\ Due => left.lag > 0
  /\ clock' = clock + 1
  /\ left' = [left EXCEPT !.lag = IF Due THEN @ - 1 ELSE @]
  /\ UNCHANGED <<tcfg, wheel, entry, slp, lslp, user>>

\* The runtime ends and drops both drivers: stop_wheel marks every timer as elapsed.  The tasks
\* that waited are gone with it.
RuntimeDropped ==
  /\ left.drops > 0
  /\ wheel' = [elapsed |-> 0, etime |-> None, next |-> TimeMax, flags |-> {}, lowres |-> None,
               drv |-> "off", ldrv |-> "off", buckets |-> [b \in Slots |-> {}], occupied |-> {}]
  /\ entry' = [t \in Timers |->
                 [entry[t] EXCEPT !.bucket = IF @ # None THEN None ELSE @, !.task = FALSE]]
  /\ user' = [t \in Timers |-> [user[t] EXCEPT !.waiting = FALSE, !.woken = FALSE]]
  /\ slp' = [slp EXCEPT !.at = None, !.late = FALSE]
  /\ lslp' = [lslp EXCEPT !.at = None]
  /\ left' = [left EXCEPT !.drops = @ - 1]
  /\ UNCHANGED <<tcfg, clock>>

-----------------------------------------------------------------------------
(* The futures: Sleep, Deadline, Timeout, TimeoutChecked, Interval.        *)

NoUser == [kind |-> "none", period |-> 0, waiting |-> FALSE, woken |-> FALSE, value |-> FALSE,
           early |-> FALSE, runOff |-> FALSE, zeroed |-> FALSE, notBefore |-> 0, expiry |-> 0]

\* sleep, deadline, interval, timeout and timeout_checked; the owner polls what it made.  A
\* deadline or a checked timeout of zero has no timer ("nodeadline", "never").
MakeFuture(t, kind, ms) ==
  LET timed == ~(kind \in {"deadline", "checked"} /\ ms = 0)
      k == IF timed THEN kind ELSE IF kind = "deadline" THEN "nodeadline" ELSE "never"
      w == [World EXCEPT !.user[t] = [NoUser EXCEPT !.kind = k, !.period = ms, !.woken = TRUE]]
      least == IF kind \in {"sleep", "timeout", "checked"} /\ ms = 0 THEN 1 ELSE ms
  IN Becomes(IF timed THEN AddTimer(w, t, least) ELSE w)

Make ==
  /\ left.makes > 0
  /\ \E t \in Timers, kind \in tcfg.kinds, ms \in tcfg.durations :
       user[t].kind = "none" /\ MakeFuture(t, kind, ms)
  /\ left' = [left EXCEPT !.makes = @ - 1]
  /\ UNCHANGED <<tcfg, clock>>

\* TimerHandle::drop: out of its bucket, the slot is free.
DropHandle(w, t) ==
  [RemoveFromBucket(w, t) EXCEPT !.entry[t] = [bucket |-> None, task |-> FALSE],
                                 !.user[t] = [NoUser EXCEPT !.early = w.user[t].early,
                                                            !.runOff = w.user[t].runOff]]

\* TimerHandle::poll_elapsed; a future that completes is dropped.
PollElapsed(w, t) ==
  IF w.entry[t].bucket = None THEN DropHandle(w, t)
  ELSE [w EXCEPT !.user[t].waiting = TRUE, !.entry[t].task = TRUE]

\* Interval::poll_tick: the next period starts and the owner asks again.
PollTick(w, t) ==
  IF w.entry[t].bucket = None
  THEN UpdateTimer([w EXCEPT !.user[t].woken = TRUE, !.user[t].waiting = FALSE], t,
                   w.user[t].period)
  ELSE PollElapsed(w, t)

\* Timeout::poll and TimeoutChecked::poll: the value first, then the timer if there is one.
PollTimeout(w, t) ==
  CASE w.user[t].value -> DropHandle(w, t)
    [] ~w.user[t].value /\ w.user[t].kind = "never" -> [w EXCEPT !.user[t].waiting = TRUE]
    [] OTHER -> PollElapsed(w, t)

PollFuture(t) ==
  LET k == user[t].kind
      w == [World EXCEPT !.user[t].woken = FALSE]
  IN CASE k \in {"sleep", "deadline"} -> PollElapsed(w, t)
       [] k = "nodeadline" -> [w EXCEPT !.user[t].waiting = TRUE]
       [] k = "interval" -> PollTick(w, t)
       [] k \in {"timeout", "checked", "never"} -> PollTimeout(w, t)

Poll ==
  /\ \E t \in Timers : user[t].woken /\ Becomes(PollFuture(t))
  /\ UNCHANGED <<tcfg, clock, left>>

\* Sleep::reset by another holder of the Sleep; Deadline::reset by its owner, who polls again.
\* A deadline without a timer gets a new one.
ResetSleep(t, ms) ==
  UpdateTimer([World EXCEPT !.user[t].zeroed = user[t].waiting /\ ms = 0], t, ms)
ResetDeadline(t, ms) ==
  LET k == user[t].kind
      w == [World EXCEPT !.user[t].woken = TRUE,
                         !.user[t].kind = IF ms = 0 THEN "nodeadline" ELSE "deadline"]
  IN CASE ms = 0 -> [RemoveFromBucket(w, t) EXCEPT !.entry[t] = [bucket |-> None, task |-> FALSE]]
       [] ms # 0 /\ k = "deadline" -> UpdateTimer(w, t, ms)
       [] ms # 0 /\ k = "nodeadline" -> AddTimer(w, t, ms)

Reset ==
  /\ left.resets > 0
  /\ \E t \in Timers, ms \in tcfg.durations :
       \/ user[t].kind = "sleep" /\ Becomes(ResetSleep(t, ms))
       \/ user[t].kind \in {"deadline", "nodeadline"} /\ Becomes(ResetDeadline(t, ms))
  /\ left' = [left EXCEPT !.resets = @ - 1]
  /\ UNCHANGED <<tcfg, clock>>

Elapse ==
  /\ left.resets > 0
  /\ \E t \in Timers : user[t].kind = "sleep" /\ Becomes(RemoveTimer(World, t))
  /\ left' = [left EXCEPT !.resets = @ - 1]
  /\ UNCHANGED <<tcfg, clock>>

\* The future inside a timeout completes.
ValueReady ==
  /\ \E t \in Timers :
       /\ user[t].kind \in {"timeout", "checked", "never"}
       /\ ~user[t].value
       /\ user' = [user EXCEPT ![t].value = TRUE, ![t].woken = TRUE]
  /\ UNCHANGED <<tcfg, clock, wheel, entry, slp, lslp, left>>

Drop ==
  /\ left.resets > 0
  /\ \E t \in Timers : user[t].kind # "none" /\ Becomes(DropHandle(World, t))
  /\ left' = [left EXCEPT !.resets = @ - 1]
  /\ UNCHANGED <<tcfg, clock>>

TimeInit ==
  /\ tcfg \in TimeProfiles
  /\ clock = 0
  /\ wheel = [elapsed |-> 0, etime |-> None, next |-> TimeMax, flags |-> {}, lowres |-> None,
              drv |-> "off", ldrv |-> "off", buckets |-> [b \in Slots |-> {}], occupied |-> {}]
  /\ entry = [t \in Timers |-> [bucket |-> None, task |-> FALSE]]
  /\ slp = [at |-> None, fired |-> FALSE, late |-> FALSE]
  /\ lslp = [at |-> None, fired |-> FALSE]
  /\ user = [t \in Timers |-> NoUser]
  /\ left = [makes |-> tcfg.makes, resets |-> tcfg.resets, drops |-> tcfg.drops,
             lag |-> tcfg.lag]

TimeNext ==
  \/ DriverPoll \/ LowresPoll \/ FireDriver \/ WakeLate \/ FireLowres \/ TimePasses
  \/ RuntimeDropped \/ Make \/ Poll \/ Reset \/ Elapse \/ ValueReady \/ Drop

TimeSpec == TimeInit /\ [][TimeNext]_timeVars

-----------------------------------------------------------------------------
(* Properties.                                                             *)

\* "The timer wheel has to guarantee that a timer does not fire early" (wheel.rs, calc_index):
\* no timer within the wheel's capacity expires before now() plus its duration, whatever bucket
\* and level it went through, however late the driver ran and whichever timers came and went in
\* between.  The exception is a timer set while the clock of the wheel has run off: the delay had
\* fired while the driver polled it for another reason, and the helper thread's wake-up then found
\* the wheel empty.
NeverEarly == \A t \in Timers : user[t].early => user[t].runOff

\* Every pending timer is in the bucket its entry names, the bit field shows that bucket, the
\* wheel has not passed its expiration (unless its clock has run off and the driver is about to
\* set it again) and the next expiration is not later; and the driver is going to look at it: it
\* is woken, or its sleep is due or ends no later than that expiration
\* (next_pending_bucket, add_timer, update_timer, TimerDriver::poll).
PendingAheadOfDriver ==
  \A t \in Timers : entry[t].bucket # None =>
    /\ t \in wheel.buckets[entry[t].bucket]
    /\ entry[t].bucket \in wheel.occupied
    /\ wheel.elapsed < user[t].expiry \/ RunOff(World)
    /\ wheel.next <= user[t].expiry
    /\ \/ wheel.drv = "woken"
       \/ ~slp.fired /\ slp.at <= Max({clock, wheel.etime + NextExpiryMs(World)})

\* A future that waits has a timer that is still pending, so that it is woken in the end; the
\* exception is Sleep::reset(0) by another holder, which elapses the timer and wakes nobody.
WaitersHeld ==
  \A t \in Timers : (user[t].waiting /\ ~user[t].woken) =>
    entry[t].bucket # None \/ user[t].zeroed \/ user[t].kind \in {"never", "nodeadline"}
====

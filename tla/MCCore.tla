------------------------------- MODULE MCCore --------------------------------
(* The parts of the library that do no I/O, for TLC: reading and writing      *)
(* numbers, the timer wheel, the task queue of the runtime, the blocking      *)
(* pool, system and arbiters, signals, service pipelines, channels, shared    *)
(* configuration, the owners of a connection, and task callbacks.  A          *)
(* behaviour is one of the part chosen at the start; the variables of the     *)
(* others stay 0.                                                             *)
EXTENDS Buf, TimeWheel, TLC

CONSTANTS t1, t2,                                                    \* timers
          QueueTasks, Remotes, Interval, FixedCap, LocalWakes, RemoteWakes,  \* the task queue
          Threads, Limit, MaxWorkers, Expires,                       \* the blocking pool
          Arbiters, Stops, ArbiterStops,
          Raised, SigSlots, Starts, SigHandlers,
          c1, c2, c3,                                                \* calls of a pipeline
          Kinds, ChannelEnds, MaxBuffer, Sends,                      \* channels
          CfgThreads, CfgTypes, MaxStorages, MaxHandles,             \* configuration
          OwnedConns, Ios, MaxIds, MaxChain, MaxOps,                 \* owners of a connection
          CbThreads, CbTasks                                         \* task callbacks

VARIABLES part,
  pc, q, more, cur, rem, budget,
  scene, th, wk, high, counter, job,
  sys, arb, sig, turn, pl, kind, ch, cf, ow, cb

-----------------------------------------------------------------------------
(* What is explored of each part. *)

Futures(ds, ks, makes, resets, drops, lag, lw, end) ==
    [durations |-> ds, kinds |-> ks, makes |-> makes, resets |-> resets, drops |-> drops, lag |-> lag,
     lateWake |-> lw, end |-> end]
MCTimeProfiles ==
    {Futures({1, 10}, {"sleep"}, 2, 0, 0, 1, FALSE, 16),
     Futures({1, 22}, {"sleep"}, 3, 0, 0, 0, FALSE, 10),
     Futures({1, 9}, {"sleep"}, 3, 1, 0, 1, TRUE, 4),
     Futures({0, 2, 30}, {"sleep", "deadline"}, 2, 1, 0, 0, FALSE, 5),
     Futures({0, 3}, {"interval", "checked", "timeout"}, 2, 0, 1, 0, FALSE, 6),
     Futures({0, 2}, {"deadline"}, 1, 2, 0, 0, FALSE, 5)}

Scene(l, chain, st, n, cl, ca) ==
    [limit |-> l, chain |-> chain, state |-> st, callers |-> n, closings |-> cl, cancels |-> ca]
PipelineScenes ==
    {Scene(1, FALSE, FALSE, {c1, c2, c3}, 0, 0), Scene(1, FALSE, FALSE, {c1, c2}, 1, 1),
     Scene(2, FALSE, TRUE, {c1, c2, c3}, 0, 0), Scene(4, TRUE, FALSE, {c1, c2}, 1, 0)}

-----------------------------------------------------------------------------
(* The parts, besides those of Buf and TimeWheel. *)

R == INSTANCE Runtime WITH Tasks <- QueueTasks
W == INSTANCE ThreadPoolProofs WITH JobsOf <- [t \in Threads |-> 2]
Y == INSTANCE System
G == INSTANCE Signals WITH Slots <- SigSlots, Handlers <- SigHandlers
P == INSTANCE Pipeline WITH Callers <- {c1, c2, c3}, Scenes <- PipelineScenes
C == INSTANCE Channels WITH Ends <- ChannelEnds
F == INSTANCE Configs
O == INSTANCE Owners
B == INSTANCE Callbacks

\* The sizes explored satisfy what the proofs ask of them.
ASSUME CoreSizes == W!PoolAssumption

timeOnly == <<tcfg, clock, wheel, entry, slp, lslp, user>>
runtimeOnly == <<pc, q, more, cur, rem, budget>>
poolOnly == <<th, wk, high, counter, job>>
systemOnly == <<sys, arb>>
pipelineOnly == <<turn, pl>>
channelsOnly == <<kind, ch>>
ownership == <<cf, ow, cb>>
coreVars == <<part, bufVars, timeOnly, left, runtimeOnly, scene, poolOnly, systemOnly, sig, pipelineOnly,
              channelsOnly, ownership>>

NoBuf == sink = 0 /\ src = 0 /\ sent = 0 /\ got = 0
NoTime == tcfg = 0 /\ clock = 0 /\ wheel = 0 /\ entry = 0 /\ slp = 0 /\ lslp = 0 /\ user = 0
NoRuntime == pc = 0 /\ q = 0 /\ more = 0 /\ cur = 0 /\ rem = 0 /\ budget = 0
NoPool == th = 0 /\ wk = 0 /\ high = 0 /\ counter = 0 /\ job = 0
NoSystem == sys = 0 /\ arb = 0
NoSignals == sig = 0
NoPipeline == turn = 0 /\ pl = 0
NoChannels == kind = 0 /\ ch = 0
NoOwnership == cf = 0 /\ ow = 0 /\ cb = 0

PartInit ==
    \/ /\ part = "buf" /\ BufInit
       /\ NoTime /\ left = 0 /\ NoRuntime /\ scene = 0 /\ NoPool /\ NoSystem /\ NoSignals /\ NoPipeline
       /\ NoChannels
    \/ /\ part = "time" /\ TimeInit
       /\ NoBuf /\ NoRuntime /\ scene = 0 /\ NoPool /\ NoSystem /\ NoSignals /\ NoPipeline /\ NoChannels
    \/ /\ part = "runtime" /\ R!RuntimeInit
       /\ NoBuf /\ NoTime /\ scene = 0 /\ NoPool /\ NoSystem /\ NoSignals /\ NoPipeline /\ NoChannels
    \/ /\ part = "pool" /\ W!PoolInit
       /\ NoBuf /\ NoTime /\ left = 0 /\ NoRuntime /\ NoSystem /\ NoSignals /\ NoPipeline /\ NoChannels
    \/ /\ part = "system" /\ Y!SystemInit
       /\ NoBuf /\ NoTime /\ left = 0 /\ NoRuntime /\ scene = 0 /\ NoPool /\ NoSignals /\ NoPipeline
       /\ NoChannels
    \/ /\ part = "signals" /\ G!SignalsInit
       /\ NoBuf /\ NoTime /\ left = 0 /\ NoRuntime /\ scene = 0 /\ NoPool /\ NoSystem /\ NoPipeline
       /\ NoChannels
    \/ /\ part = "pipeline" /\ P!PipelineInit
       /\ NoBuf /\ NoTime /\ left = 0 /\ NoRuntime /\ NoPool /\ NoSystem /\ NoSignals /\ NoChannels
    \/ /\ part = "channels" /\ C!ChannelsInit
       /\ NoBuf /\ NoTime /\ left = 0 /\ NoRuntime /\ scene = 0 /\ NoPool /\ NoSystem /\ NoSignals
       /\ NoPipeline

NoneOfThem ==
    /\ NoBuf /\ NoTime /\ left = 0 /\ NoRuntime /\ scene = 0 /\ NoPool /\ NoSystem /\ NoSignals /\ NoPipeline
    /\ NoChannels

OwnershipInit ==
    \/ part = "configs" /\ F!ConfigsInit /\ ow = 0 /\ cb = 0
    \/ part = "owners" /\ O!OwnersInit /\ cf = 0 /\ cb = 0
    \/ part = "callbacks" /\ B!CallbacksInit /\ cf = 0 /\ ow = 0

CoreInit == (PartInit /\ NoOwnership) \/ (OwnershipInit /\ NoneOfThem)

PartNext ==
    \/ /\ part = "buf" /\ BufNext
       /\ UNCHANGED <<part, timeOnly, left, runtimeOnly, scene, poolOnly, systemOnly, sig, pipelineOnly,
                      channelsOnly>>
    \/ /\ part = "time" /\ TimeNext
       /\ UNCHANGED <<part, bufVars, runtimeOnly, scene, poolOnly, systemOnly, sig, pipelineOnly, channelsOnly>>
    \/ /\ part = "runtime" /\ R!RuntimeNext
       /\ UNCHANGED <<part, bufVars, timeOnly, scene, poolOnly, systemOnly, sig, pipelineOnly, channelsOnly>>
    \/ /\ part = "pool" /\ W!PoolNext
       /\ UNCHANGED <<part, bufVars, timeOnly, left, runtimeOnly, systemOnly, sig, pipelineOnly, channelsOnly>>
    \/ /\ part = "system" /\ Y!SystemNext
       /\ UNCHANGED <<part, bufVars, timeOnly, left, runtimeOnly, scene, poolOnly, sig, pipelineOnly,
                      channelsOnly>>
    \/ /\ part = "signals" /\ G!SignalsNext
       /\ UNCHANGED <<part, bufVars, timeOnly, left, runtimeOnly, scene, poolOnly, systemOnly, pipelineOnly,
                      channelsOnly>>
    \/ /\ part = "pipeline" /\ P!PipelineNext
       /\ UNCHANGED <<part, bufVars, timeOnly, left, runtimeOnly, poolOnly, systemOnly, sig, channelsOnly>>
    \/ /\ part = "channels" /\ C!ChannelsNext
       /\ UNCHANGED <<part, bufVars, timeOnly, left, runtimeOnly, scene, poolOnly, systemOnly, sig,
                      pipelineOnly>>

OwnershipNext ==
    \/ part = "configs" /\ F!ConfigsNext /\ UNCHANGED <<ow, cb>>
    \/ part = "owners" /\ O!OwnersNext /\ UNCHANGED <<cf, cb>>
    \/ part = "callbacks" /\ B!CallbacksNext /\ UNCHANGED <<cf, ow>>

CoreNext ==
    \/ PartNext /\ UNCHANGED ownership
    \/ /\ OwnershipNext
       /\ UNCHANGED <<part, bufVars, timeOnly, left, runtimeOnly, scene, poolOnly, systemOnly, sig, pipelineOnly,
                      channelsOnly>>

CoreSpec == CoreInit /\ [][CoreNext]_coreVars

\* The names of a part may be exchanged, two by two.
Swap == t1 :> t2 @@ t2 :> t1 @@ c1 :> c2 @@ c2 :> c1
Symmetry == {f \in Permutations(DOMAIN Swap) : f = Swap \/ \A m \in DOMAIN f : f[m] = m}

-----------------------------------------------------------------------------
(* Properties of the parts. *)

\* A number written by any method of BufMut is the number the method of Buf for the same type
\* reads, however the bytes fall into chunks; of a number cut to nbytes, get_int reads these bytes
\* without their sign (bytes/buf/buf_impl.rs, buf_mut.rs; see Buf).
NumbersReadBack == part = "buf" => ReadsBack

\* No future of the timer is ready before its time, whatever the rounding to the levels of the
\* wheel, unless it was set while the wheel's clock had run off (time/wheel.rs calc_index,
\* add_timer, poll; see TimeWheel).
TimersNeverEarly == part = "time" => NeverEarly

\* A pending timer is never behind the wake-up the driver has set, nor behind the wheel's clock
\* unless that has run off, and whoever waits for a timer still has an entry in the wheel
\* (wheel.rs remove_timer, next_expiry, execute; see TimeWheel).
TimersNotForgotten == part = "time" => PendingAheadOfDriver /\ WaitersHeld

\* The driver never sleeps on a task another thread has scheduled, and a task is in one queue
\* at most (rt.rs RunnableQueue, schedule, Runtime::poll; see Runtime).
DriverAwake == part = "runtime" => R!DriverAwake /\ R!QueuedOnce

\* A submitted blocking job is never left in the queue with no worker to take it while no
\* worker's wait ran out (rt/pool.rs ThreadPool::execute, worker; see ThreadPool).
JobNotStranded == part = "pool" => W!JobNotStranded

\* The system knows every arbiter that runs, and a stop reaches each; a signal is not slept over
\* while signal handling is enabled, unless its task was stopped in place of the one before
\* (rt/system.rs, arbiter.rs, signals.rs; see System and Signals).
StopsAndSignalsSeen ==
    /\ part = "system" => Y!ArbiterKnown
    /\ part = "signals" => G!SignalsSeen

\* A task that waits for a pipeline to become ready is notified or on the list of waiters of
\* the one that checks readiness (service/ctx.rs WaitersRef, pl_inner.rs; see Pipeline).
PipelineNotStranded == part = "pipeline" => P!PipelineNotStranded

\* No more calls than InFlight's limit run in the enclosed service (util/services/inflight.rs,
\* counter.rs, ctx.rs; see Pipeline).
LimitRespected == part = "pipeline" => P!LimitRespected

\* Whoever waits on a channel is woken when what it waits for has happened, except for the end
\* that mpsc::Receiver::close or the drop of the last bstream::Sender makes (util/channel/*.rs;
\* see Channels).
ChannelNotStranded == part = "channels" => C!ChannelNotStranded

\* What is shared is given back once, and not while it is in use: the storage of a configuration
\* and the defaults of a thread (to which the uncounted context of a bare Configuration value is no
\* claim), a connection with its filter and its Id, the callbacks of a task
\* (service/cfg.rs; io/io.rs, filterptr.rs, ops.rs; rt/task.rs; see Configs, Owners, Callbacks).
ReleasedOnce ==
    /\ part = "configs" => F!ConfigsCounted
    /\ part = "owners" => O!OwnedOnce
    /\ part = "callbacks" => B!CallbacksKept
=============================================================================

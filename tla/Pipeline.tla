------------------------------ MODULE Pipeline ------------------------------
(***************************************************************************)
(* The readiness protocol of service pipelines (service/ctx.rs,            *)
(* service/pl_inner.rs, service/pl_state.rs, service/pipeline.rs), over a  *)
(* service limited by InFlight (util/services) that encloses one service   *)
(* or two chained by `and_then`.                                           *)
(*                                                                         *)
(* Several tasks of one thread wait for the readiness of one pipeline: the *)
(* dispatcher's task, index 0, and the task of every call.  One of them at *)
(* a time owns the check; its waker is the only one the services know, and *)
(* the others wait in `wakers` for it to finish.  A poll of a task is a    *)
(* run of steps with turn = the task, that nothing comes between.          *)
(***************************************************************************)
EXTENDS Naturals, FiniteSets, Sequences

CONSTANTS
    Callers,    \* calls of the pipeline, each on a task of its own
    Scenes      \* set of [limit, chain, state, callers, closings, cancels]: InFlight's limit,
                \* whether the enclosed service is A.and_then(B), whether it is a PipelineState;
                \* bounds: who calls, times a service stops being ready, calls dropped

VARIABLES scene, turn, pl

pipelineVars == <<scene, turn, pl>>

None == "none"
Main == "main"
Tasks == Callers \cup {Main}
Ids == 0..Cardinality(Callers)
Unowned == Cardinality(Callers) + 1     \* u32::MAX
Services == IF scene.chain THEN {"A", "B"} ELSE {"A"}
NoCheck == [on |-> FALSE, wait |-> {}, err |-> FALSE]

(* The calls a request makes, in order: Pipeline::call, InFlightService::call (its guard is
   taken when the second is over), and the enclosed service. *)
Stages == <<"limit", "limit", "inner">>
          \o (IF scene.chain THEN <<"A", "bodyA", "B", "bodyB">> ELSE <<"bodyA">>)
Guarded(c) == pl.at[c] > 2 /\ pl.at[c] <= Len(Stages)
InBody(c) == pl.at[c] > 0 /\ pl.at[c] <= Len(Stages) /\ Stages[pl.at[c]] \in {"bodyA", "bodyB"}

\* WaitersRef::new, PipelineApi::new, Counter::new
NewPipeline ==
    [ cur     |-> Unowned,                              \* owner of the check
      wakers  |-> {},
      indexes |-> [i \in Ids |-> IF i = 0 THEN None ELSE "free"],     \* the waker of an index
      down    |-> FALSE,                                \* waiters.shutdown
      runtime |-> "New",                                \* st_runtime
      check   |-> [t \in Tasks |-> NoCheck],            \* a readiness future, and what it waits for
      count   |-> 0, counted |-> None,                  \* the counter and the task it wakes
      gate    |-> [s \in {"A", "B"} |-> "ready"], asked |-> [s \in {"A", "B"} |-> None],
      at      |-> [c \in Callers |-> 0],                \* stage of a call; 0: not started
      idx     |-> [c \in Callers |-> Unowned],          \* its binding
      body    |-> [c \in Callers |-> "runs"],           \* "runs", "ok" or "err"
      main    |-> "idle",                               \* "idle", "waits" or "gone"
      queue   |-> {},                                   \* requests the dispatcher holds
      woken   |-> {Main},
      left    |-> [closings |-> scene.closings, cancels |-> scene.cancels] ]

Wake(p, t) == IF t = None THEN p ELSE [p EXCEPT !.woken = @ \cup {t}]

-----------------------------------------------------------------------------
(* WaitersRef *)

\* WaitersRef::notify: every waiting index is woken and nobody owns the check.
Notify(p) ==
    LET told == {i \in p.wakers : p.indexes[i] \notin {"free", None}}
    IN  [p EXCEPT !.woken = @ \cup {p.indexes[i] : i \in told},
                  !.indexes = [i \in Ids |-> IF i \in told THEN None ELSE @[i]],
                  !.wakers = {},
                  !.cur = Unowned]

\* The next index of the slab: only index 0 is special, so the lowest stands for any other.
FreeIndex(p) == CHOOSE i \in Ids : p.indexes[i] = "free" /\ \A j \in 0..(i - 1) : p.indexes[j] # "free"

\* reg
Register(p) == [p EXCEPT !.indexes[FreeIndex(p)] = None]

\* unreg
Unregister(p, i) ==
    LET q == [p EXCEPT !.indexes[i] = "free"] IN IF p.cur = i THEN Notify(q) ELSE q

-----------------------------------------------------------------------------
(* What a readiness check polls *)

Available(p) == p.count < scene.limit

\* Counter::poll_available
PollAvailable(p, t) ==
    CASE "count" \notin p.check[t].wait -> p
      [] "count" \in p.check[t].wait /\ Available(p) -> [p EXCEPT !.check[t].wait = @ \ {"count"}]
      [] OTHER -> [p EXCEPT !.counted = t]

\* Ctx::poll_fn, in which a service looks at its own readiness with the owner's waker
PollFn(p, s) ==
    LET owner == IF p.cur = Unowned THEN None ELSE p.indexes[p.cur]
        q     == IF p.cur # 0 THEN [p EXCEPT !.wakers = @ \cup {0}] ELSE p
    IN  IF p.gate[s] = "closed" THEN [q EXCEPT !.asked[s] = owner] ELSE q

\* One service of util::ready; the check of the other is dropped when this one fails.
PollService(p, t, s) ==
    LET q == PollFn(p, s)
        failed == [q EXCEPT !.check[t].wait = @ \ Services, !.check[t].err = TRUE]
    IN  CASE s \notin p.check[t].wait -> p
          [] s \in p.check[t].wait /\ p.gate[s] = "ready" -> [q EXCEPT !.check[t].wait = @ \ {s}]
          [] s \in p.check[t].wait /\ p.gate[s] = "failed" ->
                 IF p.check[t].wait \cap Services = {s} THEN failed ELSE Notify(failed)
          [] OTHER -> q

\* A wrong version: the limit is looked at once, and not waited for.
NewCheckUnlimited(p, what) ==
    [ on |-> TRUE, err |-> FALSE,
      wait |-> IF what \in {"limit", "inner"} THEN Services ELSE {what} ]

\* InFlightService::ready, AndThen::ready or a service's own: what a new check waits for
NewCheck(p, what) ==
    [ on |-> TRUE, err |-> FALSE,
      wait |-> CASE what = "limit" -> Services \cup (IF Available(p) THEN {} ELSE {"count"})
                 [] what = "inner" -> Services
                 [] OTHER -> {what} ]

PollCheck(p, t, what) ==
    LET q == IF p.check[t].on THEN p ELSE [p EXCEPT !.check[t] = NewCheck(p, what)]
    IN  PollService(PollService(PollAvailable(q, t), t, "A"), t, "B")

\* A wrong version: whoever finds another owner just waits.
RunUnlisted(p, i, t, what) ==
    LET q == [p EXCEPT !.indexes[i] = t]
        r == PollCheck([q EXCEPT !.cur = i], t, what)
    IN  CASE p.cur \notin {i, Unowned} -> q
          [] p.cur \in {i, Unowned} /\ r.check[t].wait = {} -> Notify(r)
          [] OTHER -> [r EXCEPT !.wakers = @ \cup {i}]

\* WaitersRef::run: the check is polled by its owner, or by whoever finds none.
Run(p, i, t, what) ==
    LET q == [p EXCEPT !.indexes[i] = t]
        r == PollCheck([q EXCEPT !.cur = i], t, what)
    IN  CASE p.cur \notin {i, Unowned} -> [q EXCEPT !.wakers = @ \cup {i}]
          [] p.cur \in {i, Unowned} /\ r.check[t].wait = {} -> Notify(r)
          [] OTHER -> [r EXCEPT !.wakers = @ \cup {i}]

Complete(p, t) == p.check[t].on /\ p.check[t].wait = {}
Forget(p, t) == [p EXCEPT !.check[t] = NoCheck]

\* ReadyCall::drop
DropReadyCall(p, i, c) ==
    Forget(IF p.at[c] > 0 /\ ~Complete(p, c) /\ p.cur = i THEN Notify(p) ELSE p, c)

-----------------------------------------------------------------------------
(* Calls *)

\* CounterInner::inc
Inc(p) == [p EXCEPT !.count = @ + 1]

\* CounterInner::dec
Dec(p) ==
    LET q == [p EXCEPT !.count = @ - 1]
    IN  IF p.count = scene.limit THEN Wake([q EXCEPT !.counted = None], p.counted) ELSE q

\* A call is over, or its future is dropped: the check it may be in, its guard, its binding.
EndCall(p, c) ==
    LET q == DropReadyCall(p, p.idx[c], c)
        r == IF Guarded(c) THEN Dec(q) ELSE q
    IN  [Unregister(r, p.idx[c]) EXCEPT !.at[c] = Len(Stages) + 1, !.idx[c] = Unowned, !.woken = @ \ {c}]

\* PipelineCall::new, over a binding of its own
StartCall(p, c, stage) ==
    [Register(p) EXCEPT !.at[c] = stage, !.idx[c] = FreeIndex(p), !.woken = @ \cup {c}]

\* Pipeline::call, PipelineBinding::call or call_static, on another task
Call(c) ==
    /\ turn = None /\ pl.at[c] = 0 /\ c \notin pl.queue /\ c \in scene.callers
    /\ pl' = StartCall(pl, c, 1)
    /\ UNCHANGED <<scene, turn>>

\* A request reaches the dispatcher.
Request(c) ==
    /\ turn = None /\ pl.at[c] = 0 /\ c \notin pl.queue /\ pl.main # "gone" /\ c \in scene.callers
    /\ pl' = [pl EXCEPT !.queue = @ \cup {c}, !.woken = @ \cup {Main}]
    /\ UNCHANGED <<scene, turn>>

\* The runtime polls a task.
PollTask(t) ==
    /\ turn = None /\ t \in pl.woken
    /\ turn' = t
    /\ pl' = [pl EXCEPT !.woken = @ \ {t}]
    /\ UNCHANGED scene

\* Ctx::ready of a stage, and the call behind it
AwaitReady(c) ==
    /\ turn = c /\ pl.at[c] \in 1..Len(Stages) /\ ~InBody(c)
    /\ LET q == Run(pl, pl.idx[c], c, Stages[pl.at[c]])
           done == Complete(q, c)
           on == [Forget(q, c) EXCEPT !.at[c] = @ + 1]
       IN  /\ pl' = CASE ~done -> q
                      [] done /\ q.check[c].err -> EndCall(q, c)
                      [] done /\ ~q.check[c].err /\ pl.at[c] = 2 -> Inc(on)
                      [] OTHER -> on
           /\ turn' = IF done /\ ~q.check[c].err THEN c ELSE None
    /\ UNCHANGED scene

\* The body of a service: Service::call of A or of B
AwaitBody(c) ==
    /\ turn = c /\ InBody(c)
    /\ LET last == pl.at[c] = Len(Stages)
       IN  /\ pl' = CASE pl.body[c] = "runs" -> pl
                      [] pl.body[c] = "ok" /\ ~last -> [pl EXCEPT !.at[c] = @ + 1, !.body[c] = "runs"]
                      [] OTHER -> EndCall(pl, c)
           /\ turn' = IF pl.body[c] = "ok" /\ ~last THEN c ELSE None
    /\ UNCHANGED scene

\* A task that was woken after its call was over
PollEnded(c) == turn = c /\ pl.at[c] \notin 1..Len(Stages) /\ turn' = None /\ UNCHANGED <<scene, pl>>

BodyDone(c, result) ==
    /\ turn = None /\ InBody(c) /\ pl.body[c] = "runs"
    /\ pl' = [pl EXCEPT !.body[c] = result, !.woken = @ \cup {c}]
    /\ UNCHANGED <<scene, turn>>

\* Whoever holds the call drops it.
DropCall(c) ==
    /\ turn = None /\ pl.at[c] \in 1..Len(Stages) /\ pl.left.cancels > 0
    /\ pl' = [EndCall(pl, c) EXCEPT !.left.cancels = @ - 1]
    /\ UNCHANGED <<scene, turn>>

-----------------------------------------------------------------------------
(* The dispatcher's task *)

\* Pipeline::call_nowait
CallNowait(p) ==
    \E c \in p.queue :
        /\ pl' = StartCall([p EXCEPT !.queue = @ \ {c}, !.main = "idle"], c, 2)
        /\ turn' = Main

\* PipelineInner::poll_ready, CheckReadiness::poll.  A ready dispatcher takes its requests.
PollReady ==
    /\ turn = Main /\ pl.main # "gone" /\ pl.runtime \in {"New", "Readiness"}
    /\ LET q == Run([pl EXCEPT !.runtime = "Readiness"], 0, Main, "limit")
           done == Complete(q, Main)
           r == Forget(q, Main)
       IN  IF done /\ ~q.check[Main].err /\ pl.queue # {}
           THEN CallNowait(r)
           ELSE /\ pl' = IF done THEN [r EXCEPT !.main = "idle"] ELSE [q EXCEPT !.main = "waits"]
                /\ turn' = None
    /\ UNCHANGED scene

\* A pipeline that was shut down is always ready.
PollReadyShut ==
    /\ turn = Main /\ pl.main # "gone" /\ pl.runtime \in {"Shutdown", "Done"} /\ ~scene.state
    /\ IF pl.queue # {} THEN CallNowait(pl) ELSE pl' = [pl EXCEPT !.main = "idle"] /\ turn' = None
    /\ UNCHANGED scene

\* CheckReadiness::drop
DropCheck(p) == Forget(IF p.check[Main].on THEN Notify(p) ELSE p, Main)

\* PipelineInner::poll_shutdown
PollShutdown ==
    /\ turn = Main /\ pl.main # "gone" /\ ~scene.state
    /\ \E done \in BOOLEAN :
           pl' = [ (IF pl.runtime \in {"New", "Readiness"} THEN DropCheck(pl) ELSE pl)
                     EXCEPT !.runtime = IF done \/ @ = "Done" THEN "Done" ELSE "Shutdown",
                            !.down = TRUE, !.main = "idle" ]
    /\ turn' = None
    /\ UNCHANGED scene

\* PipelineState::shutdown
StateShutdown ==
    /\ turn = Main /\ pl.main # "gone" /\ scene.state
    /\ pl' = [DropCheck(pl) EXCEPT !.runtime = "Shutdown", !.main = "idle"]
    /\ turn' = None
    /\ UNCHANGED scene

\* Pipeline::drop.  The requests the dispatcher holds go with it.
DropPipeline ==
    /\ turn = Main /\ pl.main # "gone"
    /\ pl' = [Unregister(pl, 0) EXCEPT !.main = "gone", !.queue = {}]
    /\ turn' = None
    /\ UNCHANGED scene

PollGone == turn = Main /\ pl.main = "gone" /\ turn' = None /\ UNCHANGED <<scene, pl>>

-----------------------------------------------------------------------------
(* The services *)

\* A service stops being ready, or its readiness fails.
CloseGate(s, how) ==
    /\ turn = None /\ s \in Services /\ pl.gate[s] = "ready" /\ pl.left.closings > 0
    /\ pl' = [pl EXCEPT !.gate[s] = how, !.left.closings = @ - 1]
    /\ UNCHANGED <<scene, turn>>

\* A service is ready again and wakes the task that asked last.
OpenGate(s) ==
    /\ turn = None /\ pl.gate[s] # "ready"
    /\ pl' = Wake([pl EXCEPT !.gate[s] = "ready", !.asked[s] = None], pl.asked[s])
    /\ UNCHANGED <<scene, turn>>

PipelineInit == scene \in Scenes /\ turn = None /\ pl = NewPipeline

PipelineNext ==
    \/ \E c \in Callers : \/ Call(c) \/ Request(c) \/ AwaitReady(c) \/ AwaitBody(c) \/ PollEnded(c)
                          \/ DropCall(c) \/ BodyDone(c, "ok") \/ BodyDone(c, "err")
    \/ \E t \in Tasks : PollTask(t)
    \/ PollReady \/ PollReadyShut \/ PollShutdown \/ StateShutdown \/ DropPipeline \/ PollGone
    \/ \E s \in {"A", "B"} : CloseGate(s, "closed") \/ CloseGate(s, "failed") \/ OpenGate(s)

PipelineSpec == PipelineInit /\ [][PipelineNext]_pipelineVars

-----------------------------------------------------------------------------
(* Nothing is to be done: no task runs or was woken, no body runs, every service is ready. *)
Quiet == /\ turn = None /\ pl.woken = {}
         /\ \A c \in Callers : ~InBody(c)
         /\ \A s \in Services : pl.gate[s] = "ready"

(* No call and no dispatcher is left waiting for readiness when nothing more will wake it:
   whoever takes over, drops or finishes the check (WaitersRef::run, remove, notify,
   ReadyCall::drop, CheckReadiness::drop) and whatever the services wake, each waiting task is
   woken while there is something for it to do. *)
PipelineNotStranded ==
    Quiet => /\ pl.main # "waits"
             /\ \A c \in Callers : pl.at[c] \notin 1..Len(Stages)

(* InFlight never lets more calls into the enclosed service than its limit, and counts exactly
   the calls that hold a guard, although the check that finds room and the guard that takes it
   belong to different futures. *)
LimitRespected ==
    /\ pl.count = Cardinality({c \in Callers : Guarded(c)})
    /\ pl.count <= scene.limit

(* "The current task is notified when the service becomes ready again" (Service::ready): a call
   that waits for the readiness of one service is served once that service is ready and no task
   has anything left to do. *)
NotifiedWhenReady ==
    Quiet => \A c \in Callers : pl.at[c] \in 1..Len(Stages) => Stages[pl.at[c]] \notin {"inner", "A", "B"}
=============================================================================

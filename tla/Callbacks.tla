------------------------------ MODULE Callbacks -------------------------------
(* Task callbacks (rt/task.rs) and the tasks that carry them (rt_default.rs).  *)
(* One set of callbacks is installed for the process, by whichever thread      *)
(* comes first; a task spawned afterwards owns a pointer that `before` gave    *)
(* and `after` takes back.                                                     *)
EXTENDS Integers, FiniteSets

CONSTANTS CbThreads,       \* threads that install callbacks or spawn
          CbTasks          \* tasks, each spawned once at most

VARIABLE cb

UNINITIALIZED == 0
INITIALIZING == 1
INITIALIZED == 2

\* STATE and CBS; where each thread is in set_cbs, and what its call answered; what each task
\* holds (the callbacks it was spawned under), and what was done with its pointer.
CallbacksInit ==
    cb = [state |-> UNINITIALIZED, cbs |-> "unset",
          pc |-> [t \in CbThreads |-> "idle"],
          installed |-> {},
          sees |-> {},                                     \* threads that read the value of CBS for sure
          task |-> [k \in CbTasks |-> "none"],
          data |-> [k \in CbTasks |-> "unset"],
          ptr |-> [k \in CbTasks |-> "none"]]

\* set_cbs, up to the end of compare_exchange.  A call that finds callbacks installed is refused:
\* task_opt_callbacks answers false, and task_callbacks ignores it.
SetCbs(c, t) ==
    CASE c.state = UNINITIALIZED -> [c EXCEPT !.state = INITIALIZING, !.pc[t] = "store"]
      [] c.state = INITIALIZING -> [c EXCEPT !.pc[t] = "spin"]
      [] OTHER -> [c EXCEPT !.pc[t] = "refused"]

\* The rest of it: CBS = Some(cbs), then STATE.store.
StoreCbs(c, t) == [c EXCEPT !.cbs = t, !.sees = {t}, !.pc[t] = "publish"]
Publish(c, t) == [c EXCEPT !.state = INITIALIZED, !.pc[t] = "done", !.installed = @ \cup {t}]
SpinEnds(c, t) == [c EXCEPT !.pc[t] = "refused"]

\* Data::load and spawn.  `before` may decline; STATE is loaded without ordering, so a thread that
\* did not install the callbacks may not see CBS, and unwrap then panics.
Spawn(c, t, k) ==
    LET plain == [c EXCEPT !.task[k] = "queued"]
    IN  IF c.state # INITIALIZED THEN {plain}
        ELSE {plain, [plain EXCEPT !.data[k] = c.cbs, !.ptr[k] = "owned"]}
             \cup (IF t \in c.sees THEN {} ELSE {[c EXCEPT !.task[k] = "ended"]})

\* Data::run around a poll: enter, the future, exit.  A panic of the future skips exit.
Run(c, k) ==
    {[c EXCEPT !.task[k] = "queued"], [c EXCEPT !.task[k] = "finished"]}

\* The future is dropped, and its Data with it: `after`.
DropTask(c, k) ==
    [c EXCEPT !.task[k] = "ended", !.ptr[k] = IF @ = "owned" THEN "returned" ELSE @]

-----------------------------------------------------------------------------

Install == \E t \in CbThreads : cb.pc[t] = "idle" /\ cb' = SetCbs(cb, t)
InstallStore == \E t \in CbThreads : cb.pc[t] = "store" /\ cb' = StoreCbs(cb, t)
InstallPublish == \E t \in CbThreads : cb.pc[t] = "publish" /\ cb' = Publish(cb, t)
InstallSpins == \E t \in CbThreads : cb.pc[t] = "spin" /\ cb.state # INITIALIZING /\ cb' = SpinEnds(cb, t)

\* A thread spawns before it installs callbacks, after, or without.
SpawnTask == \E t \in CbThreads, k \in CbTasks :
    cb.pc[t] \in {"idle", "done", "refused"} /\ cb.task[k] = "none" /\ cb' \in Spawn(cb, t, k)
RunTask == \E k \in CbTasks : cb.task[k] = "queued" /\ cb' \in Run(cb, k)
EndTask == \E k \in CbTasks : cb.task[k] \in {"queued", "finished"} /\ cb' = DropTask(cb, k)

CallbacksNext == Install \/ InstallStore \/ InstallPublish \/ InstallSpins \/ SpawnTask \/ RunTask \/ EndTask

-----------------------------------------------------------------------------

\* One call at most installs callbacks, and they are never replaced: those a task refers to, with
\* no count of its own, are the ones in CBS.  A task that has ended has given back its pointer,
\* and a call that waited for another's installation learns that it is complete (task.rs set_cbs,
\* Data::load, Drop for Data).
CallbacksKept ==
    /\ Cardinality(cb.installed) =< 1
    /\ \A k \in CbTasks : cb.data[k] # "unset" => cb.data[k] = cb.cbs
    /\ \A k \in CbTasks : cb.task[k] = "ended" => cb.ptr[k] # "owned"
    /\ (\E t \in CbThreads : cb.pc[t] = "refused") => cb.state = INITIALIZED /\ cb.cbs # "unset"
=============================================================================

------------------------------ MODULE UringRing -----------------------------
(***************************************************************************)
(* The io_uring reactor (net/uring/reactor.rs): the submission queue and   *)
(* the deque of changes behind it, the completions, the eventfd other      *)
(* threads wake the reactor with, and the loop of Driver::run.             *)
(*                                                                         *)
(* Requests are numbered in the order they are submitted.  The submission  *)
(* queue is a sequence as this thread sees it: the kernel may have taken   *)
(* some of its first entries already (`eaten`), which sync() finds out,    *)
(* and sees its first `flushed` entries only, which sync() moves on.       *)
(***************************************************************************)
EXTENDS Integers, Sequences, SequencesExt

CONSTANTS
    SqCap,      \* capacity of the submission queue
    DequeCap,   \* capacity `changes` is created with
    Requests,   \* requests submitted in a behaviour, bound
    Wakes       \* notifications of other threads, bound

VARIABLES
    pc,         \* "completions", "poll", "wait", "panicked" or "done"
    sq,         \* entries pushed: request numbers, or NOTIFY
    eaten,
    flushed,
    changes,    \* [head, cap, items]: a ring buffer whose first item is at head
    next,       \* number of the next request
    got,        \* requests the kernel took, in order
    flying,     \* how many of these have no completion yet
    cq,         \* completions: [notify, more]
    found,      \* completions cq.sync() has found and poll_completions not handled
    armed,      \* the kernel polls the eventfd
    efd,        \* the eventfd's counter is not zero
    edge,       \* the poll has an event to report
    remote,     \* another thread's task is in the runtime's queue
    wakes       \* notifications left

ringVars == <<pc, sq, eaten, flushed, changes, next, got, flying, cq, found,
              armed, efd, edge, remote, wakes>>

NOTIFY == 0

(***************************************************************************)
(* The submission queue (external) and VecDeque (external)                 *)
(***************************************************************************)
is_full(q) == Len(q) = SqCap

\* VecDeque::as_slices: where the second slice begins the buffer has wrapped.
FirstSlice(d) ==
    LET room == d.cap - d.head
    IN  IF Len(d.items) <= room THEN d.items ELSE SubSeq(d.items, 1, room)

SecondSlice(d) == SubSeq(d.items, Len(FirstSlice(d)) + 1, Len(d.items))

\* A full deque doubles; of a wrapped one the shorter part is moved.
Grown(d) ==
    LET first == Len(FirstSlice(d))
        rest  == Len(SecondSlice(d))
    IN  IF Len(d.items) < d.cap THEN d
        ELSE [d EXCEPT !.cap = 2 * @,
                       !.head = IF rest = 0 \/ first > rest THEN @ ELSE 2 * d.cap - first]

push_back(d, e) == [Grown(d) EXCEPT !.items = Append(@, e)]

drain(d, num) ==
    LET rest == SubSeq(d.items, num + 1, Len(d.items))
    IN  [d EXCEPT !.items = rest,
                  !.head = IF rest = <<>> THEN 0 ELSE (@ + num) % d.cap]

(***************************************************************************)
(* Submitting                                                              *)
(***************************************************************************)
\* ReactorApi::submit, submit_inline and cancel
submit_inner(q, d, e) ==
    IF d.items # <<>> \/ is_full(q) THEN [sq |-> q, changes |-> push_back(d, e)]
    ELSE [sq |-> Append(q, e), changes |-> d]

Submitted ==
    LET r == submit_inner(sq, changes, next)
    IN  sq' = r.sq /\ changes' = r.changes /\ next' = next + 1

\* Mutant: apply_changes drains the deque, whatever the queue had room for.
apply_changes_drains_all(q, d) ==
    LET num   == Min({Len(d.items), SqCap - Len(q)})
        first == FirstSlice(d)
        some  == Min({Len(first), num})
        push  == IF some > 0 THEN SubSeq(first, 1, some)
                 ELSE SubSeq(SecondSlice(d), 1, Min({Len(SecondSlice(d)), num - some}))
    IN  [sq |-> q \o push, changes |-> drain(d, Len(d.items))]

\* What is pushed and how much is drained; the second slice is pushed only when
\* the first one gives nothing.
apply_changes(q, d) ==
    LET num   == Min({Len(d.items), SqCap - Len(q)})
        first == FirstSlice(d)
        some  == Min({Len(first), num})
        push  == IF some > 0 THEN SubSeq(first, 1, some)
                 ELSE SubSeq(SecondSlice(d), 1, Min({Len(SecondSlice(d)), num - some}))
    IN  [sq |-> q \o push, changes |-> drain(d, num)]

(***************************************************************************)
(* The loop                                                                *)
(***************************************************************************)
\* One completion of a handler, which may submit a request from it.
CompleteRequest(again) ==
    /\ pc = "completions" /\ found > 0 /\ ~Head(cq).notify
    /\ cq' = Tail(cq) /\ found' = found - 1
    /\ IF again THEN next <= Requests /\ Submitted ELSE UNCHANGED <<sq, changes, next>>
    /\ UNCHANGED <<pc, eaten, flushed, got, flying, armed, efd, edge, remote, wakes>>

\* The eventfd is read, and the poll re-armed if it ended; the push must succeed.
CompleteNotify ==
    /\ pc = "completions" /\ found > 0 /\ Head(cq).notify
    /\ cq' = Tail(cq) /\ found' = found - 1 /\ efd' = FALSE
    /\ \/ /\ Head(cq).more
          /\ UNCHANGED <<pc, sq>>
       \/ /\ ~Head(cq).more /\ ~is_full(sq)
          /\ sq' = Append(sq, NOTIFY) /\ UNCHANGED pc
       \/ /\ ~Head(cq).more /\ is_full(sq)
          /\ pc' = "panicked" /\ UNCHANGED sq
    /\ UNCHANGED <<eaten, flushed, changes, next, got, flying, armed, edge, remote, wakes>>

\* After the last completion the handlers tick, and Runtime::poll runs the tasks.
Tick ==
    /\ pc = "completions" /\ found = 0
    /\ pc' = "poll" /\ remote' = FALSE
    /\ UNCHANGED <<sq, eaten, flushed, changes, next, got, flying, cq, found, armed, efd, edge, wakes>>

\* A task submits a request.
TaskSubmits ==
    /\ pc = "poll" /\ next <= Requests
    /\ Submitted
    /\ UNCHANGED <<pc, eaten, flushed, got, flying, cq, found, armed, efd, edge, remote, wakes>>

\* apply_changes() and then sync()
Synced(q, d) ==
    LET applied == apply_changes(q, d)
    IN  [sq |-> applied.sq, flushed |-> Len(applied.sq), changes |-> applied.changes]

\* The kernel takes n of the entries it sees; sync() has found out what it took
\* before.
Enter(n, more_tasks) ==
    LET r     == Synced(sq, changes)
        q     == SubSeq(r.sq, eaten + 1, Len(r.sq))
        seen  == r.flushed - eaten
        taken == SubSeq(q, 1, n)
        reqs  == SelectSeq(taken, LAMBDA e : e # NOTIFY)
    IN  /\ pc = "poll" /\ n <= seen
        /\ sq' = q /\ eaten' = n /\ flushed' = seen /\ changes' = r.changes
        /\ got' = got \o reqs /\ flying' = flying + Len(reqs)
        /\ armed' = (armed \/ Contains(taken, NOTIFY))
        /\ edge' = (edge \/ (Contains(taken, NOTIFY) /\ efd))
        /\ pc' = IF n < seen \/ more_tasks \/ r.changes.items # <<>> THEN "completions" ELSE "wait"
        /\ found' = IF pc' = "completions" THEN Len(cq) ELSE 0
        /\ UNCHANGED <<next, cq, efd, remote, wakes>>

\* The call took everything, or failed with EBUSY, EAGAIN, EINTR or ETIME after
\* it took a part.
Run == \E n \in 0..SqCap : \E more_tasks \in BOOLEAN : Enter(n, more_tasks)

\* submit_and_wait returns once there is a completion, or is interrupted.
Return ==
    /\ pc = "wait"
    /\ pc' = "completions" /\ found' = Len(cq)
    /\ UNCHANGED <<sq, eaten, flushed, changes, next, got, flying, cq, armed, efd, edge, remote, wakes>>

\* The runtime is Ready: the loop ends and the handlers are cleaned up.
Finish ==
    /\ pc = "poll" /\ next > Requests /\ wakes = 0
    /\ pc' = "done"
    /\ UNCHANGED <<sq, eaten, flushed, changes, next, got, flying, cq, found,
                   armed, efd, edge, remote, wakes>>

(***************************************************************************)
(* Other threads and the kernel                                            *)
(***************************************************************************)
\* Handle::spawn from another thread: the task is queued, then the reactor is
\* notified by a write to the eventfd.
Notify ==
    /\ wakes > 0 /\ pc \notin {"panicked", "done"}
    /\ wakes' = wakes - 1 /\ remote' = TRUE /\ efd' = TRUE /\ edge' = TRUE
    /\ UNCHANGED <<pc, sq, eaten, flushed, changes, next, got, flying, cq, found, armed>>

Completed ==
    /\ flying > 0 /\ pc \notin {"panicked", "done"}
    /\ flying' = flying - 1
    /\ cq' = Append(cq, [notify |-> FALSE, more |-> FALSE])
    /\ UNCHANGED <<pc, sq, eaten, flushed, changes, next, got, found, armed, efd,
                   edge, remote, wakes>>

\* The multishot poll reports the eventfd and may end with it.
Polled(more) ==
    /\ armed /\ edge /\ pc \notin {"panicked", "done"}
    /\ edge' = FALSE /\ armed' = more
    /\ cq' = Append(cq, [notify |-> TRUE, more |-> more])
    /\ UNCHANGED <<pc, sq, eaten, flushed, changes, next, got, flying, found, efd,
                   remote, wakes>>

(***************************************************************************)
(* Specification                                                           *)
(***************************************************************************)
RingInit ==
    /\ pc = "completions" /\ sq = <<NOTIFY>> /\ eaten = 0 /\ flushed = 1
    /\ changes = [head |-> 0, cap |-> DequeCap, items |-> <<>>]
    /\ next = 1 /\ got = <<>> /\ flying = 0 /\ cq = <<>> /\ found = 0
    /\ armed = FALSE /\ efd = FALSE /\ edge = FALSE /\ remote = FALSE /\ wakes = Wakes

RingNext ==
    \/ \E again \in BOOLEAN : CompleteRequest(again)
    \/ CompleteNotify \/ Tick \/ TaskSubmits \/ Run \/ Return \/ Finish \/ Notify
    \/ Completed
    \/ \E more \in BOOLEAN : Polled(more)

RingSpec == RingInit /\ [][RingNext]_ringVars

(***************************************************************************)
(* Properties                                                              *)
(***************************************************************************)
\* The requests the kernel has, those in the queue it has not taken, and those that
\* wait in `changes`, as they are ordered
Kept ==
    got \o SelectSeq(SubSeq(sq, eaten + 1, Len(sq)), LAMBDA e : e # NOTIFY) \o changes.items

\* The run loop calls apply_changes, which drains more requests than the slice it pushes has.
DrainsUnpushed ==
    /\ pc = "poll" /\ pc' \in {"completions", "wait"}
    /\ FirstSlice(changes) # <<>>
    /\ Min({Len(changes.items), SqCap - Len(sq)}) > Len(FirstSlice(changes))

\* A step: a request that was submitted is kept, behind those submitted before it,
\* until the kernel has it, also when it has to wait in `changes` (submit_inner lets
\* none overtake those, apply_changes pushes what it drains).  The exception is a
\* wrapped ring buffer, of which apply_changes pushes the first slice alone.
KeepsRequests ==
    DrainsUnpushed \/ Kept' = Kept \o [i \in 1..next' - next |-> next + i - 1]

\* The reactor never sleeps on work it has: when it waits for a completion, no
\* request is left in `changes` or unseen in the queue, and a task another thread
\* has queued comes with a notification that will end the wait.
SleepsOnNothing ==
    pc = "wait" =>
        /\ changes.items = <<>> /\ flushed = Len(sq) /\ eaten = flushed
        /\ remote => \/ armed /\ edge
                     \/ \E i \in DOMAIN cq : cq[i].notify

=============================================================================

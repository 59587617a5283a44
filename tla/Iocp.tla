-------------------------------- MODULE Iocp --------------------------------
(***************************************************************************)
(* The Windows back end of geario-polling (iocp/mod.rs, afd.rs, port.rs):  *)
(* readiness made out of completions.  A registered socket has a packet;   *)
(* while the packet is Polling an AFD poll request with its mask is in the *)
(* kernel, and its completion comes back through the completion port.  A   *)
(* change of interest cancels the request and starts another when the      *)
(* cancellation has come back.  Updates made while the waiting thread is   *)
(* not in the port are queued for it.                                      *)
(*                                                                         *)
(* One thread waits, every source has a thread that adds, modifies and     *)
(* deletes it, and for a waitable handle a pool thread runs the callback.  *)
(* Each step holds one mutex or makes one atomic access.  The mask of AFD  *)
(* events is abstracted to "r", "w" and "e" (abort or failed connect); the *)
(* extra interests (priority data, hang-up) are left out, and so are the   *)
(* sharing of AFD handles and failing system calls.                        *)
(***************************************************************************)
EXTENDS Naturals, Sequences, FiniteSets

CONSTANTS
    Sockets, Waitables,  \* the sources
    Scenes,      \* what is explored: [srcs, asks] and bounds [packets, calls, changes, posts, waits]
    QueueCap     \* capacity of pending_updates, 1024 in the code

VARIABLES
    polling,     \* the flag of the Poller
    queue,       \* pending_updates: packets
    port,        \* the completion port: entries [kind, p, ok, ev]
    reg,         \* the sources and waitables maps: source -> packet, 0 for none
    pk,          \* the packets, with the AFD request or the wait of each
    opc, opk,    \* the thread of each source, and the packet it updates
    todo,        \* how many queue entries it still drains
    wpc, wpk, wtodo,  \* the waiting thread
    timeout,     \* its timeout: "none", "later", "over" (it passed in the port), "zero"
    got,         \* the entries it took from the port
    found,       \* the wait has a notification or an event to return
    ready,       \* readiness of the sockets, "r" for a signalled handle
    scene        \* the scene, with what remains of its bounds

iocpVars == <<polling, queue, port, reg, pk, opc, opk, todo, wpc, wpk, wtodo, timeout, got, found, ready, scene>>
waiterVars == <<wpc, wpk, wtodo, timeout, got, found>>
threadVars == <<opc, opk, todo>>

IocpSources == Sockets \cup Waitables

\* A packet.  st is SocketStatus or WaitableStatus, in_use the lock of the status block; afd is
\* the request in the kernel, and for a waitable the registered wait or its running callback.
NoPacket == [src |-> "none", key |-> 0, dirs |-> {}, err |-> FALSE, mode |-> "Oneshot", del |-> FALSE,
             st |-> "idle", flags |-> {}, in_use |-> FALSE, afd |-> "none"]

Packets == DOMAIN pk

\* The state that packet methods read and change.
IocpWorld == [pk |-> pk, queue |-> queue, port |-> port]
IocpBecomes(w) == pk' = w.pk /\ queue' = w.queue /\ port' = w.port

IocpInit ==
    /\ scene \in Scenes
    /\ polling = FALSE /\ queue = <<>> /\ port = <<>>
    /\ reg = [s \in IocpSources |-> 0]
    /\ pk = <<>>
    /\ opc = [s \in IocpSources |-> "idle"]
    /\ opk = [s \in IocpSources |-> 0]
    /\ todo = [s \in IocpSources |-> 0]
    /\ wpc = "idle" /\ wpk = 0 /\ wtodo = 0 /\ timeout = "none" /\ got = <<>> /\ found = FALSE
    /\ ready = [s \in IocpSources |-> {}]

-----------------------------------------------------------------------------
(* Methods of a packet. *)

\* event_to_afd_mask: errors are watched with any direction, and alone until a one-shot fired.
AfdMask(dirs, err) == dirs \cup (IF err \/ dirs # {} THEN {"e"} ELSE {})

\* afd_mask_to_event: an error is readable and writable.
AfdToEvent(mask) == IF "e" \in mask THEN {"r", "w"} ELSE mask

IsSocket(p) == p.src \in Sockets

\* Mutant: the packet is idle as soon as the cancellation is asked for.
CancelForgets(w, i) ==
    [w EXCEPT !.pk[i].st = "idle", !.pk[i].afd = IF @ = "pending" THEN "cancelling" ELSE @]

\* cancel: asks AFD to cancel a request that is still pending; it comes back through the port.
Cancel(w, i) ==
    [w EXCEPT !.pk[i].st = "cancelled", !.pk[i].afd = IF @ = "pending" THEN "cancelling" ELSE @]

\* Afd::poll: a block that is in use is reported as pending and nothing is started.
AfdPoll(w, i, mask) ==
    [w EXCEPT !.pk[i].st = "polling", !.pk[i].flags = mask, !.pk[i].in_use = TRUE,
              !.pk[i].afd = IF w.pk[i].in_use THEN @ ELSE "pending"]

\* update of a waitable: an idle one with an interest registers a wait.
UpdateWaitable(w, i) ==
    IF w.pk[i].dirs = {} \/ w.pk[i].st # "idle" THEN w
    ELSE [w EXCEPT !.pk[i].st = "waiting", !.pk[i].afd = "pending"]

Update(w, i) ==
    LET p == w.pk[i]
        mask == AfdMask(p.dirs, p.err)
    IN  IF ~IsSocket(p) THEN UpdateWaitable(w, i)
        ELSE IF p.del THEN w
        ELSE IF p.st = "polling" THEN IF mask # p.flags THEN Cancel(w, i) ELSE w
        ELSE IF p.st = "cancelled" THEN w
        ELSE AfdPoll(w, i, mask)

\* set_events: the new interest, and whether the packet has to be updated.
SetEvents(w, i, a) ==
    LET v == [w EXCEPT !.pk[i].key = a.key, !.pk[i].dirs = a.dirs, !.pk[i].mode = a.mode,
                       !.pk[i].err = IsSocket(w.pk[i])]
        p == v.pk[i]
    IN  [w |-> v, update |-> IF ~IsSocket(p) THEN p.st = "idle"
                             ELSE p.st = "polling" => AfdMask(p.dirs, p.err) # p.flags]

\* begin_delete: a pending request is cancelled, a waitable's wait is unregistered.
BeginDelete(w, i) ==
    LET p == w.pk[i]
        v == [w EXCEPT !.pk[i].del = TRUE]
    IN  IF ~IsSocket(p)
        THEN [w EXCEPT !.pk[i].st = "cancelled", !.pk[i].afd = IF @ = "pending" THEN "none" ELSE @]
        ELSE IF ~p.del /\ p.st = "polling" THEN Cancel(v, i) ELSE v

\* Entries of the port, and what feeding one does: the packet, whether an event is reported, and
\* whether the packet goes to update_packet.
Entry(kind, i, ok, ev) == [kind |-> kind, p |-> i, ok |-> ok, ev |-> ev]

\* A request that ends with an error status is reported in both directions; AFD's error event ("e"),
\* which AfdToEvent maps to both, stands for it.  LOCAL_CLOSE, which comes when a socket is closed
\* before it is deleted from the poller, against the contract of add, is left out.
Reports(p, e) == (IF e.ok THEN AfdToEvent(e.ev) ELSE {}) \cap p.dirs

FeedSocket(w, e) ==
    LET i == e.p
        p == w.pk[i]
        v == [w EXCEPT !.pk[i].st = "idle", !.pk[i].in_use = FALSE]
        event == Reports(p, e) # {}
    IN  IF p.del THEN [w |-> v, event |-> FALSE, update |-> FALSE]
        ELSE [w |-> IF event /\ p.mode = "Oneshot"
                    THEN [v EXCEPT !.pk[i].dirs = {}, !.pk[i].err = FALSE] ELSE v,
              event |-> event, update |-> TRUE]

FeedWaitable(w, e) ==
    [w |-> IF w.pk[e.p].mode = "Oneshot" THEN [w EXCEPT !.pk[e.p].dirs = {}] ELSE w,
     event |-> TRUE, update |-> TRUE]

\* A notification and a custom packet are reported as they are.
FeedEvent(w, e) ==
    IF e.kind # "packet" THEN [w |-> w, event |-> TRUE, update |-> FALSE]
    ELSE IF IsSocket(w.pk[e.p]) THEN FeedSocket(w, e)
    ELSE FeedWaitable(w, e)

-----------------------------------------------------------------------------
(* The threads of the sources: add, modify, delete, and update_packet. *)

Calls == scene.calls > 0 /\ scene' = [scene EXCEPT !.calls = @ - 1]
Edge(a) == a.mode \in {"Edge", "EdgeOneshot"}

Adds(s) ==
    /\ opc[s] = "idle" /\ Calls
    /\ \E a \in scene.asks :
         IF Edge(a) \/ reg[s] # 0 THEN UNCHANGED <<reg, pk, opc, opk>>
         ELSE /\ Len(pk) < scene.packets
              /\ pk' = Append(pk, [NoPacket EXCEPT !.src = s, !.key = a.key, !.dirs = a.dirs,
                                                   !.mode = a.mode, !.err = s \in Sockets])
              /\ reg' = [reg EXCEPT ![s] = Len(pk) + 1]
              /\ opk' = [opk EXCEPT ![s] = Len(pk) + 1]
              /\ opc' = [opc EXCEPT ![s] = "load"]
    /\ UNCHANGED <<polling, queue, port, todo, waiterVars, ready>>

Modifies(s) ==
    /\ opc[s] = "idle" /\ Calls
    /\ \E a \in scene.asks :
         IF Edge(a) \/ reg[s] = 0 THEN UNCHANGED <<pk, opc, opk>>
         ELSE LET r == SetEvents(IocpWorld, reg[s], a)
              IN  /\ pk' = r.w.pk
                  /\ opk' = IF r.update THEN [opk EXCEPT ![s] = reg[s]] ELSE opk
                  /\ opc' = IF r.update THEN [opc EXCEPT ![s] = "load"] ELSE opc
    /\ UNCHANGED <<polling, queue, port, reg, todo, waiterVars, ready>>

Deletes(s) ==
    /\ opc[s] = "idle" /\ Calls
    /\ reg[s] # 0
    /\ reg' = [reg EXCEPT ![s] = 0]
    /\ IocpBecomes(BeginDelete(IocpWorld, reg[s]))
    /\ UNCHANGED <<polling, threadVars, waiterVars, ready>>

\* The same for a socket and for a waitable handle.
AddSocket(s) == s \in Sockets /\ Adds(s)
ModifySocket(s) == s \in Sockets /\ Modifies(s)
DeleteSocket(s) == s \in Sockets /\ Deletes(s)
AddWaitable(s) == s \in Waitables /\ Adds(s)
ModifyWaitable(s) == s \in Waitables /\ Modifies(s)
RemoveWaitable(s) == s \in Waitables /\ Deletes(s)

\* update_packet: at once while the waiting thread is in the port, ...
UpdateLoad(s) ==
    /\ opc[s] = "load"
    /\ opc' = [opc EXCEPT ![s] = IF polling THEN "update" ELSE "push"]
    /\ UNCHANGED <<polling, queue, port, reg, pk, opk, todo, waiterVars, ready, scene>>

UpdateNow(s) ==
    /\ opc[s] = "update"
    /\ IocpBecomes(Update(IocpWorld, opk[s]))
    /\ opc' = [opc EXCEPT ![s] = "idle"] /\ opk' = [opk EXCEPT ![s] = 0]
    /\ UNCHANGED <<polling, reg, todo, waiterVars, ready, scene>>

\* ... otherwise through the queue, which is drained first when it is full.
UpdatePush(s) ==
    /\ opc[s] = "push"
    /\ IF Len(queue) < QueueCap
       THEN /\ queue' = Append(queue, opk[s])
            /\ opc' = [opc EXCEPT ![s] = "idle"] /\ opk' = [opk EXCEPT ![s] = 0]
            /\ UNCHANGED todo
       ELSE /\ opc' = [opc EXCEPT ![s] = "drain"] /\ todo' = [todo EXCEPT ![s] = QueueCap]
            /\ UNCHANGED <<queue, opk>>
    /\ UNCHANGED <<polling, port, reg, pk, waiterVars, ready, scene>>

\* drain_update_queue, one entry.
Drained(w) == Update([w EXCEPT !.queue = Tail(@)], Head(w.queue))

UpdateDrain(s) ==
    /\ opc[s] = "drain"
    /\ IF todo[s] > 0 /\ queue # <<>>
       THEN /\ IocpBecomes(Drained(IocpWorld))
            /\ todo' = [todo EXCEPT ![s] = @ - 1] /\ UNCHANGED opc
       ELSE /\ opc' = [opc EXCEPT ![s] = "load"] /\ todo' = [todo EXCEPT ![s] = 0]
            /\ UNCHANGED <<pk, queue, port>>
    /\ UNCHANGED <<polling, reg, opk, waiterVars, ready, scene>>

\* notify, and post of a CompletionPacket.
Post ==
    /\ scene.posts > 0
    /\ \E kind \in {"wakeup", "custom"} : port' = Append(port, Entry(kind, 0, TRUE, {}))
    /\ scene' = [scene EXCEPT !.posts = @ - 1]
    /\ UNCHANGED <<polling, queue, reg, pk, threadVars, waiterVars, ready>>

-----------------------------------------------------------------------------
(* The waiting thread: wait_deadline. *)

IocpWait ==
    /\ wpc = "idle" /\ scene.waits > 0
    /\ timeout' \in {"none", "later", "zero"}
    /\ wpc' = "start" /\ found' = FALSE
    /\ scene' = [scene EXCEPT !.waits = @ - 1]
    /\ UNCHANGED <<polling, queue, port, reg, pk, threadVars, wpk, wtodo, got, ready>>

StartPolling ==
    /\ wpc = "start"
    /\ polling' = TRUE
    /\ wpc' = "drain"
    /\ UNCHANGED <<queue, port, reg, pk, threadVars, wpk, wtodo, timeout, got, found, ready, scene>>

DrainBefore ==
    /\ wpc = "drain"
    /\ IF queue # <<>> THEN IocpBecomes(Drained(IocpWorld)) /\ UNCHANGED wpc
       ELSE wpc' = "blocked" /\ UNCHANGED <<pk, queue, port>>
    /\ UNCHANGED <<polling, reg, threadVars, wpk, wtodo, timeout, got, found, ready, scene>>

\* GetQueuedCompletionStatusEx returns with everything queued, or with nothing at its timeout.
PortReturns ==
    /\ wpc = "blocked"
    /\ port # <<>> \/ timeout # "none"
    /\ got' = port /\ port' = <<>>
    /\ timeout' = IF port = <<>> /\ timeout = "later" THEN "over" ELSE timeout
    /\ wpc' = "stop"
    /\ UNCHANGED <<polling, queue, reg, pk, threadVars, wpk, wtodo, found, ready, scene>>

StopPolling ==
    /\ wpc = "stop"
    /\ polling' = FALSE
    /\ wpc' = "feed"
    /\ UNCHANGED <<queue, port, reg, pk, threadVars, wpk, wtodo, timeout, got, found, ready, scene>>

\* One entry: feed_event up to its update_packet.
Feed ==
    /\ wpc = "feed" /\ got # <<>>
    /\ LET f == FeedEvent(IocpWorld, Head(got))
       IN  /\ IocpBecomes(f.w)
           /\ found' = (found \/ f.event)
           /\ wpk' = IF f.update THEN Head(got).p ELSE 0
           /\ wpc' = IF f.update THEN "push" ELSE "feed"
    /\ got' = Tail(got)
    /\ UNCHANGED <<polling, reg, threadVars, wtodo, timeout, ready, scene>>

\* update_packet in the waiting thread, which is not polling.
FeedPush ==
    /\ wpc = "push"
    /\ IF Len(queue) < QueueCap
       THEN queue' = Append(queue, wpk) /\ wpk' = 0 /\ wpc' = "feed" /\ UNCHANGED wtodo
       ELSE wpc' = "redrain" /\ wtodo' = QueueCap /\ UNCHANGED <<queue, wpk>>
    /\ UNCHANGED <<polling, port, reg, pk, threadVars, timeout, got, found, ready, scene>>

FeedDrain ==
    /\ wpc = "redrain"
    /\ IF wtodo > 0 /\ queue # <<>>
       THEN IocpBecomes(Drained(IocpWorld)) /\ wtodo' = wtodo - 1 /\ UNCHANGED wpc
       ELSE wpc' = "push" /\ wtodo' = 0 /\ UNCHANGED <<pk, queue, port>>
    /\ UNCHANGED <<polling, reg, threadVars, wpk, timeout, got, found, ready, scene>>

\* All entries fed: return with a notification or an event, or at the deadline; else again.
Fed ==
    /\ wpc = "feed" /\ got = <<>>
    /\ IF found \/ timeout = "zero" THEN wpc' = "idle" /\ timeout' = "none" /\ found' = FALSE
       ELSE /\ wpc' = "start" /\ UNCHANGED found
            /\ timeout' \in CASE timeout = "none" -> {"none"}
                             [] timeout = "later" -> {"later", "zero"}
                             [] timeout = "over" -> {"zero"}
    /\ UNCHANGED <<polling, queue, port, reg, pk, threadVars, wpk, wtodo, got, ready, scene>>

-----------------------------------------------------------------------------
(* AFD, and the thread pool that runs the callbacks of waits. *)

\* A request completes when something in its mask is ready, even while it is being cancelled.
AfdCompletes(i) ==
    /\ IsSocket(pk[i]) /\ pk[i].afd \in {"pending", "cancelling"}
    /\ pk[i].flags \cap ready[pk[i].src] # {}
    /\ pk' = [pk EXCEPT ![i].afd = "none"]
    /\ port' = Append(port, Entry("packet", i, TRUE, pk[i].flags \cap ready[pk[i].src]))
    /\ UNCHANGED <<polling, queue, reg, threadVars, waiterVars, ready, scene>>

AfdCancels(i) ==
    /\ pk[i].afd = "cancelling"
    /\ pk' = [pk EXCEPT ![i].afd = "none"]
    /\ port' = Append(port, Entry("packet", i, FALSE, {}))
    /\ UNCHANGED <<polling, queue, reg, threadVars, waiterVars, ready, scene>>

\* A wait fires: from here on unregistering it is too late.
WaitFires(i) ==
    /\ ~IsSocket(pk[i]) /\ pk[i].afd = "pending" /\ ready[pk[i].src] # {}
    /\ pk' = [pk EXCEPT ![i].afd = "callback"]
    /\ UNCHANGED <<polling, queue, port, reg, threadVars, waiterVars, ready, scene>>

\* Its callback makes the waitable idle under the mutex and posts the packet.
Callback(i) ==
    /\ pk[i].afd = "callback"
    /\ pk' = [pk EXCEPT ![i].afd = "posting", ![i].st = "idle"]
    /\ UNCHANGED <<polling, queue, port, reg, threadVars, waiterVars, ready, scene>>

CallbackPosts(i) ==
    /\ pk[i].afd = "posting"
    /\ pk' = [pk EXCEPT ![i].afd = "none"]
    /\ port' = Append(port, Entry("packet", i, TRUE, {"r"}))
    /\ UNCHANGED <<polling, queue, reg, threadVars, waiterVars, ready, scene>>

Ready(s) ==
    /\ scene.changes > 0
    /\ \E d \in IF s \in Sockets THEN {"r", "w", "e"} ELSE {"r"} :
         ready' = [ready EXCEPT ![s] = IF d \in @ THEN @ \ {d} ELSE @ \cup {d}]
    /\ scene' = [scene EXCEPT !.changes = @ - 1]
    /\ UNCHANGED <<polling, queue, port, reg, pk, threadVars, waiterVars>>

IocpNext ==
    \/ \E s \in scene.srcs :
         \/ AddSocket(s) \/ ModifySocket(s) \/ DeleteSocket(s) \/ Ready(s)
         \/ AddWaitable(s) \/ ModifyWaitable(s) \/ RemoveWaitable(s)
         \/ UpdateLoad(s) \/ UpdateNow(s) \/ UpdatePush(s) \/ UpdateDrain(s)
    \/ \E i \in Packets :
         AfdCompletes(i) \/ AfdCancels(i) \/ WaitFires(i) \/ Callback(i) \/ CallbackPosts(i)
    \/ Post \/ IocpWait \/ StartPolling \/ DrainBefore \/ PortReturns \/ StopPolling
    \/ Feed \/ FeedPush \/ FeedDrain \/ Fed

IocpSpec == IocpInit /\ [][IocpNext]_iocpVars

-----------------------------------------------------------------------------
(* Properties *)

\* The waiting thread is in the port with nothing there, and no other thread is inside a call.
Quiet ==
    /\ wpc = "blocked" /\ port = <<>>
    /\ \A s \in IocpSources : opc[s] = "idle"
    /\ \A i \in Packets : pk[i].afd \notin {"cancelling", "callback", "posting"}

Queued(i) == \E n \in 1..Len(queue) : queue[n] = i

\* When everything has come to rest, the kernel is watching each registered socket for exactly
\* the interest set last (less what a one-shot interest has used up) and waits for each
\* waitable with an interest, whatever order the cancelled request, the completion and the calls
\* of the user came in.  The exception is an update that is still in the queue.
KernelWatchesInterest ==
    Quiet => \A s \in IocpSources : reg[s] # 0 =>
        LET p == pk[reg[s]]
        IN  \/ Queued(reg[s])
            \/ IsSocket(p) /\ p.st = "polling" /\ p.afd = "pending" /\ p.flags = AfdMask(p.dirs, p.err)
            \/ ~IsSocket(p) /\ (p.dirs # {} => p.st = "waiting" /\ p.afd = "pending")

\* An idle packet has no request in the kernel and no completion on its way: its status block is
\* free, and a poll request for it never meets "packet is already in use".
IdleNotInTransit ==
    \A i \in Packets : IsSocket(pk[i]) /\ pk[i].st = "idle" =>
        /\ ~pk[i].in_use /\ pk[i].afd = "none"
        /\ \A n \in 1..Len(port) : port[n].p # i
        /\ \A n \in 1..Len(got) : got[n].p # i

====

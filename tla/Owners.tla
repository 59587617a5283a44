-------------------------------- MODULE Owners --------------------------------
(* Who owns a connection (io/io.rs, filterptr.rs, seal.rs, ops.rs).  An Io<F>  *)
(* owns an IoState and, through an untyped pointer, the box of its filter,     *)
(* whose innermost part refers back to the state.  Calls that change the type  *)
(* of the filter move the state from one Io to the next; what is left behind   *)
(* is an Io of an empty, stopped state.  The thread's IoManager lists the      *)
(* connections by an Id that is reused, and Iops queues those Ids.             *)
EXTENDS Integers, Sequences, FiniteSets

CONSTANTS OwnedConns,      \* connections
          Ios,             \* variables of the program that can hold an Io
          MaxIds,          \* bound on the keys of the slab
          MaxChain,        \* bound on the filters of a connection
          MaxOps           \* bound on the queue of Iops

VARIABLE ow

\* A filter type is the sequence of its parts, outermost first: "layer" for Layer<F, _>, "map" for
\* what map_filter wraps around, "sealed" for Sealed; Base, the innermost, is left out.
None == "none"
Empty == "empty"

\* Io::new: the filter is Base, and Id 0 (None) until IoManager::register.
NewState(id) == [repr |-> "filter", box |-> <<>>, id |-> id, buffers |-> 2, scheduled |-> FALSE,
                 terminated |-> FALSE, panicked |-> FALSE]

NoState == [NewState(0) EXCEPT !.repr = None]
Io(c, type) == [st |-> c, type |-> type]
NoIo == Io(None, <<>>)

OwnersInit ==
    ow = [conn |-> [c \in OwnedConns |-> NoState],
          io |-> [i \in Ios |-> NoIo],              \* the state and the type parameter
          slab |-> [k \in 1..MaxIds |-> None],      \* IoManager::storage
          ops |-> <<>>, running |-> FALSE]          \* Iops

\* FilterPtr::is_set.
IsSet(s) == s.repr # "null"

\* Io::take: the old Io keeps an empty state.
Take(o, i, j) == [o EXCEPT !.io[j] = o.io[i], !.io[i].st = Empty]

\* A call that panics has already moved the state out of the Io; it is dropped as an IoRef, so
\* nothing stops or unregisters it.
Panics(o, i) ==
    LET c == o.io[i].st
    IN  [o EXCEPT !.io[i] = NoIo,
                  !.conn = IF c = Empty THEN @ ELSE [@ EXCEPT ![c].panicked = TRUE, ![c].repr = "null",
                                                            ![c].box = <<>>]]

\* FilterPtr::seal, and Io::seal, which boxed and IoBoxed call.
Seal(o, i) ==
    LET c == o.io[i].st
    IN  IF c = Empty THEN Panics(o, i)
        ELSE [o EXCEPT !.conn[c].repr = "sealed", !.io[i].type = <<"sealed">>]

\* FilterPtr::add_filter and Io::add_filter, with the buffers of the new layer.  A sealed box goes
\* under the layer as one Sealed.
AddFilter(o, i) ==
    LET c == o.io[i].st
        s == o.conn[c]
    IN  IF c = Empty THEN Panics(o, i)
        ELSE [o EXCEPT !.conn[c].box = <<"layer">> \o (IF s.repr = "sealed" THEN <<"sealed">> ELSE <<>>) \o @,
                       !.conn[c].buffers = @ + 1,
                       !.io[i].type = <<"layer">> \o @]

\* FilterPtr::map_filter and Io::map_filter: take_filter panics on an empty or a sealed filter,
\* after it has taken it.
MapFilter(o, i) ==
    LET c == o.io[i].st
    IN  IF c = Empty \/ (c # Empty /\ o.conn[c].repr = "sealed") THEN Panics(o, i)
        ELSE [o EXCEPT !.conn[c].box = <<"map">> \o @, !.io[i].type = <<"map">> \o @]

\* IoManager::register: slab gives any vacant key.
Register(o, c, k) == [o EXCEPT !.conn[c] = NewState(k), !.slab[k] = c]

\* IoManager::unregister.
Unregister(o, c) ==
    LET k == o.conn[c].id
    IN  IF k = 0 THEN o ELSE [o EXCEPT !.conn[c].id = 0, !.slab[k] = None]

\* IoState::terminate_connection.
TerminateConnection(o, c) == [o EXCEPT !.conn[c].terminated = TRUE]

\* FilterPtr::drop_filter: also ends the reference from Base to the state.
DropFilter(o, c) == [o EXCEPT !.conn[c].repr = "null", !.conn[c].box = <<>>]

\* Drop for Io.
DropIo(o, i) ==
    LET c == o.io[i].st
        s == [o EXCEPT !.io[i] = NoIo]
    IN  IF c = Empty THEN s ELSE Unregister(DropFilter(TerminateConnection(s, c), c), c)

\* Iops::schedule_write, after the caller has set WR_SEND_SCHEDULED.
ScheduleWrite(o, c) ==
    [o EXCEPT !.conn[c].scheduled = TRUE, !.ops = Append(@, o.conn[c].id), !.running = TRUE]

\* IoManager::get and IoRef::ops_send_buf for each Id of the queue: only one that is registered
\* and still wants the write does anything.
IopsRun(o) ==
    LET due == {c \in OwnedConns : \E n \in DOMAIN o.ops : o.ops[n] # 0 /\ o.slab[o.ops[n]] = c}
    IN  [o EXCEPT !.running = FALSE, !.ops = <<>>,
                  !.conn = [c \in OwnedConns |-> IF c \in due THEN [@[c] EXCEPT !.scheduled = FALSE] ELSE @[c]]]

-----------------------------------------------------------------------------

Used == {i \in Ios : ow.io[i].st # None}
Free == Ios \ Used
Live == {c \in OwnedConns : ow.conn[c].repr # None}
Grows(i) == Len(ow.io[i].type) < MaxChain /\ (ow.io[i].st # Empty => Len(ow.conn[ow.io[i].st].box) + 1 < MaxChain)

NewIo == \E i \in Free, c \in OwnedConns \ Live, k \in 1..MaxIds :
    ow.slab[k] = None /\ ow' = [Register(ow, c, k) EXCEPT !.io[i] = Io(c, <<>>)]
TakeIo == \E i \in Used, j \in Free : ow' = Take(ow, i, j)
SealIo == \E i \in Used : ow' = Seal(ow, i)
AddFilterIo == \E i \in Used : Grows(i) /\ ow' = AddFilter(ow, i)
MapFilterIo == \E i \in Used : Grows(i) /\ ow' = MapFilter(ow, i)
DropAnIo == \E i \in Used : ow' = DropIo(ow, i)

\* The peer or an IoRef ends the connection.
End == \E c \in Live : ~ow.conn[c].terminated /\ ow' = TerminateConnection(ow, c)

\* consolidate_write_state, through the Io or an IoRef: the write is queued, or it is done in place.
Write == \E c \in Live :
    /\ ~ow.conn[c].terminated
    /\ \/ ~ow.conn[c].scheduled /\ Len(ow.ops) < MaxOps /\ ow' = ScheduleWrite(ow, c)
       \/ ow' = [ow EXCEPT !.conn[c].scheduled = FALSE]

RunIops == ow.running /\ ow' = IopsRun(ow)

OwnersNext ==
    \/ NewIo \/ TakeIo \/ SealIo \/ AddFilterIo \/ MapFilterIo \/ DropAnIo \/ End \/ Write \/ RunIops

-----------------------------------------------------------------------------

Owners(c) == {i \in Used : ow.io[i].st = c}
Layers(type) == Cardinality({n \in DOMAIN type : type[n] = "layer"})

\* A connection has one Io at most, whose type parameter is the type of the box it will cast the
\* filter to unless the filter is sealed, and one buffer for each layer.  While it has an Io it
\* has its filter and its entry in the manager; without one, it is stopped, and neither the
\* filter's reference nor the manager's keeps it, unless a call of its owner panicked.  A write
\* that is marked as queued is in the queue, under an Id that is still this connection's, and the
\* queue's task will run (io.rs take, Drop for Io; filterptr.rs; ops.rs IoManager, Iops).
OwnedOnce ==
    /\ \A c \in Live :
        LET s == ow.conn[c] IN
        /\ Cardinality(Owners(c)) =< 1
        /\ \A i \in Owners(c) : s.repr = "filter" => ow.io[i].type = s.box
        /\ Owners(c) # {} => IsSet(s) /\ s.id # 0 /\ s.buffers = 2 + Layers(s.box)
        /\ Owners(c) = {} /\ ~s.panicked => s.terminated /\ ~IsSet(s) /\ s.id = 0
        /\ s.scheduled /\ s.id # 0 => ow.running /\ \E n \in DOMAIN ow.ops : ow.ops[n] = s.id
    /\ \A k \in 1..MaxIds, c \in OwnedConns : ow.slab[k] = c <=> (c \in Live /\ ow.conn[c].id = k)
=============================================================================

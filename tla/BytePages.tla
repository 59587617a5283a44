------------------------------ MODULE BytePages ------------------------------
(***************************************************************************)
(* BytePages and BytePage (geario/src/bytes/pages.rs), and the program     *)
(* that uses all byte containers: handles live in slots, BytePages in      *)
(* streams, and every action is one call of the public interface.          *)
(*                                                                         *)
(* A BytePage is a handle of any kind: StorageType::Bytes is one of the    *)
(* four Storage kinds, StorageType::Storage is "mut", StorageType::Vec is  *)
(* "heap".  Wrapping a Bytes or a BytesMut into a BytePage moves it.       *)
(***************************************************************************)
EXTENDS Bytes

CONSTANTS
  Slots,        \* places for Bytes, BytesMut and BytePage handles
  Streams,      \* places for BytePages
  Programs,     \* what a program uses: [slots, streams, calls, makes], the places, the
                \*   groups of calls and the ways to make a handle; `debug`, whether it
                \*   is a debug build, where integer underflow panics; and its bounds,
                \*   `bytes` written in all and `cap` for the size of a buffer
  MaxPages,     \* bound: pages in one BytePages
  InnerCache    \* CACHE_SIZE: recycled `Inner` boxes

VARIABLES prog,   \* the program, one of Programs
          vecs,   \* the SharedVecs
          hs,     \* slot -> handle
          pgs,    \* stream -> BytePages
          inners, \* the page queues of the recycled Inner boxes
          fault,  \* "no", or the failure in which the last call ended the program
          next    \* bytes written so far; the next one gets the number next+1

vars == <<prog, vecs, hs, pgs, inners, fault, next>>

Pages(st, pages, cur, size) == [st |-> st, pages |-> pages, cur |-> cur, size |-> size]
NoPages == Pages("none", <<>>, Nil, Unset)
PRes(vs, pg, b) == [vs |-> vs, pg |-> pg, b |-> b, fault |-> "no"]

-----------------------------------------------------------------------------
(* BytePages: the operations. *)

CurrentLen(vs, pg) == IF pg.cur = Nil THEN 0 ELSE vs[pg.cur.v].len
RemainingMut(vs, pg) == IF pg.cur = Nil THEN 0 ELSE vs[pg.cur.v].rem
NumPages(pg) == Len(pg.pages) + (IF pg.cur = Nil THEN 0 ELSE 1)

\* BytePages::len, and the bytes in the order take() yields them.
PagesContent(vs, pg) ==
  FlattenSeq([i \in 1 .. Len(pg.pages) |-> Content(vs, pg.pages[i])])
    \o (IF pg.cur = Nil THEN <<>> ELSE Content(vs, pg.cur))

PagesIsEmpty(vs, pg) ==
  /\ \A i \in 1 .. Len(pg.pages) : Length(vs, pg.pages[i]) = 0
  /\ CurrentLen(vs, pg) = 0

\* `self.current.take().unwrap_or_else(|| StorageVec::sized(..))`.
TakeCurrent(vs, pg) ==
  IF pg.cur = Nil THEN Sized(vs, pg.size) ELSE Res(vs, pg.cur, Nil)

\* with_current: run one write on the current storage, retire it when full.  A write that
\* panics drops the storage, which has been taken out.
WithCurrent(r, pg, panics) ==
  IF r.fault # "no" /\ panics
  THEN [vs |-> DropHandle(r.vs, r.a), pg |-> [pg EXCEPT !.cur = Nil], b |-> Nil,
        fault |-> r.fault]
  ELSE IF r.fault # "no"
  THEN [vs |-> r.vs, pg |-> [pg EXCEPT !.cur = r.a], b |-> Nil, fault |-> r.fault]
  ELSE IF r.vs[r.a.v].rem = 0
  THEN PRes(r.vs, [pg EXCEPT !.pages = Append(@, r.a), !.cur = Nil], Nil)
  ELSE PRes(r.vs, [pg EXCEPT !.cur = r.a], Nil)

\* BufMut::put_slice for BytePages.
RECURSIVE PagesPut(_, _, _)
PagesPut(vs, pg, src) ==
  IF src = <<>> THEN PRes(vs, pg, Nil)
  ELSE LET t == TakeCurrent(vs, pg)
           amount == Min2(Len(src), t.vs[t.a.v].rem)
           w == WithCurrent(VecFill(t.vs, t.a, SubSeq(src, 1, amount)), pg, TRUE)
       IN PagesPut(w.vs, w.pg, SubSeq(src, amount + 1, Len(src)))

\* BufMut::put_u8 for BytePages.
PagesPutU8(vs, pg, n, debug) ==
  LET t == TakeCurrent(vs, pg) IN WithCurrent(VecPutU8(t.vs, t.a, n, debug), pg, debug)

\* BytePage::into_storage: only an unshared storage with room is written again.
IntoStorage(vs, p) == IsMut(p) /\ vs[p.v].rem # 0 /\ IsUnique(vs, p)

\* Mutant: a page that does not fit overtakes the current storage.
PagesAppendOvertakes(vs, pg, p) ==
  IF Length(vs, p) = 0 THEN PRes(DropHandle(vs, p), pg, Nil)
  ELSE IF CurrentLen(vs, pg) = 0
  THEN IF IntoStorage(vs, p)
       THEN PRes(IF pg.cur = Nil THEN vs ELSE DropHandle(vs, pg.cur),
                 [pg EXCEPT !.cur = p], Nil)
       ELSE PRes(vs, [pg EXCEPT !.pages = Append(@, p)], Nil)
  ELSE IF Length(vs, p) <= RemainingMut(vs, pg)
  THEN LET w == PagesPut(vs, pg, Content(vs, p)) IN PRes(DropHandle(w.vs, p), w.pg, Nil)
  ELSE PRes(vs, [pg EXCEPT !.pages = Append(@, p)], Nil)

\* BytePages::append.
PagesAppend(vs, pg, p) ==
  IF Length(vs, p) = 0 THEN PRes(DropHandle(vs, p), pg, Nil)
  ELSE IF CurrentLen(vs, pg) = 0
  THEN IF IntoStorage(vs, p)
       THEN PRes(IF pg.cur = Nil THEN vs ELSE DropHandle(vs, pg.cur),
                 [pg EXCEPT !.cur = p], Nil)
       ELSE PRes(vs, [pg EXCEPT !.pages = Append(@, p)], Nil)
  ELSE IF Length(vs, p) <= RemainingMut(vs, pg)
  THEN LET w == PagesPut(vs, pg, Content(vs, p)) IN PRes(DropHandle(w.vs, p), w.pg, Nil)
  ELSE PRes(vs, [pg EXCEPT !.pages = @ \o <<pg.cur, p>>, !.cur = Nil], Nil)

\* BytePages::prepend.
PagesPrepend(vs, pg, p) ==
  IF Length(vs, p) = 0 THEN PRes(DropHandle(vs, p), pg, Nil)
  ELSE PRes(vs, [pg EXCEPT !.pages = <<p>> \o @], Nil)

\* BytePages::take.
PagesTake(vs, pg) ==
  IF pg.pages # <<>> THEN PRes(vs, [pg EXCEPT !.pages = Tail(@)], Head(pg.pages))
  ELSE PRes(vs, [pg EXCEPT !.cur = Nil], pg.cur)

\* BytePages::clear, and what Drop for BytePages releases.
RECURSIVE PagesClear(_, _)
PagesClear(vs, pg) ==
  LET t == PagesTake(vs, pg) IN
  IF t.b = Nil THEN PRes(vs, pg, Nil) ELSE PagesClear(DropHandle(t.vs, t.b), t.pg)

\* BytePages::move_to; the result's b is the receiving BytePages.
RECURSIVE MoveTo(_, _, _)
MoveTo(vs, pg, to) ==
  LET t == PagesTake(vs, pg) a == PagesAppend(t.vs, to, t.b) IN
  IF t.b = Nil THEN PRes(vs, pg, to) ELSE MoveTo(a.vs, t.pg, a.pg)

\* BytePage::clone: two pages of kind Storage share one header afterwards.
PageClone(vs, p) ==
  CASE p.k = "mut" -> Res([vs EXCEPT ![p.v].rc = @ + 1, ![p.v].cloned = TRUE], p, Nil)
    [] p.k = "heap" -> FromSlice(vs, p.d)
    [] OTHER -> ShallowClone(vs, p)

\* BytePages::copy_to, which Clone for BytePages calls on a new BytePages.
RECURSIVE CopyTo(_, _, _, _)
CopyTo(vs, pg, i, to) ==
  IF i <= Len(pg.pages)
  THEN LET c == PageClone(vs, pg.pages[i]) a == PagesAppend(c.vs, to, c.a)
       IN CopyTo(a.vs, pg, i + 1, a.pg)
  ELSE IF pg.cur = Nil THEN PRes(vs, pg, to)
  ELSE LET c == FromSlice(vs, Content(vs, pg.cur)) a == PagesAppend(c.vs, to, c.a)
       IN PRes(a.vs, pg, a.pg)

\* BytePage::split_to: a page that is not a Bytes yet becomes one first.
PageSplitTo(vs, p, at) ==
  LET f == CASE p.k = "mut" -> Freeze(vs, p)
             [] p.k = "heap" -> FromSlice(vs, p.d)
             [] OTHER -> Res(vs, p, Nil)
  IN SplitTo(f.vs, f.a, Min2(at, Length(f.vs, f.a)))

\* BytePages::split_into: whole pages first, then part of the current storage.
RECURSIVE SplitInto(_, _, _, _)
SplitInto(vs, pg, at, to) ==
  IF pg.pages = <<>> /\ (at = 0 \/ pg.cur = Nil) THEN PRes(vs, pg, to)
  ELSE LET t == PagesTake(vs, pg)
           len == Min2(Length(t.vs, t.b), at)
           s == PageSplitTo(t.vs, t.b, len)
           a == PagesAppend(s.vs, to, s.b)
           rest == PagesAppend(a.vs, t.pg, s.a)
       IN IF pg.pages = <<>> THEN PRes(rest.vs, rest.pg, a.pg)
          ELSE IF Length(a.vs, s.a) # 0
          THEN PRes(a.vs, [t.pg EXCEPT !.pages = <<s.a>> \o @], a.pg)
          ELSE SplitInto(DropHandle(a.vs, s.a), t.pg, at - len, a.pg)

\* The pages copied into one BytesMut: `From<BytePages> for BytesMut`.
IntoBytesMut(vs, pg) ==
  LET d == PagesContent(vs, pg)
      m == Create(vs, Unset, Len(d), <<>>)
      w == PutSlice(m.vs, m.a, d)
      c == PagesClear(w.vs, pg)
  IN PRes(c.vs, c.pg, w.a)

\* BytePage::freeze.
PageFreeze(vs, p) ==
  CASE p.k = "mut" -> Freeze(vs, p)
    [] p.k = "heap" -> FromSlice(vs, p.d)
    [] OTHER -> Res(vs, p, Nil)

\* BytePages::freeze.
PagesFreeze(vs, pg) ==
  IF NumPages(pg) = 0 \/ PagesIsEmpty(vs, pg) THEN PRes(vs, pg, FromPtrInline(<<>>))
  ELSE IF NumPages(pg) = 1
  THEN LET t == PagesTake(vs, pg) f == PageFreeze(t.vs, t.b) IN PRes(f.vs, t.pg, f.a)
  ELSE LET m == IntoBytesMut(vs, pg) f == Freeze(m.vs, m.b) IN PRes(f.vs, m.pg, f.a)

\* BytePages::try_get_current_from; b is the other BytePages.
TryGetCurrentFrom(vs, pg, from) ==
  IF pg.pages = <<>> /\ pg.cur = Nil /\ from.cur # Nil
  THEN PRes(vs, [pg EXCEPT !.cur = from.cur], [from EXCEPT !.cur = Nil])
  ELSE PRes(vs, pg, from)

\* What with_bytes_mut does with the storage its closure left behind; `cap` is the
\* capacity the closure was given.
WithBytesMut(r, pg, cap) ==
  LET x == r.vs[r.a.v]
      vs == IF x.cap # cap THEN [r.vs EXCEPT ![r.a.v].size = Unset] ELSE r.vs
  IN IF x.len >= PageCap[pg.size]
     THEN PRes(vs, [pg EXCEPT !.pages = Append(@, r.a), !.cur = Nil], Nil)
     ELSE PRes(vs, [pg EXCEPT !.cur = r.a], Nil)

\* BytePage::advance_to.
PageAdvanceTo(vs, p, cnt) ==
  CASE p.k = "mut" -> VecSetStart(vs, p, cnt)
    [] p.k = "heap" -> FromSlice(vs, SubSeq(p.d, cnt + 1, Len(p.d)))
    [] OTHER -> SetStart(vs, p, cnt)

\* From<BytePage> for BytesMut: a storage page is taken over as it is.
PageIntoMut(vs, p) ==
  IF p.k = "mut" THEN Res(vs, p, Nil)
  ELSE Replace(MutFromSlice(vs, Content(vs, p)), p)

-----------------------------------------------------------------------------
(* The program. *)

Init ==
  /\ prog \in Programs
  /\ vecs = [v \in Vecs |-> FreeVec]
  /\ hs = [s \in Slots |-> Nil]
  /\ pgs = [c \in Streams |-> NoPages]
  /\ inners = <<>> /\ fault = "no" /\ next = 0

Running == fault = "no"
Empty(s) == hs[s] = Nil
Holds(s) == hs[s] # Nil
IsOpen(c) == pgs[c].st = "live"
Size(s) == Length(vecs, hs[s])

Makes(kind, s) == Running /\ kind \in prog.makes /\ Empty(s)

\* n new bytes.
Fresh(n) == [i \in 1 .. n |-> next + i]
Writes(n) == next + n <= prog.bytes /\ next' = next + n

\* Memory that no handle shows any more is forgotten: nothing may read it before
\* it is written again.
Shows(h, x, i) ==
  \/ h.k \in {"vec", "ext"} /\ i \in h.off + 1 .. h.off + h.len
  \/ h.k = "mut" /\ i \in x.off + 1 .. x.off + x.len
Forget(vs, handles) ==
  [v \in Vecs |->
     IF vs[v].mem = <<>> THEN vs[v]
     ELSE LET on == {h \in handles : h.v = v} IN
          [vs[v] EXCEPT !.mem =
             [i \in DOMAIN @ |-> IF \E h \in on : Shows(h, vs[v], i) THEN @[i] ELSE Junk]]]
Handles(slots, streams) ==
  Range(slots) \cup UNION {Range(streams[c].pages) \cup {streams[c].cur} : c \in Streams}
Memory(vs) == vecs' = Forget(vs, Handles(hs', pgs'))

\* The effect of a call that returns r: on slot s; on s and t; on stream c.
OnSlot(s, r) ==
  /\ hs' = [hs EXCEPT ![s] = r.a] /\ fault' = r.fault
  /\ UNCHANGED <<pgs, inners>> /\ Memory(r.vs)
OnSlots(s, t, r) ==
  /\ hs' = [hs EXCEPT ![s] = r.a, ![t] = r.b] /\ fault' = r.fault
  /\ UNCHANGED <<pgs, inners>> /\ Memory(r.vs)
OnStream(c, r) ==
  /\ NumPages(r.pg) <= MaxPages
  /\ pgs' = [pgs EXCEPT ![c] = r.pg] /\ fault' = r.fault /\ Memory(r.vs)
OnStreams(c, e, r) ==
  /\ NumPages(r.pg) <= MaxPages /\ NumPages(r.b) <= MaxPages
  /\ pgs' = [pgs EXCEPT ![c] = r.pg, ![e] = r.b] /\ fault' = r.fault
  /\ UNCHANGED <<hs, inners, next>> /\ Memory(r.vs)

----
(* Calls on Bytes (and on ByteString, which wraps one). *)

BytesCopyFromSlice(s, n) ==
  Makes("copy", s) /\ Writes(n) /\ OnSlot(s, FromSlice(vecs, Fresh(n)))
BytesFromStatic(s, n) ==
  Makes("static", s) /\ Writes(n) /\ OnSlot(s, Res(vecs, Static(Fresh(n)), Nil))
BytesFromExt(s, n) ==
  Makes("ext", s) /\ Writes(n) /\ OnSlot(s, FromStext(vecs, Fresh(n)))

\* A call on the Bytes in slot s that writes nothing.
OnBytes(s) == Running /\ Holds(s) /\ IsBytes(hs[s]) /\ UNCHANGED next

BytesSlice(s, t, i, j) ==
  OnBytes(s) /\ Empty(t) /\ i <= j /\ j <= Size(s) /\ OnSlots(s, t, Slice(vecs, hs[s], i, j))
BytesSplitOff(s, t, at) ==
  OnBytes(s) /\ Empty(t) /\ at <= Size(s) /\ OnSlots(s, t, SplitOff(vecs, hs[s], at))
BytesSplitTo(s, t, at) ==
  OnBytes(s) /\ Empty(t) /\ at <= Size(s) /\ OnSlots(s, t, SplitTo(vecs, hs[s], at))
BytesAdvanceTo(s, n) == OnBytes(s) /\ n <= Size(s) /\ OnSlot(s, SetStart(vecs, hs[s], n))
BytesTruncate(s, n) == OnBytes(s) /\ OnSlot(s, StorageTruncate(vecs, hs[s], n))
BytesTrimdown(s) == OnBytes(s) /\ OnSlot(s, StorageTrimdown(vecs, hs[s], prog.debug))
BytesClearIt(s) == OnBytes(s) /\ OnSlot(s, BytesClear(vecs, hs[s]))
BytesGetU8(s) == OnBytes(s) /\ Size(s) >= 1 /\ OnSlot(s, GetU8(vecs, hs[s]))
BytesClone(s, t) ==
  LET c == ShallowClone(vecs, hs[s]) IN
  OnBytes(s) /\ Empty(t) /\ OnSlots(s, t, Res(c.vs, hs[s], c.a))

----
(* Calls on BytesMut. *)

OnMut(s) == Running /\ Holds(s) /\ IsMut(hs[s])

MutWithCapacity(s, cap) ==
  Makes("mut", s) /\ UNCHANGED next /\ OnSlot(s, Create(vecs, Unset, cap, <<>>))
MutFreeze(s) == OnMut(s) /\ UNCHANGED next /\ OnSlot(s, Freeze(vecs, hs[s]))
MutSplitTo(s, t, at) ==
  /\ OnMut(s) /\ UNCHANGED next /\ Empty(t) /\ at <= Size(s)
  /\ OnSlots(s, t, VecSplitTo(vecs, hs[s], at))
MutAdvanceTo(s, n) ==
  OnMut(s) /\ UNCHANGED next /\ n <= Size(s) /\ OnSlot(s, VecSetStart(vecs, hs[s], n))
MutTruncate(s, n) == OnMut(s) /\ UNCHANGED next /\ OnSlot(s, VecTruncate(vecs, hs[s], n))
MutResize(s, n) ==
  /\ OnMut(s) /\ IF n > Size(s) THEN Writes(1) ELSE UNCHANGED next
  /\ OnSlot(s, VecResize(vecs, hs[s], n, next + 1))
MutReserve(s, n) ==
  /\ OnMut(s) /\ UNCHANGED next /\ Size(s) + n <= prog.cap
  /\ OnSlot(s, VecReserve(vecs, hs[s], n))
MutReserveCapacity(s, cap) ==
  /\ OnMut(s) /\ UNCHANGED next /\ cap >= Size(s)
  /\ OnSlot(s, VecReserveCapacity(vecs, hs[s], cap))
MutPutSlice(s, n) ==
  /\ OnMut(s) /\ Writes(n) /\ Size(s) + n <= prog.cap
  /\ OnSlot(s, PutSlice(vecs, hs[s], Fresh(n)))
MutPutU8(s) ==
  /\ OnMut(s) /\ Writes(1) /\ Size(s) < prog.cap
  /\ OnSlot(s, PutU8(vecs, hs[s], next + 1, prog.debug))

\* A byte written through DerefMut.
MutIndexMut(s, i) ==
  LET v == hs[s].v x == vecs[v] IN
  /\ OnMut(s) /\ i \in 1 .. Size(s) /\ Writes(1)
  /\ OnSlot(s, Res([vecs EXCEPT ![v].mem[x.off + i] = next + 1], hs[s], Nil))

\* Clone for BytesMut, and From<Bytes> for BytesMut.
MutClone(s, t) ==
  LET c == MutFromSlice(vecs, Content(vecs, hs[s])) IN
  OnMut(s) /\ Empty(t) /\ UNCHANGED next /\ OnSlots(s, t, Res(c.vs, hs[s], c.a))
MutFromBytes(s) ==
  OnBytes(s) /\ OnSlot(s, Replace(MutFromSlice(vecs, Content(vecs, hs[s])), hs[s]))

HandleDrop(s) ==
  Running /\ Holds(s) /\ UNCHANGED next /\ OnSlot(s, Res(DropHandle(vecs, hs[s]), Nil, Nil))

----
(* Calls on a BytePage. *)

OnPage(s) == Running /\ Holds(s) /\ UNCHANGED next

PageFromVec(s, n) ==
  Makes("heap", s) /\ Writes(n) /\ OnSlot(s, Res(vecs, Heap(Fresh(n)), Nil))
PageSplit(s, t, at) == OnPage(s) /\ Empty(t) /\ OnSlots(s, t, PageSplitTo(vecs, hs[s], at))
PageAdvance(s, n) ==
  OnPage(s) /\ n <= Size(s) /\ OnSlot(s, PageAdvanceTo(vecs, hs[s], n))
PageFreezeIt(s) == OnPage(s) /\ OnSlot(s, PageFreeze(vecs, hs[s]))
PageToMut(s) == OnPage(s) /\ OnSlot(s, PageIntoMut(vecs, hs[s]))

ClonePage(s, t) ==
  LET c == PageClone(vecs, hs[s]) IN
  OnPage(s) /\ Empty(t) /\ OnSlots(s, t, Res(c.vs, hs[s], c.a))

----
(* Calls on BytePages. *)

OnPages(c) == Running /\ IsOpen(c)

\* BytePages::new: an Inner from the cache keeps the queue it was returned with.
PagesNew(c, size) ==
  /\ Running /\ ~IsOpen(c) /\ UNCHANGED <<vecs, hs, fault, next>>
  /\ IF inners = <<>>
     THEN pgs' = [pgs EXCEPT ![c] = Pages("live", <<>>, Nil, size)] /\ UNCHANGED inners
     ELSE /\ pgs' = [pgs EXCEPT ![c] = Pages("live", Last(inners), Nil, size)]
          /\ inners' = Front(inners)

\* Drop for BytePages.
PagesDrop(c) ==
  LET d == PagesClear(vecs, pgs[c]) IN
  /\ OnPages(c) /\ pgs' = [pgs EXCEPT ![c] = NoPages]
  /\ inners' = IF Len(inners) < InnerCache THEN Append(inners, d.pg.pages) ELSE inners
  /\ UNCHANGED <<hs, fault, next>> /\ Memory(d.vs)

\* Appending and prepending move the handle out of its slot.
Gives(s) == Holds(s) /\ hs' = [hs EXCEPT ![s] = Nil] /\ UNCHANGED <<inners, next>>
PagesAppendIt(c, s) ==
  OnPages(c) /\ Gives(s) /\ OnStream(c, PagesAppend(vecs, pgs[c], hs[s]))
PagesPrependIt(c, s) ==
  OnPages(c) /\ Gives(s) /\ OnStream(c, PagesPrepend(vecs, pgs[c], hs[s]))

PagesPutSlice(c, n) ==
  /\ OnPages(c) /\ Writes(n) /\ UNCHANGED <<hs, inners>>
  /\ OnStream(c, PagesPut(vecs, pgs[c], Fresh(n)))
PagesPutByte(c) ==
  LET r == PagesPutU8(vecs, pgs[c], next + 1, prog.debug) IN
  /\ OnPages(c) /\ IF r.fault = "no" THEN Writes(1) ELSE UNCHANGED next
  /\ UNCHANGED <<hs, inners>> /\ OnStream(c, r)

\* chunk_mut, n bytes written into it, advance_mut(n): a storage filled this way
\* stays the current one.
PagesAdvanceMut(c, n) ==
  LET t == TakeCurrent(vecs, pgs[c])
      f == VecFill(t.vs, t.a, Fresh(n))
  IN /\ OnPages(c) /\ n <= t.vs[t.a.v].rem /\ Writes(n)
     /\ UNCHANGED <<hs, inners>>
     /\ OnStream(c, PRes(f.vs, [pgs[c] EXCEPT !.cur = f.a], Nil))

\* Slot t receives what the call returns.
Gets(t, r) == Empty(t) /\ hs' = [hs EXCEPT ![t] = r.b] /\ UNCHANGED <<inners, next>>
PagesTakeIt(c, t) ==
  LET r == PagesTake(vecs, pgs[c]) IN
  OnPages(c) /\ r.b # Nil /\ Gets(t, r) /\ OnStream(c, r)
PagesFreezeIt(c, t) ==
  LET r == PagesFreeze(vecs, pgs[c]) IN OnPages(c) /\ Gets(t, r) /\ OnStream(c, r)
PagesIntoMut(c, t) ==
  LET r == IntoBytesMut(vecs, pgs[c]) IN
  OnPages(c) /\ Gets(t, r) /\ OnStream(c, r)

PagesClearIt(c) ==
  /\ OnPages(c) /\ UNCHANGED <<hs, inners, next>> /\ OnStream(c, PagesClear(vecs, pgs[c]))

\* with_bytes_mut, with a closure that appends, reads or reserves.
PagesWithBytesMut(c, f, n) ==
  LET t == TakeCurrent(vecs, pgs[c])
      cap == t.vs[t.a.v].cap
      r == CASE f = "put" -> PutSlice(t.vs, t.a, Fresh(n))
             [] f = "read" -> VecSetStart(t.vs, t.a, n)
             [] f = "reserve" -> VecReserve(t.vs, t.a, n)
  IN /\ OnPages(c) /\ UNCHANGED <<hs, inners>>
     /\ IF f = "put" THEN Writes(n) ELSE UNCHANGED next
     /\ f = "read" => pgs[c].pages = <<>> /\ n <= CurrentLen(vecs, pgs[c])
     /\ OnStream(c, WithBytesMut(r, pgs[c], cap))

\* with_bytes_mut, with a closure that panics: `st` and `buf` hold one storage without a
\* second reference, and the unwinding drops both.  The first drop is made here; the
\* second one touches a storage that is not theirs any more.
PagesWithBytesMutUnwinds(c) ==
  LET t == TakeCurrent(vecs, pgs[c]) IN
  /\ OnPages(c) /\ UNCHANGED <<hs, inners, next>>
  /\ OnStream(c, [vs |-> DropHandle(t.vs, t.a), pg |-> [pgs[c] EXCEPT !.cur = Nil],
                  b |-> Nil, fault |-> "dropped_twice"])

Both(c, e) == Running /\ c # e /\ IsOpen(c) /\ IsOpen(e)
PagesMoveTo(c, e) == Both(c, e) /\ OnStreams(c, e, MoveTo(vecs, pgs[c], pgs[e]))
PagesCopyTo(c, e) == Both(c, e) /\ OnStreams(c, e, CopyTo(vecs, pgs[c], 1, pgs[e]))
PagesSplitInto(c, e, at) == Both(c, e) /\ OnStreams(c, e, SplitInto(vecs, pgs[c], at, pgs[e]))
PagesTryGetCurrent(c, e) ==
  Both(c, e) /\ OnStreams(c, e, TryGetCurrentFrom(vecs, pgs[c], pgs[e]))

-----------------------------------------------------------------------------
Amounts == 0 .. prog.cap
Capacities == {0, prog.cap}

NewHandles == \E s \in prog.slots :
  \/ \E n \in Amounts :
       \/ BytesCopyFromSlice(s, n) \/ BytesFromStatic(s, n) \/ BytesFromExt(s, n)
       \/ PageFromVec(s, n)
  \/ \E cap \in Capacities : MutWithCapacity(s, cap)
  \/ HandleDrop(s)

BytesCalls == \E s \in prog.slots :
  \/ \E n \in Amounts :
       \/ BytesAdvanceTo(s, n) \/ BytesTruncate(s, n)
  \/ BytesTrimdown(s) \/ BytesClearIt(s) \/ BytesGetU8(s)
  \/ \E t \in prog.slots \ {s} :
       \/ BytesClone(s, t)
       \/ \E at \in Amounts : BytesSplitOff(s, t, at) \/ BytesSplitTo(s, t, at)
       \/ \E i, j \in Amounts : BytesSlice(s, t, i, j)

MutCalls == \E s \in prog.slots :
  \/ \E n \in Amounts :
       \/ MutAdvanceTo(s, n) \/ MutTruncate(s, n) \/ MutResize(s, n)
       \/ MutReserve(s, n) \/ MutPutSlice(s, n) \/ MutIndexMut(s, n)
  \/ \E cap \in Capacities : MutReserveCapacity(s, cap)
  \/ MutFreeze(s) \/ MutPutU8(s) \/ MutFromBytes(s)
  \/ \E t \in prog.slots \ {s} : MutClone(s, t) \/ \E at \in Amounts : MutSplitTo(s, t, at)

PageCalls == \E s \in prog.slots :
  \/ \E n \in Amounts : PageAdvance(s, n)
  \/ PageFreezeIt(s) \/ PageToMut(s)
  \/ \E t \in prog.slots \ {s} : ClonePage(s, t) \/ \E at \in Amounts : PageSplit(s, t, at)

PagesCalls == \E c \in prog.streams :
  \/ \E size \in DOMAIN PageCap : PagesNew(c, size)
  \/ PagesDrop(c) \/ PagesPutByte(c) \/ PagesClearIt(c)
  \/ \E n \in Amounts : PagesPutSlice(c, n)
  \/ \E s \in prog.slots :
       \/ PagesAppendIt(c, s) \/ PagesPrependIt(c, s)
       \/ PagesTakeIt(c, s) \/ PagesFreezeIt(c, s) \/ PagesIntoMut(c, s)

PagesInPlace == \E c \in prog.streams :
  \/ \E n \in Amounts :
       \/ PagesAdvanceMut(c, n)
       \/ \E f \in {"put", "read", "reserve"} : PagesWithBytesMut(c, f, n)
  \/ PagesWithBytesMutUnwinds(c)

PagesTransfers == \E c, e \in prog.streams :
  \/ PagesMoveTo(c, e) \/ PagesCopyTo(c, e) \/ PagesTryGetCurrent(c, e)
  \/ \E at \in Amounts : PagesSplitInto(c, e, at)

Next ==
  /\ UNCHANGED prog
  /\ \/ NewHandles
     \/ "bytes" \in prog.calls /\ BytesCalls
     \/ "mut" \in prog.calls /\ MutCalls
     \/ "page" \in prog.calls /\ PageCalls
     \/ "pages" \in prog.calls /\ PagesCalls
     \/ "inplace" \in prog.calls /\ PagesInPlace
     \/ "transfers" \in prog.calls /\ PagesTransfers

Spec == Init /\ [][Next]_vars

-----------------------------------------------------------------------------
(* Properties *)

\* How many handles point to storage v.
Refs(v) ==
  Cardinality({s \in Slots : hs[s].v = v})
  + Cardinality({c \in Streams : pgs[c].cur.v = v})
  + Cardinality(UNION {{<<c, i>> : i \in {j \in 1 .. Len(pgs[c].pages) : pgs[c].pages[j].v = v}}
                         : c \in Streams})

\* The handles as values: what each one shows, and nothing about where it is.
Values == INSTANCE ByteValues WITH
  live <- {s \in Slots : Holds(s)},
  val <- [s \in Slots |-> Content(vecs, hs[s])],
  open <- {c \in Streams : IsOpen(c)},
  str <- [c \in Streams |-> PagesContent(vecs, pgs[c])]

\* A call that moves or writes a storage whose header was cloned.
ThroughClone == \E v \in Vecs :
  vecs[v].cloned /\ <<vecs'[v].off, vecs'[v].len, vecs'[v].mem>>
                      # <<vecs[v].off, vecs[v].len, vecs[v].mem>>

\* The containers implement independent values: no call on one handle changes what
\* another one shows, splits, copies and page transfers keep the bytes and their
\* order, and no byte is shown that was not written (bytes/storage.rs, stvec.rs,
\* bvec.rs, bytes.rs, pages.rs).  The exception: Clone for BytePage, and so copy_to,
\* gives a storage page a second owner, and a call that moves or writes the storage
\* through one of them changes what the other shows, against "We garantee that `st` is
\* not being used for modification" (pages.rs:632).  A call that fails ends the program;
\* which ones can is OnlyKnownFaults.
HandlesAreValues ==
  Values!Init /\ [][Values!Next \/ ThroughClone \/ fault' # "no"]_(Values!vars)

\* The reference count of every storage is the number of handles that point to it
\* (shallow_clone, split_to, freeze, release_shared_vec), so none is freed or put
\* into the page cache while in use, and none is kept once nobody uses it.
RefCounts == \A v \in Vecs :
  /\ vecs[v].st = "live" => vecs[v].rc = Refs(v) /\ Refs(v) > 0
  /\ vecs[v].st # "live" => Refs(v) = 0

\* A `Bytes` never shows memory its mutable owner may write: the owner's part of a
\* shared storage lies behind every frozen view (StorageVec::split_to,
\* reserve_inner and truncate move the owner, and only when it is alone).  Not so where a
\* storage page was cloned and one of the two frozen: the other still owns what the
\* frozen one shows.
FrozenBehindOwner == \A a, b \in Handles(hs, pgs) :
  (a.k = "vec" /\ b.k = "mut" /\ a.v = b.v /\ ~vecs[a.v].cloned)
     => a.off + a.len <= vecs[b.v].off

\* Header and allocation agree: offset and capacity span the whole allocation,
\* `remaining` is what is left, views stay inside, and a storage that carries a page
\* size, in use or in the cache, has the capacity of that size (set_start, set_len,
\* reserve_inner, with_bytes_mut, release_shared_vec).
HeaderSpansStorage ==
  /\ \A v \in Vecs : LET x == vecs[v] IN x.st # "free" =>
       /\ x.off + x.cap = Len(x.mem) /\ x.len + x.rem = x.cap
       /\ x.size # Unset => Len(x.mem) = PageCap[x.size]
       /\ x.st = "cached" => x.off = 0 /\ x.len = 0 /\ x.rc = 1
  /\ \A h \in Handles(hs, pgs) : h.k = "vec" => h.off + h.len <= Len(vecs[h.v].mem)

\* No call fails on its own arithmetic or bounds but for three: put_u8 on BytePages whose
\* current storage was filled in place (advance_mut, with_bytes_mut), which `with_current`
\* would have retired; truncate or trimdown of a view that is longer than what the owner's
\* moves left in the shared header's capacity (storage.rs:369, 380); a with_bytes_mut
\* whose closure panics.  A BytesMut reserves first, and a BytePages that is only
\* written, appended to and moved never keeps a full current storage.
OnlyKnownFaults ==
  /\ fault \in {"no", "put_u8", "capacity", "dropped_twice"}
  /\ fault \in {"put_u8", "dropped_twice"} => "inplace" \in prog.calls
  /\ fault = "capacity" => \E s \in Slots :
       hs[s].k = "vec" /\ vecs[hs[s].v].off > 0 /\ vecs[hs[s].v].cap < hs[s].len

\* The shared storages are sound: each is counted by its handles and goes with the last
\* one, a frozen view never shows what an owner may write unless its page was cloned,
\* header and allocation agree as long as no put_u8 overran a full page, and only the
\* calls OnlyKnownFaults names can fail.
StorageSound ==
  /\ RefCounts /\ FrozenBehindOwner /\ OnlyKnownFaults
  /\ fault # "put_u8" => HeaderSpansStorage
=============================================================================

-------------------------------- MODULE Bytes --------------------------------
(***************************************************************************)
(* The byte containers of geario (geario/src/bytes): `Bytes` over          *)
(* `Storage`, `BytesMut` over `StorageVec`, and the reference-counted      *)
(* `SharedVec` both of them point to.                                      *)
(*                                                                         *)
(* A SharedVec keeps ONE header (offset, len, capacity, remaining) that    *)
(* describes the part of the allocation its mutable owner sees; a `Bytes`  *)
(* of kind VEC carries its own offset and length.  Operations are          *)
(* operators from the table of SharedVecs and a handle to the new table    *)
(* and handle(s); BytePages adds the pages and the actions.                *)
(*                                                                         *)
(* Offsets count from the end of the header (METADATA_SIZE is 0 here), a   *)
(* byte is a natural number, and memory is the sequence `mem`.             *)
(***************************************************************************)
EXTENDS Naturals, Sequences, FiniteSets, SequencesExt

CONSTANTS
  Vecs,        \* ids of SharedVec allocations, 1 .. n
  INLINE_CAP,  \* bytes that fit into a `Storage` itself
  TrimSlack,   \* unused space from which trimdown() reallocates
  PageCap,     \* BytePageSize -> capacity of a page of that size
  CacheSize    \* storages kept per page size by the thread's cache

Unset == "Unset"
Junk == 0       \* an uninitialised or foreign byte

ASSUME BytesAssumption ==
  /\ Vecs \subseteq Nat \ {0}
  /\ INLINE_CAP \in Nat /\ TrimSlack \in Nat \ {0} /\ CacheSize \in Nat
  /\ Unset \notin DOMAIN PageCap
  /\ \A s \in DOMAIN PageCap : PageCap[s] \in Nat \ {0}

-----------------------------------------------------------------------------
(* Handles.  "inline", "static", "ext" and "vec" are the four kinds of a   *)
(* Storage, "mut" is a StorageVec (what a BytesMut owns), "heap" is a      *)
(* std Vec<u8> inside a BytePage, "nil" is no handle.                      *)

Handle(k, d, v, off, len) == [k |-> k, d |-> d, v |-> v, off |-> off, len |-> len]
Nil == Handle("nil", <<>>, 0, 0, 0)
Static(d) == Handle("static", d, 0, 0, 0)
Heap(d) == Handle("heap", d, 0, 0, 0)
View(v, off, len) == Handle("vec", <<>>, v, off, len)
Mut(v) == Handle("mut", <<>>, v, 0, 0)
Ext(v, len) == Handle("ext", <<>>, v, 0, len)

IsBytes(h) == h.k \in {"inline", "static", "ext", "vec"}
IsMut(h) == h.k = "mut"

\* A SharedVec that is not allocated.  `cloned` records that Clone for BytePage gave its
\* header a second owner, and that the storage has been shared ever since.
FreeVec == [st |-> "free", mem |-> <<>>, off |-> 0, len |-> 0, cap |-> 0,
            rem |-> 0, rc |-> 0, size |-> Unset, cloned |-> FALSE]

\* What `remaining -= 1` makes of 0 in a release build: u32::MAX there, here a number
\* that TLC can hold and that is larger than every storage too.
Wrapped == 2 ^ 30

\* What an operation returns: the table, the handle it worked on, a second
\* handle, and how it went wrong: the assertion, subtraction or write that did.
Res(vs, a, b) == [vs |-> vs, a |-> a, b |-> b, fault |-> "no"]
Faulty(vs, a, why) == [vs |-> vs, a |-> a, b |-> Nil, fault |-> why]

Min2(a, b) == IF a <= b THEN a ELSE b

-----------------------------------------------------------------------------
(* SharedVec *)

\* The id the allocator hands out.
NewVec(vs) == CHOOSE v \in Vecs : vs[v].st = "free" /\ \A w \in Vecs : vs[w].st = "free" => v <= w

\* SharedVec::create with alloc_with_capacity: a new storage of `cap` bytes that
\* starts with `src`.
Create(vs, size, cap, src) ==
  LET v == NewVec(vs) IN
  Res([vs EXCEPT ![v] =
         [st |-> "live", mem |-> src \o [i \in 1 .. cap - Len(src) |-> Junk],
          off |-> 0, len |-> Len(src), cap |-> cap, rem |-> cap - Len(src),
          rc |-> 1, size |-> size, cloned |-> FALSE]],
      Mut(v), Nil)

\* The storages the thread's cache holds for one page size.
Cached(vs, size) == {v \in Vecs : vs[v].st = "cached" /\ vs[v].size = size}

\* release_shared_vec: the last reference returns a sized storage to the cache,
\* header reset, or frees it.
ReleaseSharedVec(vs, v) ==
  LET x == vs[v] cap == x.off + x.cap IN
  IF x.rc # 1 THEN [vs EXCEPT ![v].rc = @ - 1, ![v].cloned = @ /\ x.rc # 2]
  ELSE IF x.size # Unset /\ Cardinality(Cached(vs, x.size)) < CacheSize
  THEN [vs EXCEPT ![v] = [x EXCEPT !.st = "cached", !.len = 0, !.off = 0,
                                   !.cap = cap, !.rem = cap, !.rc = 1]]
  ELSE [vs EXCEPT ![v] = FreeVec]

\* StorageVec::sized: a page from the cache, or a new one.
Sized(vs, size) ==
  IF Cached(vs, size) # {}
  THEN LET v == CHOOSE w \in Cached(vs, size) : \A u \in Cached(vs, size) : w <= u
       IN Res([vs EXCEPT ![v].st = "live"], Mut(v), Nil)
  ELSE Create(vs, size, PageCap[size], <<>>)

\* StorageVec::is_unique.
IsUnique(vs, h) == vs[h.v].rc = 1

\* Bytes [at+1 .. at+Len(d)] of the storage become d.
Write(x, at, d) ==
  [i \in DOMAIN x.mem |-> IF i - at \in DOMAIN d THEN d[i - at] ELSE x.mem[i]]

-----------------------------------------------------------------------------
(* Storage (what a Bytes owns) *)

\* Storage::as_ref, StorageVec::as_ref and the slice of a heap page.  The byte
\* behind the allocation is a foreign one.
Content(vs, h) ==
  CASE h.k \in {"vec", "ext"} -> SubSeq(vs[h.v].mem, h.off + 1, h.off + h.len)
    [] h.k = "mut" -> LET x == vs[h.v] IN
         IF x.len <= x.cap THEN SubSeq(x.mem, x.off + 1, x.off + x.len)
         ELSE SubSeq(x.mem, x.off + 1, x.off + x.cap) \o <<Junk>>
    [] OTHER -> h.d

Length(vs, h) == Len(Content(vs, h))

\* Storage::from_ptr_inline: the bytes are copied into the handle.
FromPtrInline(d) == Handle("inline", d, 0, 0, 0)

\* Storage::from_slice_with_capacity.
FromSliceWithCapacity(vs, cap, d) ==
  LET r == Create(vs, Unset, cap, d) IN Res(r.vs, View(r.a.v, 0, Len(d)), Nil)

\* Storage::from_slice.
FromSlice(vs, d) ==
  IF Len(d) <= INLINE_CAP THEN Res(vs, FromPtrInline(d), Nil)
  ELSE FromSliceWithCapacity(vs, Len(d), d)

\* Storage::from_stext of an Arc<str>: the Arc becomes the storage.
FromStext(vs, d) ==
  LET r == Create(vs, Unset, Len(d), d) IN Res(r.vs, Ext(r.a.v, Len(d)), Nil)

\* Storage::capacity: for kind VEC the capacity in the SHARED header, which the
\* mutable owner of the storage moves.
Capacity(vs, h) ==
  CASE h.k = "vec" -> vs[h.v].cap
    [] h.k = "inline" -> INLINE_CAP
    [] OTHER -> Length(vs, h)

\* Drop for Storage and for StorageVec; the Arc of an external storage counts
\* its own references.
DropHandle(vs, h) ==
  IF h.k \in {"vec", "mut", "ext"} THEN ReleaseSharedVec(vs, h.v) ELSE vs

\* `*self = new`: the old storage is dropped once the new one exists.
Replace(r, old) == Res(DropHandle(r.vs, old), r.a, Nil)

\* Storage::set_start.
SetStart(vs, h, start) ==
  IF start = 0 THEN Res(vs, h, Nil)
  ELSE CASE h.k = "vec" ->
              Res(vs, [h EXCEPT !.off = @ + start,
                                !.len = IF @ >= start THEN @ - start ELSE 0], Nil)
         [] h.k = "inline" -> Res(vs, FromPtrInline(SubSeq(h.d, start + 1, Len(h.d))), Nil)
         [] h.k = "ext" ->
              Replace(FromSlice(vs, SubSeq(Content(vs, h), start + 1, h.len)), h)
         [] OTHER -> Res(vs, Static(SubSeq(h.d, start + 1, Len(h.d))), Nil)

\* Storage::set_end.
SetEnd(vs, h, end) ==
  CASE h.k = "vec" -> Res(vs, [h EXCEPT !.len = Min2(@, end)], Nil)
    [] h.k = "inline" -> Res(vs, FromPtrInline(SubSeq(h.d, 1, Min2(Len(h.d), end))), Nil)
    [] h.k = "ext" -> Replace(FromSlice(vs, SubSeq(Content(vs, h), 1, Min2(h.len, end))), h)
    [] OTHER -> Res(vs, Static(SubSeq(h.d, 1, end)), Nil)

\* Storage::set_len: kind VEC asserts against the shared header's capacity.
SetLen(vs, h, len) ==
  CASE h.k = "vec" -> IF len <= Capacity(vs, h) THEN Res(vs, [h EXCEPT !.len = len], Nil)
                      ELSE Faulty(vs, h, "capacity")
    [] h.k = "ext" -> IF len = h.len THEN Res(vs, h, Nil)
                      ELSE Replace(FromSlice(vs, SubSeq(Content(vs, h), 1, len)), h)
    [] h.k = "inline" -> Res(vs, FromPtrInline(SubSeq(h.d, 1, len)), Nil)
    [] OTHER -> Res(vs, Static(SubSeq(h.d, 1, len)), Nil)

\* Storage::shallow_clone.
ShallowClone(vs, h) ==
  IF h.k \in {"vec", "ext"} THEN Res([vs EXCEPT ![h.v].rc = @ + 1], h, Nil)
  ELSE Res(vs, h, Nil)

\* Storage::split_off(at, true): b is the tail, a the head.
StorageSplitOff(vs, h, at) ==
  LET len == Length(vs, h)
      c == ShallowClone(vs, h)
      tail == IF len - at <= INLINE_CAP
              THEN Res(vs, FromPtrInline(SubSeq(Content(vs, h), at + 1, len)), Nil)
              ELSE SetStart(c.vs, c.a, at)
      head == IF at <= INLINE_CAP
              THEN Replace(Res(tail.vs, FromPtrInline(SubSeq(Content(vs, h), 1, at)), Nil), h)
              ELSE SetEnd(tail.vs, h, at)
  IN Res(head.vs, head.a, tail.a)

\* Storage::split_to: b is the head, a the tail.
StorageSplitTo(vs, h, at) ==
  LET c == ShallowClone(vs, h)
      head == IF at <= INLINE_CAP
              THEN Res(vs, FromPtrInline(SubSeq(Content(vs, h), 1, at)), Nil)
              ELSE SetEnd(c.vs, c.a, at)
      tail == SetStart(head.vs, h, at)
  IN Res(tail.vs, tail.a, head.a)

\* Storage::truncate.
StorageTruncate(vs, h, len) ==
  IF len > Length(vs, h) THEN Res(vs, h, Nil)
  ELSE IF len < INLINE_CAP
  THEN Replace(Res(vs, FromPtrInline(SubSeq(Content(vs, h), 1, len)), Nil), h)
  ELSE SetLen(vs, h, len)

\* Storage::trimdown: `self.capacity() - self.len()` is unsigned, and the header's
\* capacity may have become smaller than the view; a debug build panics then.
StorageTrimdown(vs, h, debug) ==
  LET len == Length(vs, h) cap == Capacity(vs, h) IN
  IF h.k \in {"inline", "static"} THEN Res(vs, h, Nil)
  ELSE IF len <= INLINE_CAP
  THEN Replace(Res(vs, FromPtrInline(Content(vs, h)), Nil), h)
  ELSE IF cap < len /\ debug THEN Faulty(vs, h, "capacity")
  ELSE IF cap < len \/ cap - len >= TrimSlack
  THEN Replace(FromSliceWithCapacity(vs, len, Content(vs, h)), h)
  ELSE Res(vs, h, Nil)

-----------------------------------------------------------------------------
(* StorageVec (what a BytesMut owns) *)

\* StorageVec::set_start.
VecSetStart(vs, h, start) ==
  LET x == vs[h.v]
      len == IF x.len > start THEN x.len - start ELSE 0
      rem == x.cap - len - start
  IN IF start = 0 THEN Res(vs, h, Nil)
     ELSE IF start > x.cap THEN Faulty(vs, h, "set_start")
     ELSE Res([vs EXCEPT ![h.v] = [x EXCEPT !.off = @ + start, !.len = len,
                                            !.rem = rem, !.cap = rem + len]], h, Nil)

\* StorageVec::set_len.
VecSetLen(vs, h, len) ==
  IF len > vs[h.v].cap THEN Faulty(vs, h, "set_len")
  ELSE Res([vs EXCEPT ![h.v].len = len, ![h.v].rem = vs[h.v].cap - len], h, Nil)

\* StorageVec::freeze: the handle becomes a view, or an inline copy.
Freeze(vs, h) ==
  LET x == vs[h.v] IN
  IF x.len <= INLINE_CAP
  THEN Replace(Res(vs, FromPtrInline(Content(vs, h)), Nil), h)
  ELSE Res(vs, View(h.v, x.off, x.len), Nil)

\* StorageVec::split_to: b is the head, a (the owner) keeps the rest.
VecSplitTo(vs, h, at) ==
  LET x == vs[h.v]
      head == IF at <= INLINE_CAP
              THEN Res(vs, FromPtrInline(SubSeq(Content(vs, h), 1, at)), Nil)
              ELSE Res([vs EXCEPT ![h.v].rc = @ + 1], View(h.v, x.off, at), Nil)
      rest == VecSetStart(head.vs, h, at)
  IN Res(rest.vs, h, head.a)

\* Mutant: the front is taken back although frozen views still show it.
VecTruncateShared(vs, h, len) ==
  LET x == vs[h.v] cap == x.off + x.cap IN
  IF len = 0 /\ x.off # 0
  THEN Res([vs EXCEPT ![h.v] = [x EXCEPT !.len = 0, !.off = 0, !.cap = cap, !.rem = cap]],
           h, Nil)
  ELSE IF len < x.len THEN VecSetLen(vs, h, len) ELSE Res(vs, h, Nil)

\* StorageVec::truncate: an empty, unshared buffer gets its front back.
VecTruncate(vs, h, len) ==
  LET x == vs[h.v] cap == x.off + x.cap IN
  IF len = 0 /\ IsUnique(vs, h) /\ x.off # 0
  THEN Res([vs EXCEPT ![h.v] = [x EXCEPT !.len = 0, !.off = 0, !.cap = cap, !.rem = cap]],
           h, Nil)
  ELSE IF len < x.len THEN VecSetLen(vs, h, len) ELSE Res(vs, h, Nil)

\* StorageVec::reserve with reserve_inner: an unshared buffer slides back to the
\* front of its allocation when that makes room, otherwise a new one is made.
VecReserve(vs, h, additional) ==
  LET x == vs[h.v]
      newCap == x.len + additional
      whole == x.off + x.cap
  IN IF additional <= x.rem THEN Res(vs, h, Nil)
     ELSE IF IsUnique(vs, h) /\ whole >= newCap
     THEN Res([vs EXCEPT ![h.v] = [x EXCEPT !.off = 0, !.rem = whole - x.len, !.cap = whole,
                                            !.mem = Write(x, 0, Content(vs, h))]], h, Nil)
     ELSE Replace(Create(vs, Unset, newCap, Content(vs, h)), h)

\* StorageVec::reserve_capacity.
VecReserveCapacity(vs, h, cap) == Replace(Create(vs, Unset, cap, Content(vs, h)), h)

\* Copying d behind the content, then set_len: BytesMut::put_slice after reserve.
VecFill(vs, h, d) ==
  LET x == vs[h.v]
      w == [vs EXCEPT ![h.v].mem = Write(x, x.off + x.len, d)]
  IN VecSetLen(w, h, x.len + Len(d))

\* StorageVec::put_u8.  `remaining` is not checked: with none left the length still grows,
\* and then a debug build panics where a release build wraps `remaining` and writes the
\* byte behind the allocation.
VecPutU8(vs, h, n, debug) ==
  LET x == vs[h.v] IN
  IF x.rem = 0
  THEN Faulty([vs EXCEPT ![h.v].len = @ + 1, ![h.v].rem = IF debug THEN 0 ELSE Wrapped],
              h, "put_u8")
  ELSE Res([vs EXCEPT ![h.v] = [x EXCEPT !.len = @ + 1, !.rem = @ - 1,
                                         !.mem = Write(x, x.off + x.len, <<n>>)]], h, Nil)

\* StorageVec::resize.
VecResize(vs, h, newLen, value) ==
  LET len == vs[h.v].len
      r == VecReserve(vs, h, newLen - len)
  IN IF newLen > len
     THEN VecFill(r.vs, r.a, [i \in 1 .. newLen - len |-> value])
     ELSE VecTruncate(vs, h, newLen)

-----------------------------------------------------------------------------
(* Bytes and BytesMut: the public operations that are more than one call. *)

\* Bytes::slice_checked for begin <= end <= len: b is the slice, a is unchanged.
Slice(vs, h, begin, end) ==
  LET c == ShallowClone(vs, h)
      e == SetEnd(c.vs, c.a, end)
      s == SetStart(e.vs, e.a, begin)
      f == FromSlice(vs, SubSeq(Content(vs, h), begin + 1, end))
  IN IF end - begin <= INLINE_CAP THEN Res(f.vs, h, f.a) ELSE Res(s.vs, h, s.a)

\* Bytes::split_off_checked for at <= len.
SplitOff(vs, h, at) ==
  IF at = Length(vs, h) THEN Res(vs, h, FromPtrInline(<<>>))
  ELSE IF at = 0 THEN Res(vs, FromPtrInline(<<>>), h)
  ELSE StorageSplitOff(vs, h, at)

\* Bytes::split_to_checked for at <= len.
SplitTo(vs, h, at) ==
  IF at = Length(vs, h) THEN Res(vs, FromPtrInline(<<>>), h)
  ELSE IF at = 0 THEN Res(vs, h, FromPtrInline(<<>>))
  ELSE StorageSplitTo(vs, h, at)

\* Storage::get_u8 of a non-empty buffer.
GetU8(vs, h) == SetStart(vs, h, 1)

\* Bytes::clear.
BytesClear(vs, h) == Replace(Res(vs, FromPtrInline(<<>>), Nil), h)

\* BytesMut::put_slice.
PutSlice(vs, h, d) == LET r == VecReserve(vs, h, Len(d)) IN VecFill(r.vs, r.a, d)

\* BytesMut::put_u8.
PutU8(vs, h, n, debug) == LET r == VecReserve(vs, h, 1) IN VecPutU8(r.vs, r.a, n, debug)

\* BytesMut::copy_from_slice, and so Clone and From<Bytes> for BytesMut.
MutFromSlice(vs, d) == Create(vs, Unset, Len(d), d)

=============================================================================

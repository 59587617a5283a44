---------------------------------- MODULE Buf ----------------------------------
(***************************************************************************)
(* Typed reads and writes of byte buffers (geario/src/bytes/buf): the      *)
(* provided methods of the traits Buf and BufMut, their implementations    *)
(* for slices, Vec and Cursor, the io::Write adapter and the iterator.     *)
(*                                                                         *)
(* A program writes a few numbers, each with one of the put methods, and   *)
(* then reads them with the get methods of the same names, from a buffer   *)
(* that may hand out its bytes in several chunks.  A byte has Radix        *)
(* values: with Radix = 2 the 128-bit methods stay within TLC's integers.  *)
(***************************************************************************)
EXTENDS Integers, Sequences, SequencesExt

CONSTANTS
  Radix,      \* values of a byte, even
  Numbers,    \* numbers a program writes, taken to the range of the method
  MaxWrites,  \* how many it writes
  Grow        \* what chunk_mut reserves for a full Vec (64)

VARIABLES
  sink,   \* the BufMut: [kind, data, room]; room is the spare capacity
  src,    \* the Buf: [kind, chunks, pos], after the writing
  sent,   \* what was written: methods and numbers
  got     \* what was read

bufVars == <<sink, src, sent, got>>

-----------------------------------------------------------------------------
(* Numbers and bytes *)

BeValue(bs) ==
  LET v[i \in 0 .. Len(bs)] == IF i = 0 THEN 0 ELSE v[i - 1] * Radix + bs[i] IN v[Len(bs)]
FromBytes(t, bs) ==
  LET v == BeValue(IF t.le THEN Reverse(bs) ELSE bs) top == Radix^t.size IN
  IF t.signed /\ v >= top \div 2 THEN v - top ELSE v
ToBytes(t, n) ==
  LET be == [i \in 1 .. t.size |-> (n \div Radix^(t.size - i)) % Radix] IN
  IF t.le THEN Reverse(be) ELSE be

\* A method: the size of its type, the order, the sign, and how many bytes it moves.
Of(size, le, signed) == [size |-> size, le |-> le, signed |-> signed, n |-> size]
Get8 == [u8 |-> Of(1, FALSE, FALSE), i8 |-> Of(1, FALSE, TRUE)]
Get16 == [u16 |-> Of(2, FALSE, FALSE), u16_le |-> Of(2, TRUE, FALSE),
          i16 |-> Of(2, FALSE, TRUE), i16_le |-> Of(2, TRUE, TRUE)]
Get32 == [u32 |-> Of(4, FALSE, FALSE), u32_le |-> Of(4, TRUE, FALSE),
          i32 |-> Of(4, FALSE, TRUE), i32_le |-> Of(4, TRUE, TRUE)]
Get64 == [u64 |-> Of(8, FALSE, FALSE), u64_le |-> Of(8, TRUE, FALSE),
          i64 |-> Of(8, FALSE, TRUE), i64_le |-> Of(8, TRUE, TRUE)]
Get128 == [u128 |-> Of(16, FALSE, FALSE), u128_le |-> Of(16, TRUE, FALSE),
           i128 |-> Of(16, FALSE, TRUE), i128_le |-> Of(16, TRUE, TRUE)]
\* get_uint and its kin, here called with nbytes = 3.
GetVar == [uint |-> [Of(8, FALSE, FALSE) EXCEPT !.n = 3], uint_le |-> [Of(8, TRUE, FALSE) EXCEPT !.n = 3],
           int |-> [Of(8, FALSE, TRUE) EXCEPT !.n = 3], int_le |-> [Of(8, TRUE, TRUE) EXCEPT !.n = 3]]
\* Floats travel as their bits.
GetFloat == [f32 |-> Get32.u32, f32_le |-> Get32.u32_le, f64 |-> Get64.u64, f64_le |-> Get64.u64_le]

Put8 == [u8 |-> Of(1, FALSE, FALSE), i8 |-> Of(1, FALSE, TRUE)]
Put16 == [u16 |-> Of(2, FALSE, FALSE), u16_le |-> Of(2, TRUE, FALSE),
          i16 |-> Of(2, FALSE, TRUE), i16_le |-> Of(2, TRUE, TRUE)]
Put32 == [u32 |-> Of(4, FALSE, FALSE), u32_le |-> Of(4, TRUE, FALSE),
          i32 |-> Of(4, FALSE, TRUE), i32_le |-> Of(4, TRUE, TRUE)]
Put64 == [u64 |-> Of(8, FALSE, FALSE), u64_le |-> Of(8, TRUE, FALSE),
          i64 |-> Of(8, FALSE, TRUE), i64_le |-> Of(8, TRUE, TRUE)]
Put128 == [u128 |-> Of(16, FALSE, FALSE), u128_le |-> Of(16, TRUE, FALSE),
           i128 |-> Of(16, FALSE, TRUE), i128_le |-> Of(16, TRUE, TRUE)]
PutVar == [uint |-> [Of(8, FALSE, FALSE) EXCEPT !.n = 3], uint_le |-> [Of(8, TRUE, FALSE) EXCEPT !.n = 3],
           int |-> [Of(8, FALSE, TRUE) EXCEPT !.n = 3], int_le |-> [Of(8, TRUE, TRUE) EXCEPT !.n = 3]]
PutFloat == [f32 |-> Put32.u32, f32_le |-> Put32.u32_le, f64 |-> Put64.u64, f64_le |-> Put64.u64_le]

Either(a, b) == [m \in DOMAIN a \cup DOMAIN b |-> IF m \in DOMAIN a THEN a[m] ELSE b[m]]
AllOf(ts) == FoldSeq(Either, ts[1], Tail(ts))
Getters == AllOf(<<Get8, Get16, Get32, Get64, Get128, GetVar, GetFloat>>)
Methods == DOMAIN Getters
Putters == AllOf(<<Put8, Put16, Put32, Put64, Put128, PutVar, PutFloat>>)

-----------------------------------------------------------------------------
(* BufMut *)

\* remaining_mut of the implementations for Vec and for a slice.
UsizeMax == 2^30 - 1
RemainingMutVec == UsizeMax - Len(sink.data)
RemainingMutSlice == sink.room
RemainingMut == IF sink.kind = "vec" THEN RemainingMutVec ELSE RemainingMutSlice

\* chunk_mut of a Vec: a full one grows.  advance_mut then takes from its room.
ChunkMutVec(k) == IF k.room = 0 THEN [k EXCEPT !.room = Grow] ELSE k
AdvanceMut(k, bs) == [k EXCEPT !.data = @ \o bs, !.room = @ - Len(bs)]

\* put_slice: as much as the chunk takes, until all is written; one turn per byte is
\* enough turns.
PutSliceVec(k, bs) ==
  LET turn[i \in 0 .. Len(bs)] ==
        IF i = 0 THEN [k |-> k, off |-> 0]
        ELSE LET t == turn[i - 1]
                 c == ChunkMutVec(t.k)
                 cnt == IF c.room < Len(bs) - t.off THEN c.room ELSE Len(bs) - t.off
             IN IF t.off = Len(bs) THEN t
                ELSE [k |-> AdvanceMut(c, SubSeq(bs, t.off + 1, t.off + cnt)), off |-> t.off + cnt]
  IN turn[Len(bs)].k
\* The slice has its own: it copies at once.
PutSliceSlice(k, bs) == AdvanceMut(k, bs)
PutSlice(k, bs) == IF k.kind = "vec" THEN PutSliceVec(k, bs) ELSE PutSliceSlice(k, bs)

\* The bytes a put method writes: all of the type's, or the low nbytes of them.
PutBytes(t, n) ==
  LET bs == ToBytes(t, n) IN IF t.le THEN SubSeq(bs, 1, t.n) ELSE SubSeq(bs, t.size - t.n + 1, t.size)

\* The number as the method's type holds it.
Ranged(t, n) == FromBytes(t, ToBytes(t, n))

Write(m, n) ==
  LET t == Putters[m] v == Ranged(t, n) IN
  /\ src.kind = "none" /\ Len(sent) < MaxWrites
  /\ RemainingMut >= t.n                     \* it panics otherwise
  /\ sink' = PutSlice(sink, PutBytes(t, v))
  /\ sent' = Append(sent, [m |-> m, n |-> v])
  /\ UNCHANGED <<src, got>>

\* Writer::write of two bytes: what there is room for is written and counted.
WriteIo(n) ==
  LET k == IF RemainingMut < 2 THEN RemainingMut ELSE 2
      bs == SubSeq(ToBytes(Get16.u16, n), 1, k)
  IN /\ src.kind = "none" /\ Len(sent) + 2 <= MaxWrites
     /\ sink' = PutSlice(sink, bs)
     /\ sent' = sent \o [i \in 1 .. k |-> [m |-> "u8", n |-> bs[i]]]
     /\ UNCHANGED <<src, got>>

-----------------------------------------------------------------------------
(* Buf *)

\* The slice, the cursor, and any other implementation, which may have several chunks.
RemainingSlice(b) == Len(b.chunks[1])
RemainingCursor(b) == IF b.pos >= Len(b.chunks[1]) THEN 0 ELSE Len(b.chunks[1]) - b.pos
Content(b) == CASE b.kind = "cursor" -> SubSeq(b.chunks[1], b.pos + 1, Len(b.chunks[1]))
                [] OTHER -> FlattenSeq(b.chunks)
Remaining(b) == CASE b.kind = "slice" -> RemainingSlice(b) [] b.kind = "cursor" -> RemainingCursor(b)
                  [] OTHER -> Len(Content(b))
ChunkCursor(b) == SubSeq(b.chunks[1], b.pos + 1, Len(b.chunks[1]))
Chunk(b) == IF b.kind = "cursor" THEN ChunkCursor(b) ELSE b.chunks[1]
AdvanceCursor(b, cnt) == [b EXCEPT !.pos = @ + cnt]
AdvanceSlice(b, cnt) == [b EXCEPT !.chunks[1] = SubSeq(@, cnt + 1, Len(@))]
AdvanceChunks(b, cnt) ==
  IF cnt = Len(b.chunks[1]) /\ Len(b.chunks) > 1 THEN [b EXCEPT !.chunks = Tail(@)]
  ELSE AdvanceSlice(b, cnt)
Advance(b, cnt) == CASE b.kind = "cursor" -> AdvanceCursor(b, cnt) [] b.kind = "slice" -> AdvanceSlice(b, cnt)
                     [] OTHER -> AdvanceChunks(b, cnt)

\* copy_to_slice: chunk by chunk.
CopyToSlice(b, n) ==
  LET turn[i \in 0 .. n] ==
        IF i = 0 THEN [b |-> b, dst |-> <<>>]
        ELSE LET t == turn[i - 1]
                 c == Chunk(t.b)
                 cnt == IF Len(c) < n - Len(t.dst) THEN Len(c) ELSE n - Len(t.dst)
             IN IF Len(t.dst) = n THEN t
                ELSE [b |-> Advance(t.b, cnt), dst |-> t.dst \o SubSeq(c, 1, cnt)]
  IN turn[n]

\* buf_get_impl: directly from the chunk if it is long enough, else through a copy; the
\* methods with nbytes copy into a zeroed array, at its start or at its end.
Direct(b, t) == [b |-> Advance(b, t.n), dst |-> SubSeq(Chunk(b), 1, t.n)]
Zeros(k) == [i \in 1 .. k |-> 0]
\* A mutant: the bytes of a big-endian nbytes integer are put at the start.
PaddedLeft(t, bs) == bs \o Zeros(t.size - t.n)
Padded(t, bs) == IF t.le THEN bs \o Zeros(t.size - t.n) ELSE Zeros(t.size - t.n) \o bs
GetImpl(b, t) ==
  LET r == IF t.n = t.size /\ Len(Chunk(b)) >= t.size THEN Direct(b, t) ELSE CopyToSlice(b, t.n) IN
  [b |-> r.b, v |-> FromBytes(t, Padded(t, r.dst))]

\* get_u8 and get_i8 take the first byte of the chunk.
GetByte(b, t) == [b |-> Advance(b, 1), v |-> FromBytes(t, <<Chunk(b)[1]>>)]

\* put, as to_bytes uses it: the chunks of one buffer, one after the other, into another.
BufPut(b) == CopyToSlice(b, Remaining(b))

\* The program turns to reading: the bytes as a slice, a cursor, or in two chunks.
Chunkings(bs) == {<<SubSeq(bs, 1, i), SubSeq(bs, i + 1, Len(bs))>> : i \in 1 .. Len(bs) - 1}
Seal ==
  /\ src.kind = "none" /\ sent # <<>>
  /\ src' \in {[kind |-> k, chunks |-> <<sink.data>>, pos |-> 0] : k \in {"slice", "cursor"}}
                \cup {[kind |-> "chunks", chunks |-> cs, pos |-> 0] : cs \in Chunkings(sink.data)}
  /\ UNCHANGED <<sink, sent, got>>

Reading(m) == src.kind # "none" /\ Len(got) < Len(sent) /\ sent[Len(got) + 1].m = m
Read(m) ==
  LET t == Getters[m]
      r == IF t.size = 1 THEN GetByte(src, t) ELSE GetImpl(src, t)
  IN /\ Reading(m) /\ Remaining(src) >= t.n
     /\ src' = r.b /\ got' = Append(got, r.v) /\ UNCHANGED <<sink, sent>>

\* IntoIter::next.
IterNext ==
  /\ Reading("u8") /\ Remaining(src) > 0
  /\ src' = Advance(src, 1) /\ got' = Append(got, Chunk(src)[1]) /\ UNCHANGED <<sink, sent>>

\* to_bytes: the rest becomes a Bytes, which is one chunk.
ReadToBytes ==
  /\ src.kind \in {"cursor", "chunks"}
  /\ src' = [kind |-> "slice", chunks |-> <<BufPut(src).dst>>, pos |-> 0]
  /\ UNCHANGED <<sink, sent, got>>

BufInit ==
  /\ sink \in [kind : {"vec"}, data : {<<>>}, room : {0, 2}] \cup [kind : {"slice"}, data : {<<>>}, room : {1, 20}]
  /\ src = [kind |-> "none", chunks |-> <<<<>>>>, pos |-> 0] /\ sent = <<>> /\ got = <<>>
BufNext ==
  \/ (\E m \in Methods, n \in Numbers : Write(m, n)) \/ (\E n \in Numbers : WriteIo(n)) \/ Seal
  \/ (\E m \in Methods : Read(m)) \/ IterNext \/ ReadToBytes

\* What a method reads of a number it wrote: the number; with nbytes, the low bytes of it
\* without their sign, because get_int pads with zeroes.
AsRead(t, n) == IF t.n = t.size THEN n ELSE n % Radix^t.n

\* Every number is read as it was written, by the method of the same name, however the
\* buffer is cut into chunks, and what is left to read are the bytes of the others.  Of the
\* methods with nbytes this holds of the numbers that these bytes hold as an unsigned one:
\* what put_int wrote of a negative number get_int reads as a positive one (AsRead), though
\* both speak of a signed n-byte integer.
ReadsBack ==
  src.kind # "none" =>
    /\ \A i \in 1 .. Len(got) : got[i] = AsRead(Getters[sent[i].m], sent[i].n)
    /\ Content(src) = FlattenSeq([i \in 1 .. Len(sent) - Len(got) |->
                        LET w == sent[Len(got) + i] IN PutBytes(Putters[w.m], w.n)])

=============================================================================

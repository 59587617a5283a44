------------------------------ MODULE ByteValues ------------------------------
(***************************************************************************)
(* What the byte containers promise their users: every handle (a Bytes, a  *)
(* BytesMut or a BytePage) and every BytePages behaves like a value of its *)
(* own, a sequence of bytes.  An operation changes the handles it is       *)
(* called on and no other, and never yields a byte nobody wrote.           *)
(*                                                                         *)
(* Bytes written by the program are numbered by `next`, so that each one   *)
(* can be told from all the others.                                        *)
(***************************************************************************)
EXTENDS Naturals, Sequences

CONSTANTS Slots, Streams

VARIABLES live,   \* the slots that hold a handle
          val,    \* slot -> the bytes its handle stands for
          open,   \* the BytePages in existence
          str,    \* BytePages -> the bytes it holds, in order
          next    \* bytes written so far

vars == <<live, val, open, str, next>>

Fresh(n) == [i \in 1 .. n |-> next + i]

Init ==
  /\ live = {} /\ val = [s \in Slots |-> <<>>]
  /\ open = {} /\ str = [c \in Streams |-> <<>>]
  /\ next = 0

SlotsOnly == UNCHANGED <<open, str>>
StreamsOnly == UNCHANGED <<live, val>>
Set(s, x) == live' = live \cup {s} /\ val' = [val EXCEPT ![s] = x]
Unset(s) == live' = live \ {s} /\ val' = [val EXCEPT ![s] = <<>>]
Drop(s) == s \in live /\ Unset(s) /\ SlotsOnly /\ UNCHANGED next

\* A new handle, or more bytes behind those of an existing one.
Put(s) == \E n \in 0 .. next' - next :
  /\ Set(s, val[s] \o Fresh(n)) /\ SlotsOnly /\ next' = next + n

\* One new byte, repeated behind the others or written over one of them.
Fill(s) == \E n \in 1 .. Len(val'[s]) :
  /\ s \in live /\ next' = next + 1 /\ SlotsOnly
  /\ Set(s, val[s] \o [i \in 1 .. n |-> next + 1])
Poke(s) == \E i \in 1 .. Len(val[s]) :
  /\ s \in live /\ next' = next + 1 /\ SlotsOnly
  /\ Set(s, [val[s] EXCEPT ![i] = next + 1])

\* Dropping bytes from the front and from the end.
Consume(s) == \E n \in 1 .. Len(val[s]) :
  /\ s \in live /\ Set(s, SubSeq(val[s], n + 1, Len(val[s]))) /\ SlotsOnly /\ UNCHANGED next
Shorten(s) == \E n \in 0 .. Len(val[s]) :
  /\ s \in live /\ Set(s, SubSeq(val[s], 1, n)) /\ SlotsOnly /\ UNCHANGED next

\* A second handle on part of a value; a value cut in two.
CopyOf(s, t) == \E i \in 0 .. Len(val[s]), j \in 0 .. Len(val[s]) :
  /\ s \in live /\ t \notin live /\ i <= j
  /\ Set(t, SubSeq(val[s], i + 1, j)) /\ SlotsOnly /\ UNCHANGED next
Cut(s, t) == \E at \in 0 .. Len(val[s]) :
  LET head == SubSeq(val[s], 1, at) tail == SubSeq(val[s], at + 1, Len(val[s])) IN
  /\ s \in live /\ t \notin live /\ live' = live \cup {t} /\ SlotsOnly /\ UNCHANGED next
  /\ \/ val' = [val EXCEPT ![s] = head, ![t] = tail]
     \/ val' = [val EXCEPT ![s] = tail, ![t] = head]

\* BytePages: a queue of bytes.
Open(c) == /\ c \notin open /\ open' = open \cup {c}
           /\ UNCHANGED str /\ StreamsOnly /\ UNCHANGED next
Close(c) == /\ c \in open /\ open' = open \ {c} /\ str' = [str EXCEPT ![c] = <<>>]
            /\ StreamsOnly /\ UNCHANGED next
StreamPut(c) == \E n \in 0 .. next' - next :
  /\ c \in open /\ str' = [str EXCEPT ![c] = @ \o Fresh(n)] /\ next' = next + n
  /\ StreamsOnly /\ UNCHANGED open
StreamConsume(c) == \E n \in 1 .. Len(str[c]) :
  /\ c \in open /\ str' = [str EXCEPT ![c] = SubSeq(@, n + 1, Len(@))]
  /\ StreamsOnly /\ UNCHANGED <<open, next>>
Push(c, s) ==
  /\ c \in open /\ s \in live /\ Unset(s) /\ UNCHANGED <<open, next>>
  /\ str' \in {[str EXCEPT ![c] = @ \o val[s]], [str EXCEPT ![c] = val[s] \o @]}
Pull(c, s) == \E n \in 0 .. Len(str[c]) :
  /\ c \in open /\ s \notin live /\ Set(s, SubSeq(str[c], 1, n)) /\ UNCHANGED <<open, next>>
  /\ str' = [str EXCEPT ![c] = SubSeq(@, n + 1, Len(@))]
Transfer(c, e) == \E n \in 0 .. Len(str[c]) :
  /\ c # e /\ {c, e} \subseteq open /\ StreamsOnly /\ UNCHANGED <<open, next>>
  /\ \/ str' = [str EXCEPT ![c] = SubSeq(@, n + 1, Len(@)),
                           ![e] = @ \o SubSeq(str[c], 1, n)]
     \/ str' = [str EXCEPT ![e] = @ \o str[c]]
     \/ /\ str[e] = <<>>
        /\ str' = [str EXCEPT ![c] = SubSeq(@, 1, n),
                              ![e] = SubSeq(str[c], n + 1, Len(str[c]))]

Next ==
  \/ \E s \in Slots : Drop(s) \/ Put(s) \/ Fill(s) \/ Poke(s) \/ Consume(s) \/ Shorten(s)
  \/ \E s, t \in Slots : CopyOf(s, t) \/ Cut(s, t)
  \/ \E c \in Streams : Open(c) \/ Close(c) \/ StreamPut(c) \/ StreamConsume(c)
  \/ \E c \in Streams, s \in Slots : Push(c, s) \/ Pull(c, s)
  \/ \E c, e \in Streams : Transfer(c, e)

Spec == Init /\ [][Next]_vars
=============================================================================

------------------------------- MODULE MCBytes -------------------------------
(* Model-checking instance of the byte containers. *)
EXTENDS BytePages, TLC
CONSTANTS s1, s2, p, o
MCPageCap == [P |-> 2]
Program(slots, streams, calls, makes, debug, bytes, cap) ==
  [slots |-> slots, streams |-> streams, calls |-> calls, makes |-> makes, debug |-> debug,
   bytes |-> bytes, cap |-> cap]
MCPrograms ==
  {Program({s1, s2}, {}, {"bytes", "mut"}, {"mut"}, TRUE, 2, 3),
   Program({s1, s2}, {}, {"bytes", "page"}, {"copy", "static", "ext", "heap"}, FALSE, 3, 3),
   Program({s1}, {p}, {"page", "pages", "inplace"}, {"copy"}, FALSE, 2, 2),
   Program({s1}, {p}, {"page", "pages", "inplace"}, {"copy"}, TRUE, 2, 2),
   Program({}, {p, o}, {"pages", "transfers"}, {}, TRUE, 3, 2)}
MCSymmetry == Permutations({s1, s2}) \cup Permutations({p, o})
=============================================================================

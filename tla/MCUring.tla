------------------------------- MODULE MCUring ------------------------------
(* A stream whose zero-copy sends may take only a part of a page. *)
EXTENDS UringStream
MCShort ==
    {[zc |-> TRUE, short |-> TRUE, direct |-> FALSE, busy |-> FALSE, is_new |-> TRUE, input |-> 0, output |-> 3,
      faults |-> {}, calls |-> {"encode", "vectored"}]}
=============================================================================

---------------------------- MODULE ServerProofs -----------------------------
(***************************************************************************)
(* Proofs about the accept loop of the server and its back-pressure.       *)
(*                                                                         *)
(* Two things have to be kept together.  Watched: outside of back-pressure *)
(* a socket is watched by the poller, waits for an error timeout, or is    *)
(* still ahead of the walk over the sockets.  Follows: the last word of    *)
(* the manager that the acceptor has not heard is what the flag `paused`   *)
(* says, and when there is none the acceptor does what the flag says.      *)
(***************************************************************************)
EXTENDS Server, FiniteSetTheorems, WellFoundedInduction, TLAPS

AccPcs == {"start", "scan", "send", "cmd", "drain", "resend", "done"}
AccType ==
  [pc : AccPcs, idx : Nat \ {0}, hand : Nat, bp : BOOLEAN, backlog : Seq(Nat),
   reg : [Sockets -> BOOLEAN], armed : [Sockets -> BOOLEAN], tmo : [Sockets -> Nat]]
Words == {"Pause", "Resume"}
AccCmds == Words \cup {"Timer", "Stop", "Terminate"}
MgrFields ==
  {"pc", "cmds", "hand", "workers", "next", "backlog", "stopping", "tell", "graceful", "notified"}

\* Of the manager only the shape of its record matters here, and what it is about to tell.
ServerType ==
  /\ acc \in AccType
  /\ lst \in [Sockets -> Seq(Nat)]
  /\ came \in Nat /\ errs \in Nat /\ timers \subseteq Nat
  /\ acmds \in Seq(AccCmds \X Nat)
  /\ paused \in BOOLEAN
  /\ DOMAIN mgr = MgrFields
  /\ mgr.tell \in Words \cup {""}

\* The walk over the sockets comes to s from the i-th one on.
Ahead(a, s, i) == a.reg[s] /\ \E j \in i .. Len(SocketSeq) : SocketSeq[j] = s
Kept(a, s) == a.armed[s] \/ a.tmo[s] # 0
Watched(a, s) == Kept(a, s) \/ (a.pc \in {"scan", "send"} /\ Ahead(a, s, a.idx))
Covers(a) ==
  /\ \A s \in Sockets : a.armed[s] => a.reg[s]
  /\ a.pc \in {"start", "drain", "resend"} => a.bp
  /\ ~a.bp => a.backlog = <<>> /\ \A s \in Sockets : Watched(a, s)

\* What the acceptor was told of the flag and has not heard yet.
Silent(q) == \A i \in 1 .. Len(q) : q[i][1] \notin Words
LastWord(q, i) ==
  /\ i \in 1 .. Len(q)
  /\ q[i][1] \in Words
  /\ \A j \in i + 1 .. Len(q) : q[j][1] \notin Words
Agrees(q, p) == \A i \in 1 .. Len(q) : LastWord(q, i) => (p <=> q[i][1] = "Pause")
\* The acceptor does what the flag says, or is about to.
Obeys(a, p) == IF a.pc \in {"drain", "resend"} THEN ~p ELSE a.bp = p
Follows ==
  Closed \/ acc.pc = "done" \/
    (/\ mgr.tell # "" => (paused <=> mgr.tell = "Pause")
     /\ mgr.tell = "" => Agrees(acmds, paused)
     /\ mgr.tell = "" /\ Silent(acmds) => Obeys(acc, paused))

ServerInv == ServerType /\ Covers(acc) /\ Follows

-----------------------------------------------------------------------------
(* The operators of the acceptor.                                          *)

\* Min of FiniteSetsExt on natural numbers: a smallest element exists in every non-empty set.
LEMMA MinIs ==
  ASSUME NEW S \in SUBSET Nat, S # {}
  PROVE  Min(S) \in S /\ \A y \in S : Min(S) <= y
<1>1. PICK x \in S : \A y \in S : ~(<<y, x>> \in OpToRel(<, Nat))
  BY NatLessThanWellFounded, WFMin, Zenon
<1>2. \A y \in S : x <= y
  <2> TAKE y \in S
  <2>1. <<y, x>> \in Nat \X Nat
    OBVIOUS
  <2>2. ~(y < x)
    BY <1>1, <2>1 DEF OpToRel
  <2> QED
    BY <2>2
<1> QED
  BY <1>2, ZenonT(60) DEF Min

\* The walk meets every socket.
LEMMA SocketSeqIs ==
  /\ Len(SocketSeq) \in Nat
  /\ \A s \in Sockets : \E j \in 1 .. Len(SocketSeq) : SocketSeq[j] = s
<1> DEFINE n == Cardinality(Sockets)
<1>1. n \in Nat /\ ExistsBijection(1 .. n, Sockets) /\ IsFiniteSet(1 .. n) /\ Cardinality(1 .. n) = n
  BY SocketsAssumption, FS_CardinalityType, FS_Interval
<1>2. \E f \in [1 .. n -> Sockets] : IsInjective(f)
  BY <1>1 DEF ExistsBijection, Bijection, Injection
<1>3. SocketSeq \in [1 .. n -> Sockets] /\ IsInjective(SocketSeq)
  BY <1>2 DEF SocketSeq
<1>4. SocketSeq \in Injection(1 .. n, Sockets)
  BY <1>3, SMTT(30) DEF Injection
<1>5. SocketSeq \in Surjection(1 .. n, Sockets)
  BY <1>1, <1>4, SocketsAssumption, FS_Injection
<1>6. Len(SocketSeq) = n
  BY <1>1, <1>3, SMTT(30)
<1> QED
  BY <1>1, <1>5, <1>6, SMTT(30) DEF Surjection

\* The walk goes on at the next registered socket, or is over: what is watched or ahead of
\* it stays so.
LEMMA ScanIs ==
  ASSUME NEW a \in AccType, NEW i \in Nat \ {0},
         \A s \in Sockets : a.armed[s] => a.reg[s],
         ~a.bp => a.backlog = <<>> /\ \A s \in Sockets : Kept(a, s) \/ Ahead(a, s, i)
  PROVE  /\ Scan(a, i) \in AccType
         /\ Covers(Scan(a, i))
         /\ Scan(a, i).bp = a.bp
         /\ Scan(a, i).pc \in {"cmd", "scan"}
<1> DEFINE rest == {j \in i .. Len(SocketSeq) : a.reg[SocketSeq[j]]}
<1>1. rest \in SUBSET Nat
  BY SocketSeqIs
<1>2. CASE rest = {}
  <2>1. Scan(a, i) = [a EXCEPT !.pc = "cmd", !.idx = 1]
    BY <1>2, SMTT(30) DEF Scan
  <2>2. \A s \in Sockets : ~Ahead(a, s, i)
    BY <1>2, SocketSeqIs DEF Ahead
  <2> HIDE DEF rest
  <2> DEFINE b == Scan(a, i)
  <2>3. /\ b \in AccType /\ b.pc = "cmd" /\ b.bp = a.bp
        /\ b.backlog = a.backlog /\ b.reg = a.reg /\ b.armed = a.armed /\ b.tmo = a.tmo
    <3>1. 1 \in Nat \ {0} /\ "cmd" \in AccPcs
      BY DEF AccPcs
    <3> QED
      BY <2>1, <3>1, ZenonT(60) DEF AccType
  <2> HIDE DEF b
  <2>4. Covers(b)
    BY <2>2, <2>3 DEF Covers, Watched, Kept
  <2> QED
    BY <2>3, <2>4 DEF b
<1>3. CASE rest # {}
  <2> DEFINE k == Min(rest)
  <2>1. Scan(a, i) = [a EXCEPT !.pc = "scan", !.idx = k]
    BY <1>3 DEF Scan
  <2>2. k \in rest /\ \A j \in rest : k <= j
    BY <1>1, <1>3, MinIs, ZenonT(60)
  <2>3. \A s \in Sockets : Ahead(a, s, i) => Ahead(a, s, k)
    BY <2>2, SocketSeqIs DEF Ahead
  <2>4. k \in Nat \ {0}
    BY <2>2, SocketSeqIs, SMTT(30)
  <2> HIDE DEF k, rest
  <2> DEFINE b == Scan(a, i)
  <2>5. /\ b \in AccType /\ b.pc = "scan" /\ b.idx = k /\ b.bp = a.bp
        /\ b.backlog = a.backlog /\ b.reg = a.reg /\ b.armed = a.armed /\ b.tmo = a.tmo
    BY <2>1, <2>4, ZenonT(60) DEF AccType, AccPcs
  <2> HIDE DEF b
  <2>6. \A s \in Sockets : (Kept(a, s) => Kept(b, s)) /\ (Ahead(a, s, k) => Ahead(b, s, k))
    BY <2>5 DEF Kept, Ahead
  <2>7. Covers(b)
    BY <2>3, <2>5, <2>6 DEF Covers, Watched
  <2> QED
    BY <2>5, <2>7 DEF b
<1> QED
  BY <1>2, <1>3

\* NextSocket: the walk leaves the socket it is at, s, for the next one.
LEMMA NextIs ==
  ASSUME NEW a \in AccType, NEW b \in AccType, NEW s \in Sockets,
         Covers(a), a.pc \in {"scan", "send"}, a.pc = "scan" => SocketSeq[a.idx] = s,
         b.idx = a.idx,
         \A t \in Sockets : (b.armed[t] => b.reg[t]) /\ (a.reg[t] => b.reg[t]),
         ~b.bp => /\ ~a.bp /\ b.backlog = <<>> /\ a.pc = "scan"
                  /\ \A t \in Sockets : Kept(a, t) => Kept(b, t)
                  /\ Kept(b, s)
  PROVE  /\ NextSocket(b) \in AccType
         /\ Covers(NextSocket(b))
         /\ NextSocket(b).bp = b.bp
         /\ NextSocket(b).pc \in {"cmd", "scan"}
<1>1. b.idx + 1 \in Nat \ {0}
  BY SMTT(30) DEF AccType
<1>2. ASSUME ~b.bp, NEW t \in Sockets
      PROVE  Kept(b, t) \/ Ahead(b, t, b.idx + 1)
  <2>1. Kept(a, t) \/ Ahead(a, t, a.idx)
    BY <1>2, SMTT(30) DEF Covers, Watched
  <2>2. CASE Ahead(a, t, a.idx)
    <3>1. PICK j \in a.idx .. Len(SocketSeq) : SocketSeq[j] = t
      BY <2>2, SMTT(30) DEF Ahead
    <3>2. CASE j = a.idx
      BY <1>2, <3>1, <3>2
    <3>3. CASE j # a.idx
      <4>1. j \in b.idx + 1 .. Len(SocketSeq)
        BY <3>3, SocketSeqIs, SMTT(30) DEF AccType
      <4> QED
        BY <2>2, <3>1, <4>1, SMTT(30) DEF Ahead
    <3> QED
      BY <3>2, <3>3
  <2> QED
    BY <1>2, <2>1, <2>2
<1> QED
  BY <1>1, <1>2, ScanIs DEF NextSocket

\* Accept::add_source: the sockets in ss are watched, or wait for the timeout of their error.
LEMMA AddSourcesIs ==
  ASSUME NEW a \in AccType, NEW ss \in SUBSET Sockets, NEW bad \in SUBSET ss, errs \in Nat,
         \A s \in Sockets : a.armed[s] => a.reg[s]
  PROVE  LET b == AddSources(a, ss, bad) IN
         /\ b \in AccType
         /\ b.pc = a.pc /\ b.idx = a.idx /\ b.bp = a.bp /\ b.backlog = a.backlog
         /\ \A s \in Sockets : /\ b.armed[s] => b.reg[s]
                               /\ a.reg[s] => b.reg[s]
                               /\ Kept(a, s) => Kept(b, s)
                               /\ s \in ss => Kept(b, s)
<1> DEFINE R == [s \in Sockets |-> a.reg[s] \/ s \in ss \ bad]
           A == [s \in Sockets |-> a.armed[s] \/ s \in ss \ bad]
           T == [s \in Sockets |-> IF s \in bad THEN errs + 1 ELSE a.tmo[s]]
           b == AddSources(a, ss, bad)
<1>1. R \in [Sockets -> BOOLEAN] /\ A \in [Sockets -> BOOLEAN]
  BY ZenonT(60)
<1>2. T \in [Sockets -> Nat]
  BY DEF AccType
<1>3. b = [a EXCEPT !.reg = R, !.armed = A, !.tmo = T]
  BY DEF AddSources, AccType
<1>4. \A s \in Sockets : /\ R[s] <=> (a.reg[s] \/ s \in ss \ bad)
                         /\ A[s] <=> (a.armed[s] \/ s \in ss \ bad)
                         /\ T[s] = IF s \in bad THEN errs + 1 ELSE a.tmo[s]
  BY Zenon
<1> HIDE DEF R, A, T, b
<1>5. /\ b \in AccType /\ b.reg = R /\ b.armed = A /\ b.tmo = T
      /\ b.pc = a.pc /\ b.idx = a.idx /\ b.bp = a.bp /\ b.backlog = a.backlog
  BY <1>1, <1>2, <1>3, ZenonT(60) DEF AccType
<1> QED
  BY <1>4, <1>5 DEF Kept, b

\* Accept::backpressure(true).
LEMMA BackpressureOnIs ==
  ASSUME NEW a \in AccType, \A s \in Sockets : a.armed[s] => a.reg[s]
  PROVE  LET b == BackpressureOn(a) IN
         /\ b \in AccType
         /\ b.pc = a.pc /\ b.idx = a.idx /\ b.bp /\ b.backlog = a.backlog /\ b.reg = a.reg
         /\ \A s \in Sockets : b.armed[s] => b.reg[s]
<1> DEFINE A == [s \in Sockets |-> a.armed[s] /\ s \notin {t \in Sockets : a.tmo[t] = 0}]
           T == [s \in Sockets |-> 0]
<1>1. CASE a.bp
  BY <1>1, SMTT(30) DEF BackpressureOn
<1>2. CASE ~a.bp
  <2>1. BackpressureOn(a) = [a EXCEPT !.armed = A, !.bp = TRUE, !.tmo = T]
    BY <1>2 DEF BackpressureOn, RemoveSources, AccType
  <2>2. A \in [Sockets -> BOOLEAN]
    BY ZenonT(60)
  <2>3. T \in [Sockets -> Nat]
    OBVIOUS
  <2>4. \A s \in Sockets : A[s] => a.armed[s]
    BY ZenonT(60)
  <2> HIDE DEF A, T
  <2> QED
    BY <2>1, <2>2, <2>3, <2>4, ZenonT(60) DEF AccType
<1> QED
  BY <1>1, <1>2

-----------------------------------------------------------------------------
(* The words of the manager in the queue of the acceptor.                  *)

\* An empty queue holds no word and contradicts no flag.
LEMMA NothingQueued ==
  Silent(<<>>) /\ \A p \in BOOLEAN : Agrees(<<>>, p)
<1>1. 1 .. Len(<<>>) = {}
  OBVIOUS
<1> QED
  BY <1>1, ZenonT(60) DEF Silent, Agrees

\* Queueing a command that is not a word leaves the words as they were.
LEMMA OtherQueued ==
  ASSUME NEW q \in Seq(AccCmds \X Nat), NEW t \in AccCmds \ Words, NEW k \in Nat
  PROVE  /\ Append(q, <<t, k>>) \in Seq(AccCmds \X Nat)
         /\ Silent(Append(q, <<t, k>>)) => Silent(q)
         /\ \A p \in BOOLEAN : Agrees(q, p) => Agrees(Append(q, <<t, k>>), p)
<1> DEFINE r == Append(q, <<t, k>>)
<1>1. /\ r \in Seq(AccCmds \X Nat) /\ Len(r) = Len(q) + 1 /\ Len(q) \in Nat
      /\ r[Len(q) + 1][1] = t /\ \A i \in 1 .. Len(q) : r[i] = q[i]
  OBVIOUS
<1> HIDE DEF r
<1>2. Silent(r) => Silent(q)
  BY <1>1, SMTT(30) DEF Silent
<1>3. \A i \in 1 .. Len(r) : LastWord(r, i) => i \in 1 .. Len(q) /\ LastWord(q, i)
  <2> SUFFICES ASSUME NEW i \in 1 .. Len(r), LastWord(r, i)
               PROVE  i \in 1 .. Len(q) /\ LastWord(q, i)
    OBVIOUS
  <2>1. i # Len(q) + 1
    BY <1>1 DEF LastWord
  <2>2. i \in 1 .. Len(q)
    BY <1>1, <2>1
  <2>3. \A j \in i + 1 .. Len(q) : j \in 1 .. Len(q) /\ j \in i + 1 .. Len(r)
    BY <1>1, <2>2
  <2> QED
    BY <1>1, <2>2, <2>3, ZenonT(60) DEF LastWord
<1>4. \A p \in BOOLEAN : Agrees(q, p) => Agrees(r, p)
  BY <1>1, <1>3, ZenonT(60) DEF Agrees
<1> QED
  BY <1>1, <1>2, <1>4 DEF r

\* A queued Pause or Resume is the last word.
LEMMA WordQueued ==
  ASSUME NEW q \in Seq(AccCmds \X Nat), NEW t \in Words, NEW k \in Nat
  PROVE  /\ Append(q, <<t, k>>) \in Seq(AccCmds \X Nat)
         /\ ~Silent(Append(q, <<t, k>>))
         /\ \A p \in BOOLEAN : (p <=> t = "Pause") => Agrees(Append(q, <<t, k>>), p)
<1> DEFINE r == Append(q, <<t, k>>)
<1>1. /\ r \in Seq(AccCmds \X Nat) /\ Len(r) = Len(q) + 1 /\ Len(q) \in Nat
      /\ r[Len(q) + 1][1] = t
  BY DEF AccCmds
<1> HIDE DEF r
<1>2. ~Silent(r)
  BY <1>1 DEF Silent
<1>3. \A i \in 1 .. Len(r) : LastWord(r, i) => i = Len(q) + 1
  BY <1>1, SMTT(30) DEF LastWord
<1>4. \A p \in BOOLEAN : (p <=> t = "Pause") => Agrees(r, p)
  BY <1>1, <1>3 DEF Agrees
<1> QED
  BY <1>1, <1>2, <1>4, ZenonT(60) DEF r

\* Taking a command from the queue leaves its last word, unless it was that one.
LEMMA HeadHeard ==
  ASSUME NEW q \in Seq(AccCmds \X Nat), q # <<>>
  PROVE  /\ Tail(q) \in Seq(AccCmds \X Nat)
         /\ Head(q) \in AccCmds \X Nat
         /\ \A p \in BOOLEAN : Agrees(q, p) => Agrees(Tail(q), p)
         /\ Silent(Tail(q)) /\ Head(q)[1] \notin Words => Silent(q)
         /\ \A p \in BOOLEAN : Silent(Tail(q)) /\ Head(q)[1] \in Words /\ Agrees(q, p)
                                => (p <=> Head(q)[1] = "Pause")
<1> DEFINE r == Tail(q)
<1>1. /\ r \in Seq(AccCmds \X Nat) /\ Len(r) = Len(q) - 1 /\ Len(q) \in Nat \ {0}
      /\ Head(q) = q[1] /\ \A i \in 1 .. Len(r) : r[i] = q[i + 1]
  BY SMTT(30)
<1>2. Head(q) \in AccCmds \X Nat
  OBVIOUS
<1> HIDE DEF r
<1>3. \A i \in 1 .. Len(r) : LastWord(r, i) => i + 1 \in 1 .. Len(q) /\ LastWord(q, i + 1)
  <2> SUFFICES ASSUME NEW i \in 1 .. Len(r), LastWord(r, i)
               PROVE  i + 1 \in 1 .. Len(q) /\ LastWord(q, i + 1)
    BY SMTT(30)
  <2>1. i + 1 \in 1 .. Len(q) /\ q[i + 1] = r[i]
    BY <1>1
  <2>2. ASSUME NEW j \in i + 1 + 1 .. Len(q)
        PROVE  q[j][1] \notin Words
    <3>1. j - 1 \in i + 1 .. Len(r) /\ j - 1 \in 1 .. Len(r) /\ (j - 1) + 1 = j
      BY <1>1
    <3>2. q[j] = r[j - 1]
      BY <1>1, <3>1, Zenon
    <3> QED
      BY <3>1, <3>2, SMTT(30) DEF LastWord
  <2> QED
    BY <2>1, <2>2 DEF LastWord
<1>4. \A p \in BOOLEAN : Agrees(q, p) => Agrees(r, p)
  BY <1>1, <1>3, ZenonT(60) DEF Agrees
<1>5. ASSUME Silent(r)
      PROVE  \A j \in 2 .. Len(q) : q[j][1] \notin Words
  <2> TAKE j \in 2 .. Len(q)
  <2>1. j - 1 \in 1 .. Len(r) /\ (j - 1) + 1 = j
    BY <1>1, SMTT(30)
  <2>2. q[j] = r[j - 1]
    BY <1>1, <2>1, ZenonT(60)
  <2> QED
    BY <1>5, <2>1, <2>2 DEF Silent
<1>6. Silent(r) /\ Head(q)[1] \notin Words => Silent(q)
  BY <1>1, <1>5 DEF Silent
<1>7. Silent(r) /\ Head(q)[1] \in Words => LastWord(q, 1)
  BY <1>1, <1>5, SMTT(30) DEF LastWord
<1>8. \A p \in BOOLEAN : Silent(r) /\ Head(q)[1] \in Words /\ Agrees(q, p) => (p <=> Head(q)[1] = "Pause")
  BY <1>1, <1>7, SMTT(30) DEF Agrees
<1> QED
  BY <1>1, <1>2, <1>4, <1>6, <1>8, SMTT(30) DEF r

-----------------------------------------------------------------------------
(* The steps of the acceptor.                                              *)

\* What a step of the accept loop does to it, and the counters that come with it.
Behaves ==
  /\ acc' \in AccType /\ Covers(acc')
  /\ Closed \/ (Obeys(acc, paused) => Obeys(acc', paused))
Counts == errs' \in Nat /\ timers' \in SUBSET Nat

\* A failing registration is counted and starts a timer.
LEMMA FailingCounts ==
  ASSUME ServerType, NEW bad, Failing(bad)
  PROVE  Counts
<1>1. CASE bad = {}
  BY <1>1, ZenonT(60) DEF Failing, Counts, ServerType
<1>2. CASE bad # {}
  <2>1. errs' = errs + 1 /\ timers' = timers \cup {errs + 1} /\ errs \in Nat /\ timers \subseteq Nat
    BY <1>2, ZenonT(60) DEF Failing, ServerType
  <2> QED
    BY <2>1 DEF Counts
<1> QED
  BY <1>1, <1>2

\* Accept::poll begins: the sockets are added to the poller and the first walk starts.
LEMMA AccStartBehaves ==
  ASSUME ServerInv, AccStart
  PROVE  Behaves /\ Counts
<1>1. PICK bad \in SUBSET Sockets :
         acc.pc = "start" /\ Failing(bad) /\ acc' = Scan(AddSources(acc, Sockets, bad), 1)
  BY SMTT(30) DEF AccStart
<1> DEFINE b == AddSources(acc, Sockets, bad)
<1>2. acc \in AccType /\ errs \in Nat /\ acc.bp /\ \A s \in Sockets : acc.armed[s] => acc.reg[s]
  BY <1>1, Zenon DEF ServerInv, ServerType, Covers
<1>3. b \in AccType /\ b.bp = acc.bp /\ \A s \in Sockets : b.armed[s] => b.reg[s]
  BY <1>2, AddSourcesIs, ZenonT(60)
<1>6. acc' = Scan(b, 1) /\ 1 \in Nat \ {0}
  BY <1>1
<1> HIDE DEF b
<1>4. acc' \in AccType /\ Covers(acc') /\ acc'.bp = acc.bp /\ acc'.pc \in {"cmd", "scan"}
  BY <1>2, <1>3, <1>6, ScanIs, ZenonT(60)
<1>5. Counts
  BY <1>1, FailingCounts DEF ServerInv
<1> QED
  BY <1>1, <1>4, <1>5 DEF Behaves, Obeys

\* A walk that sets a connection aside goes on under back-pressure.
LEMMA SetAside ==
  ASSUME NEW a \in AccType, Covers(a), a.pc \in {"scan", "send"},
         NEW b \in AccType, b.idx = a.idx, b.armed = a.armed, b.reg = a.reg
  PROVE  LET d == NextSocket(BackpressureOn(b)) IN
         d \in AccType /\ Covers(d) /\ d.bp /\ d.pc \in {"cmd", "scan"}
<1> DEFINE e == BackpressureOn(b)
<1>1. \A s \in Sockets : b.armed[s] => b.reg[s]
  BY SMTT(30) DEF Covers
<1>2. /\ e \in AccType /\ e.idx = a.idx /\ e.bp /\ e.reg = a.reg
      /\ \A s \in Sockets : e.armed[s] => e.reg[s]
  BY <1>1, BackpressureOnIs
<1>3. e.idx + 1 \in Nat \ {0}
  BY <1>2, SMTT(30) DEF AccType
<1> HIDE DEF e
<1> QED
  BY <1>2, <1>3, ScanIs DEF NextSocket, e

\* accept() gives a connection: the walk stays at its socket.
LEMMA AccAcceptBehaves ==
  ASSUME ServerInv, NEW s \in Sockets, AccAccept(s)
  PROVE  Behaves /\ lst' \in [Sockets -> Seq(Nat)]
<1>1. acc.pc = "scan" /\ acc \in AccType /\ Covers(acc) /\ paused \in BOOLEAN
  BY ZenonT(60) DEF ServerInv, ServerType, AccAccept, AtSocket
<1>2. lst[s] \in Seq(Nat) /\ Head(lst[s]) \in Nat /\ Tail(lst[s]) \in Seq(Nat)
  <2>1. lst[s] \in Seq(Nat) /\ lst[s] # <<>>
    BY ZenonT(60) DEF ServerInv, ServerType, AccAccept
  <2> QED
    BY <2>1
<1>3. lst' \in [Sockets -> Seq(Nat)]
  BY <1>2, Zenon DEF ServerInv, ServerType, AccAccept
<1>4. ASSUME paused
      PROVE  Behaves
  <2> DEFINE q == Append(acc.backlog, Head(lst[s]))
             b == [acc EXCEPT !.backlog = q]
  <2>1. q \in Seq(Nat)
    BY <1>1, <1>2 DEF AccType
  <2> HIDE DEF q
  <2>2. b \in AccType /\ b.idx = acc.idx /\ b.armed = acc.armed /\ b.reg = acc.reg
    BY <1>1, <2>1, ZenonT(60) DEF AccType
  <2>3. acc' = NextSocket(BackpressureOn(b))
    BY <1>1, <1>4 DEF AccAccept, AccType, q
  <2> HIDE DEF b
  <2>4. acc' \in AccType /\ Covers(acc') /\ acc'.bp /\ acc'.pc \in {"cmd", "scan"}
    BY <1>1, <2>2, <2>3, SetAside
  <2> QED
    BY <1>1, <1>4, <2>4, ZenonT(60) DEF Behaves, Obeys, AccType
<1>5. ASSUME ~paused
      PROVE  Behaves
  <2>1. acc' = [acc EXCEPT !.hand = Head(lst[s]), !.pc = "send"]
    BY <1>5, SMTT(30) DEF AccAccept
  <2>2. /\ acc' \in AccType /\ acc'.pc = "send" /\ acc'.idx = acc.idx /\ acc'.bp = acc.bp
        /\ acc'.backlog = acc.backlog /\ acc'.reg = acc.reg /\ acc'.armed = acc.armed
        /\ acc'.tmo = acc.tmo
    BY <1>1, <1>2, <2>1, ZenonT(60) DEF AccType, AccPcs
  <2>3. Covers(acc')
    BY <1>1, <2>2 DEF Covers, Watched, Kept, Ahead
  <2> QED
    BY <1>1, <2>2, <2>3, SMTT(30) DEF Behaves, Obeys
<1> QED
  BY <1>1, <1>3, <1>4, <1>5

\* Server::process sends the connection; without a manager it is set aside and back-pressure begins.
LEMMA AccSendBehaves ==
  ASSUME ServerInv, AccSend
  PROVE  Behaves
<1>1. acc.pc = "send" /\ acc \in AccType /\ Covers(acc) /\ acc.hand \in Nat /\ NoConn \in Nat
  BY ZenonT(60) DEF ServerInv, ServerType, AccSend, AccType, NoConn
<1>2. ASSUME Closed
      PROVE  Behaves
  <2> DEFINE q == Append(acc.backlog, acc.hand)
             b == [acc EXCEPT !.backlog = q, !.hand = NoConn]
  <2>1. q \in Seq(Nat)
    BY <1>1, SMTT(30) DEF AccType
  <2> HIDE DEF q
  <2>2. b \in AccType /\ b.idx = acc.idx /\ b.armed = acc.armed /\ b.reg = acc.reg
    BY <1>1, <2>1, ZenonT(60) DEF AccType
  <2>3. acc' = NextSocket(BackpressureOn(b))
    BY <1>1, <1>2, SMTT(30) DEF AccSend, AccType, q
  <2> HIDE DEF b
  <2>4. acc' \in AccType /\ Covers(acc')
    BY <1>1, <2>2, <2>3, SetAside, SMTT(30)
  <2> QED
    BY <1>2, <2>4, SMTT(30) DEF Behaves
<1>3. ASSUME ~Closed
      PROVE  Behaves
  <2>1. acc' = [acc EXCEPT !.hand = NoConn, !.pc = "scan"]
    BY <1>3, SMTT(30) DEF AccSend
  <2>2. /\ acc' \in AccType /\ acc'.pc = "scan" /\ acc'.idx = acc.idx /\ acc'.bp = acc.bp
        /\ acc'.backlog = acc.backlog /\ acc'.reg = acc.reg /\ acc'.armed = acc.armed
        /\ acc'.tmo = acc.tmo
    BY <1>1, <2>1, ZenonT(60) DEF AccType, AccPcs
  <2>3. Covers(acc')
    BY <1>1, <2>2 DEF Covers, Watched, Kept, Ahead
  <2> QED
    BY <1>1, <2>2, <2>3, SMTT(30) DEF Behaves, Obeys
<1> QED
  BY <1>2, <1>3

\* accept() would block: the interest is renewed, or an error timeout starts, and the walk goes on.
LEMMA AccBlockedBehaves ==
  ASSUME ServerInv, NEW s \in Sockets, AccBlocked(s)
  PROVE  Behaves /\ Counts
<1> DEFINE ss == {s}
<1>1. PICK bad \in SUBSET ss :
         AtSocket(s) /\ Failing(bad) /\ acc' = NextSocket(AddSources(acc, ss, bad))
  BY SMTT(30) DEF AccBlocked
<1> DEFINE b == AddSources(acc, ss, bad)
<1>8. ss \in SUBSET Sockets /\ s \in ss
  OBVIOUS
<1> HIDE DEF ss
<1>2. /\ acc \in AccType /\ errs \in Nat /\ Covers(acc) /\ acc.pc = "scan" /\ SocketSeq[acc.idx] = s
      /\ \A t \in Sockets : acc.armed[t] => acc.reg[t]
  BY <1>1, ZenonT(60) DEF ServerInv, ServerType, Covers, AtSocket
<1>3. /\ b \in AccType /\ b.idx = acc.idx /\ b.bp = acc.bp /\ b.backlog = acc.backlog
      /\ \A t \in Sockets : /\ b.armed[t] => b.reg[t]
                            /\ acc.reg[t] => b.reg[t]
                            /\ Kept(acc, t) => Kept(b, t)
                            /\ t \in ss => Kept(b, t)
  BY <1>2, <1>8, AddSourcesIs, SMTT(30)
<1>4. acc' = NextSocket(b)
  BY <1>1, SMTT(30)
<1> HIDE DEF b
<1>5. ~b.bp => b.backlog = <<>>
  BY <1>2, <1>3 DEF Covers
<1>6. acc' \in AccType /\ Covers(acc') /\ acc'.bp = acc.bp /\ acc'.pc \in {"cmd", "scan"}
  BY <1>2, <1>3, <1>4, <1>5, <1>8, NextIs, SMTT(30)
<1>7. Counts
  BY <1>1, FailingCounts, SMTT(30) DEF ServerInv
<1> QED
  BY <1>2, <1>6, <1>7 DEF Behaves, Obeys

\* accept() fails: the socket waits for its error timeout.
LEMMA AccErrorBehaves ==
  ASSUME ServerInv, NEW s \in Sockets, AccError(s)
  PROVE  Behaves /\ Counts
<1> DEFINE T == [acc.tmo EXCEPT ![s] = errs + 1]
           b == [acc EXCEPT !.tmo = T]
<1>1. /\ acc \in AccType /\ errs \in Nat /\ Covers(acc) /\ acc.pc = "scan" /\ SocketSeq[acc.idx] = s
      /\ acc.tmo \in [Sockets -> Nat]
  BY ZenonT(60) DEF ServerInv, ServerType, AccError, AtSocket, AccType
<1>2. T \in [Sockets -> Nat] /\ T[s] # 0 /\ \A t \in Sockets : acc.tmo[t] # 0 => T[t] # 0
  BY <1>1
<1>3. acc' = NextSocket(b)
  BY DEF AccError
<1> HIDE DEF T
<1>4. /\ b \in AccType /\ b.idx = acc.idx /\ b.bp = acc.bp /\ b.backlog = acc.backlog
      /\ b.reg = acc.reg /\ b.armed = acc.armed /\ b.tmo = T
  BY <1>1, <1>2, ZenonT(60) DEF AccType
<1> HIDE DEF b
<1>5. /\ \A t \in Sockets : (b.armed[t] => b.reg[t]) /\ (Kept(acc, t) => Kept(b, t))
      /\ Kept(b, s) /\ (~b.bp => b.backlog = <<>>)
  BY <1>1, <1>2, <1>4 DEF Covers, Kept
<1>6. acc' \in AccType /\ Covers(acc') /\ acc'.bp = acc.bp /\ acc'.pc \in {"cmd", "scan"}
  BY <1>1, <1>3, <1>4, <1>5, NextIs, SMTT(30)
<1>7. Counts
  BY FailingCounts, SMTT(30) DEF ServerInv, AccError
<1> QED
  BY <1>1, <1>6, <1>7 DEF Behaves, Obeys

\* Resuming sends the backlog first, and stops half-way when the server is paused again.
LEMMA AccDrainBehaves ==
  ASSUME ServerInv, AccDrain
  PROVE  Behaves
<1>1. /\ acc \in AccType /\ Covers(acc) /\ acc.pc = "drain" /\ acc.bp
      /\ acc.backlog \in Seq(Nat) /\ acc.backlog # <<>>
  BY Zenon DEF ServerInv, ServerType, AccDrain, Covers, AccType
<1>2. Head(acc.backlog) \in Nat /\ Tail(acc.backlog) \in Seq(Nat)
  BY <1>1
<1>3. /\ acc' \in AccType /\ acc'.bp /\ acc'.reg = acc.reg /\ acc'.armed = acc.armed
      /\ acc'.pc = IF paused THEN "cmd" ELSE "resend"
  <2>1. CASE paused
    BY <1>1, <2>1, ZenonT(60) DEF AccDrain, AccType, AccPcs
  <2>2. CASE ~paused
    BY <1>1, <1>2, <2>2, ZenonT(60) DEF AccDrain, AccType, AccPcs
  <2> QED
    BY <2>1, <2>2, SMTT(30)
<1>4. Covers(acc')
  BY <1>1, <1>3 DEF Covers
<1> QED
  BY <1>1, <1>3, <1>4, ZenonT(60) DEF Behaves, Obeys

\* An item of the backlog goes to the manager; if that is gone it goes back, and back-pressure stays.
LEMMA AccResendBehaves ==
  ASSUME ServerInv, AccResend
  PROVE  Behaves
<1>1. /\ acc \in AccType /\ Covers(acc) /\ acc.pc = "resend" /\ acc.bp
      /\ acc.backlog \in Seq(Nat) /\ acc.hand \in Nat /\ NoConn \in Nat
  BY Zenon DEF ServerInv, ServerType, AccResend, Covers, AccType, NoConn
<1>2. <<acc.hand>> \o acc.backlog \in Seq(Nat)
  BY <1>1, SMTT(30)
<1>3. /\ acc' \in AccType /\ acc'.bp /\ acc'.reg = acc.reg /\ acc'.armed = acc.armed
      /\ ~Closed => acc'.pc = "drain"
  <2>1. CASE Closed
    BY <1>1, <1>2, <2>1, ZenonT(60) DEF AccResend, AccType, AccPcs
  <2>2. CASE ~Closed
    BY <1>1, <2>2, ZenonT(60) DEF AccResend, AccType, AccPcs
  <2> QED
    BY <2>1, <2>2
<1>4. Covers(acc')
  BY <1>1, <1>3 DEF Covers
<1> QED
  BY <1>1, <1>3, <1>4, ZenonT(60) DEF Behaves, Obeys

\* The backlog is sent: back-pressure ends and the sockets without an error timeout are added again.
LEMMA AccReadyBehaves ==
  ASSUME ServerInv, AccReady
  PROVE  Behaves /\ Counts
<1> DEFINE ss == {s \in Sockets : acc.tmo[s] = 0}
<1>1. PICK bad \in SUBSET ss :
        /\ acc.pc = "drain" /\ acc.backlog = <<>> /\ Failing(bad)
        /\ acc' = [AddSources(acc, ss, bad) EXCEPT !.bp = FALSE, !.pc = "cmd"]
  BY ZenonT(60) DEF AccReady
<1> DEFINE b == AddSources(acc, ss, bad)
<1>2. /\ acc \in AccType /\ errs \in Nat /\ ss \in SUBSET Sockets
      /\ \A t \in Sockets : acc.armed[t] => acc.reg[t]
  BY Zenon DEF ServerInv, ServerType, Covers
<1>3. \A t \in Sockets : t \notin ss => Kept(acc, t)
  BY SMTT(30) DEF Kept
<1> HIDE DEF ss
<1>4. /\ b \in AccType /\ b.idx = acc.idx /\ b.bp = acc.bp /\ b.backlog = acc.backlog
      /\ \A t \in Sockets : /\ b.armed[t] => b.reg[t]
                            /\ Kept(acc, t) => Kept(b, t)
                            /\ t \in ss => Kept(b, t)
  BY <1>2, AddSourcesIs, ZenonT(60)
<1>5. acc' = [b EXCEPT !.bp = FALSE, !.pc = "cmd"]
  BY <1>1
<1> HIDE DEF b
<1>6. /\ acc' \in AccType /\ acc'.bp = FALSE /\ acc'.pc = "cmd" /\ acc'.backlog = <<>>
      /\ acc'.reg = b.reg /\ acc'.armed = b.armed /\ acc'.tmo = b.tmo
  BY <1>1, <1>4, <1>5, ZenonT(60) DEF AccType, AccPcs
<1>7. Covers(acc')
  BY <1>3, <1>4, <1>6, SMTT(30) DEF Covers, Watched, Kept
<1>8. Counts
  BY <1>1, FailingCounts, SMTT(30) DEF ServerInv
<1> QED
  BY <1>1, <1>6, <1>7, <1>8, ZenonT(60) DEF Behaves, Obeys, ServerInv, ServerType

\* poller.wait: the sockets it reports lose their interest, and are ahead of the walk.
LEMMA AccWaitBehaves ==
  ASSUME ServerInv, AccWait
  PROVE  Behaves
<1> DEFINE A == [s \in Sockets |-> acc.armed[s] /\ s \notin Ready]
           b == [acc EXCEPT !.armed = A]
<1>1. acc \in AccType /\ Covers(acc) /\ acc.pc = "cmd" /\ 1 \in Nat \ {0}
  <2>1. acc \in AccType /\ Covers(acc) /\ acc.pc = "cmd"
    BY ZenonT(60) DEF AccWait, ServerInv, ServerType
  <2>2. 1 \in Nat \ {0}
    OBVIOUS
  <2> QED
    BY <2>1, <2>2, ZenonT(60)
<1>2. A \in [Sockets -> BOOLEAN]
  BY ZenonT(60)
<1>3. \A s \in Sockets : A[s] <=> (acc.armed[s] /\ s \notin Ready)
  BY Zenon
<1>4. acc' = Scan(b, 1)
  BY <1>1 DEF AccWait, AccType
<1> HIDE DEF A
<1>5. /\ b \in AccType /\ b.bp = acc.bp /\ b.backlog = acc.backlog /\ b.reg = acc.reg
      /\ b.armed = A /\ b.tmo = acc.tmo
  BY <1>1, <1>2, ZenonT(60) DEF AccType
<1> HIDE DEF b
<1>6. \A s \in Sockets : b.armed[s] => b.reg[s]
  BY <1>1, <1>3, <1>5 DEF Covers
<1>7. ASSUME ~b.bp, NEW s \in Sockets
      PROVE  Kept(b, s) \/ Ahead(b, s, 1)
  <2>1. Kept(acc, s)
    BY <1>1, <1>5, <1>7, SMTT(30) DEF Covers, Watched
  <2>2. CASE s \in Ready
    <3>1. b.reg[s]
      BY <1>1, <1>5, <2>2 DEF Ready, Covers
    <3> QED
      BY <3>1, SocketSeqIs, SMTT(30) DEF Ahead
  <2>3. CASE s \notin Ready
    BY <1>3, <1>5, <2>1, <2>3, ZenonT(60) DEF Kept
  <2> QED
    BY <2>2, <2>3, ZenonT(60)
<1>8. ~b.bp => b.backlog = <<>>
  BY <1>1, <1>5, SMTT(30) DEF Covers
<1>9. acc' \in AccType /\ Covers(acc') /\ acc'.bp = acc.bp /\ acc'.pc \in {"cmd", "scan"}
  BY <1>1, <1>4, <1>5, <1>6, <1>7, <1>8, ScanIs, ZenonT(60)
<1> QED
  BY <1>1, <1>9, SMTT(30) DEF Behaves, Obeys

-----------------------------------------------------------------------------
(* A command of the acceptor.                                              *)

\* Accept::process_timer: what is no longer waiting is added again.
LEMMA ProcessTimerIs ==
  ASSUME ServerInv, acc.pc = "cmd", NEW k, ProcessTimer(k)
  PROVE  acc' \in AccType /\ Covers(acc') /\ acc'.bp = acc.bp /\ acc'.pc = "cmd" /\ Counts
<1>1. PICK more \in SUBSET MayBeExpired(k) :
        LET ss == IF acc.bp THEN {} ELSE Expired(k) \cup more
            a == [acc EXCEPT !.tmo = [s \in Sockets |-> IF s \in ss THEN 0 ELSE @[s]]]
        IN \E bad \in SUBSET ss : Failing(bad) /\ acc' = AddSources(a, ss, bad)
  BY ZenonT(60) DEF ProcessTimer
<1> DEFINE ss == IF acc.bp THEN {} ELSE Expired(k) \cup more
           T == [s \in Sockets |-> IF s \in ss THEN 0 ELSE acc.tmo[s]]
           a == [acc EXCEPT !.tmo = T]
<1>2. acc \in AccType /\ Covers(acc) /\ errs \in Nat /\ acc.tmo \in [Sockets -> Nat]
  BY Zenon DEF ServerInv, ServerType, AccType
<1>3. PICK bad \in SUBSET ss : Failing(bad) /\ acc' = AddSources(a, ss, bad)
  BY <1>1
<1>4. ss \in SUBSET Sockets
  BY SMTT(30) DEF Expired, MayBeExpired
<1> HIDE DEF ss
<1>5. T \in [Sockets -> Nat] /\ \A s \in Sockets : s \notin ss => T[s] = acc.tmo[s]
  BY <1>2
<1> HIDE DEF T
<1>6. /\ a \in AccType /\ a.pc = acc.pc /\ a.bp = acc.bp /\ a.backlog = acc.backlog
      /\ a.reg = acc.reg /\ a.armed = acc.armed /\ a.tmo = T
  BY <1>2, <1>5, ZenonT(60) DEF AccType
<1> HIDE DEF a
<1>7. \A s \in Sockets : (a.armed[s] => a.reg[s]) /\ (Kept(acc, s) => Kept(a, s) \/ s \in ss)
  BY <1>2, <1>5, <1>6, ZenonT(60) DEF Covers, Kept
<1> DEFINE b == AddSources(a, ss, bad)
<1>8. /\ b \in AccType /\ b.pc = a.pc /\ b.bp = a.bp /\ b.backlog = a.backlog
      /\ \A s \in Sockets : /\ b.armed[s] => b.reg[s]
                            /\ Kept(a, s) => Kept(b, s)
                            /\ s \in ss => Kept(b, s)
  BY <1>2, <1>4, <1>6, <1>7, AddSourcesIs, ZenonT(60)
<1>12. acc' = b
  BY <1>3, SMTT(30)
<1> HIDE DEF b
<1>9. ~acc.bp => acc.backlog = <<>> /\ \A s \in Sockets : Kept(acc, s)
  BY <1>2, ZenonT(60) DEF Covers, Watched
<1>10. Covers(acc')
  BY <1>6, <1>7, <1>8, <1>9, <1>12, SMTT(30) DEF Covers, Watched
<1>11. Counts
  BY <1>3, FailingCounts, SMTT(30) DEF ServerInv
<1> QED
  BY <1>6, <1>8, <1>10, <1>11, <1>12, SMTT(30)

\* Each command of the acceptor, and what it does to the walk and to back-pressure.
LEMMA AccCommandIs ==
  ASSUME ServerInv, AccCommand
  PROVE  LET c == Head(acmds)[1] IN
         /\ acc' \in AccType /\ Covers(acc') /\ Counts
         /\ c = "Pause" => acc'.bp /\ acc'.pc = "cmd"
         /\ c = "Resume" => acc'.pc = "drain" \/ (acc'.pc = "cmd" /\ acc'.bp = FALSE)
         /\ c \notin Words => acc'.pc = "done" \/ (acc'.pc = "cmd" /\ acc'.bp = acc.bp)
<1> DEFINE c == Head(acmds)[1]
           b == BackpressureOn(acc)
<1>1. acc \in AccType /\ Covers(acc) /\ acc.pc = "cmd" /\ errs \in Nat /\ timers \subseteq Nat
  BY ZenonT(60) DEF ServerInv, ServerType, AccCommand
<1>2. UNCHANGED <<timers, errs>> => Counts
  BY <1>1, SMTT(30) DEF Counts
<1>3. /\ b \in AccType /\ b.pc = "cmd" /\ b.bp
      /\ \A s \in Sockets : b.armed[s] => b.reg[s]
  BY <1>1, BackpressureOnIs, SMTT(30) DEF Covers
<1> HIDE DEF b
<1>4. b.bp = TRUE
  BY <1>3, SMTT(30) DEF AccType
<1>5. CASE c = "Pause" /\ acc' = b /\ UNCHANGED <<timers, errs, dead>>
  BY <1>2, <1>3, <1>5 DEF Covers, Words
<1>6. CASE /\ c = "Resume" /\ UNCHANGED <<timers, errs, dead>>
           /\ acc' = IF acc.bp THEN [acc EXCEPT !.pc = "drain"] ELSE acc
  <2>1. CASE acc.bp
    <3>1. /\ acc' \in AccType /\ acc'.pc = "drain" /\ acc'.bp = acc.bp
          /\ acc'.reg = acc.reg /\ acc'.armed = acc.armed
      BY <1>1, <1>6, <2>1, ZenonT(60) DEF AccType, AccPcs
    <3>2. Covers(acc')
      BY <1>1, <2>1, <3>1, SMTT(30) DEF Covers
    <3> QED
      BY <1>2, <1>6, <3>1, <3>2 DEF Words
  <2>2. CASE ~acc.bp
    BY <1>1, <1>2, <1>6, <2>2, SMTT(30) DEF Words, AccType
  <2> QED
    BY <2>1, <2>2, ZenonT(60)
<1>7. CASE c = "Timer" /\ ProcessTimer(Head(acmds)[2]) /\ UNCHANGED dead
  <2>1. acc' \in AccType /\ Covers(acc') /\ acc'.bp = acc.bp /\ acc'.pc = "cmd" /\ Counts
    BY <1>1, <1>7, ProcessTimerIs
  <2> QED
    BY <1>7, <2>1, SMTT(30)
<1>8. CASE /\ c \in {"Stop", "Terminate"} /\ UNCHANGED <<timers, errs>>
           /\ acc' = [b EXCEPT !.pc = "done", !.backlog = <<>>]
  <2>1. <<>> \in Seq(Nat)
    BY SMTT(30)
  <2>2. /\ acc' \in AccType /\ acc'.pc = "done" /\ acc'.bp = b.bp
        /\ acc'.reg = b.reg /\ acc'.armed = b.armed
    BY <1>3, <1>8, <2>1, ZenonT(60) DEF AccType, AccPcs
  <2>3. Covers(acc')
    BY <1>3, <2>2, SMTT(30) DEF Covers
  <2> QED
    BY <1>2, <1>8, <2>2, <2>3, SMTT(30)
<1> QED
  BY <1>5, <1>6, <1>7, <1>8, ZenonT(60) DEF AccCommand, b

-----------------------------------------------------------------------------
(* The flag and the words.                                                 *)

\* A command of the acceptor: a word that was the last one is obeyed.
LEMMA HeardFollows ==
  ASSUME ServerInv, AccCommand
  PROVE  Follows'
<1> DEFINE c == Head(acmds)[1]
<1>1. /\ acc.pc = "cmd" /\ acmds # <<>> /\ acmds' = Tail(acmds) /\ paused' = paused /\ mgr' = mgr
      /\ acmds \in Seq(AccCmds \X Nat) /\ paused \in BOOLEAN /\ acc \in AccType
  BY ZenonT(60) DEF ServerInv, ServerType, AccCommand, mgrVars
<1>2. /\ acc' \in AccType
      /\ c = "Pause" => acc'.bp /\ acc'.pc = "cmd"
      /\ c = "Resume" => acc'.pc = "drain" \/ (acc'.pc = "cmd" /\ acc'.bp = FALSE)
      /\ c \notin Words => acc'.pc = "done" \/ (acc'.pc = "cmd" /\ acc'.bp = acc.bp)
  BY AccCommandIs, ZenonT(60)
<1>3. /\ \A p \in BOOLEAN : Agrees(acmds, p) => Agrees(Tail(acmds), p)
      /\ Silent(Tail(acmds)) /\ c \notin Words => Silent(acmds)
      /\ \A p \in BOOLEAN : Silent(Tail(acmds)) /\ c \in Words /\ Agrees(acmds, p)
                             => (p <=> c = "Pause")
  BY <1>1, HeadHeard
<1> HIDE DEF c
<1> SUFFICES ASSUME ~Closed', acc'.pc # "done"
             PROVE  /\ mgr.tell # "" => (paused <=> mgr.tell = "Pause")
                    /\ mgr.tell = "" => Agrees(Tail(acmds), paused)
                    /\ mgr.tell = "" /\ Silent(Tail(acmds)) => Obeys(acc', paused)
  BY <1>1, ZenonT(60) DEF Follows
<1>4. /\ mgr.tell # "" => (paused <=> mgr.tell = "Pause")
      /\ mgr.tell = "" => Agrees(acmds, paused)
      /\ mgr.tell = "" /\ Silent(acmds) => Obeys(acc, paused)
  BY <1>1, ZenonT(60) DEF ServerInv, Follows, Closed
<1>5. ASSUME mgr.tell = "", Silent(Tail(acmds))
      PROVE  Obeys(acc', paused)
  <2>1. CASE c \notin Words
    BY <1>1, <1>2, <1>3, <1>4, <1>5, <2>1, ZenonT(60) DEF Obeys
  <2>2. CASE c \in Words
    <3>1. paused <=> c = "Pause"
      BY <1>1, <1>3, <1>4, <1>5, <2>2, ZenonT(60)
    <3>2. c = "Pause" \/ c = "Resume"
      BY <2>2, SMTT(30) DEF Words
    <3> QED
      BY <1>1, <1>2, <3>1, <3>2, SMTT(30) DEF Obeys, AccType
  <2> QED
    BY <2>1, <2>2
<1> QED
  BY <1>1, <1>3, <1>4, <1>5, ZenonT(60)

\* Any other step of the acceptor: it does what it did of what the flag says.
LEMMA WalkFollows ==
  ASSUME ServerInv, Behaves, acc.pc # "done",
         acmds' = acmds, paused' = paused, mgr'.tell = mgr.tell, Closed' = Closed
  PROVE  Follows'
BY Zenon DEF ServerInv, Follows, Behaves

\* A step that says nothing to the acceptor, or something else.
Quiet == acmds' = acmds \/ \E t \in AccCmds \ Words, k \in Nat : acmds' = Append(acmds, <<t, k>>)
\* A step that says no word and leaves acceptor and flag alone keeps Follows.
LEMMA QuietFollows ==
  ASSUME ServerInv, acc' = acc, paused' = paused, mgr'.tell = mgr.tell, Closed => Closed', Quiet
  PROVE  acmds' \in Seq(AccCmds \X Nat) /\ Follows'
<1>1. acmds \in Seq(AccCmds \X Nat) /\ paused \in BOOLEAN
  BY Zenon DEF ServerInv, ServerType
<1>2. /\ acmds' \in Seq(AccCmds \X Nat)
      /\ Silent(acmds') => Silent(acmds)
      /\ Agrees(acmds, paused) => Agrees(acmds', paused)
  <2>1. CASE acmds' = acmds
    BY <1>1, <2>1, SMTT(30)
  <2>2. ASSUME NEW t \in AccCmds \ Words, NEW k \in Nat, acmds' = Append(acmds, <<t, k>>)
        PROVE  <1>2!1 /\ <1>2!2 /\ <1>2!3
    BY <1>1, <2>2, OtherQueued, ZenonT(60)
  <2> QED
    BY <2>1, <2>2, SMTT(30) DEF Quiet
<1> QED
  BY <1>2, ZenonT(60) DEF ServerInv, Follows

\* ServerManager::pause and resume: the flag is set, the acceptor still to be told.
LEMMA FlagFollows ==
  ASSUME ServerInv, NEW t \in Words, mgr'.tell = t, paused' = (t = "Pause"), acmds' = acmds
  PROVE  Follows'
BY Zenon DEF Follows, Words

\* ... and it is told: its last word is what the flag says.
LEMMA TellFollows ==
  ASSUME ServerInv, MgrTell
  PROVE  acmds' \in Seq(AccCmds \X Nat) /\ Follows'
<1>1. /\ acmds \in Seq(AccCmds \X Nat) /\ paused \in BOOLEAN /\ mgr.tell \in Words
      /\ DOMAIN mgr = MgrFields
  BY ZenonT(60) DEF ServerInv, ServerType, MgrTell
<1>2. mgr' = [mgr EXCEPT !.tell = ""] /\ acc' = acc /\ paused' = paused /\ Notify(mgr.tell, 0)
  BY Zenon DEF MgrTell
<1>3. mgr'.tell = "" /\ mgr'.pc = mgr.pc
  BY <1>1, <1>2, Zenon DEF MgrFields
<1>4. CASE acc.pc = "done"
  BY <1>1, <1>2, <1>4, ZenonT(60) DEF Notify, Listening, Follows
<1>5. CASE acc.pc # "done"
  <2>1. acmds' = Append(acmds, <<mgr.tell, 0>>)
    BY <1>2, <1>5, ZenonT(60) DEF Notify, Listening
  <2>2. /\ acmds' \in Seq(AccCmds \X Nat) /\ ~Silent(acmds')
        /\ (paused <=> mgr.tell = "Pause") => Agrees(acmds', paused)
    BY <1>1, <2>1, WordQueued, ZenonT(60)
  <2>3. Closed \/ (paused <=> mgr.tell = "Pause")
    BY <1>1, <1>5, Zenon DEF ServerInv, Follows, Words
  <2> QED
    BY <1>2, <1>3, <2>2, <2>3, ZenonT(60) DEF Follows, Closed
<1> QED
  BY <1>4, <1>5, SMTT(30)

-----------------------------------------------------------------------------
(* The steps that leave the accept loop alone.                             *)

Rest == acc' = acc /\ lst' = lst /\ came' = came /\ errs' = errs /\ timers' = timers
\* A state of the manager that differs from the present one, but not in what it has to tell.
Same(m) == DOMAIN m = MgrFields /\ m.tell = mgr.tell

\* Such a step keeps the invariant.
LEMMA QuietGood ==
  ASSUME ServerInv, acc' = acc, lst' \in [Sockets -> Seq(Nat)], came' \in Nat, errs' \in Nat,
         timers' \subseteq Nat, paused' = paused, Same(mgr'), Closed => Closed', Quiet
  PROVE  ServerInv'
<1>1. acmds' \in Seq(AccCmds \X Nat) /\ Follows'
  BY QuietFollows, SMTT(30) DEF Same
<1>2. ServerType' /\ Covers(acc)'
  BY <1>1, Zenon DEF ServerInv, ServerType, Same
<1> QED
  BY <1>1, <1>2 DEF ServerInv

\* A step of the manager that leaves the flag alone keeps the invariant.
LEMMA KeepsGood ==
  ASSUME ServerInv, Rest, ~Closed, NEW m, Same(m), Keeps(m)
  PROVE  ServerInv'
<1>1. paused' = paused /\ acmds' = acmds /\ mgr' = m
  BY DEF Keeps
<1> QED
  BY <1>1, QuietGood, ZenonT(60) DEF Rest, Quiet, ServerInv, ServerType

\* pause and resume: flag and word change together, the word still to be sent.
LEMMA FlagGood ==
  ASSUME ServerInv, Rest, NEW m, DOMAIN m = MgrFields, Pausing(m) \/ Resuming(m)
  PROVE  ServerInv'
<1>1. PICK t \in Words : mgr' = [m EXCEPT !.tell = t] /\ paused' = (t = "Pause") /\ acmds' = acmds
  BY ZenonT(60) DEF Pausing, Resuming, Words
<1>2. DOMAIN mgr' = MgrFields /\ mgr'.tell = t
  BY <1>1 DEF MgrFields
<1>3. Follows'
  BY <1>1, <1>2, FlagFollows
<1>4. paused' \in BOOLEAN
  BY <1>1
<1>5. ServerType' /\ Covers(acc)'
  BY <1>1, <1>2, <1>4, ZenonT(60) DEF ServerInv, ServerType, Rest
<1> QED
  BY <1>3, <1>5, SMTT(30) DEF ServerInv

\* Taking a command or an item leaves what the manager is about to tell.
LEMMA ReceivedIs ==
  ASSUME ServerInv
  PROVE  Same(mgr) /\ Same(Received) /\ Same(ItemTaken)
BY ZenonT(60) DEF ServerInv, ServerType, Same, Received, ItemTaken, MgrFields

\* Going on to the backlog leaves what the manager is about to tell.
LEMMA ThenBacklogIs ==
  ASSUME NEW m, Same(m)
  PROVE  Same(ThenBacklog(m))
BY DEF ThenBacklog, Same, MgrFields

\* A step of the manager alone leaves the acceptor's side as it was.
LEMMA MgrOnlyRests ==
  ASSUME MgrOnly
  PROVE  Rest
BY DEF MgrOnly, Rest, envVars

\* Every step of the manager keeps the invariant.
LEMMA ManagerGood ==
  ASSUME ServerInv, Manager
  PROVE  ServerInv'
<1> USE ReceivedIs, MgrOnlyRests
<1>1. CASE MgrTell
  <2>1. acmds' \in Seq(AccCmds \X Nat) /\ Follows'
    BY <1>1, TellFollows, SMTT(30)
  <2>2. /\ mgr' = [mgr EXCEPT !.tell = ""] /\ acc' = acc /\ lst' = lst /\ timers' = timers
        /\ errs' = errs /\ paused' = paused /\ came' = came
    BY <1>1, ZenonT(60) DEF MgrTell, envVars
  <2>3. ServerType' /\ Covers(acc)'
    BY <2>1, <2>2, Zenon DEF ServerInv, ServerType, MgrFields
  <2> QED
    BY <2>1, <2>3, SMTT(30) DEF ServerInv
<1>2. CASE MgrNoWorkers
  <2>1. Rest /\ ~Closed
    BY <1>2, ZenonT(60) DEF MgrNoWorkers, Processing, Receiving, Closed
  <2>2. CASE mgr.stopping
    BY <1>2, <2>1, <2>2, KeepsGood, ZenonT(60) DEF MgrNoWorkers
  <2>3. CASE ~mgr.stopping
    <3> DEFINE m == [ItemTaken EXCEPT !.backlog = Append(@, Item)]
    <3>1. DOMAIN m = MgrFields
      BY SMTT(30) DEF Same
    <3>2. Pausing(m)
      BY <1>2, <2>3 DEF MgrNoWorkers
    <3> QED
      BY <2>1, <3>1, <3>2, FlagGood, ZenonT(60)
  <2> QED
    BY <2>2, <2>3, SMTT(30)
<1>3. CASE MgrDispatch
  <2>1. Rest /\ ~Closed
    BY <1>3, ZenonT(60) DEF MgrDispatch, Processing, Receiving, Closed
  <2>2. \A x, y, z, u : /\ Same([ItemTaken EXCEPT !.next = x])
                        /\ Same([ItemTaken EXCEPT !.next = x, !.workers = y, !.hand = z, !.pc = u])
    BY SMTT(30) DEF Same, MgrFields
  <2>3. PICK m : Same(m) /\ Keeps(m)
    BY <1>3, <2>2, ZenonT(60) DEF MgrDispatch
  <2> QED
    BY <2>1, <2>3, KeepsGood, SMTT(30)
<1>4. CASE MgrAvailable
  <2> DEFINE m == [Received EXCEPT !.workers = SortIn(@, Head(mgr.cmds).h)]
  <2>1. Rest /\ ~Closed
    BY <1>4, ZenonT(60) DEF MgrAvailable, Receiving, Closed
  <2>2. Same(m)
    BY DEF Same, MgrFields
  <2>3. Resuming(ThenBacklog(m)) \/ Keeps(ThenBacklog(m))
    BY <1>4, SMTT(30) DEF MgrAvailable
  <2> HIDE DEF m
  <2>4. Same(ThenBacklog(m))
    BY <2>2, ThenBacklogIs
  <2> QED
    BY <2>1, <2>3, <2>4, KeepsGood, FlagGood, SMTT(30) DEF Same
<1>5. CASE MgrUnavailable
  <2>1. Rest /\ ~Closed
    BY <1>5, ZenonT(60) DEF MgrUnavailable, Receiving, Closed
  <2>2. PICK ws : \/ Pausing(ThenBacklog([Received EXCEPT !.workers = ws]))
                  \/ Keeps(ThenBacklog([Received EXCEPT !.workers = ws]))
    BY <1>5, ZenonT(60) DEF MgrUnavailable
  <2> DEFINE m == [Received EXCEPT !.workers = ws]
  <2>3. Same(m)
    BY DEF Same, MgrFields
  <2> HIDE DEF m
  <2>4. Same(ThenBacklog(m))
    BY <2>3, ThenBacklogIs
  <2> QED
    BY <2>1, <2>2, <2>4, KeepsGood, FlagGood, SMTT(30) DEF Same, m
<1>6. CASE MgrBacklog
  <2> DEFINE m == [mgr EXCEPT !.backlog = Append(Tail(@), Head(mgr.backlog)), !.workers = Tail(@),
                              !.pc = "recv"]
             l == [mgr EXCEPT !.backlog = Tail(@)]
  <2>1. Rest /\ ~Closed
    BY <1>6, ZenonT(60) DEF MgrBacklog, Closed
  <2>2. Same(m) /\ Same(l)
    BY SMTT(30) DEF Same, MgrFields
  <2>3. Keeps(ThenBacklog(l)) \/ Pausing(m) \/ Keeps(m)
    BY <1>6, ZenonT(60) DEF MgrBacklog
  <2> HIDE DEF m, l
  <2>4. Same(ThenBacklog(l))
    BY <2>2, ThenBacklogIs
  <2> QED
    BY <2>1, <2>2, <2>3, <2>4, KeepsGood, FlagGood, ZenonT(60) DEF Same
<1>7. CASE MgrPauseCmd \/ MgrResumeCmd
  <2>1. Rest /\ DOMAIN Received = MgrFields
    BY <1>7, SMTT(30) DEF MgrPauseCmd, MgrResumeCmd, Same
  <2> QED
    BY <1>7, <2>1, FlagGood, SMTT(30) DEF MgrPauseCmd, MgrResumeCmd
<1>8. CASE MgrHup
  <2>1. Rest /\ ~Closed
    BY <1>8, ZenonT(60) DEF MgrHup, Receiving, Closed
  <2> QED
    BY <1>8, <2>1, KeepsGood DEF MgrHup
<1>9. ASSUME NEW t \in Stops, MgrStop(t)
      PROVE  ServerInv'
  <2>1. Rest /\ ~Closed /\ paused' = paused /\ Notify("Stop", 0)
    BY <1>9, ZenonT(60) DEF MgrStop, Receiving, Closed
  <2>2. mgr' = [Received EXCEPT !.stopping = TRUE, !.graceful = Graceful(t), !.pc = "acceptor"]
    BY <1>9, SMTT(30) DEF MgrStop
  <2>3. Same(mgr')
    BY <2>2 DEF Same, MgrFields
  <2>4. Quiet
    BY <2>1, SMTT(30) DEF Notify, Quiet, AccCmds, Words
  <2> QED
    BY <2>1, <2>3, <2>4, QuietGood, ZenonT(60) DEF Rest, ServerInv, ServerType
<1>10. CASE MgrStopWorkers
  <2>1. Rest /\ ~Closed
    BY <1>10, SMTT(30) DEF MgrStopWorkers, Closed
  <2>2. \A x : Same([mgr EXCEPT !.pc = x])
    BY DEF Same, MgrFields
  <2> QED
    BY <1>10, <2>1, <2>2, KeepsGood DEF MgrStopWorkers
<1>11. CASE MgrWorkersDone
  <2>1. Rest /\ ~Closed
    BY <1>11, SMTT(30) DEF MgrWorkersDone, Closed
  <2>2. Same([mgr EXCEPT !.pc = "delay"])
    BY DEF Same, MgrFields
  <2> QED
    BY <1>11, <2>1, <2>2, KeepsGood, SMTT(30) DEF MgrWorkersDone
<1>12. CASE MgrStopped
  <2>1. Rest /\ paused' = paused /\ Notify("Terminate", 0)
    BY <1>12, SMTT(30) DEF MgrStopped, Rest, envVars
  <2>2. mgr' = [mgr EXCEPT !.pc = "done", !.notified = TRUE, !.cmds = <<>>, !.backlog = <<>>,
                           !.workers = <<>>]
    BY <1>12 DEF MgrStopped
  <2>3. Same(mgr') /\ Closed'
    BY <2>2, SMTT(30) DEF Same, MgrFields, Closed
  <2>4. Quiet
    BY <2>1 DEF Notify, Quiet, AccCmds, Words
  <2> QED
    BY <2>1, <2>3, <2>4, QuietGood, ZenonT(60) DEF Rest, ServerInv, ServerType
<1> QED
  BY <1>1, <1>2, <1>3, <1>4, <1>5, <1>6, <1>7, <1>8, <1>9, <1>10, <1>11, <1>12, ZenonT(60) DEF Manager

\* A notice to the acceptor other than Pause and Resume is no word.
LEMMA NotifyQuiet ==
  ASSUME NEW t \in AccCmds \ Words, NEW k \in Nat, Notify(t, k)
  PROVE  Quiet
BY SMTT(30) DEF Notify, Quiet

\* The start_worker tasks keep the invariant.
LEMMA TaskGood ==
  ASSUME ServerInv, NEW w \in Workers, Task(w)
  PROVE  ServerInv'
<1> USE ReceivedIs
<1>1. \A x : Same([mgr EXCEPT !.cmds = x]) /\ [mgr EXCEPT !.cmds = x].pc = mgr.pc
  BY SMTT(30) DEF Same, MgrFields
<1>2. \A t : Enqueue(t, w) => Same(mgr') /\ Closed' = Closed
  BY <1>1, ZenonT(60) DEF Enqueue, Closed
<1>3. TaskOnly => Rest /\ paused' = paused
  BY DEF TaskOnly, Rest, envVars
<1>4. "Stop" \in AccCmds \ Words /\ 0 \in Nat
  BY DEF AccCmds, Words
<1>5. CASE TaskStatus(w)
  <2>1. Rest /\ paused' = paused /\ Quiet /\ Same(mgr') /\ Closed' = Closed
    BY <1>2, <1>3, <1>5, SMTT(30) DEF TaskStatus, Quiet
  <2> QED
    BY <2>1, QuietGood, ZenonT(60) DEF Rest, ServerInv, ServerType
<1>6. CASE TaskFailed(w)
  <2>1. Rest /\ paused' = paused /\ Quiet /\ mgr' = [mgr EXCEPT !.stopping = TRUE]
    BY <1>3, <1>4, <1>6, NotifyQuiet, SMTT(30) DEF TaskFailed
  <2>2. Same(mgr') /\ Closed' = Closed
    BY <2>1, SMTT(30) DEF Same, MgrFields, Closed
  <2> QED
    BY <2>1, <2>2, QuietGood, ZenonT(60) DEF Rest, ServerInv, ServerType
<1>7. CASE TaskStop(w)
  <2>1. Rest /\ paused' = paused /\ Quiet /\ mgr' = mgr
    BY <1>3, <1>7, SMTT(30) DEF TaskStop, Quiet
  <2> QED
    BY <2>1, QuietGood, ZenonT(60) DEF Rest, ServerInv, ServerType, Closed
<1>8. CASE TaskRestart(w) \/ TaskWake(w)
  <2>1. Rest /\ paused' = paused /\ Quiet /\ mgr' = mgr
    BY <1>3, <1>8, SMTT(30) DEF TaskRestart, TaskWake, Quiet
  <2> QED
    BY <2>1, QuietGood, ZenonT(60) DEF Rest, ServerInv, ServerType, Closed
<1> QED
  BY <1>5, <1>6, <1>7, <1>8 DEF Task

\* The workers keep the invariant: they share nothing with the acceptor.
LEMMA WorkerGood ==
  ASSUME ServerInv, NEW w, WorkerSteps(w)
  PROVE  ServerInv'
<1>1. WrkOnly
  BY ZenonT(60) DEF WorkerSteps, WrkPublish, WrkCreate, WrkPoll, WrkRecv, WrkShutdown, WrkStopped,
         WrkReadyError, WrkRecreate, WrkGone, WrkPanic, WrkConnDone
<1>2. Rest /\ paused' = paused /\ mgr' = mgr /\ acmds' = acmds
  BY <1>1 DEF WrkOnly, Rest, accVars, mgrVars, envVars
<1> QED
  BY <1>2, QuietGood, ReceivedIs, ZenonT(60) DEF Rest, ServerInv, ServerType, Closed, Quiet

\* Signals and the end of the system keep the invariant.
LEMMA SystemGood ==
  ASSUME ServerInv, System
  PROVE  ServerInv'
<1> USE ReceivedIs
<1>1. SysOnly => Rest /\ paused' = paused
  BY SMTT(30) DEF SysOnly, Rest, envVars
<1>2. CASE SigTake \/ SigRegister
  <2>1. Rest /\ paused' = paused /\ Quiet /\ mgr' = mgr
    BY <1>1, <1>2, SMTT(30) DEF SigTake, SigRegister, Quiet
  <2> QED
    BY <2>1, QuietGood, Zenon DEF Rest, ServerInv, ServerType, Closed
<1>3. CASE SigForward
  <2>1. \A x : Same([mgr EXCEPT !.cmds = x]) /\ [mgr EXCEPT !.cmds = x].pc = mgr.pc
    BY SMTT(30) DEF Same, MgrFields
  <2>2. Rest /\ paused' = paused /\ Quiet
    BY <1>1, <1>3 DEF SigForward, Quiet
  <2>3. Same(mgr') /\ Closed' = Closed
    BY <1>3, <2>1, SMTT(30) DEF SigForward, Closed
  <2> QED
    BY <2>2, <2>3, QuietGood, ZenonT(60) DEF Rest, ServerInv, ServerType
<1>4. CASE SysExit
  <2>1. /\ acc' = acc /\ lst' = lst /\ came' = came /\ errs' = errs /\ paused' = paused
        /\ timers' = {}
    BY <1>4, SMTT(30) DEF SysExit, envVars
  <2>2. "Terminate" \in AccCmds \ Words /\ 0 \in Nat
    BY DEF AccCmds, Words
  <2>3. Same(mgr') /\ Closed' /\ Quiet
    <3>1. CASE Closed
      BY <1>4, <3>1, SMTT(30) DEF SysExit, Closed, Quiet
    <3>2. CASE ~Closed
      <4>1. mgr' = [mgr EXCEPT !.pc = "done", !.stopping = TRUE, !.cmds = <<>>,
                               !.backlog = <<>>, !.workers = <<>>]
        BY <1>4, <3>2, SMTT(30) DEF SysExit
      <4>2. Same(mgr') /\ Closed'
        BY <4>1, SMTT(30) DEF Same, MgrFields, Closed
      <4>3. Quiet
        BY <1>4, <2>2, <3>2, NotifyQuiet DEF SysExit
      <4> QED
        BY <4>2, <4>3, SMTT(30)
    <3> QED
      BY <3>1, <3>2, SMTT(30)
  <2> QED
    BY <2>1, <2>3, QuietGood, ZenonT(60) DEF ServerInv, ServerType
<1> QED
  BY <1>2, <1>3, <1>4 DEF System

\* Error timeouts, calls of the server's handle and new connections keep the invariant.
LEMMA CallerGood ==
  ASSUME ServerInv,
         (\E k \in timers : ErrTimer(k)) \/ (\E op \in Ops : Call(op)) \/ (\E s \in Sockets : Connect(s))
  PROVE  ServerInv'
<1> USE ReceivedIs
<1>1. ASSUME NEW k \in timers, ErrTimer(k)
      PROVE  ServerInv'
  <2>1. /\ acc' = acc /\ lst' = lst /\ came' = came /\ errs' = errs /\ paused' = paused
        /\ timers' = timers \ {k} /\ mgr' = mgr /\ Notify("Timer", k)
    BY <1>1, SMTT(30) DEF ErrTimer, envVars, mgrVars
  <2>2. "Timer" \in AccCmds \ Words /\ k \in Nat
    BY Zenon DEF AccCmds, Words, ServerInv, ServerType
  <2>3. Quiet
    BY <2>1, <2>2, NotifyQuiet, SMTT(30)
  <2> QED
    BY <2>1, <2>3, QuietGood, ZenonT(60) DEF ServerInv, ServerType, Closed
<1>2. ASSUME NEW op \in Ops, Call(op)
      PROVE  ServerInv'
  <2>1. \A x : Same([mgr EXCEPT !.cmds = x]) /\ [mgr EXCEPT !.cmds = x].pc = mgr.pc
    BY SMTT(30) DEF Same, MgrFields
  <2>2. Rest /\ paused' = paused /\ Quiet
    BY <1>2 DEF Call, Rest, Quiet, accVars
  <2>3. Same(mgr') /\ Closed' = Closed
    BY <1>2, <2>1, ZenonT(60) DEF Call, Closed
  <2> QED
    BY <2>2, <2>3, QuietGood, ZenonT(60) DEF Rest, ServerInv, ServerType
<1>3. ASSUME NEW s \in Sockets, Connect(s)
      PROVE  ServerInv'
  <2>1. /\ acc' = acc /\ timers' = timers /\ errs' = errs /\ paused' = paused /\ mgr' = mgr /\ Quiet
        /\ came' = came + 1 /\ lst' = [lst EXCEPT ![s] = Append(@, came + 1)]
    BY <1>3, SMTT(30) DEF Connect, Quiet, mgrVars
  <2>2. came + 1 \in Nat /\ lst[s] \in Seq(Nat) /\ lst \in [Sockets -> Seq(Nat)]
    <3>1. came \in Nat /\ lst \in [Sockets -> Seq(Nat)]
      BY ZenonT(60) DEF ServerInv, ServerType
    <3> QED
      BY <3>1
  <2>3. Append(lst[s], came + 1) \in Seq(Nat)
    BY <2>2
  <2>4. lst' \in [Sockets -> Seq(Nat)]
    BY <2>1, <2>2, <2>3, SMTT(30)
  <2> QED
    BY <2>1, <2>2, <2>4, QuietGood, ZenonT(60) DEF ServerInv, ServerType, Closed
<1> QED
  BY <1>1, <1>2, <1>3

\* Every step of the acceptor keeps the invariant.
LEMMA AcceptorGood ==
  ASSUME ServerInv, Acceptor
  PROVE  ServerInv'
<1>1. /\ lst \in [Sockets -> Seq(Nat)] /\ came \in Nat /\ errs \in Nat /\ timers \subseteq Nat
      /\ acmds \in Seq(AccCmds \X Nat) /\ paused \in BOOLEAN /\ DOMAIN mgr = MgrFields
      /\ mgr.tell \in Words \cup {""}
  BY ZenonT(60) DEF ServerInv, ServerType
\* A step that is none of the commands.
<1>2. ASSUME Behaves, lst' \in [Sockets -> Seq(Nat)], Counts, came' = came, acc.pc # "done",
             acmds' = acmds, paused' = paused, Same(mgr'), Closed' = Closed
      PROVE  ServerInv'
  <2>1. Follows'
    BY <1>2, WalkFollows, SMTT(30) DEF Same
  <2>2. ServerType' /\ Covers(acc)'
    BY <1>1, <1>2, ZenonT(60) DEF ServerType, Behaves, Counts, Same
  <2> QED
    BY <2>1, <2>2 DEF ServerInv
<1>3. UNCHANGED <<timers, errs>> => Counts
  BY <1>1, ZenonT(60) DEF Counts
<1>4. mgr' = mgr => Same(mgr') /\ Closed' = Closed
  BY <1>1, Zenon DEF Same, Closed
<1>5. \A x : Same([mgr EXCEPT !.cmds = x]) /\ [mgr EXCEPT !.cmds = x].pc = mgr.pc
  BY <1>1, ZenonT(60) DEF Same, MgrFields
<1>6. CASE AccStart
  <2>1. Behaves /\ Counts
    BY <1>6, AccStartBehaves, SMTT(30)
  <2>2. /\ acc.pc = "start" /\ lst' = lst /\ acmds' = acmds /\ came' = came /\ paused' = paused
        /\ mgr' = mgr
    BY <1>6, SMTT(30) DEF AccStart, mgrVars, envVars
  <2> QED
    BY <1>1, <1>2, <1>4, <2>1, <2>2, Zenon
<1>7. CASE AccSend
  <2>1. Behaves
    BY <1>7, AccSendBehaves, SMTT(30)
  <2>2. /\ acc.pc = "send" /\ lst' = lst /\ acmds' = acmds /\ came' = came /\ paused' = paused
        /\ UNCHANGED <<timers, errs>>
    BY <1>7, SMTT(30) DEF AccSend, envVars
  <2>3. Same(mgr') /\ Closed' = Closed
    BY <1>4, <1>5, <1>7, ZenonT(60) DEF AccSend, Closed
  <2> QED
    BY <1>1, <1>2, <1>3, <2>1, <2>2, <2>3, Zenon
<1>8. CASE AccCommand
  <2>1. acc' \in AccType /\ Covers(acc') /\ Counts
    BY <1>8, AccCommandIs, SMTT(30)
  <2>2. Follows'
    BY <1>8, HeardFollows, SMTT(30)
  <2>3. /\ lst' = lst /\ came' = came /\ paused' = paused /\ mgr' = mgr /\ acmds # <<>>
        /\ acmds' = Tail(acmds)
    BY <1>8, SMTT(30) DEF AccCommand, mgrVars, envVars
  <2>4. acmds' \in Seq(AccCmds \X Nat)
    BY <1>1, <2>3, HeadHeard, ZenonT(60)
  <2>5. ServerType'
    BY <1>1, <2>1, <2>3, <2>4, ZenonT(60) DEF ServerType, Counts
  <2> QED
    BY <2>1, <2>2, <2>5 DEF ServerInv
<1>9. CASE AccDrain
  <2>1. Behaves
    BY <1>9, AccDrainBehaves
  <2>2. /\ acc.pc = "drain" /\ lst' = lst /\ acmds' = acmds /\ came' = came /\ paused' = paused
        /\ UNCHANGED <<timers, errs>> /\ mgr' = mgr
    BY <1>9, SMTT(30) DEF AccDrain, mgrVars, envVars
  <2> QED
    BY <1>1, <1>2, <1>3, <1>4, <2>1, <2>2, ZenonT(60)
<1>10. CASE AccResend
  <2>1. Behaves
    BY <1>10, AccResendBehaves
  <2>2. /\ acc.pc = "resend" /\ lst' = lst /\ acmds' = acmds /\ came' = came /\ paused' = paused
        /\ UNCHANGED <<timers, errs>>
    BY <1>10, SMTT(30) DEF AccResend, envVars
  <2>3. Same(mgr') /\ Closed' = Closed
    BY <1>4, <1>5, <1>10, ZenonT(60) DEF AccResend, Closed
  <2> QED
    BY <1>1, <1>2, <1>3, <2>1, <2>2, <2>3, Zenon
<1>11. CASE AccReady
  <2>1. Behaves /\ Counts
    BY <1>11, AccReadyBehaves
  <2>2. /\ acc.pc = "drain" /\ lst' = lst /\ acmds' = acmds /\ came' = came /\ paused' = paused
        /\ mgr' = mgr
    BY <1>11 DEF AccReady, mgrVars, envVars
  <2> QED
    BY <1>1, <1>2, <1>4, <2>1, <2>2, ZenonT(60)
<1>12. CASE AccWait
  <2>1. Behaves
    BY <1>12, AccWaitBehaves
  <2>2. /\ acc.pc = "cmd" /\ lst' = lst /\ acmds' = acmds /\ came' = came /\ paused' = paused
        /\ UNCHANGED <<timers, errs>> /\ mgr' = mgr
    BY <1>12, ZenonT(60) DEF AccWait, mgrVars, envVars
  <2> QED
    BY <1>1, <1>2, <1>3, <1>4, <2>1, <2>2, ZenonT(60)
<1>13. ASSUME NEW s \in Sockets, AccAccept(s)
       PROVE  ServerInv'
  <2>1. Behaves /\ lst' \in [Sockets -> Seq(Nat)]
    BY <1>13, AccAcceptBehaves, SMTT(30)
  <2>2. /\ acc.pc = "scan" /\ acmds' = acmds /\ came' = came /\ paused' = paused
        /\ UNCHANGED <<timers, errs>> /\ mgr' = mgr
    BY <1>13, SMTT(30) DEF AccAccept, AtSocket, mgrVars, envVars
  <2> QED
    BY <1>2, <1>3, <1>4, <2>1, <2>2, SMTT(30)
<1>14. ASSUME NEW s \in Sockets, AccBlocked(s) \/ AccError(s)
       PROVE  ServerInv'
  <2>1. Behaves /\ Counts
    BY <1>14, AccBlockedBehaves, AccErrorBehaves, SMTT(30)
  <2>2. /\ acc.pc = "scan" /\ lst' = lst /\ acmds' = acmds /\ came' = came /\ paused' = paused
        /\ mgr' = mgr
    BY <1>14, SMTT(30) DEF AccBlocked, AccError, AtSocket, mgrVars, envVars
  <2> QED
    BY <1>1, <1>2, <1>4, <2>1, <2>2, ZenonT(60)
<1>15. ASSUME NEW s \in Sockets, AccConnError(s)
       PROVE  ServerInv'
  <2>1. /\ acc' = acc /\ acmds' = acmds /\ came' = came /\ paused' = paused /\ timers' = timers
        /\ mgr' = mgr /\ errs' = errs + 1 /\ lst[s] # <<>>
        /\ lst' = [lst EXCEPT ![s] = Tail(@)]
    BY <1>15, SMTT(30) DEF AccConnError, mgrVars, envVars
  <2>2. lst[s] \in Seq(Nat) /\ lst \in [Sockets -> Seq(Nat)] /\ errs \in Nat /\ s \in Sockets
    BY <1>1, ZenonT(60)
  <2>3. Tail(lst[s]) \in Seq(Nat)
    BY <2>1, <2>2
  <2>4. lst' \in [Sockets -> Seq(Nat)]
    BY <2>1, <2>2, <2>3, SMTT(30)
  <2>5. errs' \in Nat /\ came' \in Nat /\ timers' \subseteq Nat
    <3>1. errs' \in Nat
      BY <2>1, <2>2, SMTT(30)
    <3>2. came' \in Nat /\ timers' \subseteq Nat
      BY <1>1, <2>1, ZenonT(60)
    <3> QED
      BY <3>1, <3>2, ZenonT(60)
  <2>6. Same(mgr') /\ Closed' = Closed /\ Quiet
    BY <1>4, <2>1, SMTT(30) DEF Quiet
  <2> QED
    BY <2>1, <2>4, <2>5, <2>6, QuietGood, ZenonT(60)
<1> QED
  BY <1>6, <1>7, <1>8, <1>9, <1>10, <1>11, <1>12, <1>13, <1>14, <1>15, ZenonT(60) DEF Acceptor

-----------------------------------------------------------------------------
(* The theorems.                                                           *)

\* A server starts with its acceptor told nothing and in no walk.
LEMMA InitGood ==
  ASSUME Init
  PROVE  ServerInv
<1>1. /\ acc = [pc |-> "start", idx |-> 1, hand |-> NoConn, bp |-> TRUE, backlog |-> <<>>,
                reg |-> [s \in Sockets |-> FALSE], armed |-> [s \in Sockets |-> FALSE],
                tmo |-> [s \in Sockets |-> 0]]
      /\ lst = [s \in Sockets |-> <<>>] /\ came = 0 /\ errs = 0 /\ timers = {} /\ acmds = <<>>
      /\ paused = TRUE
  BY ZenonT(60) DEF Init
<1>2. DOMAIN mgr = MgrFields /\ mgr.tell = ""
  BY ZenonT(60) DEF Init, MgrFields
<1> DEFINE F == [s \in Sockets |-> FALSE]
           Z == [s \in Sockets |-> 0]
<1>7. F \in [Sockets -> BOOLEAN] /\ \A s \in Sockets : ~F[s]
  BY Zenon
<1>8. Z \in [Sockets -> Nat] /\ 1 \in Nat \ {0} /\ <<>> \in Seq(Nat)
  BY SMTT(30)
<1> HIDE DEF F, Z
<1>9. acc = [pc |-> "start", idx |-> 1, hand |-> NoConn, bp |-> TRUE, backlog |-> <<>>,
             reg |-> F, armed |-> F, tmo |-> Z]
  BY <1>1, ZenonT(60) DEF F, Z
<1>3. acc \in AccType /\ acc.bp /\ acc.pc = "start" /\ acc.armed = F
  BY <1>7, <1>8, <1>9, SMTT(30) DEF AccType, AccPcs, NoConn
<1>10. lst \in [Sockets -> Seq(Nat)] /\ acmds \in Seq(AccCmds \X Nat) /\ Len(acmds) = 0
  BY <1>1, SMTT(30)
<1>11. came \in Nat /\ errs \in Nat /\ timers \subseteq Nat
  BY <1>1, SMTT(30)
<1>4. ServerType
  BY <1>1, <1>2, <1>3, <1>10, <1>11, Zenon DEF ServerType
<1>5. Covers(acc)
  BY <1>3, <1>7, SMTT(30) DEF Covers
<1>12. Agrees(acmds, TRUE)
  BY <1>1, NothingQueued, ZenonT(60)
<1>13. acc.pc = "start" /\ acc.bp = TRUE
  BY <1>9, SMTT(30)
<1>14. Obeys(acc, TRUE)
  BY <1>13 DEF Obeys
<1>6. Follows
  BY <1>1, <1>2, <1>12, <1>14, ZenonT(60) DEF Follows
<1> QED
  BY <1>4, <1>5, <1>6, SMTT(30) DEF ServerInv

\* Every step keeps the invariant: one case for each part of Next.
LEMMA NextGood ==
  ASSUME ServerInv, [Next]_vars
  PROVE  ServerInv'
<1>1. CASE UNCHANGED vars
  BY <1>1, QuietGood, ReceivedIs, ZenonT(60) DEF vars, ServerInv, ServerType, Closed, Quiet
<1>2. CASE Acceptor
  BY <1>2, AcceptorGood, SMTT(30)
<1>3. CASE Manager
  BY <1>3, ManagerGood
<1>4. CASE System
  BY <1>4, SystemGood
<1> QED
  BY <1>1, <1>2, <1>3, <1>4, TaskGood, WorkerGood, CallerGood, ZenonT(60) DEF Next

\* The accept loop (Accept::poll, accept, process_cmd, process_timer, backpressure) keeps
\* its bookkeeping together whatever the manager, the workers and the clients do: outside
\* of back-pressure every socket is watched, waits for an error timeout or is still to be
\* walked to and nothing is set aside, and the words on their way to it end with what the
\* flag `paused` says.
THEOREM ServerInvariance == Spec => []ServerInv
BY InitGood, NextGood, PTL DEF Spec

\* No lost socket: when the accept loop waits in the poller outside of back-pressure, a
\* socket with pending connections is watched or waits for its error timeout, and a
\* connection is set aside only under back-pressure.
THEOREM NoSocketStranded == Spec => []AcceptorNotStranded
<1>1. ServerInv => AcceptorNotStranded
  BY SMTT(30) DEF ServerInv, Covers, Watched, Kept, AcceptorNotStranded
<1> QED
  BY <1>1, ServerInvariance, PTL

\* No lost word: ServerManager::pause and resume set the flag and tell the acceptor in two
\* steps, and the acceptor looks at the flag on its own; once both are at rest the
\* back-pressure of the acceptor is what the flag says.
THEOREM FlagObeyed == Spec => []BackpressureFollowsFlag
<1>1. ServerInv => BackpressureFollowsFlag
  <2> SUFFICES ASSUME ServerInv, acc.pc = "cmd", acmds = <<>>, mgr.tell = "", ~Closed
               PROVE  acc.bp = paused
    BY ZenonT(60) DEF BackpressureFollowsFlag
  <2>1. Silent(acmds)
    BY NothingQueued, Zenon
  <2> QED
    BY <2>1, ZenonT(60) DEF ServerInv, Follows, Obeys
<1> QED
  BY <1>1, ServerInvariance, PTL
====

---------------------------- MODULE WebProofs ----------------------------
(***************************************************************************)
(* Proofs about AsyncSocket's buffers, the websockets and the HTTP         *)
(* connections: what comes to a client is what was written to it, a FIN    *)
(* comes last, a close is told once, and an idle connection times out.     *)
(*                                                                         *)
(* The lemmas about AsyncSocket are about any state S of any sockets C     *)
(* whose bytes are of T: the two servers use the same.                     *)
(***************************************************************************)
EXTENDS WebSockets, HttpServer, FiniteSetTheorems, SequenceTheorems, TLAPS

-----------------------------------------------------------------------------
(* AsyncSocket: the state of the sockets in the middle of a callback         *)

Flags == {"isShuttingDown", "shutdown", "STATUS_CALLED", "WRITE_CALLED", "END_CALLED", "PENDING"}
Handlers == {"onAborted", "onWritable", "inStream"}
SocketRecords(T) ==
  [at : {"none", "open", "closed"}, state : SUBSET Flags, offset : Nat, timeout : BOOLEAN,
   on : SUBSET Handlers, request : Nat, buffer : Seq(T),
   kernel : {k \in Seq(T) : Len(k) <= RoomMax}, polls : BOOLEAN, wrote : Seq(T), right : BOOLEAN]
Nets(C, T) ==
  [socket : [C -> SocketRecords(T)], corked : C \cup {NoConn},
   cork : {k \in Seq(T) : Len(k) <= CorkMax}, torn : SUBSET C]

(* What a call of AsyncSocket leaves alone: all of the other sockets, and of *)
(* c everything but its buffers and what it polls for.                       *)
SameButBuffers(s, t) ==
  /\ t.at = s.at /\ t.state = s.state /\ t.offset = s.offset /\ t.timeout = s.timeout
  /\ t.on = s.on /\ t.request = s.request /\ t.wrote = s.wrote /\ t.right = s.right
Keeps(S, R, C, c) ==
  /\ \A d \in C : d # c => R.socket[d] = S.socket[d]
  /\ SameButBuffers(S.socket[c], R.socket[c])
  /\ R.torn = S.torn \/ R.torn = S.torn \cup {c}

(* Sequences after each other, and the beginning of one.  They have names of *)
(* their own because the provers would otherwise look into them.             *)
Cat(s, t) == s \o t
First(s, n) == SubSeq(s, 1, n)

(* What is out of the cork buffer, and what will come to c's client.         *)
Out(S, c) == Cat(S.socket[c].kernel, S.socket[c].buffer)
Coming(S, c) == Cat(Out(S, c), IF S.corked = c THEN S.cork ELSE <<>>)

LEMMA CatIs ==
  ASSUME NEW T, NEW s \in Seq(T), NEW t \in Seq(T)
  PROVE  /\ Cat(s, t) \in Seq(T) /\ Len(Cat(s, t)) = Len(s) + Len(t)
         /\ Cat(s, <<>>) = s /\ Cat(<<>>, s) = s
BY ConcatProperties, ConcatEmptySeq DEF Cat

LEMMA CatCat ==
  ASSUME NEW T, NEW s \in Seq(T), NEW t \in Seq(T), NEW u \in Seq(T)
  PROVE  Cat(Cat(s, t), u) = Cat(s, Cat(t, u))
BY ConcatAssociative DEF Cat

LEMMA NoCork == \A T : <<>> \in {k \in Seq(T) : Len(k) <= CorkMax}
BY AsyncSocketAssumption, EmptySeq

LEMMA NetFields ==
  ASSUME NEW C, NEW T, NEW S \in Nets(C, T), NEW c \in C
  PROVE  /\ S.socket[c] \in SocketRecords(T) /\ S.cork \in Seq(T) /\ S.corked \in C \cup {NoConn}
         /\ S.socket[c].kernel \in Seq(T) /\ Len(S.socket[c].kernel) \in 0..RoomMax
         /\ S.socket[c].buffer \in Seq(T) /\ S.socket[c].wrote \in Seq(T)
         /\ S.torn \subseteq C
<1>1. S.socket[c] \in SocketRecords(T) /\ S.cork \in Seq(T) /\ S.corked \in C \cup {NoConn}
      /\ S.torn \subseteq C
  BY DEF Nets
<1>2. /\ S.socket[c].kernel \in Seq(T) /\ Len(S.socket[c].kernel) <= RoomMax
      /\ S.socket[c].buffer \in Seq(T) /\ S.socket[c].wrote \in Seq(T)
  BY <1>1 DEF SocketRecords
<1>3. Len(S.socket[c].kernel) \in Nat /\ RoomMax \in Nat
  BY <1>2, LenProperties, AsyncSocketAssumption
<1> QED
  BY <1>1, <1>2, <1>3

LEMMA Cut ==
  ASSUME NEW T, NEW src \in Seq(T), NEW n \in 0..Len(src)
  PROVE  /\ First(src, n) \in Seq(T) /\ Len(First(src, n)) = n
         /\ Drop(src, n) \in Seq(T) /\ Len(Drop(src, n)) = Len(src) - n
         /\ Cat(First(src, n), Drop(src, n)) = src
         /\ n = Len(src) => First(src, n) = src /\ Drop(src, n) = <<>>
         /\ n = 0 => First(src, n) = <<>> /\ Drop(src, n) = src
<1>1. Len(src) \in Nat
  BY LenProperties
<1>2. First(src, n) \in Seq(T) /\ Len(First(src, n)) = n
  <2>1. \A i \in 1..n : src[i] \in T
    BY <1>1, ElementOfSeq
  <2> QED
    BY <2>1, <1>1, SubSeqProperties DEF First
<1>3. Drop(src, n) \in Seq(T) /\ Len(Drop(src, n)) = Len(src) - n
  <2>1. \A i \in (n + 1)..Len(src) : src[i] \in T
    BY <1>1, ElementOfSeq
  <2> QED
    BY <2>1, <1>1, SubSeqProperties DEF Drop
<1>4. Cat(First(src, n), Drop(src, n)) = src
  <2>1. 1 \in 1..Len(src) + 1 /\ n \in 1 - 1..Len(src) /\ Len(src) \in n..Len(src)
    BY <1>1
  <2>2. SubSeq(src, 1, n) \o SubSeq(src, n + 1, Len(src)) = SubSeq(src, 1, Len(src))
    BY <2>1, ConcatAdjacentSubSeq
  <2> QED
    BY <2>2, SubSeqFull DEF Cat, First, Drop
<1>5. n = Len(src) => First(src, n) = src /\ Drop(src, n) = <<>>
  BY <1>1, <1>3, SubSeqFull, EmptySeq DEF First
<1>6. n = 0 => First(src, n) = <<>> /\ Drop(src, n) = src
  BY <1>1, <1>2, SubSeqFull, EmptySeq DEF Drop
<1> QED
  BY <1>2, <1>3, <1>4, <1>5, <1>6

LEMMA LeastIs ==
  ASSUME NEW a \in Nat, NEW l \in 0..RoomMax
  PROVE  /\ Least(a, RoomMax - l) \in 0..a /\ l + Least(a, RoomMax - l) \in 0..RoomMax
<1>1. RoomMax \in Nat
  BY AsyncSocketAssumption
<1> QED
  BY <1>1 DEF Least

(* A step that only moves c's bytes between the socket's own buffers.        *)
Aside(S, R, C, T, c) ==
  /\ R \in Nets(C, T) /\ Keeps(S, R, C, c)
  /\ R.corked = S.corked /\ R.cork = S.cork /\ R.torn = S.torn

(* us_socket_write takes a first part of what it is given, all if there is   *)
(* room.                                                                     *)
LEMMA SendIs ==
  ASSUME NEW C, NEW T, NEW S \in Nets(C, T), NEW c \in C, NEW src \in Seq(T)
  PROVE  LET n == Least(Len(src), Room(S, c))
             R == Send(S, c, src)
         IN /\ n \in 0..Len(src) /\ Aside(S, R, C, T, c)
            /\ R.socket[c].kernel = Cat(S.socket[c].kernel, First(src, n))
            /\ R.socket[c].buffer = S.socket[c].buffer
<1> DEFINE n == Least(Len(src), Room(S, c))
           s == S.socket[c]
           k == Cat(s.kernel, First(src, n))
           R == Send(S, c, src)
<1>1. s \in SocketRecords(T) /\ s.kernel \in Seq(T) /\ Len(s.kernel) \in 0..RoomMax
  BY NetFields
<1>2. n \in 0..Len(src) /\ Len(s.kernel) + n \in 0..RoomMax
  <2>1. Len(src) \in Nat
    BY LenProperties
  <2> QED
    BY <1>1, <2>1, LeastIs DEF Room
<1>3. k \in {l \in Seq(T) : Len(l) <= RoomMax}
  <2> DEFINE p == First(src, n)
  <2>1. p \in Seq(T) /\ Len(p) = n
    BY <1>2, Cut
  <2> HIDE DEF p, n
  <2>2. Cat(s.kernel, p) \in Seq(T) /\ Len(Cat(s.kernel, p)) = Len(s.kernel) + Len(p)
    BY <1>1, <2>1, CatIs
  <2>3. RoomMax \in Nat
    BY AsyncSocketAssumption
  <2>4. Len(Cat(s.kernel, p)) <= RoomMax
    BY <1>2, <2>1, <2>2, <2>3
  <2> QED
    BY <2>2, <2>4 DEF p
<1> HIDE DEF n, k
<1>4. PICK p \in BOOLEAN : p = (s.polls \/ Len(src) > Room(S, c))
  BY Zenon
<1> DEFINE t == [s EXCEPT !.kernel = k, !.polls = p]
<1>5. R = [S EXCEPT !.socket = [S.socket EXCEPT ![c] = t]]
  BY <1>4 DEF Send, Nets, SocketRecords, k, n, Cat, First
<1>6. t \in SocketRecords(T) /\ t.kernel = k /\ t.buffer = s.buffer /\ SameButBuffers(s, t)
  BY <1>1, <1>3 DEF SocketRecords, SameButBuffers
<1> HIDE DEF t, R
<1>7. R \in Nets(C, T)
  BY <1>5, <1>6 DEF Nets
<1>8. Keeps(S, R, C, c) /\ R.corked = S.corked /\ R.cork = S.cork /\ R.torn = S.torn /\ R.socket[c] = t
  BY <1>5, <1>6 DEF Nets, Keeps
<1> QED
  BY <1>2, <1>6, <1>7, <1>8 DEF n, k, R, Aside

(* What a write reports.                                                     *)
Reports(r, src) ==
  /\ r.written \in 0..Len(src)
  /\ r.failed = TRUE \/ (r.failed = FALSE /\ r.written = Len(src))
Part(r, src, optionally) == IF optionally THEN First(src, r.written) ELSE src

LEMMA KeepsOn ==
  ASSUME NEW C, NEW c \in C, NEW S, NEW R, NEW Q, Keeps(S, R, C, c), Keeps(R, Q, C, c)
  PROVE  Keeps(S, Q, C, c)
BY DEF Keeps, SameButBuffers

LEMMA AsideOn ==
  ASSUME NEW C, NEW T, NEW c \in C, NEW S, NEW R, NEW Q,
         Aside(S, R, C, T, c), Aside(R, Q, C, T, c)
  PROVE  Aside(S, Q, C, T, c)
<1>1. Keeps(S, Q, C, c)
  BY KeepsOn DEF Aside
<1> QED
  BY <1>1 DEF Aside

WithBuffer(S, c, b) == [S EXCEPT !.socket[c].buffer = b]

LEMMA BufferIs ==
  ASSUME NEW C, NEW T, NEW S \in Nets(C, T), NEW c \in C, NEW b \in Seq(T)
  PROVE  /\ Aside(S, WithBuffer(S, c, b), C, T, c)
         /\ WithBuffer(S, c, b).socket[c].kernel = S.socket[c].kernel
         /\ WithBuffer(S, c, b).socket[c].buffer = b
<1> DEFINE s == S.socket[c]
           t == [s EXCEPT !.buffer = b]
           R == WithBuffer(S, c, b)
<1>1. s \in SocketRecords(T)
  BY NetFields
<1>2. R = [S EXCEPT !.socket = [S.socket EXCEPT ![c] = t]]
  BY DEF Nets, SocketRecords, WithBuffer
<1>3. t \in SocketRecords(T) /\ t.kernel = s.kernel /\ t.buffer = b /\ SameButBuffers(s, t)
  BY <1>1 DEF SocketRecords, SameButBuffers
<1> HIDE DEF t, s, R
<1>4. R \in Nets(C, T)
  BY <1>2, <1>3 DEF Nets
<1>5. Keeps(S, R, C, c) /\ R.corked = S.corked /\ R.cork = S.cork /\ R.torn = S.torn /\ R.socket[c] = t
  BY <1>2, <1>3 DEF Nets, Keeps, s
<1> QED
  BY <1>3, <1>4, <1>5 DEF s, R, Aside

(* The bytes of the socket's own buffer that the kernel takes stay in order. *)
LEMMA DrainedIs ==
  ASSUME NEW C, NEW T, NEW S \in Nets(C, T), NEW c \in C
  PROVE  LET D == Drained(S, c)
         IN /\ Aside(S, D, C, T, c) /\ Out(D, c) = Out(S, c)
            /\ S.socket[c].buffer = <<>> => D.socket[c].buffer = <<>>
<1> DEFINE b == S.socket[c].buffer
           k == S.socket[c].kernel
           n == Least(Len(b), Room(S, c))
           R == Send(S, c, b)
           D == Drained(S, c)
<1>1. b \in Seq(T) /\ k \in Seq(T)
  BY NetFields
<1>2. n \in 0..Len(b) /\ Aside(S, R, C, T, c)
  BY <1>1, SendIs DEF Aside
<1>3. R.socket[c].kernel = Cat(k, First(b, n)) /\ R.socket[c].buffer = b
  BY <1>1, SendIs
<1>4. /\ First(b, n) \in Seq(T) /\ Drop(b, n) \in Seq(T)
      /\ Cat(First(b, n), Drop(b, n)) = b /\ Len(Drop(b, n)) = Len(b) - n
  BY <1>1, <1>2, Cut
<1> HIDE DEF n, R
<1>5. R \in Nets(C, T)
  BY <1>2 DEF Aside
<1>6. D = WithBuffer(R, c, Drop(b, n))
  BY <1>3, <1>5 DEF Drained, R, n, Nets, SocketRecords, WithBuffer
<1> HIDE DEF D
<1>7. Aside(R, D, C, T, c) /\ D.socket[c].kernel = R.socket[c].kernel /\ D.socket[c].buffer = Drop(b, n)
  BY <1>4, <1>5, <1>6, BufferIs
<1>8. Aside(S, D, C, T, c)
  BY <1>2, <1>7, AsideOn
<1>9. Out(D, c) = Out(S, c)
  <2>1. Out(D, c) = Cat(Cat(k, First(b, n)), Drop(b, n))
    BY <1>3, <1>7 DEF Out
  <2>2. Cat(Cat(k, First(b, n)), Drop(b, n)) = Cat(k, Cat(First(b, n), Drop(b, n)))
    BY <1>1, <1>4, CatCat
  <2> QED
    BY <1>4, <2>1, <2>2 DEF Out
<1>10. b = <<>> => D.socket[c].buffer = <<>>
  <2> SUFFICES ASSUME b = <<>> PROVE Drop(b, n) = <<>>
    BY <1>7
  <2>1. Len(b) = 0 /\ n = 0
    BY <1>2, EmptySeq
  <2> QED
    BY <1>4, <2>1, EmptySeq
<1> QED
  BY <1>8, <1>9, <1>10 DEF D

LEMMA WriteOutIs ==
  ASSUME NEW C, NEW T, NEW S \in Nets(C, T), NEW c \in C, NEW src \in Seq(T), NEW optionally \in BOOLEAN
  PROVE  LET r == WriteOut(S, c, src, optionally)
         IN /\ Reports(r, src) /\ Aside(S, r.net, C, T, c)
            /\ Out(r.net, c) = Cat(Out(S, c), Part(r, src, optionally))
            /\ ~optionally => r.written = Len(src)
            /\ ~r.failed => r.net.socket[c].buffer = <<>>
            /\ S.socket[c].buffer # <<>> \/ src # <<>> \/ r.net.socket[c].buffer = <<>>
<1> DEFINE b == S.socket[c].buffer
           k == S.socket[c].kernel
           n == Least(Len(src), Room(S, c))
           R == Send(S, c, src)
           r == WriteOut(S, c, src, optionally)
<1>1. b \in Seq(T) /\ k \in Seq(T) /\ Len(src) \in Nat
  BY NetFields, LenProperties
<1>2. n \in 0..Len(src) /\ Aside(S, R, C, T, c)
  BY SendIs DEF Aside
<1>3. R.socket[c].kernel = Cat(k, First(src, n)) /\ R.socket[c].buffer = b
  BY SendIs
<1>4. /\ First(src, n) \in Seq(T) /\ Drop(src, n) \in Seq(T)
      /\ Cat(First(src, n), Drop(src, n)) = src
      /\ n = Len(src) => First(src, n) = src
  BY <1>2, Cut
<1>5. R \in Nets(C, T) /\ Aside(S, S, C, T, c)
  BY <1>2 DEF Aside, Keeps, SameButBuffers
<1> HIDE DEF n, R
<1>6. CASE b # <<>> /\ optionally
  <2>1. r.net = S /\ r.written = 0 /\ r.failed = TRUE
    BY <1>6 DEF WriteOut, Result
  <2> HIDE DEF r
  <2>2. First(src, 0) = <<>>
    BY <1>1, Cut
  <2>3. Cat(Out(S, c), <<>>) = Out(S, c)
    BY <1>1, CatIs DEF Out
  <2>4. Reports(r, src)
    BY <1>1, <2>1 DEF Reports
  <2>5. Out(r.net, c) = Cat(Out(S, c), Part(r, src, optionally))
    BY <1>6, <2>1, <2>2, <2>3 DEF Part
  <2> QED
    BY <1>5, <1>6, <2>1, <2>4, <2>5 DEF r
<1>7. CASE b # <<>> /\ ~optionally
  <2>1. /\ r.net = WithBuffer(S, c, Cat(b, src))
        /\ r.written = Len(src) /\ r.failed = TRUE
    BY <1>7 DEF WriteOut, Result, Nets, SocketRecords, Cat, WithBuffer
  <2> HIDE DEF r
  <2>2. Cat(b, src) \in Seq(T)
    BY <1>1, CatIs
  <2>3. Aside(S, r.net, C, T, c) /\ r.net.socket[c].kernel = k /\ r.net.socket[c].buffer = Cat(b, src)
    BY <2>1, <2>2, BufferIs
  <2>4. Cat(Cat(k, b), src) = Cat(k, Cat(b, src))
    BY <1>1, CatCat
  <2>5. Out(r.net, c) = Cat(Out(S, c), Part(r, src, optionally))
    BY <1>7, <2>3, <2>4 DEF Out, Part
  <2>6. Reports(r, src)
    BY <1>1, <2>1 DEF Reports
  <2> QED
    BY <1>7, <2>1, <2>3, <2>5, <2>6 DEF r
<1>8. CASE b = <<>> /\ (n = Len(src) \/ optionally)
  <2>1. r = Result(R, n, n < Len(src))
    BY <1>8 DEF WriteOut, R, n
  <2> HIDE DEF r
  <2>2. n \in Nat /\ Len(src) \in Nat
    BY <1>1, <1>2
  <2>3. r.failed <=> n < Len(src)
    BY <2>1, <2>2 DEF Result
  <2>4. r.failed = TRUE \/ r.failed = FALSE
    BY <2>1, <2>2 DEF Result
  <2>12. r.net = R /\ r.written = n
    BY <2>1 DEF Result
  <2>11. Cat(k, <<>>) = k
    BY <1>1, CatIs
  <2>5. Cat(Cat(k, First(src, n)), <<>>) = Cat(k, First(src, n))
    <3>1. Cat(k, First(src, n)) \in Seq(T)
      BY <1>1, <1>4, CatIs
    <3> QED
      BY <3>1, CatIs
  <2>6. Out(R, c) = Cat(Out(S, c), First(src, n))
    BY <1>3, <1>8, <2>5, <2>11 DEF Out
  <2>7. Out(r.net, c) = Cat(Out(S, c), Part(r, src, optionally))
    BY <1>4, <1>8, <2>12, <2>6 DEF Part
  <2>8. Reports(r, src)
    BY <1>1, <1>2, <2>3, <2>4, <2>12 DEF Reports
  <2>9. ~optionally => r.written = Len(src)
    BY <1>8, <2>12
  <2>10. r.net.socket[c].buffer = <<>> /\ Aside(S, r.net, C, T, c)
    BY <1>2, <1>3, <1>8, <2>12
  <2> QED
    BY <2>7, <2>8, <2>9, <2>10 DEF r
<1>9. CASE b = <<>> /\ n # Len(src) /\ ~optionally
  <2>1. r = Result(WithBuffer(R, c, Drop(src, n)), Len(src), TRUE)
    BY <1>9 DEF WriteOut, R, n, WithBuffer
  <2>2. /\ r.net = WithBuffer(R, c, Drop(src, n))
        /\ r.written = Len(src) /\ r.failed = TRUE
    BY <2>1 DEF Result
  <2> HIDE DEF r
  <2>3. /\ Aside(R, r.net, C, T, c) /\ r.net.socket[c].kernel = Cat(k, First(src, n))
        /\ r.net.socket[c].buffer = Drop(src, n)
    BY <1>3, <1>4, <1>5, <2>2, BufferIs
  <2>4. Aside(S, r.net, C, T, c)
    BY <1>2, <2>3, AsideOn
  <2>5. Cat(k, <<>>) = k
    BY <1>1, CatIs
  <2>11. Cat(Cat(k, First(src, n)), Drop(src, n)) = Cat(k, src)
    BY <1>1, <1>4, CatCat
  <2>6. Out(r.net, c) = Cat(Out(S, c), Part(r, src, optionally))
    BY <1>9, <2>3, <2>5, <2>11 DEF Out, Part
  <2>7. src # <<>>
    BY <1>2, <1>9, EmptySeq
  <2>8. Reports(r, src)
    BY <1>1, <2>2 DEF Reports
  <2> QED
    BY <1>9, <2>2, <2>4, <2>6, <2>7, <2>8 DEF r
<1> QED
  BY <1>6, <1>7, <1>8, <1>9

(* The socket that was corked no longer is.                                  *)
ReleasedOf(S, R, C, T, c) ==
  /\ R \in Nets(C, T) /\ Keeps(S, R, C, c)
  /\ R.corked = NoConn /\ R.cork = <<>>

LEMMA ReleasedOn ==
  ASSUME NEW C, NEW T, NEW c \in C, NEW S, NEW R, NEW Q,
         ReleasedOf(S, R, C, T, c), Aside(R, Q, C, T, c)
  PROVE  ReleasedOf(S, Q, C, T, c)
<1>1. Keeps(S, Q, C, c)
  BY KeepsOn DEF Aside, ReleasedOf
<1> QED
  BY <1>1 DEF Aside, ReleasedOf

(* Flushing: all that is in the cork buffer goes to the kernel or behind     *)
(* what the socket has buffered.                                             *)
LEMMA FlushIs ==
  ASSUME NEW C, NEW T, NEW S \in Nets(C, T), NEW c \in C, S.corked = c
  PROVE  LET f == Flush(S, c)
         IN /\ ReleasedOf(S, f.net, C, T, c) /\ f.net.torn = S.torn
            /\ f.failed \in {TRUE, FALSE}
            /\ ~f.failed => f.net.socket[c].buffer = <<>>
            /\ Out(f.net, c) = Coming(S, c)
<1>6. PICK no \in BOOLEAN : no = FALSE
  OBVIOUS
<1> DEFINE G == [S EXCEPT !.corked = NoConn, !.cork = <<>>]
           D == Drained(G, c)
           f == WriteOut(D, c, S.cork, no)
<1>1. S.cork \in Seq(T) /\ S.socket[c].kernel \in Seq(T) /\ S.socket[c].buffer \in Seq(T)
  BY NetFields
<1>2. G \in Nets(C, T)
  BY NoCork DEF Nets
<1>3. ReleasedOf(S, G, C, T, c) /\ G.torn = S.torn /\ G.socket = S.socket
  BY <1>2 DEF Nets, ReleasedOf, Keeps, SameButBuffers
<1> HIDE DEF G
<1>4. Aside(G, D, C, T, c) /\ Out(D, c) = Out(G, c)
  BY <1>2, DrainedIs
<1> HIDE DEF D
<1>5. D \in Nets(C, T)
  BY <1>4 DEF Aside
<1>7. Reports(f, S.cork) /\ Aside(D, f.net, C, T, c)
  BY <1>1, <1>5, WriteOutIs
<1>8. Out(f.net, c) = Cat(Out(D, c), Part(f, S.cork, no))
  BY <1>1, <1>5, WriteOutIs
<1>9. ~f.failed => f.net.socket[c].buffer = <<>>
  BY <1>1, <1>5, WriteOutIs
<1>10. Flush(S, c) = f
  BY <1>6 DEF Flush, G, D
<1> HIDE DEF f
<1>11. Aside(G, f.net, C, T, c)
  BY <1>4, <1>7, AsideOn
<1>12. ReleasedOf(S, f.net, C, T, c) /\ f.net.torn = S.torn
  BY <1>3, <1>11, ReleasedOn DEF Aside
<1>13. f.failed \in {TRUE, FALSE}
  BY <1>7 DEF Reports
<1>14. Out(f.net, c) = Coming(S, c)
  BY <1>3, <1>4, <1>6, <1>8 DEF Out, Coming, Part
<1> QED
  BY <1>10, <1>9, <1>12, <1>13, <1>14, Zenon

LEMMA UncorkIs ==
  ASSUME NEW C, NEW T, NEW S \in Nets(C, T), NEW c \in C, S.corked = c,
         NEW src \in Seq(T), NEW optionally \in BOOLEAN
  PROVE  LET r == Uncork(S, c, src, optionally)
         IN /\ Reports(r, src) /\ ReleasedOf(S, r.net, C, T, c)
            /\ ~optionally => r.written \in {0, Len(src)}
            /\ ~r.failed => r.net.socket[c].buffer = <<>>
            /\ c \notin r.net.torn =>
                 Out(r.net, c) = Cat(Coming(S, c), Part(r, src, optionally))
<1> DEFINE f == Flush(S, c)
           r == Uncork(S, c, src, optionally)
<1>1. S.cork \in Seq(T) /\ S.socket[c].kernel \in Seq(T) /\ S.socket[c].buffer \in Seq(T)
      /\ Len(src) \in Nat
  BY NetFields, LenProperties
<1>2. Out(S, c) \in Seq(T) /\ Coming(S, c) \in Seq(T)
  <2>1. Out(S, c) \in Seq(T)
    BY <1>1, CatIs DEF Out
  <2> QED
    BY <1>1, <2>1, CatIs DEF Coming
<1>3. CASE S.cork = <<>>
  <2> DEFINE G == [S EXCEPT !.corked = NoConn]
             D == Drained(G, c)
  <2>1. G \in Nets(C, T)
    BY DEF Nets
  <2>2. ReleasedOf(S, G, C, T, c) /\ G.socket = S.socket
    BY <1>3, <2>1 DEF Nets, ReleasedOf, Keeps, SameButBuffers
  <2>3. r = WriteOut(D, c, src, optionally)
    BY <1>3 DEF Uncork
  <2> HIDE DEF G, r
  <2>4. Aside(G, D, C, T, c) /\ Out(D, c) = Out(G, c)
    BY <2>1, DrainedIs
  <2> HIDE DEF D
  <2>5. D \in Nets(C, T)
    BY <2>4 DEF Aside
  <2>6. Reports(r, src) /\ Aside(D, r.net, C, T, c)
    BY <2>3, <2>5, WriteOutIs
  <2>7. Out(r.net, c) = Cat(Out(D, c), Part(r, src, optionally))
    BY <2>3, <2>5, WriteOutIs
  <2>8. ~r.failed => r.net.socket[c].buffer = <<>>
    BY <2>3, <2>5, WriteOutIs
  <2>9. ~optionally => r.written = Len(src)
    BY <2>3, <2>5, WriteOutIs
  <2>10. ReleasedOf(S, r.net, C, T, c)
    BY <2>2, <2>4, <2>6, AsideOn, ReleasedOn
  <2>11. Coming(S, c) = Out(S, c)
    BY <1>2, <1>3, CatIs DEF Coming
  <2>12. Out(r.net, c) = Cat(Coming(S, c), Part(r, src, optionally))
    BY <2>2, <2>4, <2>7, <2>11 DEF Out
  <2> QED
    BY <2>6, <2>8, <2>9, <2>10, <2>12 DEF r
<1>4. CASE S.cork # <<>>
  <2>1. /\ ReleasedOf(S, f.net, C, T, c) /\ f.net.torn = S.torn
    BY FlushIs, ZenonT(40)
  <2>2. f.failed \in {TRUE, FALSE}
    BY FlushIs
  <2>3. Out(f.net, c) = Coming(S, c)
    BY FlushIs, ZenonT(40)
  <2>4. f.net \in Nets(C, T)
    BY <2>1 DEF ReleasedOf
  <2>5. CASE f.failed = FALSE
    <3>1. r = WriteOut(f.net, c, src, optionally)
      BY <1>4, <2>5 DEF Uncork
    <3> HIDE DEF r, f
    <3>2. Reports(r, src) /\ Aside(f.net, r.net, C, T, c)
      BY <2>4, <3>1, WriteOutIs
    <3>3. Out(r.net, c) = Cat(Coming(S, c), Part(r, src, optionally))
      BY <2>3, <2>4, <3>1, WriteOutIs
    <3>4. ~r.failed => r.net.socket[c].buffer = <<>>
      BY <2>4, <3>1, WriteOutIs
    <3>5. ~optionally => r.written = Len(src)
      BY <2>4, <3>1, WriteOutIs
    <3>6. ReleasedOf(S, r.net, C, T, c)
      BY <2>1, <3>2, ReleasedOn
    <3> QED
      BY <3>2, <3>3, <3>4, <3>5, <3>6 DEF r
  <2>6. CASE f.failed = TRUE
    <3> DEFINE Q == IF src = <<>> \/ optionally THEN f.net ELSE [f.net EXCEPT !.torn = @ \cup {c}]
    <3>1. r = Result(Q, 0, TRUE)
      BY <1>4, <2>6 DEF Uncork
    <3>2. r.net = Q /\ r.written = 0 /\ r.failed = TRUE
      BY <3>1 DEF Result
    <3> HIDE DEF r, f
    <3>3. Q \in Nets(C, T) /\ ReleasedOf(S, Q, C, T, c)
      <4>1. CASE src = <<>> \/ optionally
        BY <2>1, <2>4, <4>1
      <4>2. CASE ~(src = <<>> \/ optionally)
        <5>1. Q = [f.net EXCEPT !.torn = @ \cup {c}]
          BY <4>2
        <5>2. Q \in Nets(C, T)
          BY <2>4, <5>1 DEF Nets
        <5> QED
          BY <2>1, <2>4, <5>1, <5>2 DEF Nets, ReleasedOf, Keeps, SameButBuffers
      <4> QED
        BY <4>1, <4>2
    <3>4. Reports(r, src)
      BY <1>1, <3>2 DEF Reports
    <3>5. ASSUME c \notin r.net.torn PROVE Out(r.net, c) = Cat(Coming(S, c), Part(r, src, optionally))
      <4>1. src = <<>> \/ optionally
        <5> SUFFICES ASSUME ~(src = <<>> \/ optionally) PROVE FALSE
          OBVIOUS
        <5>1. Q = [f.net EXCEPT !.torn = @ \cup {c}]
          OBVIOUS
        <5> QED
          BY <2>4, <3>2, <3>5, <5>1 DEF Nets
      <4>2. r.net = f.net
        BY <3>2, <4>1
      <4>3. Part(r, src, optionally) = <<>>
        <5>1. First(src, 0) = <<>>
          BY <1>1, Cut
        <5> QED
          BY <3>2, <4>1, <5>1 DEF Part
      <4> QED
        BY <1>2, <2>3, <4>2, <4>3, CatIs
    <3> HIDE DEF Q
    <3> QED
      BY <1>1, <3>2, <3>3, <3>4, <3>5 DEF r
  <2> QED
    BY <2>2, <2>5, <2>6
<1> QED
  BY <1>3, <1>4

(* The cork buffer goes out before the socket's own buffer fills.            *)
InTurn(S, c) == S.corked = c /\ S.cork # <<>> => Drained(S, c).socket[c].buffer = <<>>
CorkLeft(S, R, c) ==
  IF S.corked = c THEN R.corked = c \/ (R.corked = NoConn /\ R.cork = <<>>)
  ELSE R.corked = S.corked /\ R.cork = S.cork
CorkFirst(S, c) == S.corked = c /\ S.cork # <<>> => S.socket[c].buffer = <<>>

LEMMA ComingIs ==
  ASSUME NEW C, NEW T, NEW S \in Nets(C, T), NEW c \in C
  PROVE  /\ Out(S, c) \in Seq(T) /\ Coming(S, c) \in Seq(T)
         /\ S.corked # c \/ S.cork = <<>> => Coming(S, c) = Out(S, c)
         /\ S.corked = c => Coming(S, c) = Cat(Out(S, c), S.cork)
<1>1. S.cork \in Seq(T) /\ S.socket[c].kernel \in Seq(T) /\ S.socket[c].buffer \in Seq(T)
  BY NetFields
<1>2. Out(S, c) \in Seq(T)
  BY <1>1, CatIs DEF Out
<1>3. Cat(Out(S, c), S.cork) \in Seq(T) /\ Cat(Out(S, c), <<>>) = Out(S, c)
  BY <1>1, <1>2, CatIs
<1> QED
  BY <1>2, <1>3 DEF Coming

LEMMA PartIs ==
  ASSUME NEW T, NEW src \in Seq(T), NEW r, Reports(r, src), NEW optionally \in BOOLEAN
  PROVE  /\ Part(r, src, optionally) \in Seq(T)
         /\ r.written = Len(src) => Part(r, src, optionally) = src
         /\ src = <<>> => Part(r, src, optionally) = <<>>
<1>1. r.written \in 0..Len(src) /\ Len(src) \in Nat
  BY LenProperties DEF Reports
<1>2. First(src, r.written) \in Seq(T) /\ (r.written = Len(src) => First(src, r.written) = src)
  BY <1>1, Cut
<1>3. src = <<>> => First(src, r.written) = <<>>
  BY <1>1, <1>2, EmptySeq
<1> QED
  BY <1>2, <1>3 DEF Part

(* write: whatever of it is reported as written comes behind what was to     *)
(* come, unless the code drops it or lets it overtake the cork buffer.       *)
LEMMA WriteIs ==
  ASSUME NEW C, NoConn \notin C, NEW T, NEW S \in Nets(C, T), NEW c \in C, NEW src \in Seq(T),
         NEW optionally \in BOOLEAN
  PROVE  LET r == Write(S, c, src, optionally)
         IN /\ Reports(r, src) /\ r.net \in Nets(C, T) /\ Keeps(S, r.net, C, c)
            /\ CorkLeft(S, r.net, c)
            /\ ~optionally => r.written \in {0, Len(src)}
            /\ ~r.failed /\ r.net.corked # c => r.net.socket[c].buffer = <<>>
            /\ InTurn(S, c) => CorkFirst(r.net, c)
            /\ InTurn(S, c) /\ c \notin r.net.torn =>
                 Coming(r.net, c) = Cat(Coming(S, c), Part(r, src, optionally))
<1> DEFINE D == Drained(S, c)
           r == Write(S, c, src, optionally)
<1>1. Aside(S, D, C, T, c)
  BY DrainedIs
<1>2. Out(D, c) = Out(S, c)
  BY DrainedIs
<1>3. InTurn(S, c) => (S.corked = c /\ S.cork # <<>> => D.socket[c].buffer = <<>>)
  BY DEF InTurn
<1> HIDE DEF D
<1>4. D \in Nets(C, T) /\ D.corked = S.corked /\ D.cork = S.cork /\ Keeps(S, D, C, c)
  BY <1>1 DEF Aside
<1>5. Coming(D, c) = Coming(S, c)
  BY <1>2, <1>4 DEF Coming
<1>6. Out(D, c) \in Seq(T) /\ D.cork \in Seq(T) /\ Len(src) \in Nat
  BY <1>4, ComingIs, NetFields, LenProperties
<1>7. CASE D.corked # c \/ src = <<>> \/ D.socket[c].buffer # <<>>
  <2>1. r = WriteOut(D, c, src, optionally)
    BY <1>7 DEF Write, D
  <2> HIDE DEF r
  <2>2. Reports(r, src) /\ Aside(D, r.net, C, T, c)
    BY <1>4, <2>1, WriteOutIs
  <2>3. Out(r.net, c) = Cat(Out(D, c), Part(r, src, optionally))
    BY <1>4, <2>1, WriteOutIs
  <2>4. ~optionally => r.written = Len(src)
    BY <1>4, <2>1, WriteOutIs
  <2>5. ~r.failed => r.net.socket[c].buffer = <<>>
    BY <1>4, <2>1, WriteOutIs
  <2>6. D.socket[c].buffer # <<>> \/ src # <<>> \/ r.net.socket[c].buffer = <<>>
    BY <1>4, <2>1, WriteOutIs
  <2>7. /\ r.net \in Nets(C, T) /\ r.net.corked = D.corked /\ r.net.cork = D.cork
        /\ Keeps(D, r.net, C, c)
    BY <2>2 DEF Aside
  <2>8. Keeps(S, r.net, C, c)
    BY <1>4, <2>7, KeepsOn
  <2>9. CorkLeft(S, r.net, c)
    BY <1>4, <2>7 DEF CorkLeft
  <2>10. ASSUME InTurn(S, c) PROVE CorkFirst(r.net, c)
    BY <1>3, <1>4, <1>7, <2>6, <2>7, <2>10 DEF CorkFirst
  <2>11. ASSUME InTurn(S, c) PROVE Coming(r.net, c) = Cat(Coming(S, c), Part(r, src, optionally))
    <3>1. CASE D.corked # c \/ D.cork = <<>>
      BY <1>4, <1>5, <2>3, <2>7, <3>1, ComingIs
    <3>2. CASE D.corked = c /\ D.cork # <<>>
      <4>1. src = <<>>
        BY <1>3, <1>4, <1>7, <2>11, <3>2
      <4>2. Part(r, src, optionally) = <<>>
        BY <2>2, <4>1, PartIs
      <4>3. Out(r.net, c) = Out(D, c)
        BY <1>6, <2>3, <4>2, CatIs
      <4>4. Coming(r.net, c) = Coming(S, c) /\ Coming(S, c) \in Seq(T)
        BY <1>4, <1>5, <2>7, <4>3, ComingIs DEF Coming
      <4> QED
        BY <4>2, <4>4, CatIs
    <3> QED
      BY <3>1, <3>2
  <2>12. ~optionally => r.written \in {0, Len(src)}
    BY <2>4
  <2> QED
    BY <2>2, <2>5, <2>7, <2>8, <2>9, <2>10, <2>11, <2>12, Zenon DEF r
<1>8. CASE /\ D.corked = c /\ src # <<>> /\ D.socket[c].buffer = <<>>
           /\ Len(D.cork) + Len(src) <= CorkMax
  <2> DEFINE R == [D EXCEPT !.cork = @ \o src]
  <2>1. r = Result(R, Len(src), FALSE)
    BY <1>8 DEF Write, D
  <2>2. r.net = R /\ r.written = Len(src) /\ r.failed = FALSE
    BY <2>1 DEF Result
  <2> HIDE DEF r
  <2>3. Cat(D.cork, src) \in Seq(T)
    BY <1>6, CatIs
  <2>10. Len(Cat(D.cork, src)) <= CorkMax
    BY <1>6, <1>8, CatIs, ZenonT(40)
  <2>4. R \in Nets(C, T) /\ R.cork = Cat(D.cork, src) /\ R.socket = D.socket /\ R.corked = c /\ R.torn = D.torn
    BY <1>4, <1>8, <2>3, <2>10 DEF Nets, Cat
  <2> HIDE DEF R
  <2>5. Reports(r, src)
    BY <1>6, <2>2 DEF Reports
  <2>6. Keeps(S, R, C, c)
    BY <1>4, <2>4 DEF Keeps, SameButBuffers
  <2>7. CorkLeft(S, R, c) /\ CorkFirst(R, c)
    BY <1>4, <1>8, <2>4 DEF CorkLeft, CorkFirst
  <2>8. Coming(R, c) = Cat(Coming(S, c), Part(r, src, optionally))
    <3>1. Part(r, src, optionally) = src
      BY <2>2, <2>5, PartIs
    <3>2. Out(R, c) = Out(D, c)
      BY <2>4 DEF Out
    <3>3. Cat(Cat(Out(D, c), D.cork), src) = Cat(Out(D, c), Cat(D.cork, src))
      BY <1>6, CatCat
    <3> QED
      BY <1>4, <1>5, <1>8, <2>4, <3>1, <3>2, <3>3, ComingIs
  <2>9. ~optionally => r.written \in {0, Len(src)}
    BY <2>2
  <2> QED
    BY <2>2, <2>4, <2>5, <2>6, <2>7, <2>8, <2>9, Zenon DEF r
<1>9. CASE /\ D.corked = c /\ src # <<>> /\ D.socket[c].buffer = <<>>
           /\ ~(Len(D.cork) + Len(src) <= CorkMax)
  <2>1. r = Uncork(D, c, src, optionally)
    BY <1>9 DEF Write, D
  <2> HIDE DEF r
  <2>2. Reports(r, src)
    BY <1>4, <1>9, <2>1, UncorkIs
  <2>3. ReleasedOf(D, r.net, C, T, c)
    BY <1>4, <1>9, <2>1, UncorkIs
  <2>4. ~optionally => r.written \in {0, Len(src)}
    BY <1>4, <1>9, <2>1, UncorkIs
  <2>5. ~r.failed => r.net.socket[c].buffer = <<>>
    BY <1>4, <1>9, <2>1, UncorkIs
  <2>6. c \notin r.net.torn => Out(r.net, c) = Cat(Coming(D, c), Part(r, src, optionally))
    BY <1>4, <1>9, <2>1, UncorkIs
  <2>7. /\ r.net \in Nets(C, T) /\ r.net.corked = NoConn /\ r.net.cork = <<>>
        /\ Keeps(D, r.net, C, c)
    BY <2>3 DEF ReleasedOf
  <2>8. Keeps(S, r.net, C, c)
    BY <1>4, <2>7, KeepsOn
  <2>9. CorkLeft(S, r.net, c) /\ CorkFirst(r.net, c)
    BY <1>4, <1>9, <2>7 DEF CorkLeft, CorkFirst
  <2>10. Coming(r.net, c) = Out(r.net, c)
    BY <2>7, ComingIs
  <2>11. c \notin r.net.torn => Coming(r.net, c) = Cat(Coming(S, c), Part(r, src, optionally))
    BY <1>5, <2>6, <2>10
  <2> QED
    BY <2>2, <2>4, <2>5, <2>7, <2>8, <2>9, <2>11, Zenon DEF r
<1> QED
  BY <1>7, <1>8, <1>9

(* What a step that concerns c leaves to the others.                         *)
Others(S, R, C, c) ==
  /\ \A d \in C : d # c => R.socket[d] = S.socket[d]
  /\ R.torn = S.torn \/ R.torn = S.torn \cup {c}
  /\ CorkLeft(S, R, c)

(* c's socket becomes s and all else stays.                                  *)
Put(S, R, C, T, c, s) ==
  /\ R \in Nets(C, T) /\ R.socket[c] = s /\ \A d \in C : d # c => R.socket[d] = S.socket[d]
  /\ R.corked = S.corked /\ R.cork = S.cork /\ R.torn = S.torn

LEMMA PutIs ==
  ASSUME NEW C, NEW T, NEW S \in Nets(C, T), NEW c \in C, NEW s \in SocketRecords(T)
  PROVE  Put(S, [S EXCEPT !.socket = [S.socket EXCEPT ![c] = s]], C, T, c, s)
<1> DEFINE R == [S EXCEPT !.socket = [S.socket EXCEPT ![c] = s]]
<1>1. R \in Nets(C, T)
  BY DEF Nets
<1>2. /\ R.socket[c] = s /\ \A d \in C : d # c => R.socket[d] = S.socket[d]
      /\ R.corked = S.corked /\ R.cork = S.cork /\ R.torn = S.torn
  BY DEF Nets
<1> QED
  BY <1>1, <1>2 DEF Put

LEMMA PutOthers ==
  ASSUME NEW C, NEW T, NEW S, NEW R, NEW c \in C, NEW s, Put(S, R, C, T, c, s)
  PROVE  R \in Nets(C, T) /\ Others(S, R, C, c)
BY DEF Put, Others, CorkLeft

LEMMA PutComing ==
  ASSUME NEW C, NEW T, NEW S, NEW R, NEW c \in C, NEW s, Put(S, R, C, T, c, s),
         s.kernel = S.socket[c].kernel, s.buffer = S.socket[c].buffer
  PROVE  Coming(R, c) = Coming(S, c) /\ Out(R, c) = Out(S, c)
BY DEF Put, Coming, Out

LEMMA KeepsOthers ==
  ASSUME NEW C, NEW c \in C, NEW S, NEW R, Keeps(S, R, C, c), CorkLeft(S, R, c)
  PROVE  Others(S, R, C, c)
BY DEF Keeps, Others

LEMMA OthersOn ==
  ASSUME NEW C, NEW c \in C, NEW S, NEW R, NEW Q, NoConn \notin C,
         Others(S, R, C, c), Others(R, Q, C, c)
  PROVE  Others(S, Q, C, c)
<1>1. CorkLeft(S, Q, c)
  BY DEF Others, CorkLeft
<1> QED
  BY <1>1 DEF Others

LEMMA ArmIs ==
  ASSUME NEW C, NEW T, NEW S \in Nets(C, T), NEW c \in C, NEW on \in BOOLEAN
  PROVE  Put(S, Arm(S, c, on), C, T, c, [S.socket[c] EXCEPT !.timeout = on])
<1> DEFINE s == S.socket[c]
           t == [s EXCEPT !.timeout = on]
<1>1. s \in SocketRecords(T)
  BY NetFields
<1>2. t \in SocketRecords(T)
  BY <1>1 DEF SocketRecords
<1>3. Arm(S, c, on) = [S EXCEPT !.socket = [S.socket EXCEPT ![c] = t]]
  BY DEF Arm, Nets, SocketRecords
<1> HIDE DEF t
<1>4. Put(S, Arm(S, c, on), C, T, c, t)
  BY <1>2, <1>3, PutIs
<1> QED
  BY <1>4 DEF t

(* What was written goes to the history.                                     *)
LEMMA WroteIs ==
  ASSUME NEW C, NEW T, NEW r, r.net \in Nets(C, T), NEW c \in C, NEW src \in Seq(T),
         NEW optionally \in BOOLEAN, Reports(r, src)
  PROVE  Put(r.net, Wrote(r, c, src, optionally), C, T, c,
             [r.net.socket[c] EXCEPT !.wrote = Cat(@, Part(r, src, optionally))])
<1> DEFINE S == r.net
           s == S.socket[c]
           t == [s EXCEPT !.wrote = Cat(@, Part(r, src, optionally))]
<1>1. s \in SocketRecords(T) /\ s.wrote \in Seq(T)
  BY NetFields
<1>2. Part(r, src, optionally) \in Seq(T)
  BY PartIs
<1>3. Cat(s.wrote, Part(r, src, optionally)) \in Seq(T)
  BY <1>1, <1>2, CatIs
<1>4. t \in SocketRecords(T)
  BY <1>1, <1>3 DEF SocketRecords
<1>5. Wrote(r, c, src, optionally) = [S EXCEPT !.socket = [S.socket EXCEPT ![c] = t]]
  BY DEF Wrote, Part, First, Cat, Nets, SocketRecords
<1> HIDE DEF t
<1>6. Put(S, Wrote(r, c, src, optionally), C, T, c, t)
  BY <1>4, <1>5, PutIs
<1> QED
  BY <1>6 DEF t

-----------------------------------------------------------------------------
(* WebSockets *)

LEMMA OvertakesIs == \A S, c : ~Overtakes(S, c) => InTurn(S, c)
BY DEF Overtakes, InTurn

(* A frame that is sent is the last of what will come, or its socket is in   *)
(* torn; nothing else of the socket changes but its timeout.                 *)
SentTo(S, r, R, C, T, c, src) ==
  /\ R \in Nets(C, T) /\ Others(S, R, C, c)
  /\ R.socket[c].at = S.socket[c].at /\ R.socket[c].state = S.socket[c].state
  /\ R.socket[c].timeout = TRUE /\ R.socket[c].right = S.socket[c].right
  /\ R.socket[c].wrote = Cat(S.socket[c].wrote, src)
  /\ c \notin R.torn => Coming(R, c) = Cat(Coming(S, c), src)
  /\ r.failed \/ R.corked = c \/ R.socket[c].buffer = <<>>

LEMMA SentIs ==
  ASSUME NEW C, NoConn \notin C, NEW T, NEW S \in Nets(C, T), NEW c \in C, NEW src \in Seq(T),
         NEW no \in BOOLEAN, no = FALSE
  PROVE  LET r == send(S, c, src)
         IN SentTo(S, r, Wrote(r, c, src, no), C, T, c, src)
<1> DEFINE A == Armed(S, c)
           w == Write(A, c, src, no)
           r == send(S, c, src)
           R == Wrote(r, c, src, no)
           a == [S.socket[c] EXCEPT !.timeout = TRUE]
<1>1. Put(S, A, C, T, c, a)
  BY ArmIs DEF Armed
<1>2. /\ a.at = S.socket[c].at /\ a.state = S.socket[c].state /\ a.right = S.socket[c].right
      /\ a.timeout = TRUE /\ a.wrote = S.socket[c].wrote /\ a.kernel = S.socket[c].kernel /\ a.buffer = S.socket[c].buffer
  BY NetFields DEF SocketRecords
<1> HIDE DEF a, A
<1>3. A \in Nets(C, T) /\ Others(S, A, C, c) /\ Coming(A, c) = Coming(S, c) /\ A.socket[c] = a
  BY <1>1, <1>2, PutOthers, PutComing DEF Put
<1>4. Reports(w, src)
  BY <1>3, WriteIs
<1>5. w.net \in Nets(C, T) /\ Keeps(A, w.net, C, c)
  BY <1>3, WriteIs
<1>6. CorkLeft(A, w.net, c)
  BY <1>3, WriteIs
<1>7. ~w.failed /\ w.net.corked # c => w.net.socket[c].buffer = <<>>
  BY <1>3, WriteIs
<1>8. InTurn(A, c) /\ c \notin w.net.torn => Coming(w.net, c) = Cat(Coming(A, c), Part(w, src, no))
  BY <1>3, WriteIs
<1>9. Part(w, src, no) = src /\ src \in Seq(T) /\ Part(r, src, no) = src
  BY DEF Part
<1> HIDE DEF w
<1>10. /\ Reports(r, src) /\ r.net \in Nets(C, T) /\ Others(A, r.net, C, c)
       /\ SameButBuffers(a, r.net.socket[c])
       /\ r.failed \/ r.net.corked = c \/ r.net.socket[c].buffer = <<>>
       /\ c \notin r.net.torn => Coming(r.net, c) = Cat(Coming(S, c), src)
  <2>1. CASE A.corked = c /\ Len(A.cork) + Len(src) < CorkMax
    <3> DEFINE Q == [A EXCEPT !.cork = Cat(@, src)]
    <3>1. r = Result(Q, Len(src), FALSE)
      BY <2>1 DEF send, A, Cat
    <3> HIDE DEF r
    <3>2. A.cork \in Seq(T) /\ Len(src) \in Nat /\ Out(A, c) \in Seq(T)
      BY <1>3, NetFields, LenProperties, ComingIs
    <3>3. Cat(A.cork, src) \in Seq(T) /\ Len(Cat(A.cork, src)) <= CorkMax
      <4>1. Len(Cat(A.cork, src)) = Len(A.cork) + Len(src) /\ Len(A.cork) \in Nat
        BY <3>2, CatIs, LenProperties, ZenonT(40)
      <4> QED
        <5>1. Cat(A.cork, src) \in Seq(T)
          BY <3>2, CatIs
        <5>2. Len(A.cork) + Len(src) < CorkMax /\ CorkMax \in Nat
          BY <2>1, AsyncSocketAssumption
        <5>3. Len(Cat(A.cork, src)) <= CorkMax
          BY ONLY <3>2, <4>1, <5>2
        <5> QED
          BY <5>1, <5>3
    <3>4. /\ Q \in Nets(C, T) /\ Q.socket = A.socket /\ Q.corked = A.corked /\ Q.torn = A.torn
          /\ Q.cork = Cat(A.cork, src)
      BY <1>3, <3>3 DEF Nets
    <3> HIDE DEF Q
    <3>5. r.net = Q /\ r.written = Len(src) /\ r.failed = FALSE
      BY <3>1 DEF Result
    <3>6. Reports(r, src)
      BY <3>2, <3>5 DEF Reports
    <3>7. Others(A, Q, C, c)
      BY <2>1, <3>4 DEF Others, CorkLeft
    <3>8. SameButBuffers(a, Q.socket[c])
      BY <1>3, <3>4 DEF SameButBuffers
    <3>9. Coming(Q, c) = Cat(Coming(S, c), src)
      <4>1. Coming(Q, c) = Cat(Out(A, c), Cat(A.cork, src))
        BY <2>1, <3>4 DEF Coming, Out
      <4>2. Coming(S, c) = Cat(Out(A, c), A.cork)
        BY <1>3, <2>1, ComingIs
      <4> QED
        BY <3>2, <4>1, <4>2, CatCat
    <3> QED
      BY <2>1, <3>4, <3>5, <3>6, <3>7, <3>8, <3>9
  <2>2. CASE ~(A.corked = c /\ Len(A.cork) + Len(src) < CorkMax) /\ Overtakes(A, c)
    <3> DEFINE Q == [w.net EXCEPT !.torn = @ \cup {c}]
    <3>1. r = Result(Q, w.written, w.failed)
      BY <2>2 DEF send, A, w
    <3> HIDE DEF r
    <3>2. /\ Q \in Nets(C, T) /\ Q.socket = w.net.socket /\ Q.corked = w.net.corked
          /\ Q.cork = w.net.cork /\ Q.torn = w.net.torn \cup {c}
      BY <1>5 DEF Nets
    <3> HIDE DEF Q
    <3>3. r.net = Q /\ r.written = w.written /\ r.failed = w.failed
      BY <3>1 DEF Result
    <3>4. Reports(r, src)
      BY <1>4, <3>3 DEF Reports
    <3>5. Others(A, Q, C, c)
      BY <1>5, <1>6, <3>2 DEF Others, CorkLeft, Keeps
    <3>6. SameButBuffers(a, Q.socket[c])
      BY <1>3, <1>5, <3>2 DEF Keeps
    <3>7. c \in Q.torn
      BY <3>2
    <3> QED
      BY <1>7, <3>2, <3>3, <3>4, <3>5, <3>6, <3>7
  <2>3. CASE ~(A.corked = c /\ Len(A.cork) + Len(src) < CorkMax) /\ ~Overtakes(A, c)
    <3>1. r = w
      BY <2>3 DEF send, A, w
    <3> HIDE DEF r
    <3>2. Others(A, w.net, C, c)
      BY <1>5, <1>6, KeepsOthers
    <3>3. SameButBuffers(a, w.net.socket[c])
      BY <1>3, <1>5 DEF Keeps
    <3>4. c \notin w.net.torn => Coming(w.net, c) = Cat(Coming(S, c), src)
      BY <1>3, <1>8, <1>9, <2>3, OvertakesIs
    <3> QED
      BY <1>4, <1>5, <1>7, <3>1, <3>2, <3>3, <3>4
  <2> QED
    BY <2>1, <2>2, <2>3
<1> DEFINE s == r.net.socket[c]
           t == [s EXCEPT !.wrote = Cat(@, Part(r, src, no))]
<1> HIDE DEF r
<1>11. Put(r.net, R, C, T, c, t)
  BY <1>10, WroteIs
<1>12. s \in SocketRecords(T)
  BY <1>10, NetFields
<1>13. /\ t.at = s.at /\ t.state = s.state /\ t.right = s.right
       /\ t.timeout = s.timeout /\ t.wrote = Cat(s.wrote, src) /\ t.kernel = s.kernel /\ t.buffer = s.buffer
  BY <1>9, <1>12 DEF SocketRecords
<1>14. /\ s.at = S.socket[c].at /\ s.state = S.socket[c].state /\ s.right = S.socket[c].right
       /\ s.wrote = S.socket[c].wrote /\ s.timeout = TRUE
  BY <1>2, <1>10 DEF SameButBuffers
<1> HIDE DEF t, R
<1>15. /\ R \in Nets(C, T) /\ R.socket[c] = t /\ R.corked = r.net.corked /\ R.torn = r.net.torn
       /\ Others(r.net, R, C, c) /\ Coming(R, c) = Coming(r.net, c)
  BY <1>11, <1>13, PutOthers, PutComing DEF Put
<1>16. Others(S, R, C, c)
  <2>1. Others(S, r.net, C, c)
    BY <1>3, <1>10, OthersOn
  <2> QED
    BY <1>15, <2>1, OthersOn
<1>18. c \notin R.torn => Coming(R, c) = Cat(Coming(S, c), src)
  BY <1>10, <1>15
<1>19. r.failed \/ R.corked = c \/ R.socket[c].buffer = <<>>
  BY <1>10, <1>13, <1>15
<1>20. SentTo(S, r, R, C, T, c, src)
  BY <1>13, <1>14, <1>15, <1>16, <1>18, <1>19 DEF SentTo
<1> QED
  BY <1>20 DEF R, r

(* A socket not yet open has nothing; an open one that is not torn gets what *)
(* was written, and one whose FIN went out has nothing left to send.         *)
Sane(S, c) ==
  LET s == S.socket[c] IN
  /\ s.at = "none" => /\ s.state = {} /\ s.right
                      /\ s.kernel = <<>> /\ s.buffer = <<>> /\ s.wrote = <<>>
  /\ s.at = "open" /\ "shutdown" \in s.state =>
       "isShuttingDown" \in s.state /\ s.buffer = <<>> /\ S.corked # c
  /\ s.at = "open" /\ c \notin S.torn => s.right /\ s.wrote = Coming(S, c)

Goes(S, R, C, T, c) == R \in Nets(C, T) /\ Others(S, R, C, c) /\ Sane(R, c)

LEMMA SaneOthers ==
  ASSUME NEW C, NoConn \notin C, NEW S, NEW R, NEW c \in C, Others(S, R, C, c),
         NEW d \in C, d # c, Sane(S, d)
  PROVE  Sane(R, d)
<1>1. /\ R.socket[d] = S.socket[d] /\ d # NoConn
      /\ d \notin R.torn => d \notin S.torn
  BY DEF Others
<1>2. R.corked = d <=> S.corked = d
  BY <1>1 DEF Others, CorkLeft
<1>3. S.corked = d => R.cork = S.cork
  BY <1>1 DEF Others, CorkLeft
<1>4. Coming(R, d) = Coming(S, d)
  BY <1>1, <1>2, <1>3 DEF Coming, Out
<1> QED
  BY <1>1, <1>2, <1>4 DEF Sane

LEMMA AllSane ==
  ASSUME NEW C, NoConn \notin C, NEW T, NEW S, \A d \in C : Sane(S, d),
         NEW R, NEW c \in C, Goes(S, R, C, T, c)
  PROVE  R \in Nets(C, T) /\ \A d \in C : Sane(R, d)
<1>1. ASSUME NEW d \in C PROVE Sane(R, d)
  <2>1. CASE d = c
    BY <2>1 DEF Goes
  <2>2. CASE d # c
    BY <2>2, SaneOthers DEF Goes
  <2> QED
    BY <2>1, <2>2
<1> QED
  BY <1>1 DEF Goes

(* What a sent frame does to the socket, and what r reports.                 *)
SentWell(S, r, R, C, T, c) ==
  /\ Goes(S, R, C, T, c)
  /\ R.socket[c].at = "open" /\ R.socket[c].state = S.socket[c].state
  /\ R.socket[c].timeout = TRUE
  /\ r.failed \/ R.corked = c \/ R.socket[c].buffer = <<>>

LEMMA SentSane ==
  ASSUME NEW C, NoConn \notin C, NEW T, NEW S \in Nets(C, T), NEW c \in C, NEW src \in Seq(T),
         NEW no \in BOOLEAN, no = FALSE,
         Sane(S, c), S.socket[c].at = "open", "shutdown" \notin S.socket[c].state
  PROVE  LET r == send(S, c, src)
             R == Wrote(r, c, src, no)
         IN SentWell(S, r, R, C, T, c)
<1> DEFINE r == send(S, c, src)
           R == Wrote(r, c, src, no)
<1>0. SentTo(S, r, R, C, T, c, src)
  BY SentIs
<1> HIDE DEF r, R
<1>1. R \in Nets(C, T) /\ Others(S, R, C, c)
  BY <1>0 DEF SentTo
<1>2. R.socket[c].at = S.socket[c].at /\ R.socket[c].state = S.socket[c].state
  BY <1>0 DEF SentTo
<1>3. R.socket[c].right = S.socket[c].right
  BY <1>0 DEF SentTo
<1>4. R.socket[c].wrote = Cat(S.socket[c].wrote, src)
  BY <1>0 DEF SentTo
<1>5. c \notin R.torn => Coming(R, c) = Cat(Coming(S, c), src)
  BY <1>0 DEF SentTo
<1>6. r.failed \/ R.corked = c \/ R.socket[c].buffer = <<>>
  BY <1>0 DEF SentTo
<1>7. c \notin R.torn => c \notin S.torn
  BY <1>1 DEF Others
<1>8. Sane(R, c)
  BY <1>2, <1>3, <1>4, <1>5, <1>7 DEF Sane
<1>9. R.socket[c].timeout = TRUE
  BY <1>0 DEF SentTo
<1> QED
  BY <1>1, <1>2, <1>6, <1>8, <1>9 DEF Goes, SentWell, r, R

(* The same for a write that does not overtake the cork buffer.              *)
StillOpen(S, R, C, T, c) ==
  /\ Goes(S, R, C, T, c) /\ R.socket[c].at = "open" /\ R.socket[c].state = S.socket[c].state
  /\ R.socket[c].timeout = S.socket[c].timeout

LEMMA WrittenSane ==
  ASSUME NEW C, NoConn \notin C, NEW T, NEW S \in Nets(C, T), NEW c \in C, NEW src \in Seq(T),
         NEW no \in BOOLEAN, no = FALSE,
         Sane(S, c), S.socket[c].at = "open", "shutdown" \notin S.socket[c].state, InTurn(S, c)
  PROVE  LET R == Wrote(Write(S, c, src, no), c, src, no)
         IN StillOpen(S, R, C, T, c)
<1> DEFINE r == Write(S, c, src, no)
           R == Wrote(r, c, src, no)
           s == r.net.socket[c]
           t == [s EXCEPT !.wrote = Cat(@, Part(r, src, no))]
<1>1. Reports(r, src)
  BY WriteIs
<1>2. r.net \in Nets(C, T) /\ Keeps(S, r.net, C, c)
  BY WriteIs
<1>3. CorkLeft(S, r.net, c)
  BY WriteIs
<1>4. c \notin r.net.torn => Coming(r.net, c) = Cat(Coming(S, c), Part(r, src, no))
  BY WriteIs
<1>5. Part(r, src, no) = src
  BY DEF Part
<1> HIDE DEF r
<1>6. Put(r.net, R, C, T, c, t)
  BY <1>1, <1>2, WroteIs
<1>7. s \in SocketRecords(T)
  BY <1>2, NetFields
<1>8. /\ t.at = s.at /\ t.state = s.state /\ t.right = s.right
      /\ t.timeout = s.timeout /\ t.wrote = Cat(s.wrote, src) /\ t.kernel = s.kernel /\ t.buffer = s.buffer
  BY <1>5, <1>7 DEF SocketRecords
<1>9. /\ s.at = S.socket[c].at /\ s.state = S.socket[c].state /\ s.right = S.socket[c].right
      /\ s.wrote = S.socket[c].wrote /\ s.timeout = S.socket[c].timeout
  BY <1>2 DEF Keeps, SameButBuffers
<1> HIDE DEF t, R
<1>10. /\ R \in Nets(C, T) /\ R.socket[c] = t /\ R.torn = r.net.torn
       /\ Others(r.net, R, C, c) /\ Coming(R, c) = Coming(r.net, c)
  BY <1>6, <1>8, PutOthers, PutComing DEF Put
<1>11. Others(S, R, C, c)
  <2>1. Others(S, r.net, C, c)
    BY <1>2, <1>3, KeepsOthers
  <2> QED
    BY <1>10, <2>1, OthersOn
<1>12. c \notin R.torn => c \notin S.torn
  BY <1>11 DEF Others
<1>13. Sane(R, c)
  BY <1>4, <1>5, <1>8, <1>9, <1>10, <1>12 DEF Sane
<1> QED
  BY <1>8, <1>9, <1>10, <1>11, <1>13 DEF StillOpen, Goes, r, R

LEMMA WithIs ==
  ASSUME NEW C, NEW T, NEW S \in Nets(C, T), NEW c \in C, NEW flag \in Flags
  PROVE  Put(S, With(S, c, flag), C, T, c, [S.socket[c] EXCEPT !.state = @ \cup {flag}])
<1> DEFINE s == S.socket[c]
           t == [s EXCEPT !.state = @ \cup {flag}]
<1>1. s \in SocketRecords(T)
  BY NetFields
<1>2. t \in SocketRecords(T)
  BY <1>1 DEF SocketRecords
<1>3. With(S, c, flag) = [S EXCEPT !.socket = [S.socket EXCEPT ![c] = t]]
  BY DEF With, Nets, SocketRecords
<1> HIDE DEF t
<1>4. Put(S, With(S, c, flag), C, T, c, t)
  BY <1>2, <1>3, PutIs
<1> QED
  BY <1>4 DEF t

LEMMA WithSane ==
  ASSUME NEW C, NoConn \notin C, NEW T, NEW S \in Nets(C, T), NEW c \in C, Sane(S, c),
         S.socket[c].at = "open"
  PROVE  LET R == With(S, c, "isShuttingDown")
         IN /\ Goes(S, R, C, T, c)
            /\ R.socket[c].at = "open"
            /\ R.socket[c].state = S.socket[c].state \cup {"isShuttingDown"}
            /\ R.socket[c].timeout = S.socket[c].timeout
<1> DEFINE R == With(S, c, "isShuttingDown")
           s == S.socket[c]
           t == [s EXCEPT !.state = @ \cup {"isShuttingDown"}]
<1>1. Put(S, R, C, T, c, t)
  BY WithIs DEF Flags
<1>2. s \in SocketRecords(T)
  BY NetFields
<1>3. /\ t.at = s.at /\ t.state = s.state \cup {"isShuttingDown"} /\ t.right = s.right
      /\ t.timeout = s.timeout /\ t.wrote = s.wrote /\ t.kernel = s.kernel /\ t.buffer = s.buffer
  BY <1>2 DEF SocketRecords
<1> HIDE DEF R, t
<1>4. /\ R \in Nets(C, T) /\ Others(S, R, C, c) /\ Coming(R, c) = Coming(S, c)
      /\ R.socket[c] = t /\ R.corked = S.corked /\ R.torn = S.torn
  BY <1>1, <1>3, PutOthers, PutComing DEF Put
<1>5. Sane(R, c)
  BY <1>3, <1>4 DEF Sane
<1> QED
  BY <1>3, <1>4, <1>5 DEF Goes, R

(* The FIN of a socket with nothing left to send.                            *)
LEMMA ShutdownSane ==
  ASSUME NEW C, NoConn \notin C, NEW T, NEW S \in Nets(C, T), NEW c \in C, Sane(S, c),
         S.socket[c].at = "open", "isShuttingDown" \in S.socket[c].state,
         S.socket[c].buffer = <<>>, S.corked # c
  PROVE  LET R == Shutdown(S, c)
         IN /\ Goes(S, R, C, T, c) /\ R.corked = S.corked
            /\ R.socket[c].at = "open" /\ "isShuttingDown" \in R.socket[c].state
            /\ R.socket[c].state = S.socket[c].state \cup {"shutdown"}
            /\ R.socket[c].timeout = S.socket[c].timeout
<1> DEFINE s == S.socket[c]
           t == [s EXCEPT !.state = @ \cup {"shutdown"}, !.polls = FALSE]
           R == Shutdown(S, c)
<1>1. s \in SocketRecords(T)
  BY NetFields
<1>2. t \in SocketRecords(T)
  BY <1>1 DEF SocketRecords, Flags
<1>3. R = [S EXCEPT !.socket = [S.socket EXCEPT ![c] = t]]
  BY DEF Shutdown, IsOpen, With, Nets, SocketRecords
<1>4. /\ t.at = s.at /\ t.state = s.state \cup {"shutdown"} /\ t.right = s.right
      /\ t.timeout = s.timeout /\ t.wrote = s.wrote /\ t.kernel = s.kernel /\ t.buffer = s.buffer
  BY <1>1 DEF SocketRecords
<1> HIDE DEF t, R
<1>5. Put(S, R, C, T, c, t)
  BY <1>2, <1>3, PutIs
<1>6. /\ R \in Nets(C, T) /\ Others(S, R, C, c) /\ Coming(R, c) = Coming(S, c)
      /\ R.socket[c] = t /\ R.corked = S.corked /\ R.torn = S.torn
  BY <1>4, <1>5, PutOthers, PutComing DEF Put
<1>7. Sane(R, c)
  BY <1>4, <1>6 DEF Sane
<1> QED
  BY <1>4, <1>6, <1>7 DEF Goes, R

LEMMA CloseSane ==
  ASSUME NEW C, NEW T, NEW S \in Nets(C, T), NEW c \in C
  PROVE  LET R == CloseConn(S, c)
         IN /\ Goes(S, R, C, T, c) /\ R.corked = S.corked /\ R.cork = S.cork
            /\ R.socket[c].at = "closed" /\ R.socket[c].state = {} /\ R.torn = S.torn
<1> DEFINE t == [NewSocket EXCEPT !.at = "closed"]
           R == CloseConn(S, c)
<1>1. t \in SocketRecords(T) /\ t.at = "closed" /\ t.state = {}
  <2>1. <<>> \in Seq(T) /\ Len(<<>>) = 0 /\ 0 <= RoomMax
    BY EmptySeq, AsyncSocketAssumption
  <2> QED
    BY <2>1 DEF NewSocket, SocketRecords
<1>2. R = [S EXCEPT !.socket = [S.socket EXCEPT ![c] = t]]
  BY DEF CloseConn, Nets
<1> HIDE DEF t, R
<1>3. Put(S, R, C, T, c, t)
  BY <1>1, <1>2, PutIs
<1>4. /\ R \in Nets(C, T) /\ Others(S, R, C, c) /\ R.socket[c] = t
      /\ R.corked = S.corked /\ R.cork = S.cork /\ R.torn = S.torn
  BY <1>3, PutOthers DEF Put
<1>5. Sane(R, c)
  BY <1>1, <1>4 DEF Sane
<1> QED
  BY <1>1, <1>4, <1>5 DEF Goes, R

(* What a callback acts upon, apart from the bytes.                          *)
SameControl(s, t) ==
  /\ t.at = s.at /\ t.state = s.state /\ t.offset = s.offset /\ t.timeout = s.timeout
  /\ t.on = s.on /\ t.request = s.request

(* Uncorking at the end of on_data.                                          *)
UncorkedNet(S, c, no) == Uncork(S, c, <<>>, no).net
LEMMA UncorkSane ==
  ASSUME NEW C, NoConn \notin C, NEW T, NEW S \in Nets(C, T), NEW c \in C, Sane(S, c),
         S.socket[c].at = "open", S.corked = c, NEW no \in BOOLEAN, no = FALSE
  PROVE  LET R == UncorkedNet(S, c, no)
         IN /\ StillOpen(S, R, C, T, c) /\ R.corked = NoConn /\ R.cork = <<>>
            /\ SameControl(S.socket[c], R.socket[c])
<1> DEFINE r == Uncork(S, c, <<>>, no)
           R == r.net
           src == <<>>
<1>1. src \in Seq(T)
  BY EmptySeq
<1> HIDE DEF src
<1>2. r = Uncork(S, c, src, no)
  BY DEF src
<1> HIDE DEF r
<1>3. Reports(r, src) /\ ReleasedOf(S, R, C, T, c)
  BY <1>1, <1>2, UncorkIs
<1>4. c \notin R.torn => Out(R, c) = Cat(Coming(S, c), Part(r, src, no))
  BY <1>1, <1>2, UncorkIs
<1>5. Part(r, src, no) = <<>>
  BY DEF Part, src
<1>6. Coming(S, c) \in Seq(T)
  BY ComingIs
<1>7. Cat(Coming(S, c), <<>>) = Coming(S, c)
  BY <1>6, CatIs
<1>8. R \in Nets(C, T) /\ Keeps(S, R, C, c) /\ R.corked = NoConn /\ R.cork = <<>>
  BY <1>3 DEF ReleasedOf
<1> HIDE DEF R
<1>9. Coming(R, c) = Out(R, c)
  BY <1>8, ComingIs
<1>10. CorkLeft(S, R, c)
  BY <1>8 DEF CorkLeft
<1>11. Others(S, R, C, c)
  BY <1>8, <1>10, KeepsOthers
<1>12. SameButBuffers(S.socket[c], R.socket[c])
  BY <1>8 DEF Keeps
<1>13. c \notin R.torn => c \notin S.torn /\ Coming(R, c) = Coming(S, c)
  BY <1>4, <1>5, <1>7, <1>9, <1>11 DEF Others
<1>14. Sane(R, c)
  BY <1>12, <1>13 DEF Sane, SameButBuffers
<1> QED
  BY <1>8, <1>11, <1>12, <1>14 DEF Goes, StillOpen, SameButBuffers, SameControl, UncorkedNet, R, r

LEMMA ReleaseSane ==
  ASSUME NEW C, NoConn \notin C, NEW T, NEW S \in Nets(C, T), NEW c \in C, Sane(S, c),
         S.socket[c].at # "open", S.corked = c \/ (S.corked = NoConn /\ S.cork = <<>>)
  PROVE  LET R == UncorkClosed(S)
         IN /\ Goes(S, R, C, T, c) /\ R.corked = NoConn /\ R.cork = <<>>
            /\ R.socket = S.socket
<1> DEFINE R == UncorkClosed(S)
<1>1. /\ R \in Nets(C, T) /\ R.socket = S.socket /\ R.corked = NoConn /\ R.cork = <<>>
      /\ R.torn = S.torn
  BY NoCork DEF UncorkClosed, Nets
<1> HIDE DEF R
<1>2. Others(S, R, C, c)
  BY <1>1 DEF Others, CorkLeft
<1>3. Sane(R, c)
  BY <1>1 DEF Sane
<1> QED
  BY <1>1, <1>2, <1>3 DEF Goes, R

(* A socket is opened, or adopted from a request.                            *)
Opened(S, c, on) == [S EXCEPT !.socket[c].at = "open", !.socket[c].timeout = on]

LEMMA OpenSane ==
  ASSUME NEW C, NoConn \notin C, NEW T, NEW S \in Nets(C, T), NEW c \in C, NEW on \in BOOLEAN,
         Sane(S, c), S.socket[c].at = "none", S.corked # c
  PROVE  LET R == Opened(S, c, on)
         IN /\ Goes(S, R, C, T, c) /\ R.corked = S.corked /\ R.cork = S.cork
            /\ R.socket[c].at = "open" /\ R.socket[c].state = {}
            /\ R.socket[c].timeout = on /\ R.socket[c].on = S.socket[c].on
            /\ R.socket[c].offset = S.socket[c].offset
            /\ R.socket[c].request = S.socket[c].request
<1> DEFINE R == Opened(S, c, on)
           s == S.socket[c]
           r == [s EXCEPT !.at = "open", !.timeout = on]
<1>2. s \in SocketRecords(T)
  BY NetFields
<1>3. /\ r.at = "open" /\ r.state = s.state /\ r.right = s.right /\ r.timeout = on
      /\ r.wrote = s.wrote /\ r.kernel = s.kernel /\ r.buffer = s.buffer
      /\ r.on = s.on /\ r.offset = s.offset /\ r.request = s.request
  BY <1>2 DEF SocketRecords
<1>4. r \in SocketRecords(T)
  BY <1>2 DEF SocketRecords
<1>5. R = [S EXCEPT !.socket = [S.socket EXCEPT ![c] = r]]
  BY DEF Opened, Nets, SocketRecords
<1> HIDE DEF R, r
<1>6. Put(S, R, C, T, c, r)
  BY <1>4, <1>5, PutIs
<1>7. /\ R \in Nets(C, T) /\ Others(S, R, C, c) /\ Coming(R, c) = Coming(S, c)
      /\ R.socket[c] = r /\ R.corked = S.corked /\ R.cork = S.cork /\ R.torn = S.torn
  BY <1>3, <1>6, PutOthers, PutComing DEF Put
<1>8. /\ s.state = {} /\ s.right /\ s.kernel = <<>> /\ s.buffer = <<>> /\ s.wrote = <<>>
  BY DEF Sane
<1>9. Coming(S, c) = <<>>
  <2>1. <<>> \in Seq(T)
    BY EmptySeq
  <2>2. Cat(<<>>, <<>>) = <<>>
    BY <2>1, CatIs
  <2> QED
    BY <1>8, <2>1, <2>2 DEF Coming, Out
<1>10. Sane(R, c)
  BY <1>3, <1>7, <1>8, <1>9 DEF Sane
<1> QED
  BY <1>3, <1>7, <1>8, <1>10 DEF R, Goes

(* What on_writable does first.                                              *)
LEMMA DrainSane ==
  ASSUME NEW C, NoConn \notin C, NEW T, NEW S \in Nets(C, T), NEW c \in C, Sane(S, c),
         S.socket[c].at = "open"
  PROVE  LET R == Drained([S EXCEPT !.socket[c].polls = FALSE], c)
         IN /\ Goes(S, R, C, T, c) /\ R.corked = S.corked /\ R.cork = S.cork
            /\ R.socket[c].at = "open" /\ R.socket[c].state = S.socket[c].state
            /\ R.socket[c].timeout = S.socket[c].timeout
<1> DEFINE s == S.socket[c]
           t == [s EXCEPT !.polls = FALSE]
           P == [S EXCEPT !.socket = [S.socket EXCEPT ![c] = t]]
           R == Drained(P, c)
<1>1. s \in SocketRecords(T)
  BY NetFields
<1>2. t \in SocketRecords(T)
  BY <1>1 DEF SocketRecords
<1>3. /\ t.at = s.at /\ t.state = s.state /\ t.right = s.right
      /\ t.timeout = s.timeout /\ t.wrote = s.wrote /\ t.kernel = s.kernel /\ t.buffer = s.buffer
  BY <1>1 DEF SocketRecords
<1>4. P = [S EXCEPT !.socket[c].polls = FALSE]
  BY DEF Nets, SocketRecords
<1> HIDE DEF t
<1>5. Put(S, P, C, T, c, t)
  BY <1>2, PutIs
<1> HIDE DEF P
<1>6. /\ P \in Nets(C, T) /\ Others(S, P, C, c) /\ Coming(P, c) = Coming(S, c)
      /\ P.socket[c] = t /\ P.corked = S.corked /\ P.cork = S.cork /\ P.torn = S.torn
  BY <1>3, <1>5, PutOthers, PutComing DEF Put
<1>7. Aside(P, R, C, T, c) /\ Out(R, c) = Out(P, c)
  BY <1>6, DrainedIs
<1>8. P.socket[c].buffer = <<>> => R.socket[c].buffer = <<>>
  BY <1>6, DrainedIs
<1>17. R = Drained([S EXCEPT !.socket[c].polls = FALSE], c)
  BY <1>4
<1> HIDE DEF R
<1>9. R \in Nets(C, T) /\ Keeps(P, R, C, c) /\ R.corked = S.corked /\ R.cork = S.cork /\ R.torn = S.torn
  BY <1>6, <1>7 DEF Aside
<1>10. CorkLeft(P, R, c)
  BY <1>6, <1>9 DEF CorkLeft
<1>11. Others(P, R, C, c)
  BY <1>9, <1>10, KeepsOthers
<1>12. Others(S, R, C, c)
  BY <1>6, <1>11, OthersOn
<1>13. Coming(R, c) = Coming(S, c)
  BY <1>6, <1>7, <1>9 DEF Coming
<1>14. SameButBuffers(t, R.socket[c])
  BY <1>6, <1>9 DEF Keeps
<1>15. R.socket[c].buffer = <<>> \/ s.buffer # <<>>
  BY <1>3, <1>6, <1>8
<1>16. Sane(R, c)
  BY <1>3, <1>9, <1>13, <1>14, <1>15 DEF Sane, SameButBuffers
<1> QED
  BY <1>3, <1>9, <1>12, <1>14, <1>16, <1>17 DEF Goes, SameButBuffers

LEMMA CatPrefix ==
  ASSUME NEW T, NEW k \in Seq(T), NEW u \in Seq(T)
  PROVE  /\ IsPrefix(k, Cat(k, u)) /\ Least(Len(k), Len(Cat(k, u))) = Len(k)
         /\ Drop(Cat(k, u), Len(k)) = u
<1> DEFINE w == Cat(k, u)
<1>1. w \in Seq(T) /\ Len(w) = Len(k) + Len(u) /\ Len(k) \in Nat /\ Len(u) \in Nat
  BY CatIs, LenProperties
<1>2. \A i \in 1..Len(w) : w[i] = IF i <= Len(k) THEN k[i] ELSE u[i - Len(k)]
  BY ConcatProperties DEF Cat
<1> HIDE DEF w
<1>3. SubSeq(w, 1, Len(k)) = SubSeq(k, 1, Len(k))
  <2> DEFINE a == SubSeq(w, 1, Len(k))
             b == SubSeq(k, 1, Len(k))
  <2>1. \A i \in 1..Len(k) : w[i] \in T /\ k[i] \in T
    BY <1>1, ElementOfSeq
  <2>2. a \in Seq(T) /\ Len(a) = Len(k) /\ \A i \in 1..Len(k) : a[i] = w[i]
    BY <1>1, <2>1, SubSeqProperties
  <2>3. b \in Seq(T) /\ Len(b) = Len(k) /\ \A i \in 1..Len(k) : b[i] = k[i]
    BY <1>1, <2>1, SubSeqProperties
  <2>4. \A i \in 1..Len(k) : w[i] = k[i]
    BY <1>1, <1>2
  <2> HIDE DEF a, b
  <2>5. a = b
    BY <2>2, <2>3, <2>4, SeqEqual
  <2> QED
    BY <2>5 DEF a, b
<1>4. IsPrefix(k, w)
  BY <1>1, <1>3 DEF IsPrefix
<1>5. Drop(w, Len(k)) = u
  <2> DEFINE d == Drop(w, Len(k))
  <2>1. \A i \in (Len(k) + 1)..Len(w) : w[i] \in T
    BY <1>1, ElementOfSeq
  <2>2. /\ d \in Seq(T) /\ Len(d) = Len(u)
        /\ \A i \in 1..Len(u) : d[i] = w[Len(k) + i]
    BY <1>1, <2>1, SubSeqProperties DEF Drop
  <2>3. \A i \in 1..Len(u) : w[Len(k) + i] = u[i]
    BY <1>1, <1>2, SMTT(40)
  <2> HIDE DEF d
  <2>4. d = u
    BY <2>2, <2>3, SeqEqual
  <2> QED
    BY <2>4 DEF d
<1>6. Least(Len(k), Len(w)) = Len(k)
  BY <1>1 DEF Least
<1> QED
  BY <1>4, <1>5, <1>6 DEF w

(* The client reads all that is in the kernel.                               *)
LEMMA ReadSane ==
  ASSUME NEW C, NoConn \notin C, NEW T, NEW S \in Nets(C, T), NEW c \in C, Sane(S, c),
         S.socket[c].kernel # <<>>
  PROVE  LET R == Read(S, c)
         IN /\ Goes(S, R, C, T, c) /\ R.corked = S.corked /\ R.cork = S.cork
            /\ SameControl(S.socket[c], R.socket[c])
            /\ R.socket[c].buffer = S.socket[c].buffer
<1> DEFINE s == S.socket[c]
           k == s.kernel
           w == s.wrote
           n == Least(Len(k), Len(w))
           d == Drop(w, n)
           e == s.right /\ IsPrefix(k, w)
           t == [s EXCEPT !.kernel = <<>>, !.wrote = d, !.right = e]
           R == Read(S, c)
<1>1. s \in SocketRecords(T) /\ k \in Seq(T) /\ w \in Seq(T) /\ s.buffer \in Seq(T) /\ S.cork \in Seq(T)
  BY NetFields
<1>2. d \in Seq(T)
  <2>1. Len(k) \in Nat /\ Len(w) \in Nat
    BY <1>1, LenProperties
  <2>2. n \in 0..Len(w)
    BY <2>1 DEF Least
  <2> QED
    BY <1>1, <2>2, Cut
<1>3. e \in BOOLEAN
  OBVIOUS
<1>4. R = [S EXCEPT !.socket = [S.socket EXCEPT ![c] = t]]
  BY DEF Read, Nets, SocketRecords
<1>5. t \in SocketRecords(T)
  <2>1. <<>> \in Seq(T) /\ Len(<<>>) = 0 /\ 0 <= RoomMax
    BY EmptySeq, AsyncSocketAssumption
  <2> HIDE DEF d, e
  <2> QED
    BY <1>1, <1>2, <1>3, <2>1 DEF SocketRecords
<1>6. /\ t.at = s.at /\ t.state = s.state /\ t.buffer = s.buffer /\ t.kernel = <<>>
      /\ t.wrote = d /\ t.right = e /\ SameControl(s, t)
  <2> HIDE DEF d, e
  <2> QED
    BY <1>1 DEF SocketRecords, SameControl
<1> HIDE DEF t, R
<1>7. Put(S, R, C, T, c, t)
  BY <1>4, <1>5, PutIs
<1>8. /\ R \in Nets(C, T) /\ Others(S, R, C, c) /\ R.socket[c] = t
      /\ R.corked = S.corked /\ R.cork = S.cork /\ R.torn = S.torn
  BY <1>7, PutOthers DEF Put
<1>9. ASSUME s.at = "open", c \notin S.torn
      PROVE  t.right /\ t.wrote = Coming(R, c)
  <2> DEFINE x == IF S.corked = c THEN S.cork ELSE <<>>
             u == Cat(s.buffer, x)
  <2>1. x \in Seq(T)
    BY <1>1, EmptySeq
  <2> HIDE DEF x
  <2>2. u \in Seq(T)
    BY <1>1, <2>1, CatIs
  <2>3. w = Cat(Cat(k, s.buffer), x) /\ s.right
    BY <1>9 DEF Sane, Coming, Out, x
  <2>4. w = Cat(k, u)
    BY <1>1, <2>1, <2>3, CatCat
  <2> HIDE DEF u
  <2>5. IsPrefix(k, w) /\ n = Len(k) /\ Drop(w, Len(k)) = u
    <3>1. /\ IsPrefix(k, Cat(k, u)) /\ Least(Len(k), Len(Cat(k, u))) = Len(k)
          /\ Drop(Cat(k, u), Len(k)) = u
      BY <1>1, <2>2, CatPrefix
    <3> QED
      BY <2>4, <3>1
  <2>6. Cat(<<>>, s.buffer) = s.buffer
    BY <1>1, CatIs
  <2>7. Coming(R, c) = Cat(Cat(<<>>, s.buffer), x)
    BY <1>6, <1>8 DEF Coming, Out, x
  <2>8. Coming(R, c) = u
    BY <2>6, <2>7 DEF u
  <2>9. t.wrote = u
    BY <1>6, <2>5
  <2>10. t.right
    BY <1>6, <2>3, <2>5
  <2> QED
    BY <2>8, <2>9, <2>10
<1>10. s.at # "none"
  BY DEF Sane
<1>11. Sane(R, c)
  BY <1>6, <1>8, <1>9, <1>10, SMTT(40) DEF Sane
<1> QED
  BY <1>6, <1>8, <1>11 DEF Goes, R

(* StreamRight of a sane socket, in the model's own words.                   *)
LEMMA StreamKept ==
  ASSUME NEW C, NEW T, NEW S \in Nets(C, T), NEW c \in C, Sane(S, c), c \notin S.torn,
         S.socket[c].at = "open"
  PROVE  StreamRight(S, c)
<1>1. S.socket[c].right /\ S.socket[c].wrote = Coming(S, c)
  BY DEF Sane
<1>2. /\ S.socket[c].kernel \in Seq(T) /\ S.socket[c].buffer \in Seq(T) /\ S.cork \in Seq(T)
  BY NetFields
<1>3. PICK k \in Seq(T), b \in Seq(T), x \in Seq(T) :
        /\ k = S.socket[c].kernel /\ b = S.socket[c].buffer
        /\ x = IF S.corked = c THEN S.cork ELSE <<>>
  BY <1>2, EmptySeq
<1>4. Coming(S, c) = (k \o b) \o x
  BY <1>3 DEF Coming, Out, Cat
<1>5. (k \o b) \o x = k \o (b \o x)
  BY ConcatAssociative
<1> QED
  BY <1>1, <1>3, <1>4, <1>5 DEF StreamRight

-----------------------------------------------------------------------------
(* What the websockets are between two steps: their types, what Sane says of *)
(* each, the close events that were told, and whose callback may use what.   *)
WsTokens == Nat \X Nat \X Nat
Tolds == [Sockets -> [sends : Nat, closes : Nat, late : BOOLEAN]]
Told(S, t, c) ==
  /\ t[c].closes = IF S.socket[c].at = "closed" \/ Is(S, c, "isShuttingDown") THEN 1 ELSE 0
  /\ ~t[c].late
  /\ S.socket[c].state \subseteq {"isShuttingDown", "shutdown"}
  /\ Is(S, c, "isShuttingDown") => S.socket[c].timeout
  /\ S.socket[c].at = "none" => t[c].sends = 0
AllTold(S, t) ==
  /\ S \in Nets(Sockets, WsTokens) /\ t \in Tolds
  /\ \A c \in Sockets : Sane(S, c) /\ Told(S, t, c)

InParser == {"upgrade", "data"}
DoesOf(S, d) ==
  /\ d.in \in {"none", "upgrade", "data", "drain", "app"} /\ d.calls \in Scripts \cup {<<"big">>}
  /\ d.in = "none" => d = Nothing
  /\ d.in # "none" => d.of \in Sockets
  /\ S.corked # NoConn => d.in \in InParser /\ S.corked = d.of
  /\ S.corked = NoConn => S.cork = <<>>
  /\ d.calls # <<>> => S.socket[d.of].at = "open" /\ ~Is(S, d.of, "isShuttingDown")
WebSocketsInv == behavior \in BOOLEAN /\ AllTold(ws, told) /\ DoesOf(ws, does)

LEMMA SocketsAre == Sockets \subseteq Nat /\ NoConn \notin Sockets
BY WebSocketsAssumption

(* A step of c's websocket keeps what is told if it tells of c rightly.      *)
LEMMA ToldStep ==
  ASSUME NEW S, NEW t, AllTold(S, t), NEW c \in Sockets, NEW R, Goes(S, R, Sockets, WsTokens, c),
         NEW u \in Tolds, \A d \in Sockets : d # c => u[d] = t[d], Told(R, u, c)
  PROVE  AllTold(R, u)
<1>1. R \in Nets(Sockets, WsTokens) /\ \A d \in Sockets : Sane(R, d)
  BY AllSane, SocketsAre DEF AllTold
<1>2. ASSUME NEW d \in Sockets, d # c PROVE Told(R, u, d)
  <2>1. R.socket[d] = S.socket[d] /\ u[d] = t[d]
    BY <1>2 DEF Goes, Others
  <2> QED
    BY <2>1 DEF AllTold, Told, Is
<1> QED
  BY <1>1, <1>2 DEF AllTold

LEMMA PartsIs ==
  ASSUME NEW c \in Sockets, told \in Tolds, NEW kind
  PROVE  Parts(c, kind) \in Seq(WsTokens)
<1> DEFINE n == IF kind = "big" THEN 2 ELSE 1
           f == [i \in 1..n |-> <<c, told[c].sends + 1, i>>]
<1>1. n \in Nat /\ c \in Nat /\ told[c].sends + 1 \in Nat
  BY SocketsAre DEF Tolds
<1>2. f \in [1..n -> WsTokens]
  BY <1>1 DEF WsTokens
<1>3. f \in Seq(WsTokens)
  BY <1>1, <1>2
<1> QED
  BY <1>3 DEF Parts

LEMMA InitTold == WebSocketsInit => WebSocketsInv
<1> SUFFICES ASSUME WebSocketsInit PROVE WebSocketsInv
  OBVIOUS
<1>1. <<>> \in Seq(WsTokens) /\ Len(<<>>) = 0 /\ 0 <= RoomMax
  BY EmptySeq, AsyncSocketAssumption
<1>2. NewSocket \in SocketRecords(WsTokens)
  BY <1>1 DEF NewSocket, SocketRecords
<1>3. ws \in Nets(Sockets, WsTokens)
  BY <1>1, <1>2, NoCork DEF WebSocketsInit, Nets
<1>4. told \in Tolds
  BY DEF WebSocketsInit, Tolds
<1>5. \A c \in Sockets : Sane(ws, c) /\ Told(ws, told, c)
  BY DEF WebSocketsInit, NewSocket, Sane, Told, Is
<1>6. DoesOf(ws, does)
  BY DEF WebSocketsInit, Nothing, Scripts, DoesOf
<1> QED
  BY <1>3, <1>4, <1>5, <1>6 DEF WebSocketsInv, AllTold, WebSocketsInit

(* What a call for c's websocket brings about.                               *)
HandlerCalled(c) == AllTold(ws', told') /\ CorkLeft(ws, ws', c)

LEMMA ToldCalled ==
  ASSUME AllTold(ws, told), NEW c \in Sockets, Goes(ws, ws', Sockets, WsTokens, c),
         told' \in Tolds, \A d \in Sockets : d # c => told'[d] = told[d], Told(ws', told', c)
  PROVE  HandlerCalled(c)
<1>1. PICK S, t, R, u : S = ws /\ t = told /\ R = ws' /\ u = told'
  OBVIOUS
<1>2. /\ AllTold(S, t) /\ Goes(S, R, Sockets, WsTokens, c) /\ u \in Tolds
      /\ \A d \in Sockets : d # c => u[d] = t[d]
      /\ Told(R, u, c)
  BY <1>1
<1>3. AllTold(R, u)
  BY ONLY c \in Sockets, <1>2, ToldStep
<1>4. CorkLeft(S, R, c)
  BY ONLY <1>2 DEF Goes, Others
<1> QED
  BY <1>1, <1>3, <1>4 DEF HandlerCalled

LEMMA SentStep ==
  ASSUME AllTold(ws, told), NEW c \in Sockets, NEW kind,
         ws.socket[c].at = "open", "isShuttingDown" \notin ws.socket[c].state
  PROVE  LET R == Sent(c, kind)
         IN /\ Goes(ws, R, Sockets, WsTokens, c)
            /\ R.socket[c].at = "open" /\ R.socket[c].state = ws.socket[c].state
            /\ R.socket[c].timeout = TRUE
<1>0. PICK no \in BOOLEAN : no = FALSE
  OBVIOUS
<1>1. PICK S, src : S = ws /\ src = Parts(c, kind)
  OBVIOUS
<1>2. src \in Seq(WsTokens)
  BY <1>1, PartsIs DEF AllTold
<1>3. /\ S \in Nets(Sockets, WsTokens) /\ Sane(S, c) /\ S.socket[c].at = "open"
      /\ "shutdown" \notin S.socket[c].state
  BY <1>1 DEF AllTold, Sane
<1> DEFINE R == Wrote(send(S, c, src), c, src, no)
<1>4. SentWell(S, send(S, c, src), R, Sockets, WsTokens, c)
  BY ONLY c \in Sockets, SocketsAre, <1>2, <1>3, no \in BOOLEAN, <1>0, SentSane
<1>5. /\ Goes(S, R, Sockets, WsTokens, c) /\ R.socket[c].at = "open"
      /\ R.socket[c].state = S.socket[c].state /\ R.socket[c].timeout = TRUE
  BY ONLY <1>4 DEF SentWell
<1>6. Sent(c, kind) = R
  BY <1>0, <1>1 DEF Sent
<1> HIDE DEF R
<1> QED
  BY <1>1, <1>5, <1>6

LEMMA SendStep ==
  ASSUME AllTold(ws, told), NEW c \in Sockets, NEW kind,
         ws.socket[c].at = "open", "isShuttingDown" \notin ws.socket[c].state,
         ws' = Sent(c, kind), told' = [told EXCEPT ![c].sends = @ + 1]
  PROVE  /\ HandlerCalled(c) /\ ws'.socket[c].at = "open"
         /\ "isShuttingDown" \notin ws'.socket[c].state
<1>1. /\ Goes(ws, ws', Sockets, WsTokens, c)
      /\ ws'.socket[c].at = "open" /\ ws'.socket[c].state = ws.socket[c].state
      /\ ws'.socket[c].timeout = TRUE
  BY SentStep
<1>2. told \in Tolds /\ Told(ws, told, c)
  BY DEF AllTold
<1>3. told' \in Tolds /\ \A d \in Sockets : d # c => told'[d] = told[d]
  BY <1>2 DEF Tolds
<1>4. told'[c].closes = told[c].closes /\ told'[c].late = told[c].late
  BY <1>2 DEF Tolds
<1>5. Told(ws', told', c)
  BY <1>1, <1>2, <1>4 DEF Told, Is
<1> QED
  BY <1>1, <1>3, <1>5, ToldCalled

LEMMA CloseStep ==
  ASSUME AllTold(ws, told), NEW c \in Sockets, ws.socket[c].at = "open", CloseWs(c)
  PROVE  HandlerCalled(c) /\ ws'.socket[c].at = "closed"
<1>1. PICK S : S = ws
  OBVIOUS
<1>2. S \in Nets(Sockets, WsTokens)
  BY <1>1 DEF AllTold
<1> DEFINE R == CloseConn(S, c)
<1>3. Goes(S, R, Sockets, WsTokens, c) /\ R.socket[c].at = "closed" /\ R.socket[c].state = {}
  BY ONLY c \in Sockets, <1>2, CloseSane
<1>4. R = ws'
  BY <1>1 DEF CloseWs
<1> HIDE DEF R
<1>5. /\ Goes(ws, ws', Sockets, WsTokens, c)
      /\ ws'.socket[c].at = "closed" /\ ws'.socket[c].state = {}
  BY <1>1, <1>3, <1>4
<1>6. told \in Tolds /\ Told(ws, told, c)
  BY DEF AllTold
<1>7. OnClose(c) \in Nat /\ told[c].closes + OnClose(c) = 1
  BY <1>6 DEF Told, OnClose
<1>8. told' \in Tolds /\ (\A d \in Sockets : d # c => told'[d] = told[d])
  BY <1>6, <1>7 DEF Tolds, CloseWs
<1>9. told'[c].closes = 1 /\ told'[c].late = told[c].late
  BY <1>6, <1>7 DEF Tolds, CloseWs
<1>10. Told(ws', told', c)
  BY <1>5, <1>6, <1>9 DEF Told, Is
<1> QED
  BY <1>5, <1>8, <1>10, ToldCalled

(* end: the socket shuts down from then on, FIN or not.                      *)
LEMMA EndStep ==
  ASSUME AllTold(ws, told), NEW c \in Sockets, ws.socket[c].at = "open",
         "isShuttingDown" \notin ws.socket[c].state, End(c)
  PROVE  HandlerCalled(c)
<1>0. PICK no \in BOOLEAN : no = FALSE
  OBVIOUS
<1>1. PICK S, src : S = ws /\ src = Parts(c, "close")
  OBVIOUS
<1>2. src \in Seq(WsTokens)
  BY <1>1, PartsIs DEF AllTold
<1>3. /\ S \in Nets(Sockets, WsTokens) /\ Sane(S, c) /\ S.socket[c].at = "open"
      /\ "shutdown" \notin S.socket[c].state
  BY <1>1 DEF AllTold, Sane
<1> DEFINE W == With(S, c, "isShuttingDown")
           r == send(W, c, src)
           R == Wrote(r, c, src, no)
           Q == EndNow(R, c, r.failed)
<1>4. Goes(S, W, Sockets, WsTokens, c) /\ W.socket[c].at = "open"
      /\ W.socket[c].state = S.socket[c].state \cup {"isShuttingDown"}
  BY ONLY c \in Sockets, SocketsAre, <1>3, WithSane
<1> HIDE DEF W
<1>5. W \in Nets(Sockets, WsTokens) /\ Sane(W, c) /\ "shutdown" \notin W.socket[c].state
  BY ONLY <1>3, <1>4 DEF Goes
<1>6. SentWell(W, r, R, Sockets, WsTokens, c)
  BY ONLY c \in Sockets, SocketsAre, <1>2, <1>4, <1>5, no \in BOOLEAN, <1>0, SentSane
<1>7. /\ Goes(W, R, Sockets, WsTokens, c) /\ R.socket[c].at = "open"
      /\ R.socket[c].state = W.socket[c].state /\ R.socket[c].timeout = TRUE
  BY ONLY <1>6 DEF SentWell
<1>8. r.failed \/ R.corked = c \/ R.socket[c].buffer = <<>>
  BY ONLY <1>6 DEF SentWell
<1>9. ws' = Q /\ told' = [told EXCEPT ![c].sends = @ + 1, ![c].closes = @ + 1]
  BY <1>0, <1>1 DEF End, Is, W
<1> HIDE DEF r, R
<1>10. /\ R \in Nets(Sockets, WsTokens) /\ Sane(R, c) /\ Others(W, R, Sockets, c)
       /\ "isShuttingDown" \in R.socket[c].state
  BY ONLY <1>4, <1>7 DEF Goes
<1>11. /\ Q \in Nets(Sockets, WsTokens) /\ Others(R, Q, Sockets, c) /\ Sane(Q, c)
       /\ Q.socket[c].at = "open" /\ "isShuttingDown" \in Q.socket[c].state
       /\ Q.socket[c].state \subseteq R.socket[c].state \cup {"shutdown"}
       /\ Q.socket[c].timeout = TRUE
  <2>1. CASE R.corked # c /\ ~r.failed
    <3> DEFINE F == Shutdown(R, c)
    <3>1. Goes(R, F, Sockets, WsTokens, c)
      BY ONLY c \in Sockets, SocketsAre, <1>7, <1>8, <1>10, <2>1, ShutdownSane
    <3>2. /\ F.socket[c].at = "open" /\ "isShuttingDown" \in F.socket[c].state
          /\ F.socket[c].state = R.socket[c].state \cup {"shutdown"}
          /\ F.socket[c].timeout = R.socket[c].timeout
      BY ONLY c \in Sockets, SocketsAre, <1>7, <1>8, <1>10, <2>1, ShutdownSane
    <3>3. Q = F
      BY ONLY <2>1 DEF EndNow
    <3> QED
      BY ONLY <1>7, <3>1, <3>2, <3>3 DEF Goes
  <2>2. CASE ~(R.corked # c /\ ~r.failed)
    <3>1. Q = R
      BY ONLY <2>2 DEF EndNow
    <3> QED
      BY ONLY <1>7, <1>10, <3>1 DEF Others, CorkLeft
  <2> QED
    BY <2>1, <2>2
<1> HIDE DEF Q
<1>12. Others(S, Q, Sockets, c)
  <2>1. Others(S, R, Sockets, c)
    BY ONLY c \in Sockets, SocketsAre, <1>4, <1>10, OthersOn DEF Goes
  <2> QED
    BY ONLY c \in Sockets, SocketsAre, <1>11, <2>1, OthersOn
<1>13. Goes(ws, ws', Sockets, WsTokens, c)
  BY <1>1, <1>9, <1>11, <1>12 DEF Goes
<1>14. told \in Tolds /\ Told(ws, told, c)
  BY DEF AllTold
<1>15. told' \in Tolds /\ (\A d \in Sockets : d # c => told'[d] = told[d])
  BY <1>9, <1>14 DEF Tolds
<1>16. told'[c].closes = told[c].closes + 1 /\ told'[c].late = told[c].late
  BY <1>9, <1>14 DEF Tolds
<1>17. told'[c].closes = 1
  BY <1>14, <1>16 DEF Told, Is
<1>19. Q.socket[c].state \subseteq {"isShuttingDown", "shutdown"}
  BY <1>1, <1>4, <1>7, <1>11, <1>14 DEF Told
<1>18. Told(ws', told', c)
  BY <1>9, <1>11, <1>14, <1>16, <1>17, <1>19 DEF Told, Is
<1> QED
  BY <1>13, <1>15, <1>18, ToldCalled

(* A callback whose handler has done its calls, or has some of them left.    *)
LEMMA ScriptsLeft ==
  ASSUME NEW calls \in Scripts \cup {<<"big">>}, calls # <<>>
  PROVE  /\ Tail(calls) \in Scripts \cup {<<"big">>}
         /\ Head(calls) \in {"end", "close"} => Tail(calls) = <<>>
<1>1. CASE calls \in {<<"send">>, <<"end">>, <<"close">>, <<"big">>}
  <2>1. PICK x : calls = <<x>>
    BY <1>1
  <2>2. Tail(<<x>>) = <<>>
    OBVIOUS
  <2> QED
    BY <2>1, <2>2 DEF Scripts
<1>2. CASE calls = <<"send", "big">>
  <2>1. Tail(calls) = <<"big">> /\ Head(calls) = "send"
    BY <1>2
  <2> QED
    BY <2>1
<1>3. CASE calls = <<"send", "end">>
  <2>1. Tail(calls) = <<"end">> /\ Head(calls) = "send"
    BY <1>3
  <2> QED
    BY <2>1 DEF Scripts
<1> QED
  BY <1>1, <1>2, <1>3 DEF Scripts

(* The cork buffer is still of the callback that runs, or of none.           *)
LEMMA StillCorked ==
  ASSUME NEW S, NEW R, NEW d, DoesOf(S, d), d.in \in InParser, CorkLeft(S, R, d.of)
  PROVE  /\ R.corked # NoConn => R.corked = d.of
         /\ R.corked = NoConn => R.cork = <<>>
BY SocketsAre DEF DoesOf, CorkLeft, InParser

LEMMA UncorkedAtRest == ASSUME WebSocketsInv, AtRest PROVE ws.corked = NoConn /\ ws.cork = <<>>
BY DEF WebSocketsInv, DoesOf, AtRest, Nothing, InParser

LEMMA WsRecords ==
  ASSUME WebSocketsInv, NEW c \in Sockets
  PROVE  /\ ws.socket[c] \in SocketRecords(WsTokens) /\ told[c] \in [sends : Nat, closes : Nat, late : BOOLEAN]
         /\ Sane(ws, c) /\ Told(ws, told, c)
<1>1. PICK S : S = ws
  OBVIOUS
<1>2. S \in Nets(Sockets, WsTokens)
  BY <1>1 DEF WebSocketsInv, AllTold
<1>3. S.socket[c] \in SocketRecords(WsTokens)
  BY ONLY c \in Sockets, <1>2, NetFields
<1> QED
  BY <1>1, <1>3 DEF WebSocketsInv, AllTold, Tolds

(* The timeout of a socket, and that its callback corks it.                  *)
CorkedBy(S, c) == [S EXCEPT !.corked = c]

LEMMA CorkTold ==
  ASSUME NEW S, NEW t, AllTold(S, t), NEW c \in Sockets, S.corked = NoConn, S.cork = <<>>,
         "shutdown" \notin S.socket[c].state
  PROVE  LET R == CorkedBy(S, c)
         IN AllTold(R, t) /\ R.socket = S.socket /\ R.corked = c /\ R.cork = <<>>
<1> DEFINE R == CorkedBy(S, c)
<1>1. /\ R \in Nets(Sockets, WsTokens) /\ R.socket = S.socket /\ R.corked = c /\ R.cork = <<>>
      /\ R.torn = S.torn
  BY DEF CorkedBy, Nets, AllTold
<1> HIDE DEF R
<1>2. ASSUME NEW d \in Sockets PROVE Sane(R, d) /\ Told(R, t, d)
  <2>1. Coming(R, d) = Coming(S, d)
    BY <1>1 DEF Coming, Out
  <2>2. Sane(S, d) /\ Told(S, t, d)
    BY DEF AllTold
  <2>3. Sane(R, d)
    BY <1>1, <2>1, <2>2 DEF Sane
  <2>4. Told(R, t, d)
    BY <1>1, <2>2 DEF Told, Is
  <2> QED
    BY <2>3, <2>4
<1>3. AllTold(R, t)
  BY <1>1, <1>2 DEF AllTold
<1> QED
  BY <1>1, <1>3 DEF R

LEMMA ArmTold ==
  ASSUME NEW S, NEW t, AllTold(S, t), NEW c \in Sockets, NEW on \in BOOLEAN, on = TRUE
  PROVE  LET R == Arm(S, c, on)
         IN /\ AllTold(R, t) /\ R.corked = S.corked /\ R.cork = S.cork
            /\ R.socket[c].at = S.socket[c].at /\ R.socket[c].state = S.socket[c].state
            /\ R.socket[c].buffer = S.socket[c].buffer
<1> DEFINE R == Arm(S, c, on)
           s == S.socket[c]
           r == [s EXCEPT !.timeout = on]
<1>1. S \in Nets(Sockets, WsTokens) /\ Sane(S, c) /\ Told(S, t, c) /\ t \in Tolds
  BY DEF AllTold
<1>2. s \in SocketRecords(WsTokens)
  BY <1>1, NetFields
<1>3. /\ r.at = s.at /\ r.state = s.state /\ r.right = s.right
      /\ r.timeout = TRUE /\ r.wrote = s.wrote /\ r.kernel = s.kernel /\ r.buffer = s.buffer
  BY <1>2 DEF SocketRecords
<1>4. Put(S, R, Sockets, WsTokens, c, r)
  BY <1>1, ArmIs
<1> HIDE DEF R, r
<1>5. /\ R \in Nets(Sockets, WsTokens) /\ Others(S, R, Sockets, c) /\ Coming(R, c) = Coming(S, c)
      /\ R.socket[c] = r /\ R.corked = S.corked /\ R.cork = S.cork /\ R.torn = S.torn
  BY <1>3, <1>4, PutOthers, PutComing DEF Put
<1>6. Sane(R, c) /\ Told(R, t, c)
  BY <1>1, <1>3, <1>5 DEF Sane, Told, Is
<1>7. AllTold(R, t)
  BY <1>1, <1>5, <1>6, ToldStep DEF Goes
<1> QED
  BY <1>3, <1>5, <1>7 DEF R

LEMMA OpenTold ==
  ASSUME NEW S, NEW t, AllTold(S, t), NEW c \in Sockets, NEW on \in BOOLEAN,
         S.socket[c].at = "none", S.corked = NoConn
  PROVE  LET R == Opened(S, c, on)
         IN /\ AllTold(R, t) /\ R.corked = S.corked /\ R.cork = S.cork
            /\ R.socket[c].at = "open" /\ R.socket[c].state = {}
<1> DEFINE R == Opened(S, c, on)
<1>1. S \in Nets(Sockets, WsTokens) /\ Sane(S, c) /\ Told(S, t, c) /\ t \in Tolds /\ S.corked # c
  BY SocketsAre DEF AllTold
<1>2. Goes(S, R, Sockets, WsTokens, c) /\ R.corked = S.corked /\ R.cork = S.cork
  BY <1>1, SocketsAre, OpenSane
<1>3. R.socket[c].at = "open" /\ R.socket[c].state = {}
  BY <1>1, SocketsAre, OpenSane
<1> HIDE DEF R
<1>4. Told(R, t, c)
  BY <1>1, <1>3 DEF Told, Is, Sane
<1>5. AllTold(R, t)
  BY <1>1, <1>2, <1>4, ToldStep
<1> QED
  BY <1>2, <1>3, <1>5 DEF R

LEMMA UpgradeKeeps == ASSUME WebSocketsInv, NEW c \in Sockets, Upgrade(c) PROVE WebSocketsInv'
<1>0. PICK no \in BOOLEAN : no = FALSE
  OBVIOUS
<1>1. PICK S, t, src, on : S = ws /\ t = told /\ src = Parts(c, "101") /\ on = behavior
  OBVIOUS
<1>2. src \in Seq(WsTokens) /\ AllTold(S, t) /\ on \in BOOLEAN
  BY <1>1, PartsIs DEF WebSocketsInv, AllTold
<1>3. S.corked = NoConn /\ S.cork = <<>> /\ S.socket[c].at = "none"
  BY <1>1, UncorkedAtRest DEF Upgrade
<1> DEFINE P == Opened(S, c, on)
           K == CorkedBy(P, c)
           R == Wrote(Write(K, c, src, no), c, src, no)
<1>4. /\ AllTold(P, t) /\ P.corked = S.corked /\ P.cork = S.cork
      /\ P.socket[c].at = "open" /\ P.socket[c].state = {}
  BY ONLY c \in Sockets, <1>2, <1>3, OpenTold
<1> HIDE DEF P
<1>5. AllTold(K, t) /\ K.socket = P.socket /\ K.corked = c /\ K.cork = <<>>
  BY ONLY c \in Sockets, <1>3, <1>4, CorkTold
<1>6. ws' = R
  <2>1. K = [ws EXCEPT !.socket[c].at = "open", !.socket[c].timeout = behavior, !.corked = c]
    BY <1>1, <1>2 DEF Opened, CorkedBy, AllTold, Nets, P
  <2> QED
    BY <1>0, <1>1, <2>1 DEF Upgrade
<1> HIDE DEF K
<1>7. K \in Nets(Sockets, WsTokens) /\ Sane(K, c) /\ InTurn(K, c)
  BY ONLY c \in Sockets, <1>5 DEF AllTold, InTurn
<1>8. "shutdown" \notin K.socket[c].state /\ K.socket[c].at = "open" /\ K.socket[c].state = {}
  BY <1>4, <1>5
<1>9. StillOpen(K, R, Sockets, WsTokens, c)
  BY ONLY c \in Sockets, SocketsAre, no \in BOOLEAN, <1>0, <1>2, <1>7, <1>8, WrittenSane
<1>10. Goes(K, R, Sockets, WsTokens, c) /\ R.socket[c].at = "open" /\ R.socket[c].state = K.socket[c].state
  BY ONLY <1>9 DEF StillOpen
<1> HIDE DEF R
<1>11. told \in Tolds /\ told' = [told EXCEPT ![c].sends = @ + 1]
  BY <1>1, <1>2 DEF AllTold, Upgrade
<1>12. /\ told' \in Tolds /\ \A d \in Sockets : d # c => told'[d] = told[d]
       /\ told'[c].closes = told[c].closes /\ told'[c].late = told[c].late
  BY <1>11 DEF Tolds
<1>13. PICK u : u = told'
  OBVIOUS
<1>14. Told(R, u, c)
  <2>1. Told(K, t, c)
    BY <1>5 DEF AllTold
  <2> QED
    BY <1>1, <1>8, <1>10, <1>12, <1>13, <2>1 DEF Told, Is
<1>15. u \in Tolds /\ \A d \in Sockets : d # c => u[d] = t[d]
  BY <1>1, <1>12, <1>13
<1>16. AllTold(R, u)
  BY ONLY c \in Sockets, <1>5, <1>10, <1>14, <1>15, ToldStep
<1>17. CorkLeft(K, R, c)
  BY <1>10 DEF Goes, Others
<1>18. DoesOf(ws', does')
  <2>1. /\ does'.in = "upgrade" /\ does'.of = c /\ does'.calls \in Scripts
    <3>1. PICK script \in IF behavior THEN Scripts ELSE {<<>>} :
            does' = [of |-> c, in |-> "upgrade", rest |-> <<>>, calls |-> script]
      BY DEF Upgrade
    <3>2. <<>> \in Scripts
      BY DEF Scripts
    <3> QED
      BY <3>1, <3>2
  <2>2. (R.corked # NoConn => R.corked = c) /\ (R.corked = NoConn => R.cork = <<>>)
    BY <1>5, <1>17, SocketsAre DEF CorkLeft
  <2> QED
    BY <1>6, <1>8, <1>10, <2>1, <2>2 DEF DoesOf, InParser, Is
<1> QED
  BY <1>6, <1>13, <1>16, <1>18 DEF WebSocketsInv, Upgrade

LEMMA OnFramesKeeps == ASSUME WebSocketsInv, NEW c \in Sockets, OnFrames(c) PROVE WebSocketsInv'
<1>0. PICK on \in BOOLEAN : on = TRUE
  OBVIOUS
<1>1. PICK S, t : S = ws /\ t = told
  OBVIOUS
<1>2. AllTold(S, t) /\ S.corked = NoConn /\ S.cork = <<>>
  BY <1>1, UncorkedAtRest DEF WebSocketsInv, OnFrames
<1>3. "shutdown" \notin S.socket[c].state
  BY <1>1, <1>2 DEF AllTold, Sane, OnFrames, IsOpen, Is
<1> DEFINE A == Arm(S, c, on)
           R == CorkedBy(A, c)
<1>4. /\ AllTold(A, t) /\ A.corked = S.corked /\ A.cork = S.cork
      /\ A.socket[c].state = S.socket[c].state
  BY ONLY c \in Sockets, on \in BOOLEAN, <1>0, <1>2, ArmTold
<1>5. ws' = R
  BY <1>0, <1>1 DEF OnFrames, CorkedBy
<1> HIDE DEF A
<1>6. AllTold(R, t) /\ R.corked = c /\ R.cork = <<>>
  BY ONLY c \in Sockets, <1>2, <1>3, <1>4, CorkTold
<1> HIDE DEF R
<1>7. does'.in = "data" /\ does'.of = c /\ does'.calls = <<>>
  BY DEF OnFrames
<1>8. DoesOf(ws', does')
  BY <1>5, <1>6, <1>7, SocketsAre DEF DoesOf, InParser, Scripts
<1> QED
  BY <1>1, <1>5, <1>6, <1>8 DEF WebSocketsInv, OnFrames

LEMMA MessageKeeps == ASSUME WebSocketsInv, MessageHandler PROVE WebSocketsInv'
<1> DEFINE c == does.of
<1>1. c \in Sockets /\ does.in = "data" /\ ParsesOn(c)
  BY DEF MessageHandler, Parsed, WebSocketsInv, DoesOf
<1>2. told[c] \in [sends : Nat, closes : Nat, late : BOOLEAN] /\ Told(ws, told, c)
  BY <1>1, WsRecords
<1>3. told[c].closes = 0
  BY <1>1, <1>2 DEF Told, ParsesOn, IsOpen
<1>4. told' = told
  <2>1. told \in Tolds
    BY DEF WebSocketsInv, AllTold
  <2>2. told' = [told EXCEPT ![c].late = told[c].late \/ told[c].closes > 0]
    BY DEF MessageHandler
  <2>3. (told[c].late \/ told[c].closes > 0) = told[c].late
    BY <1>2, <1>3
  <2> QED
    BY <1>1, <2>1, <2>2, <2>3 DEF Tolds
<1>5. PICK script \in Scripts : does' = [does EXCEPT !.rest = Tail(@), !.calls = script]
  BY DEF MessageHandler
<1>6. ws' = ws /\ behavior' = behavior
  BY DEF MessageHandler
<1>7. DoesOf(ws', does')
  BY <1>1, <1>5, <1>6 DEF DoesOf, WebSocketsInv, ParsesOn, IsOpen, InParser, Is
<1> QED
  BY <1>4, <1>6, <1>7 DEF WebSocketsInv

LEMMA PongKeeps == ASSUME WebSocketsInv, Pong PROVE WebSocketsInv'
<1> DEFINE c == does.of
<1>1. c \in Sockets /\ does.in = "data" /\ ParsesOn(c)
  BY DEF Pong, Parsed, WebSocketsInv, DoesOf
<1>2. HandlerCalled(c)
  BY <1>1, SendStep DEF Pong, WebSocketsInv, ParsesOn, IsOpen, Is
<1>3. CorkLeft(ws, ws', does.of) /\ does.in \in InParser /\ DoesOf(ws, does)
  BY <1>1, <1>2 DEF HandlerCalled, InParser, WebSocketsInv
<1>4. (ws'.corked # NoConn => ws'.corked = c) /\ (ws'.corked = NoConn => ws'.cork = <<>>)
  BY <1>3, StillCorked
<1>5. does'.in = "data" /\ does'.of = c /\ does'.calls = <<>>
  BY <1>1 DEF Pong, Parsed
<1>6. DoesOf(ws', does')
  BY <1>1, <1>4, <1>5 DEF DoesOf, InParser, Scripts
<1> QED
  BY <1>2, <1>6 DEF WebSocketsInv, HandlerCalled, Pong

LEMMA CloseFrameKeeps == ASSUME WebSocketsInv, CloseFrame PROVE WebSocketsInv'
<1> DEFINE c == does.of
<1>1. c \in Sockets /\ does.in = "data" /\ ParsesOn(c)
  BY DEF CloseFrame, Parsed, WebSocketsInv, DoesOf
<1>2. HandlerCalled(c)
  BY <1>1, EndStep DEF CloseFrame, WebSocketsInv, ParsesOn, IsOpen, Is
<1>3. CorkLeft(ws, ws', does.of) /\ does.in \in InParser /\ DoesOf(ws, does)
  BY <1>1, <1>2 DEF HandlerCalled, InParser, WebSocketsInv
<1>4. (ws'.corked # NoConn => ws'.corked = c) /\ (ws'.corked = NoConn => ws'.cork = <<>>)
  BY <1>3, StillCorked
<1>5. does'.in = "data" /\ does'.of = c /\ does'.calls = <<>>
  BY <1>1 DEF CloseFrame, Parsed
<1>6. DoesOf(ws', does')
  BY <1>1, <1>4, <1>5 DEF DoesOf, InParser, Scripts
<1> QED
  BY <1>2, <1>6 DEF WebSocketsInv, HandlerCalled, CloseFrame

(* A call outside of the callbacks that cork leaves the cork to nobody.      *)
LEMMA StillUncorked ==
  ASSUME NEW S, NEW R, NEW c \in Sockets, S.corked = NoConn, S.cork = <<>>, CorkLeft(S, R, c)
  PROVE  R.corked = NoConn /\ R.cork = <<>>
BY SocketsAre DEF CorkLeft

LEMMA CorkAfterCall ==
  ASSUME NEW S, NEW R, NEW d, DoesOf(S, d), d.of \in Sockets, CorkLeft(S, R, d.of)
  PROVE  /\ R.corked # NoConn => d.in \in InParser /\ R.corked = d.of
         /\ R.corked = NoConn => R.cork = <<>>
<1>1. CASE S.corked = NoConn
  BY <1>1, StillUncorked DEF DoesOf
<1>2. CASE S.corked # NoConn
  BY <1>2, StillCorked DEF DoesOf
<1> QED
  BY <1>1, <1>2

LEMMA HandlerCallsKeeps == ASSUME WebSocketsInv, HandlerCalls PROVE WebSocketsInv'
<1> DEFINE c == does.of
           call == Head(does.calls)
<1>1. DoesOf(ws, does) /\ does.calls # <<>> /\ AllTold(ws, told)
  BY DEF HandlerCalls, WebSocketsInv
<1>2. does.in # "none" /\ c \in Sockets /\ ws.socket[c].at = "open" /\ ~Is(ws, c, "isShuttingDown")
  BY <1>1 DEF DoesOf, Nothing
<1>3. does.calls \in Scripts \cup {<<"big">>}
  BY <1>1 DEF DoesOf
<1>4. /\ Tail(does.calls) \in Scripts \cup {<<"big">>}
      /\ call \in {"end", "close"} => Tail(does.calls) = <<>>
  BY <1>1, <1>3, ScriptsLeft
<1> HIDE DEF call
<1>5. /\ HandlerCalled(c)
      /\ call \notin {"end", "close"} =>
           ws'.socket[c].at = "open" /\ "isShuttingDown" \notin ws'.socket[c].state
  <2>1. CASE call = "end"
    <3>1. End(c)
      BY <2>1 DEF HandlerCalls, call
    <3>2. HandlerCalled(c)
      BY <1>1, <1>2, <3>1, EndStep DEF Is
    <3> QED
      BY <2>1, <3>2
  <2>2. CASE call = "close"
    <3>1. CloseWs(c)
      BY <2>2 DEF HandlerCalls, call
    <3>2. HandlerCalled(c)
      BY <1>1, <1>2, <3>1, CloseStep DEF Is
    <3> QED
      BY <2>2, <3>2
  <2>3. CASE call \notin {"end", "close"}
    <3>1. ws' = Sent(c, call) /\ told' = [told EXCEPT ![c].sends = @ + 1]
      BY <2>3 DEF HandlerCalls, call
    <3> QED
      BY <1>1, <1>2, <3>1, SendStep DEF Is
  <2> QED
    BY <2>1, <2>2, <2>3
<1>6. AllTold(ws', told') /\ CorkLeft(ws, ws', c)
  BY <1>5 DEF HandlerCalled
<1>7. /\ ws'.corked # NoConn => does.in \in InParser /\ ws'.corked = c
      /\ ws'.corked = NoConn => ws'.cork = <<>>
  <2>1. PICK S, R, d : S = ws /\ R = ws' /\ d = does
    OBVIOUS
  <2>2. DoesOf(S, d) /\ d.of \in Sockets /\ CorkLeft(S, R, d.of)
    BY <1>1, <1>2, <1>6, <2>1
  <2>3. /\ R.corked # NoConn => d.in \in InParser /\ R.corked = d.of
        /\ R.corked = NoConn => R.cork = <<>>
    BY ONLY <2>2, CorkAfterCall
  <2> QED
    BY <2>1, <2>3
<1>8. does'.in = does.in /\ does'.of = c /\ does'.calls = Tail(does.calls)
  BY <1>1 DEF HandlerCalls
<1>9. does.in \in {"none", "upgrade", "data", "drain", "app"}
  BY <1>1 DEF DoesOf
<1>10. DoesOf(ws', does')
  BY <1>2, <1>4, <1>5, <1>7, <1>8, <1>9 DEF DoesOf, Is, call
<1> QED
  BY <1>6, <1>10 DEF WebSocketsInv, HandlerCalls

(* What the end of on_data leaves.                                           *)
LEMMA UncorkNowIs ==
  ASSUME WebSocketsInv, NEW c \in Sockets, c = does.of
  PROVE  LET R == UncorkNow(c)
         IN /\ Goes(ws, R, Sockets, WsTokens, c) /\ R.corked = NoConn /\ R.cork = <<>>
            /\ R.socket[c].at = ws.socket[c].at /\ R.socket[c].state = ws.socket[c].state
            /\ R.socket[c].timeout = ws.socket[c].timeout
<1>0. PICK no \in BOOLEAN : no = FALSE
  OBVIOUS
<1>1. PICK S : S = ws
  OBVIOUS
<1>2. /\ S \in Nets(Sockets, WsTokens) /\ Sane(S, c)
      /\ S.corked = c \/ (S.corked = NoConn /\ S.cork = <<>>)
  BY <1>1 DEF WebSocketsInv, AllTold, DoesOf
<1>3. CASE S.socket[c].at = "open" /\ S.corked = c
  <2> DEFINE R == UncorkedNet(S, c, no)
  <2>1. StillOpen(S, R, Sockets, WsTokens, c) /\ R.corked = NoConn /\ R.cork = <<>>
    BY ONLY c \in Sockets, SocketsAre, no \in BOOLEAN, <1>0, <1>2, <1>3, UncorkSane
  <2>2. UncorkNow(c) = R
    BY <1>0, <1>1, <1>3 DEF UncorkNow, IsOpen, UncorkedNet
  <2> HIDE DEF R
  <2> QED
    BY <1>1, <1>3, <2>1, <2>2 DEF StillOpen
<1>4. CASE S.socket[c].at = "open" /\ S.corked # c
  <2>1. UncorkNow(c) = S
    BY <1>1, <1>4 DEF UncorkNow, IsOpen, Uncork, Result
  <2>2. Goes(S, S, Sockets, WsTokens, c)
    BY <1>2 DEF Goes, Others, CorkLeft
  <2> QED
    BY <1>1, <1>2, <1>4, <2>1, <2>2
<1>5. CASE S.socket[c].at # "open"
  <2> DEFINE R == UncorkClosed(S)
  <2>1. Goes(S, R, Sockets, WsTokens, c) /\ R.corked = NoConn /\ R.cork = <<>> /\ R.socket = S.socket
    BY ONLY c \in Sockets, SocketsAre, <1>2, <1>5, ReleaseSane
  <2>2. UncorkNow(c) = R
    BY <1>1, <1>5 DEF UncorkNow, IsOpen
  <2> HIDE DEF R
  <2> QED
    BY <1>1, <2>1, <2>2
<1> QED
  BY <1>3, <1>4, <1>5

(* The FIN that is due, after which the socket shuts down as before.         *)
LEMMA FinGoes ==
  ASSUME NEW R \in Nets(Sockets, WsTokens), NEW c \in Sockets, Sane(R, c), R.corked = NoConn,
         NEW Q, Q = IF FinDue(R, c) THEN Shutdown(R, c) ELSE R
  PROVE  /\ Goes(R, Q, Sockets, WsTokens, c) /\ Q.corked = NoConn
         /\ Q.socket[c].at = R.socket[c].at /\ Q.socket[c].timeout = R.socket[c].timeout
         /\ Q.socket[c].state \subseteq R.socket[c].state \cup {"shutdown"}
         /\ "isShuttingDown" \in Q.socket[c].state <=> "isShuttingDown" \in R.socket[c].state
<1>1. CASE FinDue(R, c) /\ R.socket[c].at = "open"
  <2> DEFINE F == Shutdown(R, c)
  <2>1. c # NoConn
    BY SocketsAre
  <2>2. /\ Goes(R, F, Sockets, WsTokens, c) /\ F.corked = R.corked
        /\ F.socket[c].at = "open" /\ "isShuttingDown" \in F.socket[c].state
        /\ F.socket[c].state = R.socket[c].state \cup {"shutdown"}
        /\ F.socket[c].timeout = R.socket[c].timeout
    BY <1>1, <2>1, SocketsAre, ShutdownSane DEF FinDue, Is
  <2>3. Q = F
    BY <1>1
  <2> HIDE DEF F
  <2> QED
    BY <1>1, <2>2, <2>3 DEF FinDue, Is
<1>2. CASE ~(FinDue(R, c) /\ R.socket[c].at = "open")
  <2>1. Q = R
    BY <1>2 DEF Shutdown, IsOpen
  <2>2. Goes(R, R, Sockets, WsTokens, c)
    BY DEF Goes, Others, CorkLeft
  <2> QED
    BY <2>1, <2>2
<1> QED
  BY <1>1, <1>2

(* Such a step keeps what was told.                                          *)
LEMMA FinKeeps ==
  ASSUME WebSocketsInv, NEW c \in Sockets, NEW R, Goes(ws, R, Sockets, WsTokens, c),
         R.corked = NoConn, R.socket[c].at = ws.socket[c].at, R.socket[c].state = ws.socket[c].state,
         R.socket[c].timeout = ws.socket[c].timeout,
         ws' = IF FinDue(R, c) THEN Shutdown(R, c) ELSE R, told' = told
  PROVE  AllTold(ws', told') /\ CorkLeft(ws, ws', c) /\ ws'.corked = NoConn
<1>1. PICK S, Q : S = ws /\ Q = ws'
  OBVIOUS
<1>2. R \in Nets(Sockets, WsTokens) /\ Sane(R, c) /\ Others(S, R, Sockets, c)
  BY <1>1 DEF Goes
<1>3. Q = IF FinDue(R, c) THEN Shutdown(R, c) ELSE R
  BY <1>1
<1>4. R.corked = NoConn
  OBVIOUS
<1>5. /\ Goes(R, Q, Sockets, WsTokens, c) /\ Q.corked = NoConn
      /\ Q.socket[c].at = R.socket[c].at /\ Q.socket[c].timeout = R.socket[c].timeout
      /\ Q.socket[c].state \subseteq R.socket[c].state \cup {"shutdown"}
      /\ "isShuttingDown" \in Q.socket[c].state <=> "isShuttingDown" \in R.socket[c].state
  BY ONLY c \in Sockets, <1>2, <1>3, <1>4, FinGoes
<1>6. Others(S, Q, Sockets, c)
  BY ONLY c \in Sockets, SocketsAre, <1>2, <1>5, OthersOn DEF Goes
<1>7. Goes(ws, ws', Sockets, WsTokens, c)
  BY <1>1, <1>5, <1>6 DEF Goes
<1>8. AllTold(ws, told) /\ told \in Tolds /\ Told(ws, told, c)
  BY DEF WebSocketsInv, AllTold
<1>9. told' \in Tolds /\ \A d \in Sockets : d # c => told'[d] = told[d]
  BY <1>8
<1>10. Told(ws', told', c)
  BY <1>1, <1>5, <1>8 DEF Told, Is
<1>11. HandlerCalled(c)
  BY <1>7, <1>8, <1>9, <1>10, ToldCalled
<1> QED
  BY <1>1, <1>5, <1>11 DEF HandlerCalled

LEMMA RestDoes == DoesOf(ws, Nothing) <=> ws.corked = NoConn /\ ws.cork = <<>>
BY DEF DoesOf, Nothing, Scripts, InParser

LEMMA DataDoneKeeps == ASSUME WebSocketsInv, DataDone PROVE WebSocketsInv'
<1> DEFINE c == does.of
           R == UncorkNow(c)
<1>1. c \in Sockets
  BY DEF DataDone, WebSocketsInv, DoesOf
<1>2. /\ Goes(ws, R, Sockets, WsTokens, c) /\ R.corked = NoConn /\ R.cork = <<>>
      /\ R.socket[c].at = ws.socket[c].at /\ R.socket[c].state = ws.socket[c].state
      /\ R.socket[c].timeout = ws.socket[c].timeout
  BY <1>1, UncorkNowIs
<1>3. ws' = IF FinDue(R, c) THEN Shutdown(R, c) ELSE R
  BY DEF DataDone
<1>4. told' = told /\ does' = Nothing /\ behavior' = behavior
  BY DEF DataDone
<1> HIDE DEF R
<1>5. AllTold(ws', told') /\ ws'.corked = NoConn
  BY <1>1, <1>2, <1>3, <1>4, FinKeeps
<1>6. ws'.cork = <<>>
  <2>1. R \in Nets(Sockets, WsTokens)
    BY <1>2 DEF Goes
  <2>2. (IF FinDue(R, c) THEN Shutdown(R, c) ELSE R).cork = R.cork
    BY <2>1 DEF Shutdown, With, Nets
  <2> QED
    BY <1>2, <1>3, <2>2
<1>7. DoesOf(ws', does')
  BY <1>4, <1>5, <1>6 DEF DoesOf, Nothing, Scripts, InParser
<1> QED
  BY <1>4, <1>5, <1>7 DEF WebSocketsInv

LEMMA UpgradeDoneKeeps == ASSUME WebSocketsInv, UpgradeDone PROVE WebSocketsInv'
<1> DEFINE c == does.of
<1>1. c \in Sockets
  BY DEF UpgradeDone, WebSocketsInv, DoesOf
<1>2. ws' = UncorkNow(c) /\ told' = told /\ does' = Nothing /\ behavior' = behavior
  BY DEF UpgradeDone
<1>3. /\ Goes(ws, ws', Sockets, WsTokens, c) /\ ws'.corked = NoConn /\ ws'.cork = <<>>
      /\ ws'.socket[c].at = ws.socket[c].at /\ ws'.socket[c].state = ws.socket[c].state
      /\ ws'.socket[c].timeout = ws.socket[c].timeout
  BY <1>1, <1>2, UncorkNowIs
<1>4. AllTold(ws, told) /\ told \in Tolds /\ Told(ws, told, c)
  BY <1>1 DEF WebSocketsInv, AllTold
<1>5. told' \in Tolds /\ Told(ws', told', c)
  BY <1>2, <1>3, <1>4 DEF Told, Is
<1>6. HandlerCalled(c)
  BY <1>1, <1>2, <1>3, <1>4, <1>5, ToldCalled
<1>7. DoesOf(ws', does')
  BY <1>2, <1>3 DEF DoesOf, Nothing, Scripts, InParser
<1> QED
  BY <1>2, <1>6, <1>7 DEF WebSocketsInv, HandlerCalled

LEMMA OnWritableKeeps == ASSUME WebSocketsInv, NEW c \in Sockets, OnWritableWs(c) PROVE WebSocketsInv'
<1>1. PICK S : S = ws
  OBVIOUS
<1>2. S \in Nets(Sockets, WsTokens) /\ Sane(S, c) /\ S.socket[c].at = "open"
  BY <1>1 DEF WebSocketsInv, AllTold, OnWritableWs, IsOpen
<1>3. S.corked = NoConn /\ S.cork = <<>>
  BY <1>1, UncorkedAtRest DEF OnWritableWs
<1> DEFINE R == Drained([S EXCEPT !.socket[c].polls = FALSE], c)
<1>4. Goes(S, R, Sockets, WsTokens, c) /\ R.corked = S.corked /\ R.cork = S.cork
  BY ONLY c \in Sockets, SocketsAre, <1>2, DrainSane
<1>5. /\ R.socket[c].at = "open" /\ R.socket[c].state = S.socket[c].state
      /\ R.socket[c].timeout = S.socket[c].timeout
  BY ONLY c \in Sockets, SocketsAre, <1>2, DrainSane
<1>6. ws' = IF FinDue(R, c) THEN Shutdown(R, c) ELSE R
  BY <1>1 DEF OnWritableWs
<1>7. told' = told /\ behavior' = behavior
  BY DEF OnWritableWs
<1>8. \/ does' = does
      \/ /\ ~Is(ws, c, "isShuttingDown")
         /\ \E script \in Scripts :
              does' = [of |-> c, in |-> "drain", rest |-> <<>>, calls |-> script]
  BY DEF OnWritableWs
<1> HIDE DEF R
<1>9. /\ Goes(ws, R, Sockets, WsTokens, c) /\ R.corked = NoConn
      /\ R.socket[c].at = ws.socket[c].at /\ R.socket[c].state = ws.socket[c].state
      /\ R.socket[c].timeout = ws.socket[c].timeout
  BY <1>1, <1>2, <1>3, <1>4, <1>5
<1>10. AllTold(ws', told') /\ ws'.corked = NoConn
  BY <1>6, <1>7, <1>9, FinKeeps
<1>11. /\ ws'.cork = <<>> /\ ws'.socket[c].at = "open"
       /\ ~Is(ws, c, "isShuttingDown") => "isShuttingDown" \notin ws'.socket[c].state
  <2>1. R \in Nets(Sockets, WsTokens) /\ Sane(R, c)
    BY <1>9 DEF Goes
  <2>2. (IF FinDue(R, c) THEN Shutdown(R, c) ELSE R).cork = R.cork
    BY <2>1 DEF Shutdown, With, Nets
  <2>3. PICK Q : Q = ws'
    OBVIOUS
  <2>4. Q = IF FinDue(R, c) THEN Shutdown(R, c) ELSE R
    BY <1>6, <2>3
  <2>5. /\ Q.socket[c].at = R.socket[c].at
        /\ "isShuttingDown" \in Q.socket[c].state <=> "isShuttingDown" \in R.socket[c].state
    BY ONLY c \in Sockets, <1>9, <2>1, <2>4, FinGoes
  <2> QED
    BY <1>3, <1>4, <1>5, <1>6, <1>9, <2>2, <2>3, <2>5 DEF Is
<1>12. DoesOf(ws', does')
  <2>1. CASE does' = does
    BY <1>10, <1>11, <2>1 DEF OnWritableWs, AtRest, DoesOf, Nothing, Scripts, InParser
  <2>2. CASE /\ ~Is(ws, c, "isShuttingDown")
             /\ \E script \in Scripts :
                  does' = [of |-> c, in |-> "drain", rest |-> <<>>, calls |-> script]
    <3>1. does'.in = "drain" /\ does'.of = c /\ does'.calls \in Scripts
      BY <2>2
    <3> QED
      BY <1>10, <1>11, <2>2, <3>1 DEF DoesOf, Is
  <2> QED
    BY <1>8, <2>1, <2>2
<1> QED
  BY <1>7, <1>10, <1>12 DEF WebSocketsInv

LEMMA ActsKeeps == ASSUME WebSocketsInv, NEW c \in Sockets, Acts(c) PROVE WebSocketsInv'
<1>1. ws' = ws /\ told' = told /\ behavior' = behavior /\ ParsesOn(c)
  BY DEF Acts
<1>2. does'.in = "app" /\ does'.of = c /\ does'.calls \in Scripts
  BY DEF Acts
<1>3. ws.corked = NoConn /\ ws.cork = <<>>
  BY UncorkedAtRest DEF Acts
<1>4. DoesOf(ws', does')
  BY <1>1, <1>2, <1>3 DEF DoesOf, ParsesOn, IsOpen, Is
<1> QED
  BY <1>1, <1>4 DEF WebSocketsInv

LEMMA CallsDoneKeeps == ASSUME WebSocketsInv, CallsDone PROVE WebSocketsInv'
<1>1. ws' = ws /\ told' = told /\ behavior' = behavior /\ does' = Nothing
  BY DEF CallsDone
<1>2. ws.corked = NoConn /\ ws.cork = <<>>
  BY DEF CallsDone, WebSocketsInv, DoesOf, InParser
<1>3. DoesOf(ws', does')
  BY <1>1, <1>2, RestDoes DEF DoesOf, Nothing, Scripts, InParser
<1> QED
  BY <1>1, <1>3 DEF WebSocketsInv

(* A callback in which nothing is called of the application but its close    *)
(* handler.                                                                  *)
LEMMA AtRestKeeps ==
  ASSUME WebSocketsInv, AtRest, NEW c \in Sockets, HandlerCalled(c), does' = does, behavior' = behavior
  PROVE  WebSocketsInv'
<1>1. ws.corked = NoConn /\ ws.cork = <<>>
  BY UncorkedAtRest
<1>2. ws'.corked = NoConn /\ ws'.cork = <<>>
  BY <1>1, SocketsAre DEF HandlerCalled, CorkLeft
<1>3. DoesOf(ws', does')
  BY <1>2 DEF AtRest, DoesOf, Nothing, Scripts, InParser
<1> QED
  BY <1>3 DEF WebSocketsInv, HandlerCalled

LEMMA ClosedKeeps ==
  ASSUME WebSocketsInv, AtRest, NEW c \in Sockets, ws.socket[c].at = "open", CloseWs(c),
         does' = does, behavior' = behavior
  PROVE  WebSocketsInv'
<1>1. HandlerCalled(c)
  BY CloseStep DEF WebSocketsInv
<1> QED
  BY <1>1, AtRestKeeps

LEMMA ReadsKeeps == ASSUME WebSocketsInv, NEW c \in Sockets, ReadsWs(c) PROVE WebSocketsInv'
<1>1. PICK S, t, R, u : S = ws /\ t = told /\ R = Read(ws, c) /\ u = told'
  OBVIOUS
<1>2. S \in Nets(Sockets, WsTokens) /\ Sane(S, c) /\ S.socket[c].kernel # <<>> /\ R = Read(S, c)
  BY <1>1 DEF WebSocketsInv, AllTold, ReadsWs
<1>3. Goes(S, R, Sockets, WsTokens, c) /\ R.corked = S.corked /\ R.cork = S.cork
  BY ONLY c \in Sockets, SocketsAre, <1>2, ReadSane
<1>9. SameControl(S.socket[c], R.socket[c])
  BY ONLY c \in Sockets, SocketsAre, <1>2, ReadSane
<1>4. /\ R.socket[c].at = S.socket[c].at /\ R.socket[c].state = S.socket[c].state
      /\ R.socket[c].timeout = S.socket[c].timeout
  BY ONLY <1>9 DEF SameControl
<1>5. ws' = R /\ told' = told /\ does' = does /\ behavior' = behavior
  BY <1>1 DEF ReadsWs
<1>6. AllTold(ws, told) /\ told \in Tolds /\ Told(ws, told, c) /\ DoesOf(ws, does)
  BY DEF WebSocketsInv, AllTold
<1>7. told' \in Tolds /\ Told(ws', told', c) /\ Goes(ws, ws', Sockets, WsTokens, c)
  BY <1>1, <1>3, <1>4, <1>5, <1>6 DEF Told, Is
<1>8. HandlerCalled(c)
  BY <1>5, <1>6, <1>7, ToldCalled
<1>11. \A d \in Sockets : ws'.socket[d].at = ws.socket[d].at /\ ws'.socket[d].state = ws.socket[d].state
  BY <1>1, <1>3, <1>4, <1>5 DEF Goes, Others
<1>10. DoesOf(ws', does')
  <2>1. ws'.corked = ws.corked /\ ws'.cork = ws.cork
    BY <1>1, <1>3, <1>5
  <2>2. does.calls # <<>> => does.in # "none"
    BY <1>6 DEF DoesOf, Nothing
  <2> QED
    BY <1>5, <1>6, <1>11, <2>1, <2>2 DEF DoesOf, Is
<1> QED
  BY <1>5, <1>8, <1>10 DEF WebSocketsInv, HandlerCalled

LEMMA PublishKeeps == ASSUME WebSocketsInv, NEW c \in Sockets, PublishWs(c) PROVE WebSocketsInv'
<1>0. PICK no \in BOOLEAN : no = FALSE
  OBVIOUS
<1>1. PICK on \in BOOLEAN : on = TRUE
  OBVIOUS
<1>2. PICK S, t, src : S = ws /\ t = told /\ src = Parts(c, "topic")
  OBVIOUS
<1>3. /\ src \in Seq(WsTokens) /\ AllTold(S, t) /\ S.corked = NoConn /\ S.cork = <<>>
      /\ S.socket[c].at = "open" /\ "isShuttingDown" \notin S.socket[c].state
  BY <1>2, PartsIs, UncorkedAtRest DEF WebSocketsInv, AllTold, PublishWs, ParsesOn, IsOpen, Is
<1>4. /\ S \in Nets(Sockets, WsTokens) /\ Sane(S, c) /\ Told(S, t, c) /\ t \in Tolds
      /\ "shutdown" \notin S.socket[c].state /\ InTurn(S, c)
  BY <1>3, SocketsAre DEF AllTold, Sane, InTurn
<1> DEFINE r == Write(S, c, src, no)
           R == Wrote(r, c, src, no)
           A == Arm(R, c, on)
<1>5. StillOpen(S, R, Sockets, WsTokens, c)
  BY ONLY c \in Sockets, SocketsAre, no \in BOOLEAN, <1>0, <1>3, <1>4, WrittenSane
<1>6. \/ CloseWs(c)
      \/ (ws' = R \/ ws' = A) /\ told' = [told EXCEPT ![c].sends = @ + 1]
  BY <1>0, <1>1, <1>2 DEF PublishWs
<1>7. AtRest /\ does' = does /\ behavior' = behavior
  BY DEF PublishWs
<1> HIDE DEF R
<1>8. CASE CloseWs(c)
  BY <1>2, <1>3, <1>7, <1>8, ClosedKeeps
<1>9. CASE (ws' = R \/ ws' = A) /\ told' = [told EXCEPT ![c].sends = @ + 1]
  <2>1. /\ told' \in Tolds /\ \A d \in Sockets : d # c => told'[d] = told[d]
        /\ told'[c].closes = told[c].closes /\ told'[c].late = told[c].late
    BY <1>2, <1>4, <1>9 DEF Tolds
  <2>2. PICK u : u = told'
    OBVIOUS
  <2>3. /\ Goes(S, R, Sockets, WsTokens, c) /\ R.socket[c].at = "open"
        /\ R.socket[c].state = S.socket[c].state /\ R.socket[c].timeout = S.socket[c].timeout
    BY ONLY <1>5 DEF StillOpen
  <2>11. u[c].closes = t[c].closes /\ u[c].late = t[c].late
    BY <1>2, <2>1, <2>2
  <2>12. Told(S, t, c)
    BY <1>4
  <2>4. Told(R, u, c)
    <3>1. ~u[c].late
      BY ONLY <2>11, <2>12, Zenon DEF Told
    <3>2. u[c].closes = IF R.socket[c].at = "closed" \/ Is(R, c, "isShuttingDown") THEN 1 ELSE 0
      <4>1. t[c].closes = IF S.socket[c].at = "closed" \/ Is(S, c, "isShuttingDown") THEN 1 ELSE 0
        BY ONLY <2>12 DEF Told
      <4>2. Is(R, c, "isShuttingDown") <=> Is(S, c, "isShuttingDown")
        BY ONLY <2>3 DEF Is
      <4> QED
        BY <1>3, <2>3, <2>11, <4>1, <4>2
    <3>3. /\ R.socket[c].state \subseteq {"isShuttingDown", "shutdown"}
          /\ Is(R, c, "isShuttingDown") => R.socket[c].timeout
          /\ R.socket[c].at # "none"
      BY ONLY <2>3, <2>12 DEF Told, Is
    <3> QED
      BY ONLY <3>1, <3>2, <3>3 DEF Told
  <2>5. u \in Tolds /\ \A d \in Sockets : d # c => u[d] = t[d]
    BY <1>2, <2>1, <2>2
  <2>6. AllTold(R, u)
    BY ONLY c \in Sockets, <1>3, <2>3, <2>4, <2>5, ToldStep
  <2>7. CorkLeft(S, R, c)
    BY ONLY <2>3 DEF Goes, Others
  <2>8. AllTold(A, u) /\ A.corked = R.corked /\ A.cork = R.cork
    BY ONLY c \in Sockets, on \in BOOLEAN, <1>1, <2>6, ArmTold
  <2> HIDE DEF A
  <2>9. CorkLeft(S, A, c)
    BY ONLY <2>7, <2>8 DEF CorkLeft
  <2>10. HandlerCalled(c)
    BY <1>2, <1>9, <2>2, <2>6, <2>7, <2>8, <2>9 DEF HandlerCalled
  <2> QED
    BY <1>7, <2>10, AtRestKeeps
<1> QED
  BY <1>6, <1>8, <1>9

LEMMA NextKeepsWs == WebSocketsInv /\ [WebSocketsNext]_webSocketVars => WebSocketsInv'
<1> SUFFICES ASSUME WebSocketsInv, [WebSocketsNext]_webSocketVars PROVE WebSocketsInv'
  OBVIOUS
<1>1. CASE HandlerRuns
  BY <1>1, MessageKeeps, PongKeeps, CloseFrameKeeps, HandlerCallsKeeps, DataDoneKeeps,
     UpgradeDoneKeeps, CallsDoneKeeps DEF HandlerRuns
<1>2. ASSUME NEW c \in Sockets,
             Upgrade(c) \/ OnFrames(c) \/ OnWritableWs(c) \/ Acts(c) \/ PublishWs(c) \/ ReadsWs(c)
      PROVE  WebSocketsInv'
  BY <1>2, UpgradeKeeps, OnFramesKeeps, OnWritableKeeps, ActsKeeps, PublishKeeps, ReadsKeeps
<1>3. ASSUME NEW c \in Sockets, OnEndWs(c) \/ OnTimeoutWs(c) PROVE WebSocketsInv'
  <2>1. AtRest /\ ws.socket[c].at = "open" /\ CloseWs(c) /\ does' = does /\ behavior' = behavior
    BY <1>3 DEF OnEndWs, OnTimeoutWs, IsOpen
  <2> QED
    BY <2>1, ClosedKeeps
<1>4. CASE UNCHANGED webSocketVars
  BY <1>4 DEF webSocketVars, wsVars, WebSocketsInv, AllTold, DoesOf, Told, Is
<1> QED
  BY <1>1, <1>2, <1>3, <1>4 DEF WebSocketsNext

(* The sockets, the calls and the callback of the websockets agree, always.  *)
THEOREM WebSocketsInvariant == WebSocketsSpec => []WebSocketsInv
<1>1. WebSocketsInit => WebSocketsInv
  BY InitTold
<1>2. WebSocketsInv /\ [WebSocketsNext]_webSocketVars => WebSocketsInv'
  BY NextKeepsWs
<1> QED
  BY <1>1, <1>2, PTL DEF WebSocketsSpec

LEMMA CloseTold == WebSocketsInv => CloseToldOnce
BY DEF WebSocketsInv, AllTold, Told, CloseToldOnce

(* The application is told of every close of a websocket, once, and is not   *)
(* called for it afterwards, whoever closes it: the client, its timeout, a   *)
(* close or end in one of its own callbacks (WebSocketContext on_close).     *)
THEOREM CloseIsToldOnce == WebSocketsSpec => []CloseToldOnce
<1>1. WebSocketsInv => CloseToldOnce
  BY CloseTold
<1> QED
  BY <1>1, WebSocketsInvariant, PTL

LEMMA FinLast ==
  ASSUME WebSocketsInv PROVE FinComesLast
<1> SUFFICES ASSUME NEW c \in Sockets \ ws.torn, IsOpen(ws, c)
             PROVE  /\ StreamRight(ws, c)
                    /\ Is(ws, c, "shutdown") =>
                         Is(ws, c, "isShuttingDown") /\ ws.socket[c].wrote = ws.socket[c].kernel
  BY DEF FinComesLast
<1>1. PICK S : S = ws
  OBVIOUS
<1>2. S \in Nets(Sockets, WsTokens) /\ Sane(S, c) /\ c \notin S.torn /\ S.socket[c].at = "open"
  <2>1. c \in Sockets /\ c \notin ws.torn /\ ws.socket[c].at = "open"
    BY DEF IsOpen
  <2>2. AllTold(S, told)
    BY <1>1 DEF WebSocketsInv
  <2> QED
    BY <1>1, <2>1, <2>2 DEF AllTold
<1>3. S.socket[c].right /\ S.socket[c].wrote = Coming(S, c)
  BY <1>2 DEF Sane
<1>4. S.socket[c].kernel \in Seq(WsTokens)
  BY <1>2, NetFields
<1>5. StreamRight(S, c)
  BY <1>2, StreamKept
<1>6. ASSUME "shutdown" \in S.socket[c].state
      PROVE  "isShuttingDown" \in S.socket[c].state /\ S.socket[c].wrote = S.socket[c].kernel
  <2>1. "isShuttingDown" \in S.socket[c].state /\ S.socket[c].buffer = <<>> /\ S.corked # c
    BY <1>2, <1>6 DEF Sane
  <2>2. Cat(S.socket[c].kernel, <<>>) = S.socket[c].kernel
    BY <1>4, CatIs
  <2> QED
    BY <1>3, <2>1, <2>2 DEF Coming, Out
<1> QED
  BY <1>1, <1>5, <1>6 DEF Is

(* What is sent on an open websocket comes to its client whole and in order, *)
(* and its FIN only after that, although end, on_writable and the end of a   *)
(* cork may each be the one to send it (WebSocket end, WebSocketContext).    *)
THEOREM FinIsLast == WebSocketsSpec => []FinComesLast
<1>1. WebSocketsInv => FinComesLast
  BY FinLast
<1> QED
  BY <1>1, WebSocketsInvariant, PTL

(* How much a socket may send: what its callback has still to parse and to   *)
(* call, a frame at most for each call and two for each frame it parses.     *)
FramesRead == {"message", "ping", "close"}
CallsDue(d, c) == IF d.of = c THEN Len(d.calls) + 2 * Len(d.rest) ELSE 0
SendsInv ==
  /\ does.of \in Sockets \cup {NoConn} /\ does.rest \in Seq(FramesRead)
  /\ \A c \in Sockets : told[c].sends + CallsDue(does, c) <= MaxSends + 4

LEMMA ScriptLength ==
  \A s \in Scripts \cup {<<"big">>} :
    Len(s) \in 0..2 /\ (s # <<>> => Len(s) > 0 /\ Len(Tail(s)) = Len(s) - 1)
BY DEF Scripts

LEMMA NothingDue ==
  Nothing.of = NoConn /\ Nothing.rest = <<>> /\ \A c \in Sockets : CallsDue(Nothing, c) = 0
BY SocketsAre DEF CallsDue, Nothing

(* A call sends one frame at most, of its own socket.                        *)
OneMore(c) ==
  /\ \A d \in Sockets : d # c => told'[d].sends = told[d].sends
  /\ told'[c].sends \in {told[c].sends, told[c].sends + 1}

LEMMA CallSends ==
  ASSUME told \in Tolds, NEW c \in Sockets,
         End(c) \/ CloseWs(c) \/ told' = told \/ told' = [told EXCEPT ![c].sends = @ + 1]
  PROVE  OneMore(c)
BY DEF Tolds, OneMore, End, CloseWs

LEMMA DueNat ==
  ASSUME NEW S, NEW d, DoesOf(S, d), d.rest \in Seq(FramesRead), NEW c \in Sockets
  PROVE  CallsDue(d, c) \in Nat
<1>1. Len(d.calls) \in Nat
  BY ScriptLength DEF DoesOf
<1>2. Len(d.rest) \in Nat
  BY LenProperties
<1>3. \A i, j \in Nat : i + 2 * j \in Nat
  OBVIOUS
<1>4. Len(d.calls) + 2 * Len(d.rest) \in Nat
  BY ONLY <1>1, <1>2, <1>3
<1> QED
  BY <1>4 DEF CallsDue

LEMMA StepSends ==
  ASSUME WebSocketsInv, WebSocketsInv', SendsInv, NEW c \in Sockets, OneMore(c),
         does'.of = c \/ does' = Nothing \/ does' = does, does'.rest \in Seq(FramesRead),
         \/ told'[c].sends + CallsDue(does', c) <= told[c].sends + CallsDue(does, c)
         \/ told'[c].sends + CallsDue(does', c) <= MaxSends + 4
  PROVE  SendsInv'
<1>1. ASSUME NEW d \in Sockets PROVE told'[d].sends + CallsDue(does', d) <= MaxSends + 4
  <2>1. told[d].sends \in Nat /\ told[d].sends + CallsDue(does, d) <= MaxSends + 4
    BY DEF SendsInv, WebSocketsInv, AllTold, Tolds
  <2>2. MaxSends \in Nat /\ CallsDue(does, d) \in Nat
    BY WebSocketsAssumption, DueNat DEF WebSocketsInv, SendsInv
  <2>3. told'[d].sends \in Nat
    BY DEF WebSocketsInv, AllTold, Tolds
  <2>4. DoesOf(ws', does')
    BY DEF WebSocketsInv
  <2>5. CallsDue(does', d) \in Nat
    BY <2>4, DueNat
  <2>6. CASE d = c
    BY <2>1, <2>2, <2>3, <2>5, <2>6, SMTT(40)
  <2>7. CASE d # c
    <3>1. told'[d].sends = told[d].sends
      BY <2>7 DEF OneMore
    <3>2. CallsDue(does', d) = CallsDue(does, d) \/ CallsDue(does', d) = 0
      BY <2>7, NothingDue DEF CallsDue
    <3> QED
      BY <2>1, <2>2, <3>1, <3>2
  <2> QED
    BY <2>6, <2>7
<1>2. does'.of \in Sockets \cup {NoConn}
  BY NothingDue DEF SendsInv
<1> QED
  BY <1>1, <1>2 DEF SendsInv

(* A callback of c is entered, with what it may still send.                  *)
LEMMA EntersSends ==
  ASSUME WebSocketsInv, WebSocketsInv', SendsInv, NEW c \in Sockets, OneMore(c),
         NEW in, NEW rest \in Seq(FramesRead), Len(rest) <= 2,
         NEW calls \in Scripts, rest = <<>> \/ calls = <<>>,
         does' = [of |-> c, in |-> in, rest |-> rest, calls |-> calls],
         \/ told[c].sends < MaxSends /\ told'[c].sends = told[c].sends
         \/ told[c].sends = 0 /\ rest = <<>>
  PROVE  SendsInv'
<1> DEFINE due == CallsDue(does', c)
<1>0. Len(rest) \in Nat /\ (rest = <<>> => Len(rest) = 0) /\ (calls = <<>> => Len(calls) = 0)
  BY LenProperties, EmptySeq
<1>1. Len(calls) \in 0..2 /\ Len(rest) \in 0..2 /\ (Len(calls) = 0 \/ Len(rest) = 0)
  <2>1. Len(calls) \in 0..2
    BY ScriptLength
  <2> DEFINE m == Len(rest)
  <2>2. m \in Nat /\ m <= 2
    BY <1>0
  <2> HIDE DEF m
  <2>3. m \in 0..2
    BY ONLY <2>2
  <2> QED
    BY <1>0, <2>1, <2>3 DEF m
<1>2. CallsDue(does', c) = Len(calls) + 2 * Len(rest) /\ does'.of = c /\ does'.rest = rest
  BY DEF CallsDue
<1>3. told[c].sends \in Nat /\ MaxSends \in Nat
  BY WebSocketsAssumption DEF WebSocketsInv, AllTold, Tolds
<1>4. rest = <<>> => Len(rest) = 0
  BY EmptySeq
<1>5. told'[c].sends \in {told[c].sends, told[c].sends + 1}
  BY DEF OneMore
<1>6. told'[c].sends + due <= MaxSends + 4
  <2>1. due = Len(calls) + 2 * Len(rest)
    BY <1>2
  <2> DEFINE k == Len(calls)  m == Len(rest)
  <2>a. due = k + 2 * m /\ k \in 0..2 /\ m \in 0..2 /\ (k = 0 \/ m = 0) /\ (rest = <<>> => m = 0)
    BY <1>1, <1>4, <2>1
  <2> HIDE DEF due, k, m
  <2>2. due \in 0..4 /\ (rest = <<>> => due <= 2)
    BY ONLY <2>a
  <2> QED
    BY <1>3, <1>5, <2>2
<1> QED
  BY <1>2, <1>6, StepSends

(* A callback that only calls: one script.                                   *)
LEMMA EntersCalls ==
  ASSUME WebSocketsInv, WebSocketsInv', SendsInv, NEW c \in Sockets, OneMore(c),
         NEW calls \in Scripts,
         does'.of = c, does'.rest = <<>>, does'.calls = calls,
         told[c].sends <= MaxSends, told'[c].sends = told[c].sends \/ told[c].sends = 0
  PROVE  SendsInv'
<1> DEFINE due == CallsDue(does', c)
<1>1. Len(calls) \in 0..2 /\ does'.rest \in Seq(FramesRead) /\ Len(does'.rest) = 0
  BY ScriptLength, EmptySeq
<1>2. due = Len(calls) + 2 * Len(does'.rest)
  BY DEF CallsDue
<1>3. told[c].sends \in Nat /\ MaxSends \in Nat
  BY WebSocketsAssumption DEF WebSocketsInv, AllTold, Tolds
<1>4. told'[c].sends \in {told[c].sends, told[c].sends + 1}
  BY DEF OneMore
<1>5. told'[c].sends + due <= MaxSends + 4
  <2> HIDE DEF due
  <2>1. due \in 0..2
    BY <1>1, <1>2
  <2> QED
    BY <1>3, <1>4, <2>1
<1> QED
  BY <1>1, <1>5, StepSends

(* Of the callback that runs, a frame was parsed or a call was made.         *)
LEMMA RunsSends ==
  ASSUME WebSocketsInv, WebSocketsInv', SendsInv, does.in # "none", OneMore(does.of),
         does'.of = does.of, does'.rest \in Seq(FramesRead),
         \/ /\ Len(does'.rest) = Len(does.rest) - 1 /\ does.calls = <<>>
            /\ does'.calls = <<>> \/ told'[does.of].sends = told[does.of].sends
         \/ does'.rest = does.rest /\ does.calls # <<>> /\ does'.calls = Tail(does.calls)
  PROVE  SendsInv'
<1> DEFINE c == does.of
<1>1. c \in Sockets
  BY DEF WebSocketsInv, DoesOf
<1>2. /\ does.calls \in Scripts \cup {<<"big">>} /\ does'.calls \in Scripts \cup {<<"big">>}
  BY DEF WebSocketsInv, DoesOf
<1>3. Len(does.rest) \in Nat /\ Len(does'.rest) \in Nat
  BY LenProperties DEF SendsInv
<1>4. /\ CallsDue(does, c) = Len(does.calls) + 2 * Len(does.rest)
      /\ CallsDue(does', c) = Len(does'.calls) + 2 * Len(does'.rest)
  BY DEF CallsDue
<1>5. told[c].sends \in Nat
  BY <1>1 DEF WebSocketsInv, AllTold, Tolds
<1>6. told'[c].sends \in {told[c].sends, told[c].sends + 1}
  BY DEF OneMore
<1>7. told'[c].sends + CallsDue(does', c) <= told[c].sends + CallsDue(does, c)
  <2> DEFINE due == CallsDue(does, c)  due1 == CallsDue(does', c)  m == Len(does.rest)
             k == Len(does.calls)  k1 == Len(does'.calls)
             s == told[c].sends  s1 == told'[c].sends
  <2>1. CASE does'.rest = does.rest /\ does.calls # <<>> /\ does'.calls = Tail(does.calls)
    <3>1. Len(does.calls) \in 0..2 /\ Len(does'.calls) = Len(does.calls) - 1
      BY <1>2, <2>1, ScriptLength
    <3>2. due = k + 2 * m /\ due1 = k1 + 2 * m /\ m \in Nat /\ k \in 0..2 /\ k1 = k - 1
      BY <1>3, <1>4, <2>1, <3>1
    <3>3. s \in Nat /\ s1 \in {s, s + 1}
      BY <1>5, <1>6
    <3> HIDE DEF due, due1, m, k, k1, s, s1
    <3>4. s1 + due1 <= s + due
      BY ONLY <3>2, <3>3
    <3> QED
      BY <3>4 DEF due, due1, s, s1
  <2>2. CASE /\ Len(does'.rest) = Len(does.rest) - 1 /\ does.calls = <<>>
             /\ does'.calls = <<>> \/ told'[does.of].sends = told[does.of].sends
    <3>1. Len(does.calls) = 0 /\ Len(does'.calls) \in 0..2 /\ (does'.calls = <<>> => Len(does'.calls) = 0)
      BY <1>2, <2>2, ScriptLength, EmptySeq
    <3>2. due = k + 2 * m /\ due1 = k1 + 2 * (m - 1) /\ m \in Nat /\ k = 0 /\ k1 \in 0..2
      BY <1>3, <1>4, <2>2, <3>1
    <3>3. s \in Nat /\ s1 \in {s, s + 1} /\ (k1 = 0 \/ s1 = s)
      BY <1>5, <1>6, <2>2, <3>1
    <3> HIDE DEF due, due1, m, k, k1, s, s1
    <3>4. s1 + due1 <= s + due
      BY ONLY <3>2, <3>3
    <3> QED
      BY <3>4 DEF due, due1, s, s1
  <2> QED
    BY <2>1, <2>2
<1> QED
  BY <1>1, <1>7, StepSends

LEMMA ParsedRest ==
  ASSUME WebSocketsInv, SendsInv, does.rest # <<>>
  PROVE  Tail(does.rest) \in Seq(FramesRead) /\ Len(Tail(does.rest)) = Len(does.rest) - 1
BY HeadTailProperties DEF SendsInv

LEMMA HandlersSend ==
  ASSUME WebSocketsInv, WebSocketsInv', SendsInv, HandlerRuns
  PROVE  SendsInv'
<1> DEFINE c == does.of
<1>0. told \in Tolds /\ does.rest \in Seq(FramesRead)
  BY DEF WebSocketsInv, AllTold, SendsInv
<1>1. CASE MessageHandler
  <2>1. /\ does.in = "data" /\ does.calls = <<>> /\ does.rest # <<>>
        /\ does'.of = c /\ does'.rest = Tail(does.rest)
    BY <1>1 DEF MessageHandler, Parsed
  <2>2. \A d \in Sockets : told'[d].sends = told[d].sends
    BY <1>0, <1>1 DEF MessageHandler, Tolds
  <2>3. c \in Sockets
    BY <2>1 DEF WebSocketsInv, DoesOf
  <2>4. OneMore(c) /\ told'[c].sends = told[c].sends
    BY <2>2, <2>3 DEF OneMore
  <2> QED
    BY <2>1, <2>4, ParsedRest, RunsSends
<1>2. CASE Pong \/ CloseFrame
  <2>1. /\ does.in = "data" /\ does.calls = <<>> /\ does.rest # <<>>
        /\ does'.of = c /\ does'.rest = Tail(does.rest) /\ does'.calls = <<>>
    <3>1. DoesOf(ws, does) /\ does' = [does EXCEPT !.rest = Tail(@)] /\ Parsed
      BY <1>2 DEF Pong, CloseFrame, WebSocketsInv
    <3> QED
      BY <3>1 DEF Parsed, DoesOf
  <2>2. End(c) \/ told' = [told EXCEPT ![c].sends = @ + 1]
    BY <1>2 DEF Pong, CloseFrame
  <2>3. c \in Sockets
    BY <2>1 DEF WebSocketsInv, DoesOf
  <2>4. OneMore(c)
    BY <1>0, <2>2, <2>3, CallSends
  <2> QED
    BY <2>1, <2>4, ParsedRest, RunsSends
<1>3. CASE HandlerCalls
  <2>1. /\ does.calls # <<>> /\ does'.of = c /\ does'.rest = does.rest
        /\ does'.calls = Tail(does.calls)
    BY <1>3 DEF HandlerCalls
  <2>2. End(c) \/ CloseWs(c) \/ told' = [told EXCEPT ![c].sends = @ + 1]
    BY <1>3 DEF HandlerCalls
  <2>3. does.in # "none" /\ c \in Sockets
    BY <2>1 DEF WebSocketsInv, DoesOf, Nothing
  <2>4. OneMore(c)
    BY <1>0, <2>2, <2>3, CallSends
  <2> QED
    BY <1>0, <2>1, <2>3, <2>4, RunsSends
<1>4. CASE DataDone \/ UpgradeDone \/ CallsDone
  <2>1. told' = told /\ does' = Nothing /\ does.in # "none"
    BY <1>4 DEF DataDone, UpgradeDone, CallsDone
  <2>2. \A d \in Sockets : told'[d].sends + CallsDue(does', d) <= MaxSends + 4
    <3> TAKE d \in Sockets
    <3>1. told[d].sends + CallsDue(does, d) <= MaxSends + 4 /\ CallsDue(does', d) = 0
      BY <2>1, NothingDue DEF SendsInv
    <3>2. CallsDue(does, d) \in Nat /\ told[d].sends \in Nat /\ MaxSends \in Nat
      BY <1>0, DueNat, WebSocketsAssumption DEF WebSocketsInv, Tolds
    <3> QED
      BY <2>1, <3>1, <3>2
  <2> QED
    BY <2>1, <2>2, NothingDue, EmptySeq DEF SendsInv
<1> QED
  BY <1>1, <1>2, <1>3, <1>4 DEF HandlerRuns

LEMMA SocketsSend ==
  ASSUME WebSocketsInv, WebSocketsInv', SendsInv, NEW c \in Sockets,
         \/ Upgrade(c) \/ OnFrames(c) \/ OnWritableWs(c) \/ Acts(c)
         \/ PublishWs(c) \/ OnEndWs(c) \/ OnTimeoutWs(c) \/ ReadsWs(c)
  PROVE  SendsInv'
<1>0. /\ told \in Tolds /\ <<>> \in Seq(FramesRead) /\ Len(<<>>) = 0 /\ <<>> \in Scripts
      /\ does.rest \in Seq(FramesRead)
  BY EmptySeq DEF WebSocketsInv, AllTold, Scripts, SendsInv
<1>1. CASE Upgrade(c)
  <2>1. PICK script \in Scripts :
          does' = [of |-> c, in |-> "upgrade", rest |-> <<>>, calls |-> script]
    BY <1>0, <1>1, SMTT(40) DEF Upgrade
  <2>2. told[c].sends = 0
    BY <1>1 DEF WebSocketsInv, AllTold, Told, Upgrade
  <2>3. OneMore(c)
    BY <1>0, <1>1, CallSends DEF Upgrade
  <2>4. does'.of = c /\ does'.rest = <<>> /\ does'.calls = script /\ 0 <= MaxSends
    BY <2>1, WebSocketsAssumption
  <2> QED
    BY <2>1, <2>2, <2>3, <2>4, EntersCalls
<1>2. CASE OnFrames(c)
  <2>1. PICK data \in {<<"message">>, <<"message", "message">>, <<"ping">>, <<"close">>} :
          does' = [of |-> c, in |-> "data", rest |-> data, calls |-> <<>>]
    BY <1>2 DEF OnFrames
  <2>2. data \in Seq(FramesRead) /\ Len(data) <= 2
    <3>1. /\ <<"message">> \in Seq(FramesRead) /\ Len(<<"message">>) <= 2
          /\ <<"ping">> \in Seq(FramesRead) /\ Len(<<"ping">>) <= 2
          /\ <<"close">> \in Seq(FramesRead) /\ Len(<<"close">>) <= 2
      BY DEF FramesRead
    <3>2. <<"message", "message">> \in Seq(FramesRead) /\ Len(<<"message", "message">>) <= 2
      BY DEF FramesRead
    <3> QED
      BY <2>1, <3>1, <3>2
  <2>3. OneMore(c) /\ told' = told /\ told[c].sends < MaxSends
    BY <1>0, <1>2, CallSends DEF OnFrames
  <2> QED
    BY <1>0, <2>1, <2>2, <2>3, EntersSends
<1>3. CASE Acts(c) \/ (OnWritableWs(c) /\ does' # does)
  <2>1. /\ told' = told /\ told[c].sends < MaxSends
        /\ \E in \in {"app", "drain"}, script \in Scripts :
             does' = [of |-> c, in |-> in, rest |-> <<>>, calls |-> script]
    BY <1>3 DEF Acts, OnWritableWs
  <2>2. PICK in \in {"app", "drain"}, script \in Scripts :
          does' = [of |-> c, in |-> in, rest |-> <<>>, calls |-> script]
    BY <2>1
  <2>3. OneMore(c)
    BY <1>0, <2>1, CallSends
  <2>4. does'.of = c /\ does'.rest = <<>> /\ does'.calls = script
    BY <2>2
  <2>5. told[c].sends <= MaxSends /\ told'[c].sends = told[c].sends
    BY <1>0, <2>1, WebSocketsAssumption DEF Tolds
  <2> QED
    BY <2>2, <2>3, <2>4, <2>5, EntersCalls
<1>4. CASE PublishWs(c)
  <2>1. /\ does' = does /\ does = Nothing /\ told[c].sends < MaxSends
        /\ CloseWs(c) \/ told' = [told EXCEPT ![c].sends = @ + 1]
    BY <1>4 DEF PublishWs, AtRest
  <2>2. OneMore(c)
    BY <1>0, <2>1, CallSends
  <2>3. told[c].sends \in Nat /\ MaxSends \in Nat /\ CallsDue(does', c) = 0
    BY <1>0, <2>1, NothingDue, WebSocketsAssumption DEF Tolds
  <2>4. told'[c].sends + CallsDue(does', c) <= MaxSends + 4
    BY <2>1, <2>2, <2>3 DEF OneMore
  <2> QED
    BY <1>0, <2>1, <2>2, <2>4, StepSends
<1>5. CASE OnEndWs(c) \/ OnTimeoutWs(c) \/ ReadsWs(c)
             \/ (OnWritableWs(c) /\ does' = does)
  <2>1. does' = does /\ \A d \in Sockets : told'[d].sends = told[d].sends
    BY <1>0, <1>5 DEF OnEndWs, OnTimeoutWs, ReadsWs, OnWritableWs, CloseWs, Tolds
  <2> QED
    BY <2>1 DEF SendsInv
<1> QED
  BY <1>1, <1>2, <1>3, <1>4, <1>5

LEMMA InitSends == WebSocketsInit => SendsInv
<1> SUFFICES ASSUME WebSocketsInit PROVE SendsInv
  OBVIOUS
<1>1. does = Nothing /\ MaxSends \in Nat /\ \A c \in Sockets : told[c].sends = 0
  BY WebSocketsAssumption DEF WebSocketsInit
<1> QED
  BY <1>1, NothingDue, EmptySeq DEF SendsInv

LEMMA NextKeepsSends ==
  WebSocketsInv /\ SendsInv /\ [WebSocketsNext]_webSocketVars => SendsInv'
<1> SUFFICES ASSUME WebSocketsInv, SendsInv, [WebSocketsNext]_webSocketVars PROVE SendsInv'
  OBVIOUS
<1>1. WebSocketsInv'
  BY NextKeepsWs
<1>2. CASE UNCHANGED webSocketVars
  BY <1>2 DEF webSocketVars, wsVars, SendsInv
<1> QED
  BY <1>1, <1>2, HandlersSend, SocketsSend DEF WebSocketsNext

(* What the websockets' variables are, and that a socket which shuts down    *)
(* has its timeout: it is closed even if its client never closes it.         *)
LEMMA WsTypes == WebSocketsInv /\ SendsInv => WebSocketsTypeOK
<1> SUFFICES ASSUME WebSocketsInv, SendsInv PROVE WebSocketsTypeOK
  OBVIOUS
<1>1. PICK S : S = ws
  OBVIOUS
<1>2. S \in Nets(Sockets, WsTokens) /\ \A c \in Sockets : Told(S, told, c)
  BY <1>1 DEF WebSocketsInv, AllTold
<1>3. does.of \in Sockets \cup {NoConn}
  BY DEF SendsInv
<1>4. S.corked \in Sockets \cup {NoConn} /\ Len(S.cork) <= CorkMax /\ S.torn \subseteq Sockets
  BY <1>2 DEF Nets
<1>5. ASSUME NEW c \in Sockets
      PROVE  /\ S.socket[c].at \in {"none", "open", "closed"}
             /\ S.socket[c].state \subseteq {"isShuttingDown", "shutdown"}
             /\ Len(S.socket[c].kernel) <= RoomMax /\ told[c].sends \in 0..MaxSends + 4
             /\ Is(S, c, "isShuttingDown") => S.socket[c].timeout
  <2>1. S.socket[c] \in SocketRecords(WsTokens)
    BY <1>2, NetFields
  <2>2. told[c].sends \in Nat /\ MaxSends \in Nat /\ CallsDue(does, c) \in Nat
    BY DueNat, WebSocketsAssumption DEF WebSocketsInv, AllTold, Tolds, SendsInv
  <2>3. told[c].sends + CallsDue(does, c) <= MaxSends + 4
    BY DEF SendsInv
  <2>4. told[c].sends \in 0..MaxSends + 4
    BY <2>2, <2>3
  <2> QED
    BY <1>2, <2>1, <2>4 DEF SocketRecords, Told
<1> QED
  BY <1>1, <1>3, <1>4, <1>5 DEF WebSocketsTypeOK

THEOREM WebSocketsTypes == WebSocketsSpec => []WebSocketsTypeOK
<1>1. WebSocketsInit => WebSocketsInv /\ SendsInv
  BY InitTold, InitSends
<1>2. WebSocketsInv /\ SendsInv /\ [WebSocketsNext]_webSocketVars => WebSocketsInv' /\ SendsInv'
  BY NextKeepsWs, NextKeepsSends
<1>3. WebSocketsInv /\ SendsInv => WebSocketsTypeOK
  BY WsTypes
<1> QED
  BY <1>1, <1>2, <1>3, PTL DEF WebSocketsSpec

-----------------------------------------------------------------------------
(* HTTP *)

PieceNames == {"status", "length", "chunked", "chunk", "0", "body", "body1", "body2"}
HttpTokens == Conns \X (1..MaxRequests) \X PieceNames
Marks == {"STATUS_CALLED", "WRITE_CALLED", "END_CALLED", "PENDING"}

(* The cork buffer of an open connection goes out before its own buffer      *)
(* fills, so that a write that finds it corked does not overtake it.         *)
Fine(S, c) ==
  /\ Sane(S, c) /\ S.socket[c].state \subseteq Marks
  /\ S.socket[c].at = "open" /\ c \notin S.torn => CorkFirst(S, c)
Moves(S, R, c) == R \in Nets(Conns, HttpTokens) /\ Others(S, R, Conns, c) /\ Fine(R, c)

(* No request begins.                                                        *)
Tame(s, t) ==
  /\ t.request \in {0, s.request}
  /\ "PENDING" \in t.state => "PENDING" \in s.state /\ t.request = s.request
FineGoes(S, R, c) == Moves(S, R, c) /\ Tame(S.socket[c], R.socket[c])

LEMMA ConnsAre == Conns \subseteq Nat /\ NoConn \notin Conns
BY HttpServerAssumption

LEMMA FineOthers ==
  ASSUME NEW S, NEW R, NEW c \in Conns, Others(S, R, Conns, c),
         NEW d \in Conns, d # c, Fine(S, d)
  PROVE  Fine(R, d)
<1>1. Sane(R, d)
  BY ConnsAre, SaneOthers DEF Fine
<1>2. /\ R.socket[d] = S.socket[d] /\ d # NoConn
      /\ d \notin R.torn => d \notin S.torn
  BY ConnsAre DEF Others
<1>3. R.corked = d => S.corked = d /\ R.cork = S.cork
  BY <1>2 DEF Others, CorkLeft
<1> QED
  BY <1>1, <1>2, <1>3 DEF Fine, CorkFirst

LEMMA FineOn ==
  ASSUME NEW S, NEW R, NEW Q, NEW c \in Conns, FineGoes(S, R, c), FineGoes(R, Q, c)
  PROVE  FineGoes(S, Q, c)
<1>1. Others(S, Q, Conns, c)
  BY ConnsAre, OthersOn DEF FineGoes, Moves
<1>2. Tame(S.socket[c], Q.socket[c])
  BY DEF FineGoes, Tame
<1> QED
  BY <1>1, <1>2 DEF FineGoes, Moves

LEMMA MovesOn ==
  ASSUME NEW S, NEW R, NEW Q, NEW c \in Conns, Moves(S, R, c), Moves(R, Q, c)
  PROVE  Moves(S, Q, c)
<1>1. Others(S, Q, Conns, c)
  BY ConnsAre, OthersOn DEF Moves
<1> QED
  BY <1>1 DEF Moves

(* What HttpResponse and HttpContext change of c's socket, but no bytes.     *)
Tuned(S, R, c, t) ==
  /\ Put(S, R, Conns, HttpTokens, c, t)
  /\ t.at = S.socket[c].at /\ t.state \subseteq Marks /\ t.right = S.socket[c].right
  /\ t.wrote = S.socket[c].wrote /\ t.kernel = S.socket[c].kernel /\ t.buffer = S.socket[c].buffer

LEMMA TunedFine ==
  ASSUME NEW S \in Nets(Conns, HttpTokens), NEW c \in Conns, Fine(S, c), S.socket[c].at = "open",
         NEW R, NEW t, Tuned(S, R, c, t)
  PROVE  Moves(S, R, c) /\ R.socket[c] = t /\ R.corked = S.corked
<1>1. /\ R \in Nets(Conns, HttpTokens) /\ Others(S, R, Conns, c) /\ Coming(R, c) = Coming(S, c)
      /\ R.socket[c] = t /\ R.corked = S.corked /\ R.cork = S.cork /\ R.torn = S.torn
  BY PutOthers, PutComing DEF Put, Tuned
<1>2. t.at = "open" /\ "shutdown" \notin t.state
  BY DEF Tuned, Marks
<1>3. Sane(R, c)
  BY <1>1, <1>2 DEF Fine, Sane, Tuned
<1>4. Fine(R, c)
  BY <1>1, <1>3 DEF Fine, CorkFirst, Tuned
<1> QED
  BY <1>1, <1>4 DEF Moves

(* A write, whatever of it is taken.                                         *)
WriteFine(S, r, R, c, src) ==
  /\ FineGoes(S, R, c) /\ SameControl(S.socket[c], R.socket[c])
  /\ r.written \in 0..Len(src) /\ r.failed \in BOOLEAN

LEMMA HttpWriteIs ==
  ASSUME NEW S \in Nets(Conns, HttpTokens), NEW c \in Conns, Fine(S, c), S.socket[c].at = "open",
         NEW src \in Seq(HttpTokens), NEW optionally \in BOOLEAN
  PROVE  LET r == Write(S, c, src, optionally)
         IN WriteFine(S, r, Wrote(r, c, src, optionally), c, src)
<1> DEFINE r == Write(S, c, src, optionally)
           R == Wrote(r, c, src, optionally)
           s == r.net.socket[c]
           t == [s EXCEPT !.wrote = Cat(@, Part(r, src, optionally))]
<1>1. Reports(r, src)
  BY ConnsAre, WriteIs
<1>2. r.net \in Nets(Conns, HttpTokens) /\ Keeps(S, r.net, Conns, c)
  BY ConnsAre, WriteIs
<1>3. CorkLeft(S, r.net, c)
  BY ConnsAre, WriteIs
<1>4. InTurn(S, c) => CorkFirst(r.net, c)
  BY ConnsAre, WriteIs
<1>5. InTurn(S, c) /\ c \notin r.net.torn => Coming(r.net, c) = Cat(Coming(S, c), Part(r, src, optionally))
  BY ConnsAre, WriteIs
<1> HIDE DEF r
<1>6. Put(r.net, R, Conns, HttpTokens, c, t)
  BY <1>1, <1>2, WroteIs
<1>7. s \in SocketRecords(HttpTokens)
  BY <1>2, NetFields
<1>8. /\ t.at = s.at /\ t.state = s.state /\ t.right = s.right
      /\ t.wrote = Cat(s.wrote, Part(r, src, optionally)) /\ t.kernel = s.kernel /\ t.buffer = s.buffer
      /\ t.offset = s.offset /\ t.timeout = s.timeout /\ t.on = s.on /\ t.request = s.request
  BY <1>7 DEF SocketRecords
<1>9. SameControl(S.socket[c], s) /\ s.right = S.socket[c].right /\ s.wrote = S.socket[c].wrote
  BY <1>2 DEF Keeps, SameButBuffers, SameControl
<1> HIDE DEF t, R
<1>10. /\ R \in Nets(Conns, HttpTokens) /\ R.socket[c] = t /\ R.torn = r.net.torn
       /\ R.corked = r.net.corked /\ R.cork = r.net.cork
       /\ Others(r.net, R, Conns, c) /\ Coming(R, c) = Coming(r.net, c)
  BY <1>6, <1>8, PutOthers, PutComing DEF Put
<1>11. Others(S, R, Conns, c)
  <2>1. Others(S, r.net, Conns, c)
    BY <1>2, <1>3, KeepsOthers
  <2> QED
    BY <1>10, <2>1, ConnsAre, OthersOn
<1>12. c \notin R.torn => c \notin S.torn
  BY <1>11 DEF Others
<1>13. c \notin S.torn => InTurn(S, c)
  <2>1. S.socket[c].buffer = <<>> => Drained(S, c).socket[c].buffer = <<>>
    BY DrainedIs
  <2> QED
    BY <2>1 DEF InTurn, Fine, CorkFirst
<1>14. SameControl(S.socket[c], R.socket[c])
  BY <1>8, <1>9, <1>10 DEF SameControl
<1>15. /\ R.socket[c].at = "open" /\ R.socket[c].state \subseteq Marks
       /\ "shutdown" \notin R.socket[c].state
  BY <1>14 DEF SameControl, Fine, Marks
<1>16. c \notin R.torn => R.socket[c].right /\ R.socket[c].wrote = Coming(R, c)
  <2> SUFFICES ASSUME c \notin R.torn
               PROVE  R.socket[c].right /\ R.socket[c].wrote = Coming(R, c)
    OBVIOUS
  <2>1. S.socket[c].right /\ S.socket[c].wrote = Coming(S, c)
    BY <1>12 DEF Fine, Sane
  <2> QED
    BY <1>5, <1>8, <1>9, <1>10, <1>12, <1>13, <2>1
<1>17. c \notin R.torn => CorkFirst(R, c)
  BY <1>4, <1>8, <1>10, <1>12, <1>13 DEF CorkFirst
<1>18. Sane(R, c)
  BY <1>15, <1>16 DEF Sane
<1>19. Fine(R, c)
  BY <1>15, <1>17, <1>18 DEF Fine
<1>20. r.written \in 0..Len(src) /\ r.failed \in BOOLEAN
  BY <1>1 DEF Reports
<1>22. Tame(S.socket[c], R.socket[c])
  BY <1>14 DEF SameControl, Tame
<1>21. WriteFine(S, r, R, c, src)
  BY <1>10, <1>11, <1>14, <1>19, <1>20, <1>22 DEF WriteFine, FineGoes, Moves
<1> QED
  BY <1>21 DEF r, R

(* Closing, and reading.                                                     *)
LEMMA FineClose ==
  ASSUME NEW S \in Nets(Conns, HttpTokens), NEW c \in Conns
  PROVE  LET R == CloseConn(S, c)
         IN /\ FineGoes(S, R, c) /\ R.corked = S.corked /\ R.cork = S.cork
            /\ R.socket[c].at = "closed" /\ R.socket[c].state = {} /\ R.socket[c].on = {}
            /\ R.socket[c].offset = 0 /\ R.socket[c].request = 0
<1> DEFINE R == CloseConn(S, c)
<1>1. Goes(S, R, Conns, HttpTokens, c) /\ R.corked = S.corked /\ R.cork = S.cork
  BY CloseSane
<1>2. R.socket[c] = [NewSocket EXCEPT !.at = "closed"]
  BY DEF CloseConn, Nets
<1>3. /\ R.socket[c].at = "closed" /\ R.socket[c].state = {} /\ R.socket[c].on = {}
      /\ R.socket[c].offset = 0 /\ R.socket[c].request = 0
  BY <1>2 DEF NewSocket
<1> HIDE DEF R
<1>4. FineGoes(S, R, c)
  BY <1>1, <1>3 DEF Goes, FineGoes, Moves, Fine, Tame
<1> QED
  BY <1>1, <1>3, <1>4 DEF R

LEMMA FineRead ==
  ASSUME NEW S \in Nets(Conns, HttpTokens), NEW c \in Conns, Fine(S, c), S.socket[c].kernel # <<>>
  PROVE  LET R == Read(S, c)
         IN /\ FineGoes(S, R, c) /\ R.corked = S.corked /\ R.cork = S.cork
            /\ SameControl(S.socket[c], R.socket[c])
<1> DEFINE R == Read(S, c)
<1>0. Sane(S, c)
  BY DEF Fine
<1>1. Goes(S, R, Conns, HttpTokens, c) /\ R.corked = S.corked /\ R.cork = S.cork
  BY <1>0, ConnsAre, ReadSane
<1>2. SameControl(S.socket[c], R.socket[c]) /\ R.socket[c].buffer = S.socket[c].buffer
  BY <1>0, ConnsAre, ReadSane
<1> HIDE DEF R
<1>3. R.socket[c].state = S.socket[c].state /\ R.socket[c].at = S.socket[c].at
  BY <1>2 DEF SameControl
<1>4. c \notin R.torn => c \notin S.torn
  BY <1>1 DEF Goes, Others
<1>5. Fine(R, c)
  BY <1>1, <1>2, <1>3, <1>4 DEF Goes, Fine, CorkFirst
<1>6. Tame(S.socket[c], R.socket[c])
  BY <1>2 DEF SameControl, Tame
<1> QED
  BY <1>1, <1>2, <1>5, <1>6 DEF R, Goes, FineGoes, Moves

LEMMA SetTuned ==
  ASSUME NEW S \in Nets(Conns, HttpTokens), NEW c \in Conns, NEW t \in SocketRecords(HttpTokens),
         t.at = S.socket[c].at, t.state \subseteq Marks, t.right = S.socket[c].right,
         t.wrote = S.socket[c].wrote, t.kernel = S.socket[c].kernel, t.buffer = S.socket[c].buffer
  PROVE  Tuned(S, [S EXCEPT !.socket = [S.socket EXCEPT ![c] = t]], c, t)
<1>1. Put(S, [S EXCEPT !.socket = [S.socket EXCEPT ![c] = t]], Conns, HttpTokens, c, t)
  BY PutIs
<1> QED
  BY <1>1 DEF Tuned

(* The calls that change what a response acts upon.                          *)
OpFine(S, R, c) == FineGoes(S, R, c) /\ R.corked = S.corked /\ R.socket[c].at = "open"

LEMMA OpFineOn ==
  ASSUME NEW S, NEW R, NEW Q, NEW c \in Conns, OpFine(S, R, c), OpFine(R, Q, c)
  PROVE  OpFine(S, Q, c)
BY FineOn DEF OpFine

LEMMA OpFineIs ==
  ASSUME NEW S, NEW R, NEW c \in Conns, OpFine(S, R, c)
  PROVE  R \in Nets(Conns, HttpTokens) /\ Fine(R, c) /\ R.socket[c].at = "open"
BY DEF OpFine, FineGoes, Moves

LEMMA ArmFine ==
  ASSUME NEW S \in Nets(Conns, HttpTokens), NEW c \in Conns, Fine(S, c), S.socket[c].at = "open",
         NEW on \in BOOLEAN
  PROVE  LET R == Arm(S, c, on) s == S.socket[c] t == R.socket[c]
         IN /\ OpFine(S, R, c) /\ t.state = s.state /\ t.offset = s.offset /\ t.on = s.on
            /\ t.timeout = on /\ t.request = s.request
<1> DEFINE s == S.socket[c]
           t == [s EXCEPT !.timeout = on]
           R == Arm(S, c, on)
<1>1. s \in SocketRecords(HttpTokens)
  BY NetFields
<1>2. /\ t \in SocketRecords(HttpTokens) /\ t.at = s.at /\ t.state = s.state /\ t.right = s.right
      /\ t.wrote = s.wrote /\ t.kernel = s.kernel /\ t.buffer = s.buffer
      /\ t.offset = s.offset /\ t.on = s.on /\ t.timeout = on /\ t.request = s.request
  BY <1>1 DEF SocketRecords
<1>3. R = [S EXCEPT !.socket = [S.socket EXCEPT ![c] = t]]
  BY DEF Arm, Nets, SocketRecords
<1> HIDE DEF t, R
<1>4. Tuned(S, R, c, t)
  BY <1>2, <1>3, SetTuned DEF Fine
<1>5. Moves(S, R, c) /\ R.socket[c] = t /\ R.corked = S.corked
  BY <1>4, TunedFine
<1>9. Tame(s, t)
  BY <1>2 DEF Tame, SameControl
<1> QED
  BY <1>2, <1>5, <1>9 DEF R, OpFine, FineGoes

LEMMA FlaggedFine ==
  ASSUME NEW S \in Nets(Conns, HttpTokens), NEW c \in Conns, Fine(S, c), S.socket[c].at = "open",
         NEW flag \in Marks, flag # "PENDING"
  PROVE  LET R == Flagged(S, c, flag) s == S.socket[c] t == R.socket[c]
         IN /\ OpFine(S, R, c) /\ t.state = s.state \cup {flag} /\ t.offset = s.offset
            /\ t.on = s.on /\ t.timeout = s.timeout /\ t.request = s.request
<1> DEFINE s == S.socket[c]
           t == [s EXCEPT !.state = @ \cup {flag}]
           R == Flagged(S, c, flag)
<1>1. s \in SocketRecords(HttpTokens) /\ s.state \subseteq Marks
  BY NetFields DEF Fine
<1>2. /\ t \in SocketRecords(HttpTokens) /\ t.at = s.at /\ t.state = s.state \cup {flag}
      /\ t.right = s.right /\ t.wrote = s.wrote /\ t.kernel = s.kernel /\ t.buffer = s.buffer
      /\ t.offset = s.offset /\ t.on = s.on /\ t.timeout = s.timeout /\ t.request = s.request
  BY <1>1 DEF SocketRecords, Marks, Flags
<1>3. R = [S EXCEPT !.socket = [S.socket EXCEPT ![c] = t]]
  BY DEF Flagged, Nets, SocketRecords
<1>6. t.state \subseteq Marks
  BY <1>1, <1>2
<1> HIDE DEF t, R
<1>4. Tuned(S, R, c, t)
  BY <1>2, <1>3, <1>6, SetTuned
<1>5. Moves(S, R, c) /\ R.socket[c] = t /\ R.corked = S.corked
  BY <1>4, TunedFine
<1>9. Tame(s, t)
  BY <1>2 DEF Tame, SameControl
<1> QED
  BY <1>2, <1>5, <1>9 DEF R, OpFine, FineGoes

LEMMA MarkDoneFine ==
  ASSUME NEW S \in Nets(Conns, HttpTokens), NEW c \in Conns, Fine(S, c), S.socket[c].at = "open"
  PROVE  LET R == MarkDone(S, c) s == S.socket[c] t == R.socket[c]
         IN /\ OpFine(S, R, c) /\ t.state = s.state \ {"PENDING"} /\ t.offset = s.offset
            /\ t.on = s.on \ {"onAborted", "onWritable"} /\ t.timeout = s.timeout
<1> DEFINE s == S.socket[c]
           t == [s EXCEPT !.on = @ \ {"onAborted", "onWritable"}, !.state = @ \ {"PENDING"}]
           R == MarkDone(S, c)
<1>1. s \in SocketRecords(HttpTokens) /\ s.state \subseteq Marks
  BY NetFields DEF Fine
<1>2. /\ t \in SocketRecords(HttpTokens) /\ t.at = s.at /\ t.state = s.state \ {"PENDING"}
      /\ t.right = s.right /\ t.wrote = s.wrote /\ t.kernel = s.kernel /\ t.buffer = s.buffer
      /\ t.offset = s.offset /\ t.on = s.on \ {"onAborted", "onWritable"} /\ t.timeout = s.timeout
      /\ t.request = s.request
  BY <1>1 DEF SocketRecords
<1>3. R = [S EXCEPT !.socket = [S.socket EXCEPT ![c] = t]]
  BY DEF MarkDone, Nets, SocketRecords
<1>6. t.state \subseteq Marks
  BY <1>1, <1>2
<1> HIDE DEF t, R
<1>4. Tuned(S, R, c, t)
  BY <1>2, <1>3, <1>6, SetTuned
<1>5. Moves(S, R, c) /\ R.socket[c] = t /\ R.corked = S.corked
  BY <1>4, TunedFine
<1>9. Tame(s, t)
  BY <1>2 DEF Tame, SameControl
<1> QED
  BY <1>2, <1>5, <1>9 DEF R, OpFine, FineGoes

Offset(S, c, n) == [S EXCEPT !.socket[c].offset = n]
LEMMA OffsetFine ==
  ASSUME NEW S \in Nets(Conns, HttpTokens), NEW c \in Conns, Fine(S, c), S.socket[c].at = "open",
         NEW n \in Nat
  PROVE  LET R == Offset(S, c, n) s == S.socket[c] t == R.socket[c]
         IN /\ OpFine(S, R, c) /\ t.state = s.state /\ t.offset = n
            /\ t.on = s.on /\ t.timeout = s.timeout /\ t.request = s.request
<1> DEFINE s == S.socket[c]
           t == [s EXCEPT !.offset = n]
           R == Offset(S, c, n)
<1>1. s \in SocketRecords(HttpTokens)
  BY NetFields
<1>2. /\ t \in SocketRecords(HttpTokens) /\ t.at = s.at /\ t.state = s.state
      /\ t.right = s.right /\ t.wrote = s.wrote /\ t.kernel = s.kernel /\ t.buffer = s.buffer
      /\ t.offset = n /\ t.on = s.on /\ t.timeout = s.timeout /\ t.request = s.request
  BY <1>1 DEF SocketRecords
<1>3. R = [S EXCEPT !.socket = [S.socket EXCEPT ![c] = t]]
  BY DEF Offset, Nets, SocketRecords
<1> HIDE DEF t, R
<1>4. Tuned(S, R, c, t)
  BY <1>2, <1>3, SetTuned DEF Fine
<1>5. Moves(S, R, c) /\ R.socket[c] = t /\ R.corked = S.corked
  BY <1>4, TunedFine
<1>9. Tame(s, t)
  BY <1>2 DEF Tame, SameControl
<1> QED
  BY <1>2, <1>5, <1>9 DEF R, OpFine, FineGoes

Callbacks(S, c, on) == [S EXCEPT !.socket[c].on = on]
LEMMA CallbacksFine ==
  ASSUME NEW S \in Nets(Conns, HttpTokens), NEW c \in Conns, Fine(S, c), S.socket[c].at = "open",
         NEW on \in SUBSET Handlers
  PROVE  LET R == Callbacks(S, c, on) s == S.socket[c] t == R.socket[c]
         IN /\ OpFine(S, R, c) /\ t.state = s.state /\ t.offset = s.offset
            /\ t.on = on /\ t.timeout = s.timeout /\ t.request = s.request
<1> DEFINE s == S.socket[c]
           t == [s EXCEPT !.on = on]
           R == Callbacks(S, c, on)
<1>1. s \in SocketRecords(HttpTokens)
  BY NetFields
<1>2. /\ t \in SocketRecords(HttpTokens) /\ t.at = s.at /\ t.state = s.state
      /\ t.right = s.right /\ t.wrote = s.wrote /\ t.kernel = s.kernel /\ t.buffer = s.buffer
      /\ t.offset = s.offset /\ t.on = on /\ t.timeout = s.timeout /\ t.request = s.request
  BY <1>1 DEF SocketRecords
<1>3. R = [S EXCEPT !.socket = [S.socket EXCEPT ![c] = t]]
  BY DEF Callbacks, Nets, SocketRecords
<1> HIDE DEF t, R
<1>4. Tuned(S, R, c, t)
  BY <1>2, <1>3, SetTuned DEF Fine
<1>5. Moves(S, R, c) /\ R.socket[c] = t /\ R.corked = S.corked
  BY <1>4, TunedFine
<1>9. Tame(s, t)
  BY <1>2 DEF Tame, SameControl
<1> QED
  BY <1>2, <1>5, <1>9 DEF R, OpFine, FineGoes

PollOff(S, c) == [S EXCEPT !.socket[c].polls = FALSE]
LEMMA NoPollFine ==
  ASSUME NEW S \in Nets(Conns, HttpTokens), NEW c \in Conns, Fine(S, c), S.socket[c].at = "open"
  PROVE  LET R == PollOff(S, c)
         IN OpFine(S, R, c) /\ SameControl(S.socket[c], R.socket[c])
<1> DEFINE s == S.socket[c]
           t == [s EXCEPT !.polls = FALSE]
           R == PollOff(S, c)
<1>1. s \in SocketRecords(HttpTokens)
  BY NetFields
<1>2. /\ t \in SocketRecords(HttpTokens) /\ t.at = s.at /\ t.state = s.state
      /\ t.right = s.right /\ t.wrote = s.wrote /\ t.kernel = s.kernel /\ t.buffer = s.buffer
      /\ SameControl(s, t)
  BY <1>1 DEF SocketRecords, SameControl
<1>3. R = [S EXCEPT !.socket = [S.socket EXCEPT ![c] = t]]
  BY DEF PollOff, Nets, SocketRecords
<1> HIDE DEF t, R
<1>4. Tuned(S, R, c, t)
  BY <1>2, <1>3, SetTuned DEF Fine
<1>5. Moves(S, R, c) /\ R.socket[c] = t /\ R.corked = S.corked
  BY <1>4, TunedFine
<1>9. Tame(s, t)
  BY <1>2 DEF Tame, SameControl
<1> QED
  BY <1>2, <1>5, <1>9 DEF R, OpFine, FineGoes

(* A new request.                                                            *)
Requested(S, c) == [S EXCEPT !.socket[c].state = {"PENDING"}, !.socket[c].request = @ + 1]
LEMMA RequestedFine ==
  ASSUME NEW S \in Nets(Conns, HttpTokens), NEW c \in Conns, Fine(S, c), S.socket[c].at = "open"
  PROVE  LET R == Requested(S, c) s == S.socket[c] t == R.socket[c]
         IN /\ Moves(S, R, c) /\ R.corked = S.corked /\ t.at = "open"
            /\ t.state = {"PENDING"} /\ t.offset = s.offset
            /\ t.on = s.on /\ t.timeout = s.timeout /\ t.request = s.request + 1
<1> DEFINE s == S.socket[c]
           n == s.request + 1
           t == [s EXCEPT !.state = {"PENDING"}, !.request = n]
           R == Requested(S, c)
<1>1. s \in SocketRecords(HttpTokens)
  BY NetFields
<1>7. n \in Nat
  BY <1>1 DEF SocketRecords
<1>3. R = [S EXCEPT !.socket = [S.socket EXCEPT ![c] = t]]
  BY DEF Requested, Nets, SocketRecords
<1> HIDE DEF n
<1>2. /\ t \in SocketRecords(HttpTokens) /\ t.at = s.at /\ t.state = {"PENDING"}
      /\ t.right = s.right /\ t.wrote = s.wrote /\ t.kernel = s.kernel /\ t.buffer = s.buffer
      /\ t.offset = s.offset /\ t.on = s.on /\ t.timeout = s.timeout /\ t.request = n
  BY <1>1, <1>7 DEF SocketRecords, Flags
<1> HIDE DEF t, R
<1>6. t.state \subseteq Marks
  BY <1>2 DEF Marks
<1>4. Tuned(S, R, c, t)
  BY <1>2, <1>3, <1>6, SetTuned
<1>5. Moves(S, R, c) /\ R.socket[c] = t /\ R.corked = S.corked
  BY <1>4, TunedFine
<1> QED
  BY <1>2, <1>5 DEF R, n

(* What an HTTP connection's control state is between callbacks and in the   *)
(* middle of one.                                                            *)
BodyCalls == {EndCalls, <<"length", "body">>, <<"body">>}
TryCalls == {TryEndCalls, <<"length", "try">>, <<"try">>}
ChunkCalls ==
  {ChunkedCalls, <<"chunked", "chunk", "chunk", "0">>, <<"chunk", "chunk", "0">>, <<"chunk", "0">>, <<"0">>}
AnyCalls == BodyCalls \cup TryCalls \cup ChunkCalls \cup {<<>>}
ReadKinds == RequestKinds \cup {"fin"}

Resting(s) ==
  /\ s.on \in {{}, {"onAborted"}, {"onAborted", "inStream"}, {"onAborted", "onWritable"}}
  /\ s.offset \in 0..2
  /\ "PENDING" \notin s.state => s.on = {}
  /\ s.on = {"onAborted"} \/ "inStream" \in s.on => s.offset = 0
  /\ s.at = "none" => s.on = {}
Calm(s) == "PENDING" \notin s.state \/ s.on # {"onAborted"} => s.timeout
Owes(s, rest, owes) ==
  /\ rest \in Seq(ReadKinds) /\ Legal(rest, "inStream" \in s.on)
  /\ owes <=> IF rest = <<>> THEN "inStream" \in s.on ELSE Last(rest) = "stream"

(* The connection whose callback runs, and another one.                      *)
Awaits(s, h, owes) ==
  /\ h.in \in {"data", "handler", "answer", "cork", "writable"} /\ h.calls \in AnyCalls
  /\ s.at = "open" /\ Owes(s, h.rest, owes)
  /\ h.in \in {"answer", "cork", "writable"} => h.rest = <<>>
  /\ h.calls # <<>> => "PENDING" \in s.state /\ "inStream" \notin s.on
  /\ h.calls \in BodyCalls => s.offset = 0
  /\ h.calls = <<>> => s.timeout \/ ("PENDING" \in s.state /\ s.on = {"onAborted"})
                       \/ (h.in = "handler" /\ "PENDING" \in s.state /\ "inStream" \in s.on)
(* The requests begun and still to parse are those made.                     *)
One(kind) == IF kind = "fin" THEN 0 ELSE 1
Pend(rest) ==
  IF rest = <<>> THEN 0 ELSE IF Len(rest) = 1 THEN One(rest[1]) ELSE One(rest[1]) + One(rest[2])
Within(s, rest, n) ==
  /\ rest \in Seq(ReadKinds) /\ Len(rest) <= 2 /\ s.request + Pend(rest) <= n /\ n <= MaxRequests
  /\ "PENDING" \in s.state => s.request >= 1
Less(r, q) == r = q \/ r = <<>> \/ (q # <<>> /\ r = Tail(q))

NotCalled(s, owes) ==
  /\ s.at = "open" => Calm(s) /\ (owes <=> "inStream" \in s.on)
  /\ s.at = "none" => ~owes

Running(S, h, o, f) ==
  /\ o \in [Conns -> [n : Nat, owes : BOOLEAN]] /\ f \in {"runs", "terminated"}
  /\ \A c \in Conns : /\ Resting(S.socket[c])
                      /\ Within(S.socket[c], IF c = h.of THEN h.rest ELSE <<>>, o[c].n)
  /\ h.in = "none" => h = NoData
  /\ h.in # "none" => h.of \in Conns /\ f = "runs" /\ Awaits(S.socket[h.of], h, o[h.of].owes)
  /\ f = "runs" => \A c \in Conns : c # h.of => NotCalled(S.socket[c], o[c].owes)
CorkOf(S, h, f) ==
  /\ S.corked = NoConn => S.cork = <<>>
  /\ S.corked # NoConn => S.socket[S.corked].at # "none"
  /\ f = "runs" /\ S.corked # NoConn /\ S.socket[S.corked].at = "open" =>
       h.of = S.corked /\ h.in \in {"data", "handler", "cork"}
AllFine(S) == S \in Nets(Conns, HttpTokens) /\ \A c \in Conns : Fine(S, c)
HttpInv ==
  /\ serves \subseteq RequestKinds /\ AllFine(net)
  /\ Running(net, handling, sent, fate) /\ CorkOf(net, handling, fate)

LEMMA InitHttp == HttpServerInit => HttpInv
<1> SUFFICES ASSUME HttpServerInit PROVE HttpInv
  OBVIOUS
<1>1. <<>> \in Seq(HttpTokens) /\ Len(<<>>) = 0 /\ 0 <= RoomMax
  BY EmptySeq, AsyncSocketAssumption
<1>2. NewSocket \in SocketRecords(HttpTokens)
  BY <1>1 DEF NewSocket, SocketRecords
<1>3. net \in Nets(Conns, HttpTokens)
  BY <1>1, <1>2, NoCork DEF HttpServerInit, Nets
<1>4. \A c \in Conns : Fine(net, c)
  BY DEF HttpServerInit, NewSocket, Fine, Sane, Marks
<1>5. serves \subseteq RequestKinds
  BY HttpServerAssumption DEF HttpServerInit
<1>6. \A c \in Conns : Resting(net.socket[c]) /\ NotCalled(net.socket[c], FALSE)
  BY DEF HttpServerInit, NewSocket, Resting, NotCalled
<1>7. sent \in [Conns -> [n : Nat, owes : BOOLEAN]]
      /\ \A c \in Conns : sent[c].owes = FALSE /\ sent[c].n = 0
  BY DEF HttpServerInit
<1>10. ASSUME NEW c \in Conns PROVE Within(net.socket[c], <<>>, sent[c].n)
  <2>1. net.socket[c].request = 0 /\ net.socket[c].state = {} /\ sent[c].n = 0
    BY <1>7 DEF HttpServerInit, NewSocket
  <2>2. <<>> \in Seq(ReadKinds) /\ Len(<<>>) = 0 /\ 0 <= MaxRequests
    BY EmptySeq, HttpServerAssumption
  <2> QED
    BY <2>1, <2>2 DEF Within, Pend
<1>8. Running(net, handling, sent, fate)
  <2>1. handling = NoData /\ handling.in = "none" /\ fate = "runs"
    BY DEF HttpServerInit, NoData
  <2>2. \A c \in Conns : NotCalled(net.socket[c], sent[c].owes)
    BY <1>6, <1>7
  <2> QED
    BY <1>6, <1>7, <1>10, <2>1, <2>2 DEF Running, NoData
<1>9. CorkOf(net, handling, fate)
  BY DEF HttpServerInit, CorkOf
<1> QED
  BY <1>3, <1>4, <1>5, <1>8, <1>9 DEF HttpInv, AllFine

(* A step of c's connection keeps all of the bytes.                          *)
LEMMA AllFineOn ==
  ASSUME NEW S, AllFine(S), NEW c \in Conns, NEW R, Moves(S, R, c)
  PROVE  AllFine(R)
<1>1. ASSUME NEW d \in Conns PROVE Fine(R, d)
  <2>1. CASE d = c
    BY <2>1 DEF FineGoes, Moves
  <2>2. CASE d # c
    BY <2>2, FineOthers DEF FineGoes, Moves, AllFine
  <2> QED
    BY <2>1, <2>2
<1> QED
  BY <1>1 DEF AllFine, FineGoes, Moves

(* A step of c's connection in or at an end of its callback.                 *)
LEMMA RunningOn ==
  ASSUME NEW S, NEW h, NEW o, NEW f, Running(S, h, o, f), f = "runs", NEW c \in Conns,
         h.of = c \/ h = NoData,
         NEW R, \A d \in Conns : d # c => R.socket[d] = S.socket[d], Resting(R.socket[c]),
         NEW u \in [Conns -> [n : Nat, owes : BOOLEAN]], \A d \in Conns : d # c => u[d] = o[d],
         NEW k, \/ k.of = c /\ k.in # "none" /\ Awaits(R.socket[c], k, u[c].owes)
                \/ k = NoData /\ NotCalled(R.socket[c], u[c].owes),
         Within(R.socket[c], k.rest, u[c].n)
  PROVE  Running(R, k, u, f)
<1>5. \A d \in Conns : Within(R.socket[d], IF d = k.of THEN k.rest ELSE <<>>, u[d].n)
  <2> TAKE d \in Conns
  <2>1. CASE d = c
    <3>1. (IF d = k.of THEN k.rest ELSE <<>>) = k.rest
      BY <2>1 DEF NoData
    <3> QED
      BY <2>1, <3>1
  <2>2. CASE d # c
    <3>1. d # h.of /\ d # k.of /\ R.socket[d] = S.socket[d] /\ u[d] = o[d]
      BY <2>2, ConnsAre DEF NoData
    <3>2. Within(S.socket[d], IF d = h.of THEN h.rest ELSE <<>>, o[d].n)
      BY DEF Running
    <3> QED
      BY <3>1, <3>2
  <2> QED
    BY <2>1, <2>2
<1>1. \A d \in Conns : Resting(R.socket[d])
  <2> TAKE d \in Conns
  <2>1. CASE d = c
    BY <2>1
  <2>2. CASE d # c
    BY <2>2 DEF Running
  <2> QED
    BY <2>1, <2>2
<1>2. ASSUME NEW d \in Conns, d # c PROVE NotCalled(R.socket[d], u[d].owes)
  <2>1. d # h.of
    BY <1>2, ConnsAre DEF NoData
  <2>2. NotCalled(S.socket[d], o[d].owes)
    BY <2>1 DEF Running
  <2>3. R.socket[d] = S.socket[d] /\ u[d] = o[d]
    BY <1>2
  <2> QED
    BY <2>2, <2>3
<1>3. CASE k.of = c /\ k.in # "none" /\ Awaits(R.socket[c], k, u[c].owes)
  BY <1>1, <1>2, <1>3, <1>5 DEF Running
<1>4. CASE k = NoData /\ NotCalled(R.socket[c], u[c].owes)
  <2>1. k.in = "none" /\ k.of = NoConn
    BY <1>4 DEF NoData
  <2>2. \A d \in Conns : NotCalled(R.socket[d], u[d].owes)
    <3> TAKE d \in Conns
    <3>1. CASE d = c
      BY <1>4, <3>1
    <3>2. CASE d # c
      BY <1>2, <3>2
    <3> QED
      BY <3>1, <3>2
  <2> QED
    BY <1>1, <1>4, <1>5, <2>1, <2>2 DEF Running
<1> QED
  BY <1>3, <1>4

LEMMA CorkOn ==
  ASSUME NEW S, NEW h, NEW f, CorkOf(S, h, f), f = "runs", NEW c \in Conns,
         h.of = c \/ h = NoData,
         NEW R \in Nets(Conns, HttpTokens), Others(S, R, Conns, c),
         NEW k, R.corked = c => \/ R.socket[c].at = "closed"
                                \/ /\ R.socket[c].at = "open" /\ k.of = c
                                   /\ k.in \in {"data", "handler", "cork"}
  PROVE  CorkOf(R, k, f)
<1>1. R.corked \in Conns \cup {NoConn} /\ c # NoConn
  BY ConnsAre DEF Nets
<1>2. CASE R.corked = NoConn
  BY <1>1, <1>2 DEF CorkOf, Others, CorkLeft
<1>3. CASE R.corked = c
  BY <1>1, <1>3 DEF CorkOf
<1>4. CASE R.corked # NoConn /\ R.corked # c
  <2>1. S.corked = R.corked /\ R.socket[R.corked] = S.socket[S.corked]
    BY <1>1, <1>4 DEF Others, CorkLeft
  <2>2. S.corked # h.of
    BY <1>1, <1>4, <2>1 DEF NoData
  <2> QED
    BY <1>1, <1>4, <2>1, <2>2 DEF CorkOf
<1> QED
  BY <1>2, <1>3, <1>4

(* Both together.                                                            *)
LEMMA StepAt ==
  ASSUME NEW S, NEW h, NEW o, NEW f, AllFine(S), Running(S, h, o, f), CorkOf(S, h, f),
         f = "runs", NEW c \in Conns, h.of = c \/ h = NoData,
         NEW R, Moves(S, R, c), Resting(R.socket[c]),
         NEW k, \/ k.of = c /\ k.in # "none" /\ Awaits(R.socket[c], k, o[c].owes)
                \/ k = NoData /\ NotCalled(R.socket[c], o[c].owes),
         R.corked = c => \/ R.socket[c].at = "closed"
                         \/ k.of = c /\ k.in \in {"data", "handler", "cork"},
         Within(R.socket[c], k.rest, o[c].n)
  PROVE  AllFine(R) /\ Running(R, k, o, f) /\ CorkOf(R, k, f)
<1>1. AllFine(R)
  BY AllFineOn
<1>2. \A d \in Conns : d # c => R.socket[d] = S.socket[d]
  BY DEF Moves, Others
<1>3. o \in [Conns -> [n : Nat, owes : BOOLEAN]]
  BY DEF Running
<1>4. Running(R, k, o, f)
  BY <1>2, <1>3, RunningOn
<1>5. k.in \in {"data", "handler", "cork"} /\ k.of = c => R.socket[c].at = "open"
  <2>1. k = NoData => k.in = "none"
    BY DEF NoData
  <2> QED
    BY <2>1 DEF Awaits
<1>6. CorkOf(R, k, f)
  BY <1>5, CorkOn DEF Moves
<1> QED
  BY <1>1, <1>4, <1>6

(* A step in which no request begins.                                        *)
LEMMA PendIs ==
  ASSUME NEW rest \in Seq(ReadKinds), Len(rest) <= 2
  PROVE  /\ Pend(rest) \in Nat
         /\ rest # <<>> => /\ Tail(rest) \in Seq(ReadKinds) /\ Len(Tail(rest)) <= 2
                          /\ Pend(rest) = One(Head(rest)) + Pend(Tail(rest))
<1>1. \A x : One(x) \in 0..1
  BY DEF One
<1>2. CASE rest = <<>>
  BY <1>2 DEF Pend
<1>3. CASE rest # <<>>
  <2> DEFINE t == Tail(rest)
  <2>1. /\ t \in Seq(ReadKinds) /\ Head(rest) = rest[1] /\ Len(rest) \in Nat
        /\ Len(t) = Len(rest) - 1
    BY <1>3, HeadTailProperties, LenProperties
  <2>2. Len(rest) > 0 /\ \A i \in 1..Len(t) : t[i] = rest[i + 1]
    BY <1>3, HeadTailProperties, EmptySeq, LenProperties
  <2> HIDE DEF t
  <2>3. CASE Len(rest) = 1
    <3>1. t = <<>>
      BY <2>1, <2>3, EmptySeq
    <3>2. Pend(rest) = One(rest[1]) /\ Pend(t) = 0
      BY <1>3, <2>3, <3>1 DEF Pend
    <3> QED
      BY <1>1, <1>3, <2>1, <2>3, <3>2 DEF t
  <2>4. CASE Len(rest) = 2
    <3>1. Len(t) = 1 /\ 1 \in 1..Len(t) /\ 1 + 1 = 2
      BY <2>1, <2>4
    <3>2. t # <<>> /\ t[1] = rest[2]
      <4>1. t[1] = rest[1 + 1]
        BY <2>2, <3>1
      <4>2. rest[1 + 1] = rest[2]
        BY <3>1
      <4>3. Len(<<>>) # 1
        BY EmptySeq
      <4>4. t # <<>>
        BY <3>1, <4>3
      <4> QED
        BY <4>1, <4>2, <4>4
    <3>3. Pend(rest) = One(rest[1]) + One(rest[2]) /\ Pend(t) = One(rest[2])
      BY <1>3, <2>4, <3>1, <3>2 DEF Pend
    <3>4. Pend(rest) \in Nat
      <4> DEFINE x == One(rest[1])  y == One(rest[2])
      <4>1. x \in 0..1 /\ y \in 0..1
        BY <1>1
      <4> HIDE DEF x, y
      <4>2. x + y \in Nat
        BY <4>1
      <4> QED
        BY <3>3, <4>2 DEF x, y
    <3>5. Pend(rest) = One(Head(rest)) + Pend(t)
      BY <2>1, <3>3
    <3>6. Len(t) <= 2
      BY <3>1
    <3> QED
      BY <2>1, <3>4, <3>5, <3>6 DEF t
  <2> QED
    BY <2>1, <2>2, <2>3, <2>4
<1> QED
  BY <1>2, <1>3

LEMMA WithinLess ==
  ASSUME NEW s, NEW t, NEW q, NEW r, NEW n \in Nat, Within(s, q, n), s.request \in Nat,
         Tame(s, t), Less(r, q)
  PROVE  Within(t, r, n)
<1> DEFINE a == s.request  b == t.request  x == Pend(q)  y == Pend(r)
<1>1. q \in Seq(ReadKinds) /\ Len(q) <= 2 /\ a + x <= n /\ n <= MaxRequests
      /\ ("PENDING" \in s.state => a >= 1) /\ a \in Nat
  BY DEF Within
<1>2. x \in Nat /\ \A k : One(k) \in 0..1
  BY <1>1, PendIs DEF One
<1>3. r \in Seq(ReadKinds) /\ Len(r) <= 2 /\ y \in Nat /\ y <= x
  <2>1. CASE r = q
    BY <1>1, <1>2, <2>1
  <2>2. CASE r = <<>>
    <3>1. y = 0 /\ Len(r) = 0 /\ r \in Seq(ReadKinds)
      BY <2>2, EmptySeq DEF Pend
    <3> QED
      BY <1>2, <3>1
  <2>3. CASE q # <<>> /\ r = Tail(q)
    <3>1. r \in Seq(ReadKinds) /\ Len(r) <= 2 /\ x = One(Head(q)) + y
      BY <1>1, <2>3, PendIs
    <3>2. y \in Nat
      BY <3>1, PendIs
    <3>3. One(Head(q)) \in 0..1
      BY <1>2
    <3> HIDE DEF x, y
    <3> QED
      BY <3>1, <3>2, <3>3
  <2> QED
    BY <2>1, <2>2, <2>3 DEF Less
<1>4. b \in {0, a} /\ ("PENDING" \in t.state => "PENDING" \in s.state /\ b = a)
  BY DEF Tame
<1> HIDE DEF a, b, x, y
<1>5. b + y <= n /\ ("PENDING" \in t.state => b >= 1)
  BY <1>1, <1>2, <1>3, <1>4
<1> QED
  BY <1>1, <1>3, <1>5 DEF Within, b, y

LEMMA WithinNext ==
  ASSUME NEW s, NEW t, NEW rest, NEW n \in Nat, Within(s, rest, n), s.request \in Nat,
         rest # <<>>, Head(rest) # "fin", t.request = s.request + 1
  PROVE  Within(t, Tail(rest), n)
<1> DEFINE a == s.request  b == t.request  x == Pend(rest)  y == Pend(Tail(rest))
<1>1. rest \in Seq(ReadKinds) /\ Len(rest) <= 2 /\ a + x <= n /\ n <= MaxRequests /\ a \in Nat
  BY DEF Within
<1>2. Tail(rest) \in Seq(ReadKinds) /\ Len(Tail(rest)) <= 2 /\ x = 1 + y
  BY <1>1, PendIs DEF One
<1>3. y \in Nat
  BY <1>2, PendIs
<1>4. b = a + 1
  OBVIOUS
<1> HIDE DEF a, b, x, y
<1>5. b + y <= n /\ b >= 1
  BY <1>1, <1>2, <1>3, <1>4
<1> QED
  BY <1>1, <1>2, <1>5 DEF Within, b, y

LEMMA StepOn ==
  ASSUME NEW S, NEW h, NEW o, NEW f, AllFine(S), Running(S, h, o, f), CorkOf(S, h, f),
         f = "runs", NEW c \in Conns, h.of = c \/ h = NoData,
         NEW R, FineGoes(S, R, c), Resting(R.socket[c]),
         NEW k, \/ /\ k.of = c /\ k.in # "none" /\ Awaits(R.socket[c], k, o[c].owes)
                   /\ Less(k.rest, h.rest)
                \/ k = NoData /\ NotCalled(R.socket[c], o[c].owes),
         R.corked = c => \/ R.socket[c].at = "closed"
                         \/ k.of = c /\ k.in \in {"data", "handler", "cork"}
  PROVE  AllFine(R) /\ Running(R, k, o, f) /\ CorkOf(R, k, f)
<1>1. Moves(S, R, c) /\ Tame(S.socket[c], R.socket[c])
  BY DEF FineGoes
<1>2. PICK q : q = IF c = h.of THEN h.rest ELSE <<>>
  OBVIOUS
<1>3. Within(S.socket[c], q, o[c].n) /\ o[c].n \in Nat
  BY <1>2 DEF Running
<1>4. S.socket[c].request \in Nat
  BY NetFields DEF AllFine, SocketRecords
<1>5. Less(k.rest, q)
  <2>1. CASE h = NoData
    <3>1. h.rest = <<>> /\ c # h.of
      BY <2>1, ConnsAre DEF NoData
    <3> QED
      BY <1>2, <3>1 DEF Less, NoData
  <2>2. CASE h.of = c
    BY <1>2, <2>2 DEF Less, NoData
  <2> QED
    BY <2>1, <2>2
<1>6. Within(R.socket[c], k.rest, o[c].n)
  BY <1>1, <1>3, <1>4, <1>5, WithinLess
<1>7. \/ k.of = c /\ k.in # "none" /\ Awaits(R.socket[c], k, o[c].owes)
      \/ k = NoData /\ NotCalled(R.socket[c], o[c].owes)
  OBVIOUS
<1> QED
  BY <1>1, <1>6, <1>7, StepAt

LEMMA HandlingIs ==
  ASSUME HttpInv, handling.in # "none" \/ handling.calls # <<>> \/ handling.rest # <<>>
  PROVE  LET c == handling.of
         IN /\ handling.in # "none" /\ c \in Conns /\ fate = "runs"
            /\ net \in Nets(Conns, HttpTokens) /\ Fine(net, c) /\ net.socket[c].at = "open"
            /\ Resting(net.socket[c]) /\ Awaits(net.socket[c], handling, sent[c].owes)
            /\ sent[c].owes \in BOOLEAN
            /\ Within(net.socket[c], handling.rest, sent[c].n) /\ sent[c].n \in Nat
            /\ net.socket[c].request \in Nat
<1>1. handling.in # "none"
  BY DEF HttpInv, Running, NoData
<1>2. /\ handling.of \in Conns /\ fate = "runs"
      /\ Awaits(net.socket[handling.of], handling, sent[handling.of].owes)
  BY <1>1 DEF HttpInv, Running
<1>3. Resting(net.socket[handling.of])
  BY <1>2 DEF HttpInv, Running
<1>4. net \in Nets(Conns, HttpTokens) /\ Fine(net, handling.of)
  BY <1>2 DEF HttpInv, AllFine
<1>5. sent[handling.of].owes \in BOOLEAN
  BY <1>2 DEF HttpInv, Running
<1>6. net.socket[handling.of].at = "open"
  BY <1>2 DEF Awaits
<1>7. Within(net.socket[handling.of], handling.rest, sent[handling.of].n)
      /\ sent[handling.of].n \in Nat
  BY <1>2 DEF HttpInv, Running
<1>8. net.socket[handling.of].request \in Nat
  <2>1. PICK S : S = net
    OBVIOUS
  <2>2. S.socket[handling.of] \in SocketRecords(HttpTokens)
    BY <1>2, <1>4, <2>1, NetFields
  <2> QED
    BY <2>1, <2>2 DEF SocketRecords
<1> QED
  BY <1>1, <1>2, <1>3, <1>4, <1>5, <1>6, <1>7, <1>8

LEMMA PieceIs ==
  ASSUME HttpInv, NEW c \in Conns, NEW name \in PieceNames, "PENDING" \in net.socket[c].state
  PROVE  Piece(c, name) \in HttpTokens /\ <<Piece(c, name)>> \in Seq(HttpTokens)
<1>1. PICK S : S = net
  OBVIOUS
<1>2. S \in Nets(Conns, HttpTokens)
  BY <1>1 DEF HttpInv, AllFine
<1>3. S.socket[c].request \in Nat
  BY <1>2, NetFields DEF SocketRecords
<1>6. S.socket[c].request \in 1..MaxRequests
  <2> DEFINE q == IF c = handling.of THEN handling.rest ELSE <<>>
             a == S.socket[c].request
             n == sent[c].n
             x == Pend(q)
  <2>1. Within(S.socket[c], q, n) /\ n \in Nat
    BY <1>1 DEF HttpInv, Running
  <2>2. q \in Seq(ReadKinds) /\ Len(q) <= 2 /\ a + x <= n /\ n <= MaxRequests /\ a >= 1
    BY <1>1, <2>1 DEF Within
  <2>3. x \in Nat
    BY <2>2, PendIs
  <2>4. MaxRequests \in Nat /\ a \in Nat
    BY <1>3, HttpServerAssumption
  <2> HIDE DEF a, n, x
  <2>5. a \in 1..MaxRequests
    BY <2>1, <2>2, <2>3, <2>4
  <2> QED
    BY <2>5 DEF a
<1>4. Piece(c, name) \in HttpTokens
  BY <1>1, <1>6 DEF Piece, HttpTokens
<1>5. \A x \in HttpTokens : <<x>> \in Seq(HttpTokens)
  OBVIOUS
<1> QED
  BY <1>4, <1>5

(* The calls a handler has left.                                             *)
LEMMA CallsLeft ==
  ASSUME NEW calls \in AnyCalls, calls # <<>>
  PROVE  /\ Tail(calls) \in AnyCalls
         /\ Head(calls) \in {"body", "try", "0"} <=> Tail(calls) = <<>>
         /\ Tail(calls) \in BodyCalls \/ Head(calls) = "body" => calls \in BodyCalls
<1> DEFINE Left(s) == /\ Tail(s) \in AnyCalls
                      /\ Head(s) \in {"body", "try", "0"} <=> Tail(s) = <<>>
                      /\ Tail(s) \in BodyCalls \/ Head(s) = "body" => s \in BodyCalls
<1>1. calls = EndCalls => Left(calls)
  <2>1. Tail(EndCalls) = <<"length", "body">> /\ Head(EndCalls) = "status"
    BY DEF EndCalls
  <2> QED
    BY <2>1 DEF AnyCalls, BodyCalls
<1>2. calls = <<"length", "body">> => Left(calls)
  <2>1. Tail(<<"length", "body">>) = <<"body">>
    OBVIOUS
  <2> QED
    BY <2>1 DEF AnyCalls, BodyCalls
<1>3. calls = <<"body">> => Left(calls)
  <2>1. Tail(<<"body">>) = <<>>
    OBVIOUS
  <2> QED
    BY <2>1 DEF AnyCalls, BodyCalls
<1>4. calls = TryEndCalls => Left(calls)
  <2>1. Tail(TryEndCalls) = <<"length", "try">> /\ Head(TryEndCalls) = "status"
    BY DEF TryEndCalls
  <2> QED
    BY <2>1 DEF AnyCalls, TryCalls, BodyCalls, EndCalls
<1>5. calls = <<"length", "try">> => Left(calls)
  <2>1. Tail(<<"length", "try">>) = <<"try">>
    OBVIOUS
  <2> QED
    BY <2>1 DEF AnyCalls, TryCalls, BodyCalls, EndCalls
<1>6. calls = <<"try">> => Left(calls)
  <2>1. Tail(<<"try">>) = <<>>
    OBVIOUS
  <2> QED
    BY <2>1 DEF AnyCalls, BodyCalls, EndCalls
<1>7. calls = ChunkedCalls => Left(calls)
  <2>1. Tail(ChunkedCalls) = <<"chunked", "chunk", "chunk", "0">> /\ Head(ChunkedCalls) = "status"
    BY DEF ChunkedCalls
  <2> QED
    BY <2>1 DEF AnyCalls, ChunkCalls, BodyCalls, EndCalls
<1>8. calls = <<"chunked", "chunk", "chunk", "0">> => Left(calls)
  <2>1. Tail(<<"chunked", "chunk", "chunk", "0">>) = <<"chunk", "chunk", "0">>
    OBVIOUS
  <2> QED
    BY <2>1 DEF AnyCalls, ChunkCalls, BodyCalls, EndCalls
<1>9. calls = <<"chunk", "chunk", "0">> => Left(calls)
  <2>1. Tail(<<"chunk", "chunk", "0">>) = <<"chunk", "0">>
    OBVIOUS
  <2> QED
    BY <2>1 DEF AnyCalls, ChunkCalls, BodyCalls, EndCalls
<1>10. calls = <<"chunk", "0">> => Left(calls)
  <2>1. Tail(<<"chunk", "0">>) = <<"0">>
    OBVIOUS
  <2> QED
    BY <2>1 DEF AnyCalls, ChunkCalls, BodyCalls, EndCalls
<1>11. calls = <<"0">> => Left(calls)
  <2>1. Tail(<<"0">>) = <<>>
    OBVIOUS
  <2> QED
    BY <2>1 DEF AnyCalls, BodyCalls, EndCalls
<1> HIDE DEF Left
<1>12. Left(calls)
  BY <1>1, <1>2, <1>3, <1>4, <1>5, <1>6, <1>7, <1>8, <1>9, <1>10, <1>11
     DEF AnyCalls, BodyCalls, TryCalls, ChunkCalls
<1> QED
  BY <1>12 DEF Left

LEMMA NoBodyLeft == <<>> \notin BodyCalls
<1>1. <<"body">> # <<>> /\ <<"length", "body">> # <<>> /\ EndCalls # <<>>
  BY DEF EndCalls
<1> QED
  BY <1>1 DEF BodyCalls

LEMMA FlagsAre ==
  /\ FlagOf["status"] = "STATUS_CALLED" /\ FlagOf["length"] = "END_CALLED"
  /\ FlagOf["chunked"] = "WRITE_CALLED"
BY DEF FlagOf

LEMMA ChunkPiece ==
  ASSUME HttpInv, NEW c \in Conns, "PENDING" \in net.socket[c].state
  PROVE  <<Piece(c, "chunk")>> \in Seq(HttpTokens)
<1>1. PICK name \in PieceNames : name = "chunk"
  BY DEF PieceNames
<1>2. <<Piece(c, name)>> \in Seq(HttpTokens)
  BY PieceIs
<1> QED
  BY <1>1, <1>2

LEMMA LastPiece ==
  ASSUME HttpInv, NEW c \in Conns, "PENDING" \in net.socket[c].state
  PROVE  <<Piece(c, "0")>> \in Seq(HttpTokens)
<1>1. PICK name \in PieceNames : name = "0"
  BY DEF PieceNames
<1>2. <<Piece(c, name)>> \in Seq(HttpTokens)
  BY PieceIs
<1> QED
  BY <1>1, <1>2

(* A call has been made, and its callback goes on.                           *)
AfterCall(h) == [h EXCEPT !.calls = Tail(@)]

LEMMA CallOn ==
  ASSUME HttpInv, handling.calls # <<>>, NEW R, FineGoes(net, R, handling.of),
         handling' = AfterCall(handling),
         LET s == net.socket[handling.of] t == R.socket[handling.of]
         IN /\ Resting(t) /\ t.at = "open"
            /\ "inStream" \notin t.on
            /\ IF Tail(handling.calls) = <<>> THEN t.timeout
               ELSE "PENDING" \in t.state /\ t.offset = s.offset
  PROVE  AllFine(R) /\ Running(R, handling', sent, fate) /\ CorkOf(R, handling', fate)
<1>1. PICK S, h, o, f, k : S = net /\ h = handling /\ o = sent /\ f = fate /\ k = handling'
  OBVIOUS
<1> DEFINE c == h.of
           s == S.socket[c]
           t == R.socket[c]
<1>2. /\ h.in # "none" /\ c \in Conns /\ f = "runs" /\ Awaits(s, h, o[c].owes)
      /\ S \in Nets(Conns, HttpTokens) /\ s.at = "open"
  BY <1>1, HandlingIs
<1>3. /\ AllFine(S) /\ Running(S, h, o, f) /\ CorkOf(S, h, f) /\ FineGoes(S, R, c)
      /\ Resting(t) /\ t.at = "open" /\ "inStream" \notin t.on
      /\ IF Tail(h.calls) = <<>> THEN t.timeout ELSE "PENDING" \in t.state /\ t.offset = s.offset
      /\ h.calls # <<>>
  BY <1>1 DEF HttpInv
<1>4. k.of = c /\ k.in = h.in /\ k.rest = h.rest /\ k.calls = Tail(h.calls)
  BY <1>1 DEF AfterCall
<1>5. h.calls \in AnyCalls /\ "inStream" \notin s.on
  BY <1>2, <1>3 DEF Awaits
<1>6. k.calls \in AnyCalls /\ (k.calls \in BodyCalls => h.calls \in BodyCalls)
  BY <1>3, <1>4, <1>5, CallsLeft
<1>7. Awaits(t, k, o[c].owes)
  <2>1. Owes(t, k.rest, o[c].owes)
    BY <1>2, <1>3, <1>4, <1>5 DEF Awaits, Owes
  <2>2. k.calls \in BodyCalls => k.calls # <<>>
    BY NoBodyLeft
  <2> HIDE DEF t, s
  <2> QED
    BY <1>2, <1>3, <1>4, <1>6, <2>1, <2>2 DEF Awaits
<1>8. R.corked = c => k.of = c /\ k.in \in {"data", "handler", "cork"}
  <2>1. R.corked = c => S.corked = c
    BY <1>2, <1>3, ConnsAre DEF FineGoes, Moves, Others, CorkLeft, Tame
  <2>2. S.corked = c => h.in \in {"data", "handler", "cork"}
    BY <1>2, <1>3, ConnsAre DEF CorkOf
  <2> QED
    BY <1>4, <2>1, <2>2
<1>10. Less(k.rest, h.rest)
  BY <1>4 DEF Less
<1>9. AllFine(R) /\ Running(R, k, o, f) /\ CorkOf(R, k, f)
  BY <1>2, <1>3, <1>4, <1>7, <1>8, <1>10, StepOn
<1> QED
  BY <1>1, <1>9

(* What a head or a chunk does.                                              *)
LEMMA WroteFine ==
  ASSUME HttpInv, NEW c \in Conns, NEW S \in Nets(Conns, HttpTokens), Fine(S, c),
         S.socket[c].at = "open", NEW src \in Seq(HttpTokens), NEW optionally \in BOOLEAN,
         NEW R, R = Wrote(Write(S, c, src, optionally), c, src, optionally)
  PROVE  /\ FineGoes(S, R, c) /\ SameControl(S.socket[c], R.socket[c])
         /\ R \in Nets(Conns, HttpTokens) /\ Fine(R, c) /\ R.socket[c].at = "open"
<1>1. WriteFine(S, Write(S, c, src, optionally), R, c, src)
  BY HttpWriteIs
<1> QED
  BY <1>1 DEF WriteFine, FineGoes, Moves, SameControl

LEMMA WriteHeadKeeps == ASSUME HttpInv, WriteHead, UNCHANGED serves PROVE HttpInv'
<1>0. PICK no \in BOOLEAN : no = FALSE
  OBVIOUS
<1> DEFINE c == handling.of
           name == Head(handling.calls)
           flag == FlagOf[name]
           src == <<Piece(c, name)>>
           s == net.socket[c]
<1>1. /\ handling.calls # <<>> /\ name \in {"status", "length", "chunked"}
      /\ handling' = AfterCall(handling) /\ sent' = sent /\ fate' = fate
      /\ net' = IF Has(c, flag) THEN net
                ELSE Wrote(Write(Flagged(net, c, flag), c, src, no), c, src, no)
  BY <1>0 DEF WriteHead, CallMade, AfterCall, FlagOf
<1>2. /\ c \in Conns /\ net \in Nets(Conns, HttpTokens) /\ Fine(net, c) /\ s.at = "open"
      /\ Resting(s) /\ Awaits(s, handling, sent[c].owes)
  BY <1>1, HandlingIs
<1>3. flag \in Marks /\ flag # "PENDING" /\ name \in PieceNames
  <2>1. CASE name = "status"
    BY <2>1, FlagsAre DEF Marks, PieceNames
  <2>2. CASE name = "length"
    BY <2>2, FlagsAre DEF Marks, PieceNames
  <2>3. CASE name = "chunked"
    BY <2>3, FlagsAre DEF Marks, PieceNames
  <2> QED
    BY <1>1, <2>1, <2>2, <2>3
<1>7. Tail(handling.calls) # <<>> /\ "PENDING" \in s.state /\ "inStream" \notin s.on
  BY <1>1, <1>2, CallsLeft DEF Awaits
<1>4. src \in Seq(HttpTokens)
  BY <1>2, <1>3, <1>7, PieceIs
<1> HIDE DEF flag, src
<1>5. PICK R : R = net'
  OBVIOUS
<1>6. /\ FineGoes(net, R, c) /\ R.socket[c].at = "open" /\ R.socket[c].offset = s.offset
      /\ R.socket[c].on = s.on /\ ("PENDING" \in R.socket[c].state <=> "PENDING" \in s.state)
  <2>1. CASE Has(c, flag)
    <3>1. R = net
      BY <1>1, <1>5, <2>1
    <3>2. FineGoes(net, net, c)
      BY <1>2 DEF FineGoes, Moves, Others, CorkLeft, Tame
    <3> QED
      BY <1>2, <3>1, <3>2
  <2>2. CASE ~Has(c, flag)
    <3>0. PICK S : S = net
      OBVIOUS
    <3> DEFINE F == Flagged(S, c, flag)
    <3>1. OpFine(S, F, c) /\ F.socket[c].state = S.socket[c].state \cup {flag}
      BY <1>2, <1>3, <3>0, FlaggedFine
    <3>2. F.socket[c].offset = S.socket[c].offset /\ F.socket[c].on = S.socket[c].on
      BY <1>2, <1>3, <3>0, FlaggedFine
    <3>3. R = Wrote(Write(F, c, src, no), c, src, no)
      BY <1>1, <1>5, <2>2, <3>0
    <3> HIDE DEF F
    <3>4. F \in Nets(Conns, HttpTokens) /\ Fine(F, c) /\ F.socket[c].at = "open"
      BY <1>2, <3>1, OpFineIs
    <3>5. FineGoes(F, R, c) /\ SameControl(F.socket[c], R.socket[c])
      BY <1>2, <1>4, <3>3, <3>4, WroteFine
    <3>6. FineGoes(S, R, c)
      BY <1>2, <3>1, <3>5, FineOn DEF OpFine
    <3> QED
      BY <1>3, <3>0, <3>1, <3>2, <3>4, <3>5, <3>6 DEF SameControl
  <2> QED
    BY <2>1, <2>2
<1>8. Resting(R.socket[c])
  BY <1>2, <1>6 DEF Resting
<1>9. AllFine(R) /\ Running(R, handling', sent, fate) /\ CorkOf(R, handling', fate)
  BY <1>1, <1>6, <1>7, <1>8, CallOn
<1> QED
  BY <1>1, <1>5, <1>9 DEF HttpInv

LEMMA WriteChunkKeeps == ASSUME HttpInv, WriteChunk, UNCHANGED serves PROVE HttpInv'
<1>0. PICK no \in BOOLEAN : no = FALSE
  OBVIOUS
<1>10. PICK on \in BOOLEAN : on = TRUE
  OBVIOUS
<1> DEFINE c == handling.of
           src == <<Piece(c, "chunk")>>
           s == net.socket[c]
           W == Wrote(Write(net, c, src, no), c, src, no)
           A == Arm(W, c, on)
<1>1. /\ handling.calls # <<>> /\ Head(handling.calls) = "chunk"
      /\ handling' = AfterCall(handling) /\ sent' = sent /\ fate' = fate
      /\ net' = W \/ net' = A
  BY <1>0, <1>10 DEF WriteChunk, CallMade, AfterCall
<1>2. /\ c \in Conns /\ net \in Nets(Conns, HttpTokens) /\ Fine(net, c) /\ s.at = "open"
      /\ Resting(s) /\ Awaits(s, handling, sent[c].owes)
  BY <1>1, HandlingIs
<1>4. src \in Seq(HttpTokens)
  <2>1. "PENDING" \in s.state
    BY <1>1, <1>2 DEF Awaits
  <2> QED
    BY <1>2, <2>1, ChunkPiece
<1> HIDE DEF src
<1>3. PICK S, V : S = net /\ V = W
  OBVIOUS
<1>5. FineGoes(S, V, c) /\ SameControl(S.socket[c], V.socket[c])
  BY <1>2, <1>3, <1>4, WroteFine
<1>11. V \in Nets(Conns, HttpTokens) /\ Fine(V, c) /\ V.socket[c].at = "open"
  BY <1>2, <1>3, <1>4, WroteFine
<1>12. PICK B : B = Arm(V, c, on)
  OBVIOUS
<1>13. OpFine(V, B, c) /\ B.socket[c].state = V.socket[c].state
  BY <1>2, <1>11, <1>12, ArmFine
<1>14. B.socket[c].offset = V.socket[c].offset /\ B.socket[c].on = V.socket[c].on
  BY <1>2, <1>11, <1>12, ArmFine
<1>15. FineGoes(S, B, c) /\ B.socket[c].at = "open"
  BY <1>2, <1>5, <1>13, FineOn DEF OpFine
<1>16. PICK R : R = net' /\ (R = V \/ R = B)
  BY <1>1, <1>3, <1>12
<1> HIDE DEF W, A
<1>6. /\ FineGoes(net, R, c) /\ R.socket[c].at = "open" /\ R.socket[c].offset = s.offset
      /\ R.socket[c].on = s.on /\ R.socket[c].state = s.state
  BY <1>3, <1>5, <1>11, <1>13, <1>14, <1>15, <1>16 DEF SameControl
<1>7. Tail(handling.calls) # <<>> /\ "PENDING" \in s.state /\ "inStream" \notin s.on
  BY <1>1, <1>2, CallsLeft DEF Awaits
<1>8. Resting(R.socket[c])
  BY <1>2, <1>6 DEF Resting
<1>9. AllFine(R) /\ Running(R, handling', sent, fate) /\ CorkOf(R, handling', fate)
  BY <1>1, <1>6, <1>7, <1>8, CallOn
<1> QED
  BY <1>1, <1>9, <1>16 DEF HttpInv

LEMMA EndChunksKeeps == ASSUME HttpInv, EndChunks, UNCHANGED serves PROVE HttpInv'
<1>0. PICK no \in BOOLEAN : no = FALSE
  OBVIOUS
<1>10. PICK on \in BOOLEAN : on = TRUE
  OBVIOUS
<1> DEFINE c == handling.of
           src == <<Piece(c, "0")>>
           s == net.socket[c]
<1>1. /\ handling.calls # <<>> /\ Head(handling.calls) = "0"
      /\ handling' = AfterCall(handling) /\ sent' = sent /\ fate' = fate
      /\ net' = Arm(MarkDone(Wrote(Write(net, c, src, no), c, src, no), c), c, on)
  BY <1>0, <1>10 DEF EndChunks, CallMade, AfterCall
<1>2. /\ c \in Conns /\ net \in Nets(Conns, HttpTokens) /\ Fine(net, c) /\ s.at = "open"
      /\ Resting(s) /\ Awaits(s, handling, sent[c].owes)
  BY <1>1, HandlingIs
<1>4. src \in Seq(HttpTokens)
  <2>1. "PENDING" \in s.state
    BY <1>1, <1>2 DEF Awaits
  <2> QED
    BY <1>2, <2>1, LastPiece
<1> HIDE DEF src
<1>3. PICK S, V : S = net /\ V = Wrote(Write(net, c, src, no), c, src, no)
  OBVIOUS
<1>5. FineGoes(S, V, c) /\ SameControl(S.socket[c], V.socket[c])
  BY <1>2, <1>3, <1>4, WroteFine
<1>11. V \in Nets(Conns, HttpTokens) /\ Fine(V, c) /\ V.socket[c].at = "open"
  BY <1>2, <1>3, <1>4, WroteFine
<1>12. PICK M, R : M = MarkDone(V, c) /\ R = Arm(M, c, on)
  OBVIOUS
<1>13. OpFine(V, M, c) /\ M.socket[c].state = V.socket[c].state \ {"PENDING"}
  BY <1>2, <1>11, <1>12, MarkDoneFine
<1>14. /\ M.socket[c].offset = V.socket[c].offset
       /\ M.socket[c].on = V.socket[c].on \ {"onAborted", "onWritable"}
  BY <1>2, <1>11, <1>12, MarkDoneFine
<1>15. M \in Nets(Conns, HttpTokens) /\ Fine(M, c) /\ M.socket[c].at = "open"
  BY <1>2, <1>13, OpFineIs
<1>16. OpFine(M, R, c) /\ R.socket[c].state = M.socket[c].state /\ R.socket[c].timeout = on
  BY <1>2, <1>12, <1>15, ArmFine
<1>17. R.socket[c].offset = M.socket[c].offset /\ R.socket[c].on = M.socket[c].on
  BY <1>2, <1>12, <1>15, ArmFine
<1>18. FineGoes(S, R, c) /\ R.socket[c].at = "open"
  <2>1. OpFine(V, R, c)
    BY <1>2, <1>13, <1>16, OpFineOn
  <2> QED
    BY <1>2, <1>5, <2>1, FineOn DEF OpFine
<1>7. Tail(handling.calls) = <<>> /\ "inStream" \notin s.on
  BY <1>1, <1>2, CallsLeft, SMTT(40) DEF Awaits
<1>19. R.socket[c].on = {}
  BY <1>2, <1>3, <1>5, <1>7, <1>14, <1>17, SMTT(40) DEF SameControl, Resting
<1>8. Resting(R.socket[c])
  BY <1>2, <1>3, <1>5, <1>14, <1>17, <1>19 DEF SameControl, Resting
<1>20. R.socket[c].timeout
  BY <1>10, <1>16
<1>9. AllFine(R) /\ Running(R, handling', sent, fate) /\ CorkOf(R, handling', fate)
  BY <1>1, <1>3, <1>7, <1>8, <1>18, <1>19, <1>20, CallOn, SMTT(40)
<1> QED
  BY <1>1, <1>3, <1>9, <1>12 DEF HttpInv

(* What internalEnd leaves when it has written of all: the timeout is armed  *)
(* whether all of it went out or not.                                        *)
BodyLeft(S, A, c, all, done) ==
  LET s == S.socket[c] t == A.socket[c]
  IN /\ FineGoes(S, A, c) /\ t.at = "open" /\ t.state = s.state /\ t.on = s.on /\ t.timeout
     /\ t.offset \in s.offset..Len(all) /\ (done <=> t.offset = Len(all))

LEMMA BodyWritten ==
  ASSUME NEW S \in Nets(Conns, HttpTokens), NEW c \in Conns, Fine(S, c), S.socket[c].at = "open",
         NEW all \in Seq(HttpTokens), S.socket[c].offset \in 0..Len(all), NEW opt \in BOOLEAN
  PROVE  LET src == Drop(all, S.socket[c].offset)
             r == Write(S, c, src, opt)
             W == Wrote(r, c, src, opt)
             O == Offset(W, c, W.socket[c].offset + r.written)
             done == O.socket[c].offset = Len(all)
             A == TimeoutAtEnd(O, c, done, r.failed \/ r.written < Len(src))
         IN BodyLeft(S, A, c, all, done)
<1>0. PICK on \in BOOLEAN : on = TRUE
  OBVIOUS
<1> DEFINE n == S.socket[c].offset
           src == Drop(all, n)
           r == Write(S, c, src, opt)
           W == Wrote(r, c, src, opt)
           m == W.socket[c].offset + r.written
           O == Offset(W, c, m)
           done == O.socket[c].offset = Len(all)
           A == TimeoutAtEnd(O, c, done, r.failed \/ r.written < Len(src))
<1>1. src \in Seq(HttpTokens) /\ Len(src) = Len(all) - n /\ Len(all) \in Nat /\ n \in Nat
  <2>1. Len(all) \in Nat
    BY LenProperties
  <2>2. n \in 0..Len(all)
    OBVIOUS
  <2> HIDE DEF n
  <2>3. Drop(all, n) \in Seq(HttpTokens) /\ Len(Drop(all, n)) = Len(all) - n
    BY <2>2, Cut
  <2> QED
    BY <2>1, <2>2, <2>3
<1> HIDE DEF src
<1>2. WriteFine(S, r, W, c, src)
  BY <1>1, HttpWriteIs
<1> HIDE DEF r, W
<1>3. /\ FineGoes(S, W, c) /\ W \in Nets(Conns, HttpTokens) /\ Fine(W, c)
      /\ W.socket[c].at = "open" /\ W.socket[c].state = S.socket[c].state
      /\ W.socket[c].on = S.socket[c].on /\ W.socket[c].offset = n
      /\ r.written \in 0..Len(src) /\ r.failed \in BOOLEAN
  BY <1>2 DEF WriteFine, FineGoes, Moves, SameControl
<1>4. m = n + r.written /\ m \in n..Len(all) /\ m \in Nat
  BY <1>1, <1>3
<1> HIDE DEF m, n
<1>5. OpFine(W, O, c) /\ O.socket[c].state = W.socket[c].state /\ O.socket[c].offset = m
  BY <1>3, <1>4, OffsetFine
<1>6. O.socket[c].on = W.socket[c].on
  BY <1>3, <1>4, OffsetFine
<1> HIDE DEF O
<1>7. O \in Nets(Conns, HttpTokens) /\ Fine(O, c) /\ O.socket[c].at = "open"
  BY <1>5, OpFineIs
<1>8. A = Arm(O, c, on)
  <2>1. done \/ r.written < Len(src)
    BY <1>1, <1>3, <1>4, <1>5
  <2> QED
    BY <1>0, <2>1 DEF TimeoutAtEnd
<1>9. OpFine(O, A, c) /\ A.socket[c].state = O.socket[c].state
  BY <1>7, <1>8, ArmFine
<1>10. A.socket[c].offset = O.socket[c].offset /\ A.socket[c].on = O.socket[c].on
  BY <1>7, <1>8, ArmFine
<1>11. A.socket[c].timeout = on
  BY <1>7, <1>8, ArmFine
<1>12. done <=> A.socket[c].offset = Len(all)
  BY <1>10
<1>13. OpFine(W, A, c)
  BY <1>5, <1>9, OpFineOn
<1> HIDE DEF A, done
<1>14. FineGoes(S, A, c)
  BY <1>3, <1>13, FineOn DEF OpFine
<1>15. A.socket[c].offset \in n..Len(all)
  BY <1>4, <1>5, <1>10
<1>16. BodyLeft(S, A, c, all, done)
  BY <1>0, <1>3, <1>5, <1>6, <1>9, <1>10, <1>11, <1>12, <1>14, <1>15 DEF BodyLeft, OpFine, n
<1> QED
  BY <1>16 DEF src, r, W, m, n, O, done, A

LEMMA BodyPieces ==
  ASSUME HttpInv, NEW c \in Conns, "PENDING" \in net.socket[c].state
  PROVE  /\ <<Piece(c, "body")>> \in Seq(HttpTokens) /\ Len(<<Piece(c, "body")>>) = 1
         /\ <<Piece(c, "body1"), Piece(c, "body2")>> \in Seq(HttpTokens)
         /\ Len(<<Piece(c, "body1"), Piece(c, "body2")>>) = 2
<1>1. PICK x, y, z \in PieceNames : x = "body" /\ y = "body1" /\ z = "body2"
  BY DEF PieceNames
<1>2. Piece(c, x) \in HttpTokens /\ Piece(c, y) \in HttpTokens /\ Piece(c, z) \in HttpTokens
  BY PieceIs
<1>3. \A p, q \in HttpTokens : /\ <<p>> \in Seq(HttpTokens) /\ <<p, q>> \in Seq(HttpTokens)
                               /\ Len(<<p>>) = 1 /\ Len(<<p, q>>) = 2
  OBVIOUS
<1> QED
  BY <1>1, <1>2, <1>3

LEMMA EndBodyKeeps == ASSUME HttpInv, EndBody, UNCHANGED serves PROVE HttpInv'
<1> DEFINE c == handling.of
           try == Head(handling.calls) = "try"
           all == IF try THEN <<Piece(c, "body1"), Piece(c, "body2")>> ELSE <<Piece(c, "body")>>
           s == net.socket[c]
           src == Drop(all, s.offset)
           r == Write(net, c, src, try)
           W == Wrote(r, c, src, try)
           O == Offset(W, c, W.socket[c].offset + r.written)
           done == O.socket[c].offset = Len(all)
           A == TimeoutAtEnd(O, c, done, r.failed \/ r.written < Len(src))
<1>1. /\ handling.calls # <<>> /\ Head(handling.calls) \in {"body", "try"}
      /\ handling' = AfterCall(handling) /\ sent' = sent /\ fate' = fate
      /\ net' = IF done THEN MarkDone(A, c)
                ELSE IF try THEN Callbacks(A, c, {"onAborted", "onWritable"}) ELSE A
  BY ZenonT(40) DEF EndBody, CallMade, AfterCall, Offset, Callbacks
<1>2. /\ c \in Conns /\ net \in Nets(Conns, HttpTokens) /\ Fine(net, c) /\ s.at = "open"
      /\ Resting(s) /\ Awaits(s, handling, sent[c].owes)
  BY <1>1, HandlingIs
<1>3. PICK opt \in BOOLEAN : opt = try
  BY Zenon
<1>4. all \in Seq(HttpTokens) /\ (opt => Len(all) = 2) /\ (~opt => Len(all) = 1)
  <2>1. "PENDING" \in s.state
    BY <1>1, <1>2, ZenonT(40) DEF Awaits
  <2> QED
    BY <1>2, <1>3, <2>1, BodyPieces, ZenonT(40)
<1>5. /\ Tail(handling.calls) = <<>> /\ "PENDING" \in s.state /\ "inStream" \notin s.on
      /\ ~opt => s.offset = 0
  BY <1>1, <1>2, <1>3, CallsLeft DEF Awaits
<1>6. s.offset \in 0..Len(all) /\ Len(all) \in 1..2
  BY <1>2, <1>3, <1>4, <1>5, SMTT(40) DEF Resting
<1> HIDE DEF all, try
<1>7. PICK S : S = net
  OBVIOUS
<1>8. PICK B, fin : B = A /\ fin = done
  BY ZenonT(40)
<1>9. BodyLeft(S, B, c, all, fin)
  BY <1>2, <1>3, <1>4, <1>6, <1>7, <1>8, BodyWritten, ZenonT(40)
<1>16. net' = IF fin THEN MarkDone(B, c)
              ELSE IF opt THEN Callbacks(B, c, {"onAborted", "onWritable"}) ELSE B
  BY <1>1, <1>3, <1>8
<1> HIDE DEF A, done, s
<1>10. /\ FineGoes(S, B, c) /\ B \in Nets(Conns, HttpTokens) /\ Fine(B, c)
       /\ B.socket[c].at = "open"
  BY <1>9 DEF BodyLeft, FineGoes, Moves
<1>11. /\ B.socket[c].state = S.socket[c].state /\ B.socket[c].on = S.socket[c].on /\ B.socket[c].timeout
       /\ B.socket[c].offset \in S.socket[c].offset..Len(all) /\ (fin <=> B.socket[c].offset = Len(all))
  BY <1>9 DEF BodyLeft
<1>12. /\ Resting(S.socket[c]) /\ "PENDING" \in S.socket[c].state /\ "inStream" \notin S.socket[c].on
       /\ ~opt => S.socket[c].offset = 0
  BY <1>2, <1>5, <1>7 DEF s
<1>13. B.socket[c].offset \in 0..2
  <2>1. S.socket[c].offset \in 0..2
    BY <1>12 DEF Resting
  <2> DEFINE a == S.socket[c].offset
             b == B.socket[c].offset
             m == Len(all)
  <2>2. a \in 0..2 /\ m \in 1..2 /\ b \in a..m
    BY <1>6, <1>11, <2>1
  <2> HIDE DEF a, b, m
  <2>3. b \in 0..2
    BY <2>2
  <2> QED
    BY <2>3 DEF b
<1>14. \E R : /\ R = net' /\ FineGoes(S, R, c) /\ Resting(R.socket[c]) /\ R.socket[c].at = "open"
              /\ "inStream" \notin R.socket[c].on /\ R.socket[c].timeout
  <2>1. CASE fin
    <3>1. PICK R : R = MarkDone(B, c)
      OBVIOUS
    <3>2. OpFine(B, R, c) /\ R.socket[c].state = B.socket[c].state \ {"PENDING"}
      BY <1>2, <1>10, <3>1, MarkDoneFine
    <3>3. /\ R.socket[c].offset = B.socket[c].offset
          /\ R.socket[c].on = B.socket[c].on \ {"onAborted", "onWritable"}
      BY <1>2, <1>10, <3>1, MarkDoneFine
    <3>4. R.socket[c].timeout = B.socket[c].timeout
      BY <1>2, <1>10, <3>1, MarkDoneFine
    <3>5. FineGoes(S, R, c) /\ R.socket[c].at = "open"
      BY <1>2, <1>10, <3>2, FineOn DEF OpFine
    <3>6. R.socket[c].on = {}
      BY <1>11, <1>12, <3>3 DEF Resting
    <3>7. Resting(R.socket[c])
      BY <1>13, <3>3, <3>5, <3>6 DEF Resting
    <3> QED
      BY <1>11, <1>16, <2>1, <3>1, <3>4, <3>5, <3>6, <3>7
  <2>2. CASE ~fin /\ opt
    <3>0. PICK on \in SUBSET Handlers : on = {"onAborted", "onWritable"}
      BY DEF Handlers
    <3>1. PICK R : R = Callbacks(B, c, on)
      OBVIOUS
    <3>2. OpFine(B, R, c) /\ R.socket[c].state = B.socket[c].state
      BY <1>2, <1>10, <3>1, CallbacksFine
    <3>3. R.socket[c].offset = B.socket[c].offset /\ R.socket[c].on = on
      BY <1>2, <1>10, <3>1, CallbacksFine
    <3>4. R.socket[c].timeout = B.socket[c].timeout
      BY <1>2, <1>10, <3>1, CallbacksFine
    <3>5. FineGoes(S, R, c) /\ R.socket[c].at = "open"
      BY <1>2, <1>10, <3>2, FineOn DEF OpFine
    <3>7. Resting(R.socket[c])
      BY <1>11, <1>12, <1>13, <3>0, <3>2, <3>3, <3>5 DEF Resting
    <3> QED
      BY <1>11, <1>16, <2>2, <3>0, <3>1, <3>3, <3>4, <3>5, <3>7
  <2>3. CASE ~fin /\ ~opt
    <3>1. B.socket[c].offset = 0
      <4> DEFINE b == B.socket[c].offset
                 m == Len(all)
      <4>1. m = 1 /\ b \in 0..m /\ b # m
        BY <1>4, <1>11, <1>12, <2>3
      <4> HIDE DEF b, m
      <4>2. b = 0
        BY <4>1
      <4> QED
        BY <4>2 DEF b
    <3>2. Resting(B.socket[c])
      BY <1>10, <1>11, <1>12, <3>1 DEF Resting
    <3> QED
      BY <1>10, <1>11, <1>12, <1>16, <2>3, <3>2
  <2> QED
    BY <2>1, <2>2, <2>3
<1>15. PICK R : /\ R = net' /\ FineGoes(S, R, c) /\ Resting(R.socket[c]) /\ R.socket[c].at = "open"
                /\ "inStream" \notin R.socket[c].on /\ R.socket[c].timeout
  BY <1>14
<1>17. AllFine(R) /\ Running(R, handling', sent, fate) /\ CorkOf(R, handling', fate)
  BY <1>1, <1>5, <1>7, <1>15, CallOn
<1> QED
  BY <1>1, <1>15, <1>17, SMTT(40) DEF HttpInv

(* What is left to parse after its first.                                    *)
LEMMA RestOfBuffer ==
  ASSUME NEW rest \in Seq(ReadKinds), rest # <<>>, NEW owes \in BOOLEAN, Legal(rest, owes)
  PROVE  /\ Tail(rest) \in Seq(ReadKinds) /\ Head(rest) \in ReadKinds
         /\ Head(rest) = "fin" <=> owes
         /\ Legal(Tail(rest), Head(rest) = "stream")
         /\ Last(rest) = IF Tail(rest) = <<>> THEN Head(rest) ELSE Last(Tail(rest))
<1> DEFINE t == Tail(rest)
<1>1. /\ t \in Seq(ReadKinds) /\ Head(rest) \in ReadKinds /\ Head(rest) = rest[1]
      /\ Len(rest) \in Nat /\ Len(rest) > 0 /\ Len(t) = Len(rest) - 1
      /\ \A i \in 1..Len(t) : t[i] = rest[i + 1]
      /\ DOMAIN rest = 1..Len(rest) /\ DOMAIN t = 1..Len(t)
  BY HeadTailProperties, LenProperties, EmptySeq
<1>2. \A i \in 1..Len(rest) :
        (rest[i] = "fin") <=> (IF i = 1 THEN owes ELSE rest[i - 1] = "stream")
  BY <1>1 DEF Legal
<1> HIDE DEF t
<1>3. Head(rest) = "fin" <=> owes
  BY <1>1, <1>2
<1>4. Legal(t, Head(rest) = "stream")
  <2>1. ASSUME NEW i \in 1..Len(t), i # 1
        PROVE  (t[i] = "fin") <=> (t[i - 1] = "stream")
    <3>1. i + 1 \in 1..Len(rest) /\ i + 1 # 1 /\ i - 1 \in 1..Len(t) /\ (i + 1) - 1 = i
          /\ (i - 1) + 1 = i
      BY <1>1, <2>1
    <3>2. (rest[i + 1] = "fin") <=> (rest[i] = "stream")
      BY <1>2, <3>1
    <3> QED
      BY <1>1, <3>1, <3>2
  <2>2. ASSUME NEW i \in 1..Len(t), i = 1
        PROVE  (t[i] = "fin") <=> (Head(rest) = "stream")
    <3>1. 2 \in 1..Len(rest) /\ 2 - 1 = 1 /\ 2 # 1
      BY <1>1, <2>2
    <3>2. (rest[2] = "fin") <=> (rest[1] = "stream")
      BY <1>2, <3>1
    <3>3. t[1] = rest[2]
      BY <1>1, <2>2
    <3> QED
      BY <1>1, <2>2, <3>2, <3>3
  <2>3. ASSUME NEW i \in 1..Len(t)
        PROVE  (t[i] = "fin") <=> (IF i = 1 THEN Head(rest) = "stream" ELSE t[i - 1] = "stream")
    BY <2>1, <2>2
  <2> QED
    BY <1>1, <2>3 DEF Legal
<1>5. Last(rest) = IF t = <<>> THEN Head(rest) ELSE Last(t)
  <2>1. CASE t = <<>>
    <3>1. Len(rest) = 1
      BY <1>1, <2>1, EmptySeq
    <3> QED
      BY <1>1, <2>1, <3>1 DEF Last
  <2>2. CASE t # <<>>
    <3>1. Len(t) > 0 /\ Len(t) \in Nat
      BY <1>1, <2>2, EmptySeq, LenProperties
    <3>2. Len(t) \in 1..Len(t) /\ Len(t) + 1 = Len(rest)
      BY <1>1, <3>1
    <3> QED
      BY <1>1, <2>2, <3>2 DEF Last
  <2> QED
    BY <2>1, <2>2
<1> QED
  BY <1>1, <1>3, <1>4, <1>5 DEF t

LEMMA OwesNext ==
  ASSUME NEW s, NEW t, NEW rest, NEW owes \in BOOLEAN, Owes(s, rest, owes), rest # <<>>,
         "inStream" \in t.on <=> Head(rest) = "stream"
  PROVE  /\ Owes(t, Tail(rest), owes)
         /\ Head(rest) = "fin" <=> "inStream" \in s.on
<1>1. PICK streams \in BOOLEAN : streams <=> "inStream" \in s.on
  <2>1. CASE "inStream" \in s.on
    <3> WITNESS TRUE \in BOOLEAN
    <3> QED
      BY <2>1
  <2>2. CASE "inStream" \notin s.on
    <3> WITNESS FALSE \in BOOLEAN
    <3> QED
      BY <2>2
  <2> QED
    BY <2>1, <2>2
<1>2. rest \in Seq(ReadKinds) /\ Legal(rest, streams) /\ (owes <=> Last(rest) = "stream")
  BY <1>1 DEF Owes, Legal
<1>3. /\ Tail(rest) \in Seq(ReadKinds) /\ (Head(rest) = "fin" <=> streams)
      /\ Last(rest) = IF Tail(rest) = <<>> THEN Head(rest) ELSE Last(Tail(rest))
  BY <1>2, RestOfBuffer
<1>4. Legal(Tail(rest), Head(rest) = "stream")
  BY <1>2, RestOfBuffer
<1>6. Legal(Tail(rest), "inStream" \in t.on)
  BY <1>4 DEF Legal
<1>7. owes <=> IF Tail(rest) = <<>> THEN "inStream" \in t.on ELSE Last(Tail(rest)) = "stream"
  BY <1>2, <1>3
<1> QED
  BY <1>1, <1>3, <1>6, <1>7 DEF Owes

\* A request that begins on S: the timer armed, the offset reset, the response pending.
BeginOn(S, c, no, on) == Callbacks(Requested(Offset(Arm(S, c, no), c, 0), c), c, on)

\* What a request that begins leaves behind.
BegunOn(S, R, c, on) ==
    /\ Moves(S, R, c) /\ R.corked = S.corked
    /\ R.socket[c].at = "open" /\ R.socket[c].state = {"PENDING"} /\ R.socket[c].offset = 0
    /\ R.socket[c].on = on /\ R.socket[c].request = S.socket[c].request + 1

(* A request begins a response, and a callback of the application.           *)
LEMMA RequestFine ==
  ASSUME NEW S \in Nets(Conns, HttpTokens), NEW c \in Conns, Fine(S, c), S.socket[c].at = "open",
         NEW on \in SUBSET Handlers, NEW no \in BOOLEAN
  PROVE  BegunOn(S, BeginOn(S, c, no, on), c, on)
<1>0. PICK R : R = BeginOn(S, c, no, on)
  OBVIOUS
<1>1. PICK A, z : A = Arm(S, c, no) /\ z = 0
  OBVIOUS
<1>2. PICK B, P : B = Offset(A, c, z) /\ P = Requested(B, c)
  OBVIOUS
<1>3. R = Callbacks(P, c, on)
  BY <1>0, <1>1, <1>2 DEF BeginOn
<1>4. OpFine(S, A, c) /\ A.socket[c].request = S.socket[c].request
  BY <1>1, ArmFine
<1>5. A \in Nets(Conns, HttpTokens) /\ Fine(A, c) /\ A.socket[c].at = "open"
  BY <1>4, OpFineIs
<1>6. OpFine(A, B, c) /\ B.socket[c].offset = z /\ B.socket[c].request = A.socket[c].request
  <2>1. z \in Nat
    BY <1>1
  <2> QED
    BY <1>2, <1>5, <2>1, OffsetFine
<1>7. B \in Nets(Conns, HttpTokens) /\ Fine(B, c) /\ B.socket[c].at = "open"
  BY <1>6, OpFineIs
<1>8. Moves(B, P, c) /\ P.corked = B.corked /\ P.socket[c].at = "open"
  BY <1>2, <1>7, RequestedFine
<1>14. /\ P.socket[c].state = {"PENDING"} /\ P.socket[c].offset = B.socket[c].offset
       /\ P.socket[c].request = B.socket[c].request + 1
  BY <1>2, <1>7, RequestedFine
<1>9. P \in Nets(Conns, HttpTokens) /\ Fine(P, c) /\ P.socket[c].at = "open"
  BY <1>8 DEF Moves
<1>10. OpFine(P, R, c) /\ R.socket[c].state = P.socket[c].state
  BY <1>3, <1>9, CallbacksFine
<1>11. /\ R.socket[c].offset = P.socket[c].offset /\ R.socket[c].on = on
       /\ R.socket[c].request = P.socket[c].request
  BY <1>3, <1>9, CallbacksFine
<1>12. Moves(S, R, c) /\ R.corked = S.corked
  <2>1. Moves(S, A, c) /\ Moves(A, B, c) /\ Moves(P, R, c)
    BY <1>4, <1>6, <1>10 DEF OpFine, FineGoes
  <2>2. Moves(S, B, c)
    BY <2>1, MovesOn
  <2>3. Moves(S, P, c)
    BY <1>8, <2>2, MovesOn
  <2>4. Moves(S, R, c)
    BY <2>1, <2>3, MovesOn
  <2> QED
    BY <1>4, <1>6, <1>8, <1>10, <2>4 DEF OpFine
<1>13. R.socket[c].at = "open"
  BY <1>10 DEF OpFine
<1>15. /\ R.socket[c].state = {"PENDING"} /\ R.socket[c].offset = 0 /\ R.socket[c].on = on
       /\ R.socket[c].request = S.socket[c].request + 1
  BY <1>1, <1>4, <1>6, <1>10, <1>11, <1>14
<1>16. BegunOn(S, R, c, on)
  BY <1>12, <1>13, <1>15, SMTT(40) DEF BegunOn
<1> QED
  BY <1>0, <1>16

LEMMA RequestOn ==
  ASSUME HttpInv, Parses, ~Busy, UNCHANGED <<serves, sent, fate>>,
         NEW kind, NEW on \in SUBSET Handlers, NEW calls,
         Head(handling.rest) = kind, kind # "fin",
         net' = [[[Arm(net, handling.of, FALSE) EXCEPT !.socket[handling.of].offset = 0]
                   EXCEPT !.socket[handling.of].state = {"PENDING"},
                          !.socket[handling.of].request = @ + 1]
                   EXCEPT !.socket[handling.of].on = @ \cup on],
         handling' = [handling EXCEPT !.in = "handler", !.rest = Tail(@), !.calls = calls],
         calls \in AnyCalls, "inStream" \in on <=> kind = "stream",
         calls # <<>> => on = {},
         (on = {} /\ calls # <<>>) \/ on = {"onAborted"} \/ on = {"onAborted", "inStream"}
  PROVE  HttpInv'
<1>0. PICK no \in BOOLEAN : no = FALSE
  OBVIOUS
<1>1. PICK S, h, o, f, k, R : S = net /\ h = handling /\ o = sent /\ f = fate /\ k = handling' /\ R = net'
  BY ZenonT(40)
<1> DEFINE c == h.of
           s == S.socket[c]
           t == R.socket[c]
<1>2. /\ c \in Conns /\ S \in Nets(Conns, HttpTokens) /\ Fine(S, c) /\ s.at = "open"
      /\ Resting(s) /\ Awaits(s, h, o[c].owes) /\ f = "runs" /\ o[c].owes \in BOOLEAN
      /\ Within(s, h.rest, o[c].n) /\ o[c].n \in Nat /\ s.request \in Nat
  BY <1>1, HandlingIs, ZenonT(40) DEF Parses
<1>3. AllFine(S) /\ Running(S, h, o, f) /\ CorkOf(S, h, f)
  BY <1>1, ZenonT(40) DEF HttpInv
<1>4. h.in = "data" /\ h.rest # <<>> /\ "PENDING" \notin s.state
  BY <1>1, ZenonT(40) DEF Parses, Busy, HasResponded
<1>5. s.on = {}
  BY <1>2, <1>4, SMTT(40) DEF Resting
<1>6. R = Callbacks(Requested(Offset(Arm(S, c, no), c, 0), c), c, on)
  <2>1. PICK P : P = Requested(Offset(Arm(S, c, no), c, 0), c)
    OBVIOUS
  <2>2. R = [P EXCEPT !.socket[c].on = @ \cup on]
    BY <1>0, <1>1, <2>1 DEF Requested, Offset
  <2>3. P.socket[c].on = {}
    <3>1. PICK A, z : A = Arm(S, c, no) /\ z = 0
      OBVIOUS
    <3>2. PICK B : B = Offset(A, c, z)
      BY SMTT(40)
    <3>3. OpFine(S, A, c) /\ A.socket[c].on = s.on
      BY <1>2, <3>1, ArmFine
    <3>4. A \in Nets(Conns, HttpTokens) /\ Fine(A, c) /\ A.socket[c].at = "open"
      BY <1>2, <3>3, OpFineIs
    <3>5. z \in Nat
      BY <3>1, SMTT(40)
    <3>6. OpFine(A, B, c) /\ B.socket[c].on = A.socket[c].on
      BY <1>2, <3>2, <3>4, <3>5, OffsetFine, SMTT(40)
    <3>7. B \in Nets(Conns, HttpTokens) /\ Fine(B, c) /\ B.socket[c].at = "open"
      BY <1>2, <3>6, OpFineIs
    <3>8. P = Requested(B, c)
      BY <2>1, <3>1, <3>2, SMTT(40)
    <3>9. P.socket[c].on = B.socket[c].on
      BY <1>2, <3>7, <3>8, RequestedFine
    <3> QED
      BY <1>5, <3>3, <3>6, <3>9
  <2>4. R = Callbacks(P, c, P.socket[c].on \cup on)
    BY <2>2 DEF Callbacks
  <2>5. P.socket[c].on \cup on = on
    BY <2>3
  <2> QED
    BY <2>1, <2>4, <2>5
<1>7. /\ Moves(S, R, c) /\ R.corked = S.corked /\ t.at = "open" /\ t.state = {"PENDING"}
      /\ t.offset = 0 /\ t.on = on /\ t.request = s.request + 1
  <2>1. PICK Q : Q = Callbacks(Requested(Offset(Arm(S, c, no), c, 0), c), c, on)
    OBVIOUS
  <2>2. /\ Moves(S, Q, c) /\ Q.corked = S.corked /\ Q.socket[c].at = "open"
        /\ Q.socket[c].state = {"PENDING"}
        /\ Q.socket[c].offset = 0 /\ Q.socket[c].on = on
        /\ Q.socket[c].request = S.socket[c].request + 1
    <3>1. S \in Nets(Conns, HttpTokens) /\ c \in Conns /\ Fine(S, c) /\ S.socket[c].at = "open"
      BY <1>2
    <3>2. no \in BOOLEAN /\ on \in SUBSET Handlers
      OBVIOUS
    <3> HIDE DEF c, s, t
    <3>3. BegunOn(S, BeginOn(S, c, no, on), c, on)
      BY <3>1, <3>2, RequestFine
    <3>4. Q = BeginOn(S, c, no, on)
      BY <2>1 DEF BeginOn
    <3>5. BegunOn(S, Q, c, on)
      BY <3>3, <3>4
    <3> QED
      BY <3>5 DEF BegunOn
  <2>3. R = Q
    BY <1>6, <2>1
  <2> QED
    BY <2>2, <2>3
<1>8. /\ k.of = c /\ k.in = "handler" /\ k.rest = Tail(h.rest) /\ k.calls = calls
      /\ "inStream" \in t.on <=> Head(h.rest) = "stream"
  <2> HIDE DEF t
  <2>1. PICK r : r = Tail(h.rest)
    OBVIOUS
  <2>2. k = [h EXCEPT !.in = "handler", !.rest = r, !.calls = calls]
    BY <1>1, <2>1
  <2>3. k.of = c /\ k.in = "handler" /\ k.rest = r /\ k.calls = calls
    BY <1>4, <2>2, SMTT(40)
  <2>4. "inStream" \in t.on <=> Head(h.rest) = "stream"
    BY <1>1, <1>7
  <2> QED
    BY <2>1, <2>3, <2>4
<1> HIDE DEF s, t
<1>9. Resting(t)
  BY <1>7 DEF Resting
<1>10. Owes(t, k.rest, o[c].owes)
  BY <1>2, <1>4, <1>8, OwesNext DEF Awaits
<1>11. Awaits(t, k, o[c].owes)
  BY <1>7, <1>8, <1>10 DEF Awaits
<1>12. R.corked = c => k.of = c /\ k.in \in {"data", "handler", "cork"}
  BY <1>8
<1>13. Moves(S, R, c) /\ k.in # "none"
  BY <1>7, <1>8
<1>15. Within(t, k.rest, o[c].n)
  <2>1. Head(h.rest) # "fin"
    BY <1>1
  <2> QED
    BY <1>2, <1>4, <1>7, <1>8, <2>1, WithinNext, SMTT(40)
<1>14. AllFine(R) /\ Running(R, k, o, f) /\ CorkOf(R, k, f)
  BY <1>2, <1>3, <1>8, <1>9, <1>11, <1>12, <1>13, <1>15, StepAt, SMTT(40) DEF t
<1> QED
  BY <1>1, <1>14 DEF HttpInv

LEMMA OnRequestKeeps == ASSUME HttpInv, OnRequest, UNCHANGED serves PROVE HttpInv'
<1>1. PICK kind, on, calls :
        /\ Head(handling.rest) = kind
        /\ net' = [[[Arm(net, handling.of, FALSE) EXCEPT !.socket[handling.of].offset = 0]
                     EXCEPT !.socket[handling.of].state = {"PENDING"},
                            !.socket[handling.of].request = @ + 1]
                     EXCEPT !.socket[handling.of].on = @ \cup on]
        /\ handling' = [handling EXCEPT !.in = "handler", !.rest = Tail(@), !.calls = calls]
        /\ \/ kind = "end" /\ on = {} /\ calls = EndCalls
           \/ kind = "tryEnd" /\ on = {} /\ calls = TryEndCalls
           \/ kind = "chunked" /\ on = {} /\ calls = ChunkedCalls
           \/ kind = "later" /\ on = {"onAborted"} /\ calls = <<>>
           \/ kind = "stream" /\ on = {"onAborted", "inStream"} /\ calls = <<>>
  BY DEF OnRequest
<1>2. Parses /\ ~Busy /\ UNCHANGED <<serves, sent, fate>>
  BY DEF OnRequest
<1>3. /\ calls \in AnyCalls /\ on \in SUBSET Handlers /\ ("inStream" \in on <=> kind = "stream")
      /\ kind # "fin"
      /\ calls # <<>> => on = {}
      /\ (on = {} /\ calls # <<>>) \/ on = {"onAborted"} \/ on = {"onAborted", "inStream"}
  <2>1. EndCalls # <<>> /\ TryEndCalls # <<>> /\ ChunkedCalls # <<>>
    BY DEF EndCalls, TryEndCalls, ChunkedCalls
  <2>2. EndCalls \in AnyCalls /\ TryEndCalls \in AnyCalls /\ ChunkedCalls \in AnyCalls
        /\ <<>> \in AnyCalls
    BY DEF AnyCalls, BodyCalls, TryCalls, ChunkCalls
  <2> QED
    BY <1>1, <2>1, <2>2 DEF Handlers
<1> QED
  BY <1>1, <1>2, <1>3, RequestOn, ZenonT(40)

LEMMA OnRefusedKeeps == ASSUME HttpInv, OnRefused, UNCHANGED serves PROVE HttpInv'
<1>1. PICK S, h, o, f, k, R : S = net /\ h = handling /\ o = sent /\ f = fate /\ k = handling' /\ R = net'
  OBVIOUS
<1> DEFINE c == h.of
<1>2. c \in Conns /\ S \in Nets(Conns, HttpTokens) /\ f = "runs"
  BY <1>1, HandlingIs DEF OnRefused, Parses
<1>3. AllFine(S) /\ Running(S, h, o, f) /\ CorkOf(S, h, f)
  BY <1>1 DEF HttpInv
<1>4. R = CloseConn(S, c) /\ k = NoData /\ UNCHANGED <<serves, sent, fate>>
  BY <1>1 DEF OnRefused, CloseInData
<1>5. /\ FineGoes(S, R, c) /\ R.socket[c].at = "closed" /\ R.socket[c].state = {}
      /\ R.socket[c].on = {} /\ R.socket[c].offset = 0
  BY <1>2, <1>4, FineClose
<1>6. Resting(R.socket[c]) /\ NotCalled(R.socket[c], o[c].owes)
  BY <1>5 DEF Resting, NotCalled
<1>7. AllFine(R) /\ Running(R, k, o, f) /\ CorkOf(R, k, f)
  BY <1>2, <1>3, <1>4, <1>5, <1>6, StepOn
<1> QED
  BY <1>1, <1>4, <1>7 DEF HttpInv

LEMMA HandlerReturnsKeeps == ASSUME HttpInv, HandlerReturns, UNCHANGED serves PROVE HttpInv'
<1>0. PICK on \in BOOLEAN : on = TRUE
  OBVIOUS
<1>1. PICK S, h, o, f, k, R : S = net /\ h = handling /\ o = sent /\ f = fate /\ k = handling' /\ R = net'
  OBVIOUS
<1> DEFINE c == h.of
           s == S.socket[c]
<1>2. /\ c \in Conns /\ S \in Nets(Conns, HttpTokens) /\ Fine(S, c) /\ s.at = "open"
      /\ Resting(s) /\ Awaits(s, h, o[c].owes) /\ f = "runs"
  BY <1>1, HandlingIs DEF HandlerReturns
<1>3. AllFine(S) /\ Running(S, h, o, f) /\ CorkOf(S, h, f)
  BY <1>1 DEF HttpInv
<1>4. h.in = "handler" /\ h.calls = <<>> /\ UNCHANGED <<serves, sent>>
  BY <1>1 DEF HandlerReturns
<1>5. CASE Busy /\ "onAborted" \notin net.socket[c].on
  <2>1. fate' = "terminated" /\ k = NoData /\ R = S
    BY <1>1, <1>5 DEF HandlerReturns
  <2>2. Running(R, k, o, "terminated")
    <3>1. ASSUME NEW d \in Conns PROVE Within(S.socket[d], <<>>, o[d].n)
      <4>1. PICK q : q = IF d = h.of THEN h.rest ELSE <<>>
        OBVIOUS
      <4>2. Within(S.socket[d], q, o[d].n) /\ o[d].n \in Nat
        BY <1>3, <4>1 DEF Running
      <4>3. S.socket[d].request \in Nat
        BY <1>2, NetFields DEF SocketRecords
      <4>4. Less(<<>>, q) /\ Tame(S.socket[d], S.socket[d])
        BY DEF Less, Tame
      <4> QED
        BY <4>2, <4>3, <4>4, WithinLess
    <3>2. k.of = NoConn /\ k.in = "none" /\ k = NoData
      BY <2>1 DEF NoData
    <3>3. \A d \in Conns : d # k.of
      BY <3>2, ConnsAre
    <3> QED
      BY <1>3, <2>1, <3>1, <3>2, <3>3 DEF Running
  <2>3. CorkOf(R, k, "terminated")
    BY <1>3, <2>1 DEF CorkOf
  <2> QED
    BY <1>1, <1>3, <1>4, <2>1, <2>2, <2>3 DEF HttpInv
<1>6. CASE ~(Busy /\ "onAborted" \notin net.socket[c].on)
  <2>1. /\ k = [h EXCEPT !.in = "data"] /\ fate' = fate
        /\ R = IF "PENDING" \in s.state /\ "inStream" \in s.on THEN Arm(S, c, on) ELSE S
    BY <1>0, <1>1, <1>6 DEF HandlerReturns, Busy, HasResponded
  <2>2. k.of = c /\ k.in = "data" /\ k.rest = h.rest /\ k.calls = <<>>
    BY <1>4, <2>1
  <2>3. PICK A : A = Arm(S, c, on)
    OBVIOUS
  <2>4. OpFine(S, A, c) /\ A.socket[c].state = s.state
    BY <1>2, <2>3, ArmFine
  <2>5. A.socket[c].offset = s.offset /\ A.socket[c].on = s.on
    BY <1>2, <2>3, ArmFine
  <2>6. A.socket[c].timeout = on
    BY <1>2, <2>3, ArmFine
  <2>7. FineGoes(S, S, c)
    BY <1>2 DEF FineGoes, Moves, Others, CorkLeft, Tame
  <2> DEFINE t == R.socket[c]
  <2>8. /\ FineGoes(S, R, c) /\ t.at = "open" /\ t.state = s.state /\ t.offset = s.offset /\ t.on = s.on
        /\ ("PENDING" \in s.state /\ "inStream" \in s.on) \/ t.timeout = s.timeout
        /\ ("PENDING" \in s.state /\ "inStream" \in s.on) => t.timeout
    BY <1>0, <1>2, <2>1, <2>3, <2>4, <2>5, <2>6, <2>7 DEF OpFine
  <2> HIDE DEF s, t
  <2>9. Resting(t)
    BY <1>2, <2>8 DEF Resting
  <2>10. Owes(t, k.rest, o[c].owes)
    BY <1>2, <2>2, <2>8 DEF Awaits, Owes
  <2>11. t.timeout \/ ("PENDING" \in t.state /\ t.on = {"onAborted"})
    BY <1>2, <1>4, <2>8 DEF Awaits
  <2>12. Awaits(t, k, o[c].owes)
    BY <2>2, <2>8, <2>10, <2>11, NoBodyLeft DEF Awaits, AnyCalls
  <2>13. R.corked = c => k.of = c /\ k.in \in {"data", "handler", "cork"}
    BY <2>2
  <2>15. Less(k.rest, h.rest)
    BY <2>2 DEF Less
  <2>14. AllFine(R) /\ Running(R, k, o, f) /\ CorkOf(R, k, f)
    BY <1>2, <1>3, <2>2, <2>8, <2>9, <2>12, <2>13, <2>15, StepOn DEF t
  <2> QED
    BY <1>1, <1>4, <2>1, <2>14 DEF HttpInv
<1> QED
  BY <1>5, <1>6

LEMMA OnBodyKeeps == ASSUME HttpInv, OnBody, UNCHANGED serves PROVE HttpInv'
<1>0. PICK on \in BOOLEAN : on = TRUE
  OBVIOUS
<1>1. PICK S, h, o, f, k, R : S = net /\ h = handling /\ o = sent /\ f = fate /\ k = handling' /\ R = net'
  OBVIOUS
<1> DEFINE c == h.of
           s == S.socket[c]
           t == R.socket[c]
<1>2. /\ c \in Conns /\ S \in Nets(Conns, HttpTokens) /\ Fine(S, c) /\ s.at = "open"
      /\ Resting(s) /\ Awaits(s, h, o[c].owes) /\ f = "runs" /\ o[c].owes \in BOOLEAN
  BY <1>1, HandlingIs DEF OnBody, Parses
<1>3. AllFine(S) /\ Running(S, h, o, f) /\ CorkOf(S, h, f)
  BY <1>1 DEF HttpInv
<1>4. h.in = "data" /\ h.rest # <<>> /\ Head(h.rest) = "fin" /\ UNCHANGED <<serves, sent, fate>>
  BY <1>1 DEF OnBody, Parses
<1>5. PICK A : A = Arm(S, c, on)
  OBVIOUS
<1>6. OpFine(S, A, c) /\ A.socket[c].state = s.state
  BY <1>2, <1>5, ArmFine
<1>7. A.socket[c].offset = s.offset /\ A.socket[c].on = s.on
  BY <1>2, <1>5, ArmFine
<1>8. A.socket[c].timeout = on
  BY <1>2, <1>5, ArmFine
<1>9. A \in Nets(Conns, HttpTokens) /\ Fine(A, c) /\ A.socket[c].at = "open"
  BY <1>2, <1>6, OpFineIs
<1>10. PICK left : left = A.socket[c].on \ {"inStream"}
  OBVIOUS
<1>11. "inStream" \in s.on
  <2>1. Owes(s, h.rest, o[c].owes)
    BY <1>2 DEF Awaits
  <2>2. PICK u : u = [on |-> {}]
    OBVIOUS
  <2>3. "inStream" \notin u.on /\ Head(h.rest) # "stream"
    BY <1>4, <2>2
  <2> HIDE DEF s
  <2> QED
    BY <1>2, <1>4, <2>1, <2>3, OwesNext, ZenonT(40)
<1>12. s.on = {"onAborted", "inStream"} /\ "PENDING" \in s.state /\ s.offset = 0
  BY <1>2, <1>11 DEF Resting
<1>13. left = {"onAborted"} /\ left \in SUBSET Handlers
  BY <1>7, <1>10, <1>12 DEF Handlers
<1>14. R = Callbacks(A, c, left)
  BY <1>0, <1>1, <1>5, <1>10 DEF OnBody, Callbacks
<1>15. OpFine(A, R, c) /\ t.state = A.socket[c].state
  BY <1>2, <1>9, <1>13, <1>14, CallbacksFine
<1>16. t.offset = A.socket[c].offset /\ t.on = left /\ t.timeout = A.socket[c].timeout
  BY <1>2, <1>9, <1>13, <1>14, CallbacksFine
<1>17. OpFine(S, R, c)
  BY <1>2, <1>6, <1>15, OpFineOn
<1>18. FineGoes(S, R, c) /\ t.at = "open"
  BY <1>17 DEF OpFine
<1>19. k.of = c /\ k.in = "data" /\ k.rest = Tail(h.rest) /\ k.calls = EndCalls
  BY <1>1, <1>4 DEF OnBody
<1>20. "inStream" \notin t.on /\ Head(h.rest) # "stream"
  BY <1>4, <1>13, <1>16
<1> HIDE DEF s, t
<1>21. Owes(t, k.rest, o[c].owes)
  BY <1>2, <1>4, <1>19, <1>20, OwesNext DEF Awaits
<1>22. Resting(t)
  BY <1>6, <1>7, <1>12, <1>13, <1>15, <1>16, <1>18 DEF Resting
<1>23. EndCalls \in AnyCalls /\ EndCalls # <<>>
  BY DEF EndCalls, AnyCalls, BodyCalls
<1>24. Awaits(t, k, o[c].owes)
  BY <1>6, <1>7, <1>12, <1>15, <1>16, <1>18, <1>19, <1>20, <1>21, <1>23 DEF Awaits
<1>25. R.corked = c => k.of = c /\ k.in \in {"data", "handler", "cork"}
  BY <1>19
<1>27. Less(k.rest, h.rest)
  BY <1>4, <1>19 DEF Less
<1>26. AllFine(R) /\ Running(R, k, o, f) /\ CorkOf(R, k, f)
  BY <1>2, <1>3, <1>18, <1>19, <1>22, <1>24, <1>25, <1>27, StepOn DEF t
<1> QED
  BY <1>1, <1>4, <1>26 DEF HttpInv

(* Between callbacks no open connection is corked.                           *)
LEMMA QuietIs ==
  ASSUME HttpInv, handling = NoData, fate = "runs"
  PROVE  /\ \A c \in Conns : /\ Resting(net.socket[c]) /\ NotCalled(net.socket[c], sent[c].owes)
                             /\ Fine(net, c) /\ sent[c].owes \in BOOLEAN
                             /\ Within(net.socket[c], <<>>, sent[c].n)
                             /\ net.socket[c].at # "closed" => net.corked # c
         /\ net \in Nets(Conns, HttpTokens)
<1>1. handling.of = NoConn
  BY DEF NoData
<1>2. \A c \in Conns : c # handling.of
  BY <1>1, ConnsAre
<1>3. net \in Nets(Conns, HttpTokens) /\ \A c \in Conns : Fine(net, c)
  BY DEF HttpInv, AllFine
<1>4. \A c \in Conns : /\ Resting(net.socket[c]) /\ NotCalled(net.socket[c], sent[c].owes)
                       /\ sent[c].owes \in BOOLEAN /\ Within(net.socket[c], <<>>, sent[c].n)
  BY <1>2 DEF HttpInv, Running
<1>5. ASSUME NEW c \in Conns, net.socket[c].at # "closed", net.corked = c PROVE FALSE
  <2>1. c # NoConn /\ net.socket[c].at # "none"
    BY <1>5, ConnsAre DEF HttpInv, CorkOf
  <2>2. net.socket[c].at = "open"
    <3>1. PICK S : S = net
      OBVIOUS
    <3>2. S.socket[c] \in SocketRecords(HttpTokens)
      BY <1>3, <3>1, NetFields
    <3>3. S.socket[c].at \in {"none", "open", "closed"}
      BY <3>2 DEF SocketRecords
    <3> QED
      BY <1>5, <2>1, <3>1, <3>3
  <2> QED
    BY <1>2, <1>5, <2>1, <2>2 DEF HttpInv, CorkOf
<1> QED
  BY <1>3, <1>4, <1>5

LEMMA UncorkedKeeps == ASSUME HttpInv, Uncorked, UNCHANGED serves PROVE HttpInv'
<1>0. PICK no \in BOOLEAN : no = FALSE
  OBVIOUS
<1>10. PICK on \in BOOLEAN : on = TRUE
  OBVIOUS
<1>1. PICK S, h, o, f, k, R : S = net /\ h = handling /\ o = sent /\ f = fate /\ k = handling' /\ R = net'
  OBVIOUS
<1> DEFINE c == h.of
           s == S.socket[c]
           t == R.socket[c]
           r == Uncork(S, c, <<>>, no)
<1>2. /\ c \in Conns /\ S \in Nets(Conns, HttpTokens) /\ Fine(S, c) /\ s.at = "open"
      /\ Resting(s) /\ Awaits(s, h, o[c].owes) /\ f = "runs"
  BY <1>1, HandlingIs DEF Uncorked
<1>3. AllFine(S) /\ Running(S, h, o, f) /\ CorkOf(S, h, f)
  BY <1>1 DEF HttpInv
<1>4. /\ h.in \in {"data", "cork"} /\ h.rest = <<>> /\ h.calls = <<>> /\ k = NoData
      /\ UNCHANGED <<serves, sent, fate>>
      /\ R = IF r.failed THEN Arm(r.net, c, on) ELSE r.net
  BY <1>0, <1>10, <1>1 DEF Uncorked
<1>5. s.timeout \/ ("PENDING" \in s.state /\ s.on = {"onAborted"})
  BY <1>2, <1>4 DEF Awaits
<1>6. /\ FineGoes(S, R, c) /\ R.corked # c /\ t.at = "open" /\ t.state = s.state /\ t.on = s.on
      /\ t.offset = s.offset /\ (s.timeout => t.timeout)
  <2>1. CASE S.corked = c
    <3>1. PICK U : U = UncorkedNet(S, c, no)
      OBVIOUS
    <3>2. Sane(S, c)
      BY <1>2 DEF Fine
    <3>3. StillOpen(S, U, Conns, HttpTokens, c) /\ U.corked = NoConn
      BY ONLY ConnsAre, no \in BOOLEAN, <1>0, <1>2, <2>1, <3>1, <3>2, UncorkSane
    <3>4. SameControl(s, U.socket[c])
      BY ONLY ConnsAre, no \in BOOLEAN, <1>0, <1>2, <2>1, <3>1, <3>2, UncorkSane
    <3>5. Fine(U, c)
      BY <1>2, <3>3, ConnsAre DEF StillOpen, Goes, Fine, CorkFirst
    <3>6. /\ FineGoes(S, U, c) /\ U \in Nets(Conns, HttpTokens) /\ U.socket[c].at = "open"
          /\ U.corked # c
      BY <1>2, <3>3, <3>4, <3>5, ConnsAre DEF StillOpen, Goes, FineGoes, Moves, Tame, SameControl
    <3>7. PICK A : A = Arm(U, c, on)
      OBVIOUS
    <3>8. OpFine(U, A, c) /\ A.socket[c].state = U.socket[c].state
      BY <1>2, <3>5, <3>6, <3>7, ArmFine
    <3>9. A.socket[c].offset = U.socket[c].offset /\ A.socket[c].on = U.socket[c].on
      BY <1>2, <3>5, <3>6, <3>7, ArmFine
    <3>10. A.socket[c].timeout = on
      BY <1>2, <3>5, <3>6, <3>7, ArmFine
    <3>11. FineGoes(S, A, c) /\ A.corked # c /\ A.socket[c].at = "open"
      BY <1>2, <3>6, <3>8, FineOn DEF OpFine
    <3>12. R = A \/ R = U
      BY <1>4, <3>1, <3>7 DEF UncorkedNet
    <3> QED
      BY <1>10, <3>4, <3>6, <3>8, <3>9, <3>10, <3>11, <3>12 DEF SameControl
  <2>2. CASE S.corked # c
    <3>1. r = Result(S, 0, no)
      BY <1>0, <2>2 DEF Uncork
    <3>2. r.net = S /\ r.failed = no
      BY <3>1 DEF Result
    <3>3. R = S
      BY <1>0, <1>4, <3>2
    <3>4. FineGoes(S, S, c)
      BY <1>2 DEF FineGoes, Moves, Others, CorkLeft, Tame
    <3> QED
      BY <1>2, <2>2, <3>3, <3>4
  <2> QED
    BY <2>1, <2>2
<1> HIDE DEF s, t, r
<1>7. Resting(t)
  BY <1>2, <1>6 DEF Resting
<1>8. NotCalled(t, o[c].owes)
  <2>1. o[c].owes <=> "inStream" \in s.on
    BY <1>2, <1>4 DEF Awaits, Owes
  <2> QED
    BY <1>5, <1>6, <2>1 DEF NotCalled, Calm
<1>9. AllFine(R) /\ Running(R, k, o, f) /\ CorkOf(R, k, f)
  BY <1>2, <1>3, <1>4, <1>6, <1>7, <1>8, StepOn DEF t
<1> QED
  BY <1>1, <1>4, <1>9 DEF HttpInv

(* A callback corks its socket, whatever the cork buffer holds.              *)
LEMMA CorkFine ==
  ASSUME NEW S, AllFine(S), NEW c \in Conns,
         \A d \in Conns : S.socket[d].at = "open" => S.corked # d,
         NEW R, R \in Nets(Conns, HttpTokens), R.socket = S.socket, R.corked = c, R.cork = S.cork,
         R.torn = IF S.cork = <<>> THEN S.torn ELSE S.torn \cup {c}
  PROVE  AllFine(R)
<1>1. ASSUME NEW d \in Conns PROVE Fine(R, d)
  <2>1. Fine(S, d) /\ Sane(S, d) /\ S.socket[d].state \subseteq Marks
    BY DEF AllFine, Fine
  <2>2. "shutdown" \notin S.socket[d].state
    BY <2>1 DEF Marks
  <2>3. ASSUME R.socket[d].at = "open", d \notin R.torn
        PROVE  Coming(R, d) = Coming(S, d) /\ d \notin S.torn /\ (d = c => S.cork = <<>>)
    <3>1. d \notin S.torn /\ (d = c => S.cork = <<>>) /\ S.corked # d
      BY <2>3
    <3>2. CASE d = c
      BY <3>1, <3>2 DEF Coming, Out
    <3>3. CASE d # c
      BY <3>1, <3>3 DEF Coming, Out
    <3> QED
      BY <3>1, <3>2, <3>3
  <2>4. Sane(R, d)
    BY <2>1, <2>2, <2>3 DEF Sane
  <2>5. R.socket[d].at = "open" /\ d \notin R.torn => CorkFirst(R, d)
    BY <2>3 DEF CorkFirst
  <2> QED
    BY <2>1, <2>4, <2>5 DEF Fine
<1> QED
  BY <1>1 DEF AllFine

LEMMA CorkedGoes ==
  ASSUME HttpInv, handling = NoData, fate = "runs", fate' = fate, serves' = serves,
         NEW c \in Conns, net.socket[c].at = "open",
         AllFine(net'), net'.socket = net.socket, net'.corked = c,
         sent' \in [Conns -> [n : Nat, owes : BOOLEAN]],
         \A d \in Conns : d # c => sent'[d] = sent[d],
         handling'.of = c, handling'.in \in {"data", "cork"},
         Awaits(net.socket[c], handling', sent'[c].owes),
         Within(net.socket[c], handling'.rest, sent'[c].n)
  PROVE  HttpInv'
<1>1. PICK S, h, o, f, k, R, u :
        /\ S = net /\ h = handling /\ o = sent /\ f = fate /\ k = handling' /\ R = net' /\ u = sent'
  OBVIOUS
<1>2. Running(S, h, o, f) /\ Resting(R.socket[c])
  BY <1>1, QuietIs DEF HttpInv
<1>3. /\ k.in # "none" /\ k.of = c /\ Awaits(R.socket[c], k, u[c].owes)
      /\ Within(R.socket[c], k.rest, u[c].n)
  BY <1>1
<1>4. u \in [Conns -> [n : Nat, owes : BOOLEAN]] /\ \A d \in Conns : d # c => u[d] = o[d]
  BY <1>1
<1>5. (\A d \in Conns : d # c => R.socket[d] = S.socket[d]) /\ f = "runs" /\ h = NoData
  BY <1>1
<1>6. Running(R, k, u, f)
  BY ONLY c \in Conns, <1>2, <1>3, <1>4, <1>5, RunningOn
<1>7. CorkOf(R, k, f)
  BY <1>1, ConnsAre DEF CorkOf
<1> QED
  BY <1>1, <1>6, <1>7 DEF HttpInv

LEMMA OwesNothing ==
  ASSUME NEW s, NEW owes, owes <=> "inStream" \in s.on
  PROVE  Owes(s, <<>>, owes)
<1>1. <<>> \in Seq(ReadKinds) /\ DOMAIN <<>> = {}
  BY EmptySeq
<1> QED
  BY <1>1 DEF Owes, Legal

LEMMA AwaitsCalls ==
  /\ EndCalls \in AnyCalls /\ EndCalls # <<>>
  /\ TryEndCalls \in AnyCalls /\ TryEndCalls # <<>> /\ TryEndCalls \notin BodyCalls
<1>1. EndCalls \in AnyCalls /\ TryEndCalls \in AnyCalls
  BY DEF AnyCalls, BodyCalls, TryCalls
<1>2. /\ Len(EndCalls) = 3 /\ EndCalls[3] = "body" /\ Len(TryEndCalls) = 3 /\ TryEndCalls[3] = "try"
      /\ Len(<<"length", "body">>) = 2 /\ Len(<<"body">>) = 1 /\ Len(<<>>) = 0
  BY DEF EndCalls, TryEndCalls
<1>3. EndCalls # <<>> /\ TryEndCalls # <<>> /\ TryEndCalls # EndCalls
      /\ TryEndCalls # <<"length", "body">> /\ TryEndCalls # <<"body">>
  <2>1. "body" # "try"
    OBVIOUS
  <2> QED
    BY ONLY <1>2, <2>1
<1> QED
  BY <1>1, <1>3 DEF BodyCalls

LEMMA AnswerKeeps ==
  ASSUME HttpInv, NEW c \in Conns, Answer(c), UNCHANGED serves PROVE HttpInv'
<1>1. PICK S, h, o, f, k, R : S = net /\ h = handling /\ o = sent /\ f = fate /\ k = handling' /\ R = net'
  OBVIOUS
<1> DEFINE s == S.socket[c]
<1>2. /\ h = NoData /\ f = "runs" /\ s.at = "open" /\ s.on = {"onAborted"}
      /\ UNCHANGED <<serves, sent, fate>>
  BY <1>1 DEF Answer, Quiet, IsOpen
<1>3. /\ Resting(s) /\ NotCalled(s, o[c].owes) /\ Fine(S, c) /\ S.corked # c
      /\ \A d \in Conns : S.socket[d].at = "open" => S.corked # d
      /\ S \in Nets(Conns, HttpTokens) /\ Within(s, <<>>, o[c].n)
  BY <1>1, <1>2, QuietIs
<1>4. AllFine(S) /\ Running(S, h, o, f) /\ CorkOf(S, h, f)
  BY <1>1 DEF HttpInv
<1>5. "PENDING" \in s.state /\ s.offset = 0 /\ "inStream" \notin s.on
  BY <1>2, <1>3 DEF Resting
<1>6. PICK in \in {"answer", "cork"} :
        /\ k = [NoData EXCEPT !.of = c, !.in = in, !.calls = EndCalls]
        /\ \/ in = "answer" /\ R = S
           \/ in = "cork" /\ S.corked = NoConn /\ R = [S EXCEPT !.corked = c]
  BY <1>1 DEF Answer
<1>7. k.of = c /\ k.in = in /\ k.rest = <<>> /\ k.calls = EndCalls
  BY <1>6 DEF NoData
<1> HIDE DEF s
<1>8. Owes(s, <<>>, o[c].owes)
  BY <1>2, <1>3, <1>5, OwesNothing DEF NotCalled
<1>9. Awaits(s, k, o[c].owes)
  BY <1>2, <1>5, <1>6, <1>7, <1>8, AwaitsCalls DEF Awaits
<1>10. CASE in = "answer"
  <2>1. R = S
    BY <1>6, <1>10
  <2>2. FineGoes(S, R, c) /\ Resting(R.socket[c])
    BY <1>3, <2>1 DEF FineGoes, Moves, Others, CorkLeft, Tame, s
  <2>3. k.of = c /\ k.in # "none" /\ Awaits(R.socket[c], k, o[c].owes) /\ Less(k.rest, h.rest)
    BY <1>7, <1>9, <1>10, <2>1 DEF s, Less
  <2>4. R.corked # c
    BY <1>3, <2>1
  <2>5. AllFine(R) /\ Running(R, k, o, f) /\ CorkOf(R, k, f)
    BY ONLY c \in Conns, <1>2, <1>4, <2>2, <2>3, <2>4, StepOn
  <2> QED
    BY <1>1, <1>2, <2>5 DEF HttpInv
<1>11. CASE in = "cork"
  <2>1. S.corked = NoConn /\ R = [S EXCEPT !.corked = c] /\ S.cork = <<>>
    BY <1>4, <1>6, <1>11 DEF CorkOf
  <2>2. /\ R \in Nets(Conns, HttpTokens) /\ R.socket = S.socket /\ R.corked = c /\ R.cork = S.cork
        /\ R.torn = S.torn
    BY <1>3, <2>1 DEF Nets
  <2>3. AllFine(R)
    BY <1>3, <1>4, <2>1, <2>2, CorkFine
  <2>4. o \in [Conns -> [n : Nat, owes : BOOLEAN]]
    BY <1>4 DEF Running
  <2> QED
    BY <1>1, <1>2, <1>3, <1>7, <1>9, <1>11, <2>2, <2>3, <2>4, CorkedGoes DEF s
<1> QED
  BY <1>6, <1>10, <1>11

LEMMA DataIs ==
  ASSUME NEW T, T \subseteq ReadKinds, NEW data \in BoundedSeq(T, 2), data # <<>>
  PROVE  /\ data \in Seq(ReadKinds) /\ Len(data) <= 2
         /\ Cardinality({i \in DOMAIN data : data[i] # "fin"}) = Pend(data)
<1> DEFINE made == {i \in DOMAIN data : data[i] # "fin"}
<1>1. PICK m \in 0..2 : data \in [1..m -> T]
  BY DEF BoundedSeq, SeqOf
<1>2. data \in Seq(ReadKinds) /\ DOMAIN data = 1..m /\ Len(data) = m
  BY <1>1
<1>3. Cardinality({}) = 0 /\ Cardinality({1}) = 1 /\ Cardinality({2}) = 1 /\ Cardinality({1, 2}) = 2
  <2>1. IsFiniteSet({1}) /\ Cardinality({1}) = 1 /\ Cardinality({2}) = 1
    BY FS_Singleton
  <2>2. Cardinality({1} \cup {2}) = Cardinality({1}) + 1
    <3>1. PICK A, x : A = {1} /\ x = 2
      OBVIOUS
    <3>2. IsFiniteSet(A) /\ x \notin A
      BY <2>1, <3>1
    <3>3. Cardinality(A \cup {x}) = Cardinality(A) + 1
      BY ONLY <3>2, FS_AddElement
    <3> QED
      BY <3>1, <3>3
  <2>3. {1} \cup {2} = {1, 2}
    OBVIOUS
  <2>4. Cardinality({}) = 0
    BY FS_EmptySet
  <2> QED
    BY <2>1, <2>2, <2>3, <2>4
<1>4. CASE m = 1
  <2>1. made = IF data[1] = "fin" THEN {} ELSE {1}
    BY <1>2, <1>4
  <2>2. Pend(data) = One(data[1])
    BY <1>2, <1>4 DEF Pend
  <2> HIDE DEF made
  <2>3. Cardinality(made) = Pend(data)
    BY <1>3, <2>1, <2>2 DEF One
  <2> QED
    BY <1>2, <1>4, <2>3 DEF made
<1>5. CASE m = 2
  <2>0. 1..2 = {1, 2}
    OBVIOUS
  <2>1. made = IF data[1] = "fin" THEN (IF data[2] = "fin" THEN {} ELSE {2})
               ELSE IF data[2] = "fin" THEN {1} ELSE {1, 2}
    BY <1>2, <1>5, <2>0
  <2>2. Pend(data) = One(data[1]) + One(data[2])
    BY <1>2, <1>5 DEF Pend
  <2> HIDE DEF made
  <2>3. Cardinality(made) = Pend(data)
    BY <1>3, <2>1, <2>2 DEF One
  <2> QED
    BY <1>2, <1>5, <2>3 DEF made
<1>6. m # 0
  BY <1>2, EmptySeq
<1> QED
  BY <1>4, <1>5, <1>6

LEMMA OnDataKeeps ==
  ASSUME HttpInv, NEW c \in Conns, OnData(c), UNCHANGED serves PROVE HttpInv'
<1>1. PICK S, h, o, f, k, R, u :
        /\ S = net /\ h = handling /\ o = sent /\ f = fate /\ k = handling' /\ R = net' /\ u = sent'
  OBVIOUS
<1> DEFINE s == S.socket[c]
<1>2. h = NoData /\ f = "runs" /\ s.at = "open" /\ UNCHANGED <<serves, fate>>
  BY <1>1 DEF OnData, Quiet, IsOpen
<1>3. /\ Resting(s) /\ NotCalled(s, o[c].owes) /\ Fine(S, c)
      /\ \A d \in Conns : S.socket[d].at = "open" => S.corked # d
      /\ S \in Nets(Conns, HttpTokens) /\ o[c].owes \in BOOLEAN /\ Within(s, <<>>, o[c].n)
  BY <1>1, <1>2, QuietIs
<1>4. AllFine(S) /\ o \in [Conns -> [n : Nat, owes : BOOLEAN]] /\ serves \cup {"fin"} \subseteq ReadKinds
  BY <1>1 DEF HttpInv, Running, ReadKinds
<1>5. PICK data \in BoundedSeq(serves \cup {"fin"}, 2) \ {<<>>} :
        LET n == Cardinality({i \in DOMAIN data : data[i] # "fin"})
        IN /\ Legal(data, o[c].owes) /\ o[c].n + n <= MaxRequests
           /\ u = [o EXCEPT ![c] = [n |-> @.n + n, owes |-> Last(data) = "stream"]]
           /\ k = [of |-> c, in |-> "data", rest |-> data, calls |-> <<>>]
  BY <1>1 DEF OnData
<1>6. PICK n : n = Cardinality({i \in DOMAIN data : data[i] # "fin"})
  OBVIOUS
<1>7. data \in Seq(ReadKinds) /\ Len(data) <= 2 /\ n = Pend(data) /\ n \in Nat /\ data # <<>>
  <2>1. data \in Seq(ReadKinds) /\ Len(data) <= 2 /\ n = Pend(data)
    BY <1>4, <1>5, <1>6, DataIs
  <2> QED
    BY <1>5, <2>1, PendIs
<1>8. k.of = c /\ k.in = "data" /\ k.rest = data /\ k.calls = <<>>
  BY <1>5
<1>9. PICK owes \in BOOLEAN : owes <=> Last(data) = "stream"
  <2>1. CASE Last(data) = "stream"
    <3> WITNESS TRUE \in BOOLEAN
    <3> QED
      BY <2>1
  <2>2. CASE Last(data) # "stream"
    <3> WITNESS FALSE \in BOOLEAN
    <3> QED
      BY <2>2
  <2> QED
    BY <2>1, <2>2
<1>10. /\ u \in [Conns -> [n : Nat, owes : BOOLEAN]] /\ \A d \in Conns : d # c => u[d] = o[d]
       /\ u[c].owes <=> Last(data) = "stream"
       /\ u[c].n = o[c].n + n
  <2>1. o[c].n + n \in Nat
    BY <1>4, <1>7
  <2>2. PICK m : m = [n |-> o[c].n + n, owes |-> Last(data) = "stream"]
    OBVIOUS
  <2>3. m \in [n : Nat, owes : BOOLEAN] /\ (m.owes <=> Last(data) = "stream") /\ m.n = o[c].n + n
    BY <2>1, <2>2
  <2>4. u = [o EXCEPT ![c] = m]
    BY <1>5, <1>6, <2>2
  <2> QED
    BY <1>4, <2>3, <2>4
<1>11. R = [S EXCEPT !.corked = c, !.torn = IF S.cork = <<>> THEN @ ELSE @ \cup {c}]
  BY <1>1 DEF OnData
<1>12. /\ R \in Nets(Conns, HttpTokens) /\ R.socket = S.socket /\ R.corked = c /\ R.cork = S.cork
       /\ R.torn = IF S.cork = <<>> THEN S.torn ELSE S.torn \cup {c}
  BY <1>3, <1>11 DEF Nets
<1>13. AllFine(R)
  BY <1>3, <1>4, <1>12, CorkFine
<1> HIDE DEF s
<1>14. Owes(s, data, u[c].owes)
  <2>1. Legal(data, "inStream" \in s.on)
    BY <1>2, <1>3, <1>5 DEF Legal, NotCalled
  <2> QED
    BY <1>7, <1>10, <2>1 DEF Owes
<1>15. s.timeout \/ ("PENDING" \in s.state /\ s.on = {"onAborted"})
  BY <1>2, <1>3 DEF NotCalled, Calm
<1>16. Awaits(s, k, u[c].owes)
  BY <1>2, <1>8, <1>14, <1>15, NoBodyLeft DEF Awaits, AnyCalls
<1>17. Within(s, data, u[c].n)
  <2> DEFINE a == s.request  b == o[c].n  d == u[c].n
  <2>1. s.request + Pend(<<>>) <= o[c].n /\ ("PENDING" \in s.state => s.request >= 1)
    BY <1>3 DEF Within
  <2>2. Pend(<<>>) = 0
    BY DEF Pend
  <2>3. a \in Nat
    <3>1. S.socket[c] \in SocketRecords(HttpTokens)
      BY <1>3, NetFields
    <3> QED
      BY <3>1 DEF SocketRecords, s
  <2>4. b \in Nat /\ d = b + n /\ b + n <= MaxRequests
    BY <1>4, <1>5, <1>6, <1>10
  <2>5. a + 0 <= b
    BY <2>1, <2>2
  <2> HIDE DEF a, b, d
  <2>6. a + n <= d /\ d <= MaxRequests
    BY <1>7, <2>3, <2>4, <2>5
  <2> QED
    BY <1>7, <2>1, <2>6 DEF Within, a, d
<1>18. Within(s, k.rest, u[c].n)
  BY <1>8, <1>17
<1> QED
  BY <1>1, <1>2, <1>8, <1>10, <1>12, <1>13, <1>16, <1>18, CorkedGoes DEF s

(* A write of nothing is what goes out of the socket's own buffer.           *)
LEMMA DrainFine ==
  ASSUME NEW S \in Nets(Conns, HttpTokens), NEW c \in Conns, Fine(S, c), S.socket[c].at = "open",
         NEW optionally \in BOOLEAN
  PROVE  LET R == Write(S, c, <<>>, optionally).net
         IN FineGoes(S, R, c) /\ SameControl(S.socket[c], R.socket[c])
<1>1. PICK src \in Seq(HttpTokens) : src = <<>>
  BY EmptySeq
<1> DEFINE r == Write(S, c, src, optionally)
           R == Wrote(r, c, src, optionally)
           q == r.net
           s == q.socket[c]
<1>2. WriteFine(S, r, R, c, src)
  BY HttpWriteIs
<1>3. Reports(r, src) /\ q \in Nets(Conns, HttpTokens)
  BY ConnsAre, WriteIs
<1> HIDE DEF r
<1>4. s \in SocketRecords(HttpTokens) /\ s.wrote \in Seq(HttpTokens)
  BY <1>3, NetFields
<1> DEFINE w == s.wrote \o IF optionally THEN SubSeq(src, 1, r.written) ELSE src
<1>5. w = s.wrote
  <2>1. Len(src) = 0 /\ r.written \in 0..Len(src)
    BY <1>1, <1>3 DEF Reports
  <2>2. SubSeq(src, 1, r.written) = <<>>
    BY <1>1, <2>1
  <2>3. s.wrote \o <<>> = s.wrote
    BY <1>4, ConcatEmptySeq
  <2> QED
    BY <1>1, <2>2, <2>3
<1>6. R = q
  <2>1. R = [q EXCEPT !.socket = [q.socket EXCEPT ![c] = [s EXCEPT !.wrote = w]]]
    BY <1>3, <1>4 DEF Wrote, Nets, SocketRecords
  <2> HIDE DEF w, s, q
  <2>2. [s EXCEPT !.wrote = w] = s
    BY <1>4, <1>5 DEF SocketRecords
  <2>3. [q.socket EXCEPT ![c] = s] = q.socket
    BY <1>3 DEF Nets, s
  <2>4. [q EXCEPT !.socket = q.socket] = q
    BY <1>3 DEF Nets
  <2> QED
    BY <2>1, <2>2, <2>3, <2>4
<1> HIDE DEF R
<1>7. FineGoes(S, q, c) /\ SameControl(S.socket[c], q.socket[c])
  BY <1>2, <1>6 DEF WriteFine
<1> QED
  BY <1>1, <1>7 DEF r

LEMMA OnWritableKeepsHttp ==
  ASSUME HttpInv, NEW c \in Conns, OnWritable(c), UNCHANGED serves PROVE HttpInv'
<1>0. PICK no \in BOOLEAN : no = FALSE
  OBVIOUS
<1>10. PICK on \in BOOLEAN : on = TRUE
  OBVIOUS
<1>1. PICK S, h, o, f, k, R : S = net /\ h = handling /\ o = sent /\ f = fate /\ k = handling' /\ R = net'
  OBVIOUS
<1> DEFINE s == S.socket[c]
           t == R.socket[c]
<1>2. /\ h = NoData /\ f = "runs" /\ s.at = "open" /\ UNCHANGED <<serves, sent, fate>>
  BY <1>1 DEF OnWritable, Quiet, IsOpen
<1>3. /\ Resting(s) /\ NotCalled(s, o[c].owes) /\ Fine(S, c) /\ S.corked # c
      /\ S \in Nets(Conns, HttpTokens)
  BY <1>1, <1>2, QuietIs
<1>4. AllFine(S) /\ Running(S, h, o, f) /\ CorkOf(S, h, f)
  BY <1>1 DEF HttpInv
<1>5. PICK P : P = PollOff(S, c)
  OBVIOUS
<1>6. OpFine(S, P, c) /\ SameControl(s, P.socket[c])
  BY <1>2, <1>3, <1>5, NoPollFine
<1>7. /\ FineGoes(S, P, c) /\ P \in Nets(Conns, HttpTokens) /\ Fine(P, c) /\ P.socket[c].at = "open"
      /\ P.corked # c
  BY <1>3, <1>6 DEF OpFine, FineGoes, Moves
<1>8. CASE "onWritable" \in s.on
  <2>1. R = Arm(P, c, no) /\ k = [NoData EXCEPT !.of = c, !.in = "writable", !.calls = TryEndCalls]
    BY <1>0, <1>1, <1>5, <1>8 DEF OnWritable, PollOff
  <2>2. k.of = c /\ k.in = "writable" /\ k.rest = <<>> /\ k.calls = TryEndCalls
    BY <2>1 DEF NoData
  <2>3. OpFine(P, R, c) /\ t.state = P.socket[c].state
    BY <1>7, <2>1, ArmFine
  <2>4. t.offset = P.socket[c].offset /\ t.on = P.socket[c].on
    BY <1>7, <2>1, ArmFine
  <2>5. FineGoes(S, R, c) /\ t.at = "open" /\ R.corked # c
    BY <1>7, <2>3, FineOn DEF OpFine
  <2>6. t.state = s.state /\ t.offset = s.offset /\ t.on = s.on
    BY <1>6, <2>3, <2>4 DEF SameControl
  <2> HIDE DEF s, t
  <2>7. "PENDING" \in s.state /\ s.on = {"onAborted", "onWritable"} /\ "inStream" \notin s.on
    BY <1>3, <1>8 DEF Resting
  <2>8. Resting(t)
    BY <1>3, <2>5, <2>6, <2>7 DEF Resting
  <2>9. Owes(t, <<>>, o[c].owes)
    BY <1>2, <1>3, <2>6, OwesNothing DEF NotCalled
  <2>10. Awaits(t, k, o[c].owes)
    BY <2>2, <2>5, <2>6, <2>7, <2>9, AwaitsCalls DEF Awaits
  <2>11. /\ k.of = c /\ k.in # "none" /\ Awaits(R.socket[c], k, o[c].owes) /\ Resting(R.socket[c])
         /\ Less(k.rest, h.rest)
    BY <2>2, <2>8, <2>10 DEF t, Less
  <2>12. AllFine(R) /\ Running(R, k, o, f) /\ CorkOf(R, k, f)
    BY ONLY c \in Conns, <1>2, <1>4, <2>5, <2>11, StepOn
  <2> QED
    BY <1>1, <1>2, <2>12 DEF HttpInv
<1>9. CASE "onWritable" \notin s.on
  <2>1. R = Arm(Write(P, c, <<>>, on).net, c, on) /\ k = h
    BY <1>10, <1>1, <1>5, <1>9 DEF OnWritable, PollOff
  <2>2. PICK W : W = Write(P, c, <<>>, on).net
    OBVIOUS
  <2>3. FineGoes(P, W, c) /\ SameControl(P.socket[c], W.socket[c])
    BY <1>7, <2>2, DrainFine
  <2>4. W \in Nets(Conns, HttpTokens) /\ Fine(W, c) /\ W.socket[c].at = "open"
    BY <1>7, <2>3 DEF FineGoes, Moves, SameControl
  <2>5. W.corked # c
    BY <1>7, <2>3 DEF FineGoes, Moves, Others, CorkLeft, Tame
  <2>6. OpFine(W, R, c) /\ t.state = W.socket[c].state
    BY <2>1, <2>2, <2>4, ArmFine
  <2>7. t.offset = W.socket[c].offset /\ t.on = W.socket[c].on
    BY <2>1, <2>2, <2>4, ArmFine
  <2>8. t.timeout = on
    BY <2>1, <2>2, <2>4, ArmFine
  <2>9. FineGoes(S, W, c)
    BY <1>7, <2>3, FineOn
  <2>10. FineGoes(S, R, c) /\ t.at = "open" /\ R.corked # c
    BY <2>5, <2>6, <2>9, FineOn DEF OpFine
  <2>11. t.state = s.state /\ t.offset = s.offset /\ t.on = s.on
    BY <1>6, <2>3, <2>6, <2>7 DEF SameControl
  <2> HIDE DEF s, t
  <2>12. Resting(t)
    BY <1>2, <1>3, <2>10, <2>11 DEF Resting
  <2>13. NotCalled(t, o[c].owes)
    BY <1>2, <1>3, <1>10, <2>8, <2>10, <2>11 DEF NotCalled, Calm
  <2>14. k = NoData /\ NotCalled(R.socket[c], o[c].owes) /\ Resting(R.socket[c])
    BY <1>2, <2>1, <2>12, <2>13 DEF t
  <2>15. AllFine(R) /\ Running(R, k, o, f) /\ CorkOf(R, k, f)
    BY ONLY c \in Conns, <1>2, <1>4, <2>10, <2>14, StepOn
  <2> QED
    BY <1>1, <1>2, <2>15 DEF HttpInv
<1> QED
  BY <1>8, <1>9

LEMMA OnOpenKeeps ==
  ASSUME HttpInv, NEW c \in Conns, OnOpen(c), UNCHANGED serves PROVE HttpInv'
<1>10. PICK on \in BOOLEAN : on = TRUE
  OBVIOUS
<1>1. PICK S, h, o, f, k, R : S = net /\ h = handling /\ o = sent /\ f = fate /\ k = handling' /\ R = net'
  OBVIOUS
<1> DEFINE s == S.socket[c]
           t == R.socket[c]
<1>2. h = NoData /\ f = "runs" /\ s.at = "none" /\ k = h /\ UNCHANGED <<serves, sent, fate>>
  BY <1>1 DEF OnOpen, Quiet
<1>3. /\ Resting(s) /\ NotCalled(s, o[c].owes) /\ Fine(S, c) /\ S.corked # c
      /\ S \in Nets(Conns, HttpTokens)
  BY <1>1, <1>2, QuietIs
<1>4. AllFine(S) /\ Running(S, h, o, f) /\ CorkOf(S, h, f)
  BY <1>1 DEF HttpInv
<1>5. R = Opened(S, c, on) /\ Sane(S, c)
  BY <1>1, <1>3, <1>10 DEF OnOpen, Opened, Fine
<1>6. Goes(S, R, Conns, HttpTokens, c) /\ R.corked = S.corked
  BY <1>2, <1>3, <1>5, ConnsAre, OpenSane
<1>7. t.at = "open" /\ t.state = {} /\ t.timeout = on
  BY <1>2, <1>3, <1>5, ConnsAre, OpenSane
<1>8. t.on = s.on /\ t.offset = s.offset /\ t.request = s.request
  BY <1>2, <1>3, <1>5, ConnsAre, OpenSane
<1>9. FineGoes(S, R, c)
  BY <1>3, <1>6, <1>7, <1>8 DEF Goes, FineGoes, Moves, Fine, CorkFirst, Tame
<1>11. s.on = {} /\ s.offset \in 0..2 /\ ~o[c].owes
  BY <1>2, <1>3 DEF Resting, NotCalled
<1> HIDE DEF s, t
<1>12. Resting(t)
  BY <1>7, <1>8, <1>11 DEF Resting
<1>13. NotCalled(t, o[c].owes)
  BY <1>7, <1>8, <1>10, <1>11 DEF NotCalled, Calm
<1>14. k = NoData /\ NotCalled(R.socket[c], o[c].owes) /\ Resting(R.socket[c]) /\ R.corked # c
  BY <1>2, <1>3, <1>6, <1>12, <1>13 DEF t
<1>15. AllFine(R) /\ Running(R, k, o, f) /\ CorkOf(R, k, f)
  BY ONLY c \in Conns, <1>2, <1>4, <1>9, <1>14, StepOn
<1> QED
  BY <1>1, <1>2, <1>15 DEF HttpInv

LEMMA OnEndKeeps ==
  ASSUME HttpInv, NEW c \in Conns, OnEnd(c), UNCHANGED serves PROVE HttpInv'
<1>1. PICK S, h, o, f, k, R : S = net /\ h = handling /\ o = sent /\ f = fate /\ k = handling' /\ R = net'
  OBVIOUS
<1>2. h = NoData /\ f = "runs" /\ k = h /\ R = CloseConn(S, c) /\ UNCHANGED <<serves, sent, fate>>
  BY <1>1 DEF OnEnd, Quiet
<1>3. AllFine(S) /\ Running(S, h, o, f) /\ CorkOf(S, h, f) /\ S \in Nets(Conns, HttpTokens)
  BY <1>1 DEF HttpInv, AllFine
<1>4. /\ FineGoes(S, R, c) /\ R.socket[c].at = "closed" /\ R.socket[c].state = {}
      /\ R.socket[c].on = {} /\ R.socket[c].offset = 0
  BY <1>2, <1>3, FineClose
<1>5. Resting(R.socket[c]) /\ NotCalled(R.socket[c], o[c].owes)
  BY <1>4 DEF Resting, NotCalled
<1>6. AllFine(R) /\ Running(R, k, o, f) /\ CorkOf(R, k, f)
  BY <1>2, <1>3, <1>4, <1>5, StepOn
<1> QED
  BY <1>1, <1>2, <1>6 DEF HttpInv

LEMMA ClientReadsKeeps ==
  ASSUME HttpInv, NEW c \in Conns, ClientReads(c), UNCHANGED serves PROVE HttpInv'
<1>1. PICK S, h, o, f, R : S = net /\ h = handling /\ o = sent /\ f = fate /\ R = net'
  OBVIOUS
<1>2. R = Read(S, c) /\ S.socket[c].kernel # <<>> /\ UNCHANGED <<serves, handling, sent, fate>>
  BY <1>1 DEF ClientReads
<1>3. /\ AllFine(S) /\ Running(S, h, o, f) /\ CorkOf(S, h, f) /\ S \in Nets(Conns, HttpTokens)
      /\ Fine(S, c)
  BY <1>1 DEF HttpInv, AllFine
<1>4. FineGoes(S, R, c) /\ R.corked = S.corked /\ R.cork = S.cork
      /\ SameControl(S.socket[c], R.socket[c])
  BY <1>2, <1>3, FineRead
<1>5. AllFine(R)
  BY <1>3, <1>4, AllFineOn DEF FineGoes
<1>12. \A d \in Conns : \A q : Within(S.socket[d], q, o[d].n) => Within(R.socket[d], q, o[d].n)
  <2> TAKE d \in Conns
  <2> TAKE q
  <2>1. SameControl(S.socket[d], R.socket[d])
    BY <1>4 DEF FineGoes, Moves, Others, SameControl
  <2> QED
    BY <2>1 DEF SameControl, Within
<1>6. \A d \in Conns : SameControl(S.socket[d], R.socket[d])
  BY <1>4 DEF FineGoes, Moves, Others, SameControl
<1>7. \A d \in Conns : Resting(S.socket[d]) => Resting(R.socket[d])
  <2> TAKE d \in Conns
  <2>1. SameControl(S.socket[d], R.socket[d])
    BY <1>6
  <2> QED
    BY <2>1 DEF SameControl, Resting
<1>8. \A d \in Conns : NotCalled(S.socket[d], o[d].owes) => NotCalled(R.socket[d], o[d].owes)
  <2> TAKE d \in Conns
  <2>1. SameControl(S.socket[d], R.socket[d])
    BY <1>6
  <2> QED
    BY <2>1 DEF SameControl, NotCalled, Calm
<1>9. ASSUME h.of \in Conns, Awaits(S.socket[h.of], h, o[h.of].owes)
      PROVE  Awaits(R.socket[h.of], h, o[h.of].owes)
  <2>1. SameControl(S.socket[h.of], R.socket[h.of])
    BY <1>6, <1>9
  <2> QED
    BY <1>9, <2>1 DEF SameControl, Awaits, Owes
<1>10. Running(R, h, o, f)
  BY <1>3, <1>7, <1>8, <1>9, <1>12 DEF Running
<1>11. CorkOf(R, h, f)
  <2>1. S.corked \in Conns \cup {NoConn}
    BY <1>3 DEF Nets
  <2> QED
    BY <1>3, <1>4, <1>6, <2>1 DEF CorkOf, SameControl
<1> QED
  BY <1>1, <1>2, <1>5, <1>10, <1>11 DEF HttpInv

LEMMA AnsweredKeeps == ASSUME HttpInv, Answered, UNCHANGED serves PROVE HttpInv'
<1>1. PICK S, h, o, f, k, R : S = net /\ h = handling /\ o = sent /\ f = fate /\ k = handling' /\ R = net'
  OBVIOUS
<1> DEFINE c == h.of
           s == S.socket[c]
<1>2. /\ c \in Conns /\ S \in Nets(Conns, HttpTokens) /\ Fine(S, c) /\ s.at = "open"
      /\ Resting(s) /\ Awaits(s, h, o[c].owes) /\ f = "runs"
  BY <1>1, HandlingIs DEF Answered
<1>3. AllFine(S) /\ Running(S, h, o, f) /\ CorkOf(S, h, f)
  BY <1>1 DEF HttpInv
<1>4. /\ h.in \in {"answer", "writable"} /\ h.calls = <<>> /\ k = NoData /\ R = S
      /\ UNCHANGED <<serves, sent, fate>>
  BY <1>1 DEF Answered
<1>5. h.rest = <<>> /\ S.corked # c
  BY <1>2, <1>3, <1>4, ConnsAre DEF Awaits, CorkOf
<1> HIDE DEF s
<1>6. NotCalled(s, o[c].owes)
  <2>1. o[c].owes <=> "inStream" \in s.on
    BY <1>2, <1>5 DEF Awaits, Owes
  <2>2. s.timeout \/ ("PENDING" \in s.state /\ s.on = {"onAborted"})
    BY <1>2, <1>4 DEF Awaits
  <2> QED
    BY <1>2, <2>1, <2>2 DEF NotCalled, Calm
<1>7. FineGoes(S, R, c)
  BY <1>2, <1>4 DEF FineGoes, Moves, Others, CorkLeft, Tame
<1>8. k = NoData /\ NotCalled(R.socket[c], o[c].owes) /\ Resting(R.socket[c]) /\ R.corked # c
  BY <1>2, <1>4, <1>5, <1>6 DEF s
<1>9. AllFine(R) /\ Running(R, k, o, f) /\ CorkOf(R, k, f)
  BY <1>2, <1>3, <1>7, <1>8, StepOn
<1> QED
  BY <1>1, <1>4, <1>9 DEF HttpInv

LEMMA NextKeepsHttp == HttpInv /\ [HttpServerNext]_serverVars => HttpInv'
<1> SUFFICES ASSUME HttpInv, [HttpServerNext]_serverVars PROVE HttpInv'
  OBVIOUS
<1>1. CASE Callback /\ UNCHANGED serves
  BY <1>1, WriteHeadKeeps, WriteChunkKeeps, EndChunksKeeps, EndBodyKeeps, OnRequestKeeps,
     OnRefusedKeeps, HandlerReturnsKeeps, OnBodyKeeps, UncorkedKeeps, AnsweredKeeps DEF Callback
<1>2. ASSUME NEW c \in Conns, UNCHANGED serves,
             OnOpen(c) \/ OnData(c) \/ Answer(c) \/ OnWritable(c) \/ OnEnd(c) \/ ClientReads(c)
      PROVE  HttpInv'
  BY <1>2, OnOpenKeeps, OnDataKeeps, AnswerKeeps, OnWritableKeepsHttp, OnEndKeeps, ClientReadsKeeps
<1>3. CASE UNCHANGED serverVars
  BY <1>3 DEF serverVars, ioVars, HttpInv, AllFine, Running, CorkOf
<1> QED
  BY <1>1, <1>2, <1>3 DEF HttpServerNext

(* The connections' streams, callbacks and timeouts agree, always.           *)
THEOREM HttpInvariant == HttpServerSpec => []HttpInv
<1>1. HttpServerInit => HttpInv
  BY InitHttp
<1>2. HttpInv /\ [HttpServerNext]_serverVars => HttpInv'
  BY NextKeepsHttp
<1> QED
  BY <1>1, <1>2, PTL DEF HttpServerSpec

LEMMA StreamRuns ==
  ASSUME HttpInv PROVE StreamIsWhatWasWritten
<1> SUFFICES ASSUME NEW c \in Conns \ net.torn, IsOpen(net, c) PROVE StreamRight(net, c)
  BY DEF StreamIsWhatWasWritten
<1>1. PICK S : S = net
  OBVIOUS
<1>2. /\ c \in Conns /\ c \notin S.torn /\ S.socket[c].at = "open"
      /\ S \in Nets(Conns, HttpTokens) /\ Sane(S, c)
  BY <1>1 DEF IsOpen, HttpInv, AllFine, Fine
<1> QED
  BY <1>1, <1>2, StreamKept

(* What is written to an open HTTP connection comes to its client whole, in  *)
(* order and once, whether it went through the cork buffer, the socket's own *)
(* buffer or the kernel (AsyncSocket write and uncork).                      *)
THEOREM StreamIsKept == HttpServerSpec => []StreamIsWhatWasWritten
<1>1. HttpInv => StreamIsWhatWasWritten
  BY StreamRuns
<1> QED
  BY <1>1, HttpInvariant, PTL

LEMMA IdleTimed ==
  ASSUME HttpInv PROVE IdleTimesOut
<1> SUFFICES ASSUME NEW c \in Conns, Quiet, IsOpen(net, c),
                    HasResponded(net, c) \/ net.socket[c].on # {"onAborted"}
             PROVE  net.socket[c].timeout
  BY DEF IdleTimesOut
<1>1. NotCalled(net.socket[c], sent[c].owes)
  BY QuietIs DEF Quiet
<1> QED
  BY <1>1 DEF NotCalled, Calm, IsOpen, HasResponded

(* Types: what is still to parse is of the server's own kinds.               *)
RestInv == handling.rest \in Seq(serves \cup {"fin"})

LEMMA NextKeepsRest ==
  ASSUME HttpInv, RestInv, [HttpServerNext]_serverVars
  PROVE  RestInv'
<1> DEFINE kinds == serves \cup {"fin"}
<1>0. handling.rest \in Seq(kinds) /\ serves' = serves /\ <<>> \in Seq(kinds)
  BY EmptySeq DEF RestInv, HttpServerNext, serverVars
<1>1. CASE handling'.rest = handling.rest \/ handling' = NoData \/ handling'.rest = <<>>
  <2>1. NoData.rest = <<>>
    BY DEF NoData
  <2> QED
    BY <1>0, <1>1, <2>1 DEF RestInv
<1>2. CASE handling.rest # <<>> /\ handling'.rest = Tail(handling.rest)
  <2>1. Tail(handling.rest) \in Seq(kinds)
    BY <1>0, <1>2, HeadTailProperties
  <2> QED
    BY <1>0, <1>2, <2>1 DEF RestInv
<1>3. ASSUME NEW c \in Conns, OnData(c) PROVE RestInv'
  <2>1. PICK data \in BoundedSeq(kinds, 2) \ {<<>>} :
          handling' = [of |-> c, in |-> "data", rest |-> data, calls |-> <<>>]
    BY <1>3 DEF OnData
  <2>2. PICK m \in 0..2 : data \in [1..m -> kinds]
    BY <2>1 DEF BoundedSeq, SeqOf
  <2>3. data \in Seq(kinds) /\ handling'.rest = data
    BY <2>1, <2>2
  <2> QED
    BY <1>0, <2>3 DEF RestInv
<1>4. CASE WriteHead \/ WriteChunk \/ EndChunks \/ EndBody
  <2>1. PICK h, k : h = handling /\ k = handling'
    BY SMTT(40)
  <2>2. k = AfterCall(h)
    BY <1>4, <2>1 DEF WriteHead, WriteChunk, EndChunks, EndBody, CallMade, AfterCall
  <2>3. k.rest = h.rest
    BY <2>2 DEF AfterCall
  <2> QED
    BY <1>1, <2>1, <2>3
<1>5. CASE OnRequest
  <2>1. PICK h, k, calls : h = handling /\ k = handling' /\ h.rest # <<>>
                           /\ k = [h EXCEPT !.in = "handler", !.rest = Tail(@), !.calls = calls]
    BY <1>5 DEF OnRequest, Parses
  <2>2. k.rest = Tail(h.rest)
    BY <2>1
  <2> QED
    BY <1>2, <2>1, <2>2, SMTT(40)
<1>6. CASE OnBody
  <2>1. PICK h, k : h = handling /\ k = handling' /\ h.rest # <<>>
                    /\ k = [h EXCEPT !.rest = Tail(@), !.calls = EndCalls]
    BY <1>6 DEF OnBody, Parses
  <2>2. k.rest = Tail(h.rest)
    BY <2>1
  <2> QED
    BY <1>2, <2>1, <2>2
<1>7. CASE HandlerReturns
  <2>1. PICK h, k : h = handling /\ k = handling'
    OBVIOUS
  <2>2. k = NoData \/ k = [h EXCEPT !.in = "data"]
    BY <1>7, <2>1 DEF HandlerReturns
  <2>3. k = [h EXCEPT !.in = "data"] => k.rest = h.rest
    OBVIOUS
  <2> QED
    BY <1>1, <2>1, <2>2, <2>3
<1>8. CASE OnRefused \/ Uncorked \/ Answered
  BY <1>1, <1>8 DEF OnRefused, CloseInData, Uncorked, Answered
<1>9. ASSUME NEW c \in Conns, OnOpen(c) \/ OnEnd(c) \/ ClientReads(c) PROVE RestInv'
  BY <1>1, <1>9 DEF OnOpen, OnEnd, ClientReads
<1>10. ASSUME NEW c \in Conns, Answer(c) \/ OnWritable(c) PROVE RestInv'
  <2>1. PICK k : k = handling'
    OBVIOUS
  <2>2. \/ k = handling
        \/ \E in, calls : k = [NoData EXCEPT !.of = c, !.in = in, !.calls = calls]
    BY <1>10, <2>1 DEF Answer, OnWritable
  <2>3. k = handling \/ k.rest = <<>>
    BY <2>2 DEF NoData
  <2> QED
    BY <1>1, <2>1, <2>3
<1>11. CASE UNCHANGED serverVars
  BY <1>1, <1>11 DEF serverVars, ioVars
<1> QED
  BY <1>3, <1>4, <1>5, <1>6, <1>7, <1>8, <1>9, <1>10, <1>11 DEF HttpServerNext, Callback

LEMMA HttpTypes == HttpInv /\ RestInv => HttpServerTypeOK
<1> SUFFICES ASSUME HttpInv, RestInv PROVE HttpServerTypeOK
  OBVIOUS
<1>1. PICK S : S = net
  OBVIOUS
<1>2. HttpTokens = Tokens
  BY DEF HttpTokens, Tokens, PieceNames
<1>3. S \in Nets(Conns, Tokens) /\ S \in Nets(Conns, HttpTokens)
  BY <1>1, <1>2 DEF HttpInv, AllFine
<1>4. ASSUME NEW c \in Conns
      PROVE  LET s == S.socket[c]
             IN /\ s.at \in {"none", "open", "closed"}
                /\ s.state \subseteq {"STATUS_CALLED", "WRITE_CALLED", "END_CALLED", "PENDING"}
                /\ s.on \subseteq {"onAborted", "onWritable", "inStream"}
                /\ s.offset \in 0..2 /\ s.request \in 0..MaxRequests
                /\ {s.buffer, s.kernel, s.wrote} \subseteq Seq(Tokens) /\ Len(s.kernel) <= RoomMax
  <2> DEFINE s == S.socket[c]
  <2>1. s \in SocketRecords(Tokens)
    BY <1>3, NetFields
  <2>2. /\ s.at \in {"none", "open", "closed"} /\ s.request \in Nat
        /\ s.buffer \in Seq(Tokens) /\ s.kernel \in Seq(Tokens) /\ s.wrote \in Seq(Tokens)
    BY <2>1 DEF SocketRecords
  <2>3. Len(s.kernel) <= RoomMax
    BY <2>1 DEF SocketRecords
  <2>4. s.state \subseteq {"STATUS_CALLED", "WRITE_CALLED", "END_CALLED", "PENDING"}
    BY <1>1 DEF HttpInv, AllFine, Fine, Marks
  <2>5. Resting(s)
    BY <1>1 DEF HttpInv, Running
  <2>6. s.on \subseteq {"onAborted", "onWritable", "inStream"} /\ s.offset \in 0..2
    BY <2>5 DEF Resting
  <2>7. s.request \in 0..MaxRequests
    <3> DEFINE q == IF c = handling.of THEN handling.rest ELSE <<>>
               a == s.request
               n == sent[c].n
               x == Pend(q)
    <3>1. Within(s, q, n) /\ n \in Nat
      BY <1>1 DEF HttpInv, Running
    <3>2. q \in Seq(ReadKinds) /\ Len(q) <= 2 /\ a + x <= n /\ n <= MaxRequests
      BY <3>1 DEF Within
    <3>3. x \in Nat /\ a \in Nat /\ MaxRequests \in Nat
      BY <2>2, <3>2, PendIs, HttpServerAssumption
    <3> HIDE DEF a, n, x
    <3>4. a \in 0..MaxRequests
      BY <3>1, <3>2, <3>3
    <3> QED
      BY <3>4 DEF a
  <2> HIDE DEF s
  <2>8. {s.buffer, s.kernel, s.wrote} \subseteq Seq(Tokens)
    BY <2>2
  <2> QED
    BY <2>2, <2>3, <2>4, <2>6, <2>7, <2>8 DEF s
<1>5. /\ S.corked \in Conns \cup {NoConn} /\ S.cork \in Seq(Tokens) /\ Len(S.cork) <= CorkMax
      /\ S.torn \subseteq Conns
  BY <1>3 DEF Nets
<1>6. fate \in {"runs", "terminated"} /\ handling.of \in Conns \cup {NoConn}
  <2>1. handling.in = "none" => handling.of = NoConn
    BY DEF HttpInv, Running, NoData
  <2> QED
    BY <2>1 DEF HttpInv, Running
<1> QED
  BY <1>1, <1>4, <1>5, <1>6 DEF HttpServerTypeOK, RestInv

LEMMA InitRest == HttpServerInit => RestInv
BY EmptySeq DEF HttpServerInit, NoData, RestInv

(* The connections hold what their types say, the requests of a client among *)
(* them: a response is only ever to a request that its client made.          *)
THEOREM HttpServerTypes == HttpServerSpec => []HttpServerTypeOK
<1>1. HttpServerInit => HttpInv /\ RestInv
  BY InitHttp, InitRest
<1>2. HttpInv /\ RestInv /\ [HttpServerNext]_serverVars => HttpInv' /\ RestInv'
  BY NextKeepsHttp, NextKeepsRest
<1>3. HttpInv /\ RestInv => HttpServerTypeOK
  BY HttpTypes
<1> QED
  BY <1>1, <1>2, <1>3, PTL DEF HttpServerSpec

(* Between callbacks an open connection has its timeout armed, unless only   *)
(* the application can end its request: the last call of a handler, whatever *)
(* it is, arms it (HttpResponse internalEnd, HttpContext on_data).           *)
THEOREM IdleIsTimed == HttpServerSpec => []IdleTimesOut
<1>1. HttpInv => IdleTimesOut
  BY IdleTimed
<1> QED
  BY <1>1, HttpInvariant, PTL
=============================================================================

---------------------------- MODULE FramesProofs ----------------------------
(***************************************************************************)
(* Proofs about the WebSocket frames that come in (WebSocketProtocol.h,    *)
(* WebSocketContext.h): however the reads cut a legal stream, its messages *)
(* and pongs come as they were sent.                                       *)
(***************************************************************************)
EXTENDS Frames, RecursionLemmas

-----------------------------------------------------------------------------
(* WebSocketProtocol.h: where the mask stands after it has been turned.      *)
LEMMA ModOf ==
  ASSUME NEW m \in Nat \ {0}, NEW q \in Nat, NEW r \in 0..m - 1
  PROVE  (q * m + r) % m = r
OBVIOUS

LEMMA ModParts ==
  ASSUME NEW m \in Nat \ {0}, NEW a \in Nat
  PROVE  (a % m) \in 0..m - 1 /\ \E q \in Nat : a = q * m + (a % m)
<1>1. (a % m) \in 0..m - 1
  OBVIOUS
<1>2. (a \div m) \in Nat
  OBVIOUS
<1>3. a = (a \div m) * m + (a % m)
  OBVIOUS
<1> QED
  BY <1>1, <1>2, <1>3

LEMMA ModSum ==
  ASSUME NEW m \in Nat \ {0}, NEW a \in Nat, NEW b \in Nat
  PROVE  ((a % m) + b) % m = (a + b) % m
<1> DEFINE d == a % m
           c == d + b
           r == c % m
<1>1. d \in Nat
  BY ModParts
<1>2. PICK q \in Nat : a = q * m + d
  BY ModParts
<1>3. d = a % m
  OBVIOUS
<1> HIDE DEF d
<1>4. c \in Nat /\ c = d + b
  BY <1>1
<1> HIDE DEF c
<1>5. r \in 0..m - 1
  BY <1>4, ModParts
<1>6. PICK p \in Nat : c = p * m + r
  BY <1>4, ModParts
<1> HIDE DEF r
<1>7. a + b = (q + p) * m + r /\ q + p \in Nat
  BY <1>1, <1>2, <1>4, <1>5, <1>6
<1>8. ((q + p) * m + r) % m = r
  BY <1>5, <1>7, ModOf
<1>9. (a + b) % m = r
  BY <1>7, <1>8
<1> QED
  BY <1>9 DEF r, c, d

-----------------------------------------------------------------------------
(* Where frames end, and what a stream means up to each of them.             *)
FrameStreams == {fs \in Seq(FrameKinds) : Len(fs) <= MaxFrames}
OpCodes == {CONTINUATION, TEXT, BINARY, CLOSE, PING, PONG}

LEMMA FrameIs ==
  ASSUME NEW fs \in FrameStreams, NEW n \in 1..Len(fs)
  PROVE  /\ Len(fs) \in Nat /\ fs[n].op \in OpCodes /\ fs[n].fin \in BOOLEAN
         /\ fs[n].rsv1 \in BOOLEAN /\ fs[n].wide \in BOOLEAN /\ fs[n].size \in Nat
         /\ HeadSize(fs[n]) \in {2, 3} /\ (~fs[n].wide => HeadSize(fs[n]) = 2)
         /\ FrameUnits(fs[n]) \in Nat /\ FrameUnits(fs[n]) = HeadSize(fs[n]) + fs[n].size
<1>1. fs[n] \in FrameType /\ Len(fs) \in Nat
  BY FramesAssumption, ElementOfSeq DEF FrameStreams
<1>2. /\ fs[n].op \in OpCodes /\ fs[n].fin \in BOOLEAN /\ fs[n].rsv1 \in BOOLEAN
      /\ fs[n].wide \in BOOLEAN /\ fs[n].size \in Nat
  BY <1>1 DEF FrameType, OpCodes
<1>3. HeadSize(fs[n]) \in {2, 3} /\ (~fs[n].wide => HeadSize(fs[n]) = 2)
  BY <1>2 DEF HeadSize, SHORT_MESSAGE_HEADER, MEDIUM_MESSAGE_HEADER
<1> QED
  BY <1>1, <1>2, <1>3 DEF FrameUnits

LEMMA FrameEndsDef ==
  ASSUME NEW fs \in FrameStreams
  PROVE  /\ FrameEnds(fs) \in [0..Len(fs) -> Nat] /\ FrameEnds(fs)[0] = 0
         /\ \A n \in 1..Len(fs) : FrameEnds(fs)[n] = FrameEnds(fs)[n - 1] + FrameUnits(fs[n])
<1> DEFINE N == Len(fs)
           step == [n \in 1..N |-> [x \in Nat |-> x + FrameUnits(fs[n])]]
           e == FrameEnds(fs)
<1>1. step \in [1..N -> [Nat -> Nat]] /\ N \in Nat
  <2>1. N \in Nat
    BY DEF FrameStreams
  <2>2. \A n \in 1..N : FrameUnits(fs[n]) \in Nat
    BY FrameIs
  <2> QED
    BY <2>1, <2>2
<1>2. PICK f : Steps(Nat, 0, step, N, f)
  <2> HIDE DEF step, N
  <2> QED
    BY <1>1, StepsExist
<1>3. ASSUME NEW n \in 1..N PROVE f[n] = f[n - 1] + FrameUnits(fs[n])
  <2>1. n - 1 \in 0..N
    BY <1>1
  <2>2. f[n - 1] \in Nat /\ f[n] = step[n][f[n - 1]]
    BY <1>2, <2>1 DEF Steps
  <2> QED
    BY <2>2
<1>4. f = [n \in 0..N |-> IF n = 0 THEN 0 ELSE f[n - 1] + FrameUnits(fs[n])]
  <2>1. f \in [0..N -> Nat] /\ f[0] = 0
    BY <1>2 DEF Steps
  <2>2. \A n \in 0..N : f[n] = IF n = 0 THEN 0 ELSE f[n - 1] + FrameUnits(fs[n])
    <3>1. \A n \in 0..N : n = 0 \/ n \in 1..N
      BY <1>1
    <3> QED
      BY <1>3, <2>1, <3>1, Zenon
  <2> QED
    BY <2>1, <2>2, Zenon
<1>5. e = [n \in 0..N |-> IF n = 0 THEN 0 ELSE e[n - 1] + FrameUnits(fs[n])]
  BY <1>4 DEF FrameEnds
<1> HIDE DEF e, N
<1>6. e[0] = 0
  <2>1. 0 \in 0..N
    BY <1>1
  <2> QED
    BY <1>5, <2>1, Zenon
<1>7. ASSUME NEW n \in 1..N PROVE e[n] = e[n - 1] + FrameUnits(fs[n])
  <2>1. n \in 0..N /\ n # 0
    BY <1>1
  <2> QED
    BY <1>5, <2>1, Zenon
<1>8. Makes(Nat, 0, step, N, e)
  BY <1>6, <1>7 DEF Makes
<1> HIDE DEF step
<1>9. \A n \in 0..N : e[n] \in Nat
  BY <1>1, <1>2, <1>8, StepsAre
<1>10. e \in [0..N -> Nat]
  BY <1>5, <1>9, Zenon
<1> QED
  BY <1>6, <1>7, <1>10 DEF e, N

LEMMA FrameEndsGrow ==
  ASSUME NEW fs \in FrameStreams, NEW m \in 0..Len(fs)
  PROVE  FrameEnds(fs)[m] <= FrameEnds(fs)[Len(fs)]
<1> DEFINE e == FrameEnds(fs)
           Bad == {n \in m..Len(fs) : ~(e[m] <= e[n])}
<1>1. Len(fs) \in Nat /\ m \in Nat
  BY DEF FrameStreams
<1>2. \A n \in 0..Len(fs) : e[n] \in Nat
  BY FrameEndsDef
<1>3. \A n \in 1..Len(fs) : e[n - 1] <= e[n]
  <2> TAKE n \in 1..Len(fs)
  <2>1. n - 1 \in 0..Len(fs) /\ e[n] = e[n - 1] + FrameUnits(fs[n])
    BY <1>1, FrameEndsDef
  <2>2. FrameUnits(fs[n]) \in Nat
    BY FrameIs
  <2> QED
    BY <1>2, <2>1, <2>2
<1> HIDE DEF e
<1>4. Bad = {}
  <2>1. SUFFICES ASSUME NEW b \in Bad PROVE FALSE
    OBVIOUS
  <2>2. Bad \in SUBSET Nat
    BY <1>1
  <2>3. PICK n \in Bad : \A k \in Bad : n <= k
    <3> HIDE DEF Bad
    <3> QED
      BY <2>2, LeastNat
  <2>4. n \in 1..Len(fs) /\ n - 1 \in m..Len(fs) /\ n - 1 \notin Bad
    BY <1>1, <1>2, <2>3
  <2>5. e[m] <= e[n - 1] /\ e[n - 1] <= e[n] /\ ~(e[m] <= e[n])
    BY <1>3, <2>3, <2>4
  <2>6. n \in 0..Len(fs) /\ n - 1 \in 0..Len(fs)
    BY <1>1, <2>4
  <2> QED
    BY <1>2, <2>5, <2>6
<1>5. Len(fs) \in m..Len(fs)
  BY <1>1
<1> QED
  BY <1>4, <1>5 DEF e

PayloadSet == Seq(Nat \X Nat)
MessageSet == [op : {1, 2}, data : PayloadSet]
MeaningSet == [op : {0, 1, 2}, data : PayloadSet, messages : Seq(MessageSet),
               pings : Seq(PayloadSet), over : BOOLEAN, legal : BOOLEAN]

LEMMA PayloadIs ==
  ASSUME NEW i \in Nat, NEW n \in Nat
  PROVE  Payload(i, n) \in PayloadSet /\ Len(Payload(i, n)) = n
         /\ \A j \in 1..n : Payload(i, n)[j] = <<i, j>>
BY DEF Payload, PayloadSet

(* What one more frame makes of it, case by case.                            *)
NextMeaning(m, i, f, takes, m2) ==
  LET data == m.data \o Payload(i, f.size)
      op == IF Starts(f) THEN f.op ELSE m.op
  IN /\ m2 \in MeaningSet
     /\ m.over => m2 = m
     /\ ~m.over /\ ~Allowed(m, f, takes) => ~m2.legal
     /\ ~m.over /\ Allowed(m, f, takes) =>
          /\ m2.legal = m.legal
          /\ m2.over <=> f.op = CLOSE
          /\ f.op > 2 => /\ m2.op = m.op /\ m2.data = m.data /\ m2.messages = m.messages
                         /\ m2.pings = IF f.op = PING THEN Append(m.pings, Payload(i, f.size))
                                       ELSE m.pings
          /\ f.op < 3 => m2.pings = m.pings
          /\ f.op < 3 /\ ~f.fin => m2.op = op /\ m2.data = data /\ m2.messages = m.messages
          /\ f.op < 3 /\ f.fin =>
               /\ m2.op = 0 /\ m2.data = <<>>
               /\ m2.messages = Append(m.messages, [op |-> op, data |-> data])

LEMMA MeaningCases ==
  ASSUME NEW m \in MeaningSet, NEW i \in Nat, NEW f, f.op \in OpCodes, f.fin \in BOOLEAN,
         f.size \in Nat, NEW takes
  PROVE  NextMeaning(m, i, f, takes, MeaningWith(m, i, f, takes))
<1> DEFINE m2 == MeaningWith(m, i, f, takes)
           data == m.data \o Payload(i, f.size)
           op == IF Starts(f) THEN f.op ELSE m.op
<1>1. Payload(i, f.size) \in PayloadSet /\ data \in PayloadSet /\ <<>> \in PayloadSet
  <2>1. Payload(i, f.size) \in PayloadSet /\ m.data \in PayloadSet
    BY PayloadIs DEF MeaningSet
  <2> QED
    BY <2>1, ConcatProperties, EmptySeq DEF PayloadSet
<1> DEFINE pay == Payload(i, f.size)
<1>2. m2 = IF m.over THEN m
           ELSE IF ~Allowed(m, f, takes) THEN [m EXCEPT !.over = TRUE, !.legal = FALSE]
           ELSE IF f.op = CLOSE THEN [m EXCEPT !.over = TRUE]
           ELSE IF f.op = PING THEN [m EXCEPT !.pings = Append(m.pings, pay)]
           ELSE IF f.op = PONG THEN m
           ELSE IF ~f.fin THEN [m EXCEPT !.op = op, !.data = data]
           ELSE [m EXCEPT !.op = 0, !.data = <<>>,
                          !.messages = Append(m.messages, [op |-> op, data |-> data])]
  BY DEF MeaningWith
<1>3. /\ m.op \in {0, 1, 2} /\ m.data \in PayloadSet /\ m.messages \in Seq(MessageSet)
      /\ m.pings \in Seq(PayloadSet) /\ m.over \in BOOLEAN /\ m.legal \in BOOLEAN
  BY DEF MeaningSet
<1>4. op \in {0, 1, 2} /\ (Allowed(m, f, takes) /\ f.op < 3 => op \in {1, 2})
  BY <1>3 DEF Starts, Allowed, TEXT, BINARY, OpCodes, CONTINUATION, CLOSE, PING, PONG
<1> HIDE DEF m2, data, op, pay
<1>5. CASE m.over
  BY <1>2, <1>3, <1>5 DEF m2, NextMeaning
<1>6. CASE ~m.over /\ ~Allowed(m, f, takes)
  BY <1>2, <1>3, <1>6 DEF m2, MeaningSet, NextMeaning
<1>7. CASE ~m.over /\ Allowed(m, f, takes) /\ f.op > 2
  <2>1. Append(m.pings, pay) \in Seq(PayloadSet)
    BY <1>1, <1>3, AppendProperties DEF pay
  <2>2. f.op \in {CLOSE, PING, PONG} /\ CLOSE # PING /\ CLOSE # PONG /\ PING # PONG
    BY <1>7 DEF OpCodes, CLOSE, PING, PONG, CONTINUATION, TEXT, BINARY
  <2>3. ~(f.op < 3)
    BY <1>7 DEF OpCodes, CLOSE, PING, PONG, CONTINUATION, TEXT, BINARY
  <2> QED
    BY <1>2, <1>3, <1>7, <2>1, <2>2, <2>3 DEF m2, MeaningSet, pay, NextMeaning
<1>8. CASE ~m.over /\ Allowed(m, f, takes) /\ f.op < 3
  <2>1. f.op # CLOSE /\ f.op # PING /\ f.op # PONG /\ ~(f.op > 2)
    BY <1>8 DEF OpCodes, CLOSE, PING, PONG, CONTINUATION, TEXT, BINARY
  <2>2. op \in {1, 2} /\ data \in PayloadSet
    BY <1>1, <1>4, <1>8 DEF data
  <2>3. [op |-> op, data |-> data] \in MessageSet
    BY <2>2 DEF MessageSet
  <2>4. Append(m.messages, [op |-> op, data |-> data]) \in Seq(MessageSet)
    BY <1>3, <2>3, AppendProperties
  <2> DEFINE ms == Append(m.messages, [op |-> op, data |-> data])
  <2>5. CASE f.fin
    <3>1. m2 = [m EXCEPT !.op = 0, !.data = <<>>, !.messages = ms]
      BY <1>2, <1>8, <2>1, <2>5
    <3>2. ms \in Seq(MessageSet)
      BY <2>4
    <3> HIDE DEF ms
    <3>3. /\ m2 \in MeaningSet /\ m2.op = 0 /\ m2.data = <<>> /\ m2.messages = ms
          /\ m2.pings = m.pings /\ m2.over = m.over /\ m2.legal = m.legal
      BY <1>1, <1>3, <3>1, <3>2 DEF MeaningSet
    <3> QED
      BY <1>8, <2>1, <2>5, <3>3 DEF m2, ms, op, data, NextMeaning
  <2>6. CASE ~f.fin
    <3>1. m2 = [m EXCEPT !.op = op, !.data = data]
      BY <1>2, <1>8, <2>1, <2>6
    <3>2. /\ m2 \in MeaningSet /\ m2.op = op /\ m2.data = data /\ m2.messages = m.messages
          /\ m2.pings = m.pings /\ m2.over = m.over /\ m2.legal = m.legal
      BY <1>3, <1>4, <2>2, <3>1 DEF MeaningSet
    <3> QED
      BY <1>8, <2>1, <2>6, <3>2 DEF m2, op, data, NextMeaning
  <2> QED
    BY <2>5, <2>6
<1>9. f.op > 2 \/ f.op < 3
  BY DEF OpCodes, CLOSE, PING, PONG, CONTINUATION, TEXT, BINARY
<1> QED
  BY <1>5, <1>6, <1>7, <1>8, <1>9

LEMMA MeaningsDef ==
  ASSUME NEW fs \in FrameStreams, NEW takes
  PROVE  /\ Meanings(fs, takes) \in [0..Len(fs) -> MeaningSet]
         /\ Meanings(fs, takes)[0] = NothingYet
         /\ \A n \in 1..Len(fs) :
              Meanings(fs, takes)[n] = MeaningWith(Meanings(fs, takes)[n - 1], n, fs[n], takes)
<1> DEFINE N == Len(fs)
           X == MeaningSet
           W(n, x) == MeaningWith(x, n, fs[n], takes)
           step == [n \in 1..N |-> [x \in X |-> W(n, x)]]
           c == Meanings(fs, takes)
<1>1. step \in [1..N -> [X -> X]] /\ N \in Nat /\ NothingYet \in X
  <2>1. N \in Nat
    BY DEF FrameStreams
  <2>2. ASSUME NEW n \in 1..N, NEW x \in X PROVE W(n, x) \in X
    <3>1. n \in Nat /\ fs[n].op \in OpCodes /\ fs[n].fin \in BOOLEAN /\ fs[n].size \in Nat
      BY FrameIs
    <3> QED
      BY <3>1, MeaningCases DEF NextMeaning
  <2>3. NothingYet \in X
    BY EmptySeq DEF NothingYet, MeaningSet, PayloadSet
  <2> HIDE DEF W, X, N
  <2> QED
    BY <2>1, <2>2, <2>3
<1> HIDE DEF X, W
<1>2. PICK f : Steps(X, NothingYet, step, N, f)
  <2> HIDE DEF step, N
  <2> QED
    BY <1>1, StepsExist
<1>3. ASSUME NEW n \in 1..N PROVE f[n] = W(n, f[n - 1])
  <2>1. n - 1 \in 0..N
    BY <1>1
  <2>2. f[n - 1] \in X /\ f[n] = step[n][f[n - 1]]
    BY <1>2, <2>1 DEF Steps
  <2> QED
    BY <2>2
<1>4. f = [n \in 0..N |-> IF n = 0 THEN NothingYet ELSE W(n, f[n - 1])]
  <2>1. f \in [0..N -> X] /\ f[0] = NothingYet
    BY <1>2 DEF Steps
  <2>2. \A n \in 0..N : f[n] = IF n = 0 THEN NothingYet ELSE W(n, f[n - 1])
    <3>1. \A n \in 0..N : n = 0 \/ n \in 1..N
      BY <1>1
    <3> QED
      BY <1>3, <2>1, <3>1, Zenon
  <2> QED
    BY <2>1, <2>2, Zenon
<1>5. c = [n \in 0..N |-> IF n = 0 THEN NothingYet ELSE W(n, c[n - 1])]
  BY <1>4, Zenon DEF Meanings, W
<1> HIDE DEF c, N
<1>6. c[0] = NothingYet
  <2>1. 0 \in 0..N
    BY <1>1
  <2> QED
    BY <1>5, <2>1, Zenon
<1>7. ASSUME NEW n \in 1..N PROVE c[n] = W(n, c[n - 1])
  <2>1. n \in 0..N /\ n # 0
    BY <1>1
  <2> QED
    BY <1>5, <2>1, Zenon
<1>8. Makes(X, NothingYet, step, N, c)
  BY <1>6, <1>7 DEF Makes
<1> HIDE DEF step
<1>9. \A n \in 0..N : c[n] \in X
  BY <1>1, <1>2, <1>8, StepsAre
<1>10. c \in [0..N -> X]
  BY <1>5, <1>9, Zenon
<1> QED
  BY <1>6, <1>7, <1>10 DEF c, N, X, W

(* A legal stream is legal up to each frame, and what it means up to there   *)
(* comes first.                                                              *)
Longer(T, x, y) == \E u \in Seq(T) : y = x \o u

LEMMA LongerIs ==
  ASSUME NEW T
  PROVE  /\ \A x \in Seq(T) : Longer(T, x, x)
         /\ \A x \in Seq(T), e \in T : Longer(T, x, Append(x, e))
         /\ \A x, y, z \in Seq(T) : Longer(T, x, y) /\ Longer(T, y, z) => Longer(T, x, z)
         /\ \A x, y \in Seq(T) : Longer(T, x, y) => IsPrefix(x, y)
<1>1. ASSUME NEW x \in Seq(T) PROVE Longer(T, x, x)
  <2>1. x = x \o <<>> /\ <<>> \in Seq(T)
    BY ConcatEmptySeq, EmptySeq
  <2> QED
    BY <2>1 DEF Longer
<1>2. ASSUME NEW x \in Seq(T), NEW e \in T PROVE Longer(T, x, Append(x, e))
  <2>1. Append(x, e) = x \o <<e>> /\ <<e>> \in Seq(T)
    BY AppendIsConcat
  <2> QED
    BY <2>1 DEF Longer
<1>3. ASSUME NEW x \in Seq(T), NEW y \in Seq(T), NEW z \in Seq(T),
             Longer(T, x, y), Longer(T, y, z)
      PROVE  Longer(T, x, z)
  <2>1. PICK u \in Seq(T) : y = x \o u
    BY <1>3 DEF Longer
  <2>2. PICK v \in Seq(T) : z = y \o v
    BY <1>3 DEF Longer
  <2>3. (x \o u) \o v = x \o (u \o v)
    BY <2>1, <2>2, ConcatAssociative
  <2>4. u \o v \in Seq(T)
    BY <2>1, <2>2, ConcatProperties
  <2>5. z = x \o (u \o v)
    BY <2>1, <2>2, <2>3
  <2> QED
    BY <2>4, <2>5 DEF Longer
<1>4. ASSUME NEW x \in Seq(T), NEW y \in Seq(T), Longer(T, x, y) PROVE IsPrefix(x, y)
  BY <1>4, Joined, Zenon DEF Longer
<1> QED
  BY <1>1, <1>2, <1>3, <1>4

GoesOn(x, y) ==
  y.legal => /\ x.legal /\ Longer(MessageSet, x.messages, y.messages)
             /\ Longer(PayloadSet, x.pings, y.pings)

LEMMA MeaningGoesOn ==
  ASSUME NEW m \in MeaningSet, NEW i \in Nat, NEW f, f.op \in OpCodes, f.fin \in BOOLEAN,
         f.size \in Nat, NEW takes
  PROVE  GoesOn(m, MeaningWith(m, i, f, takes))
<1> DEFINE m2 == MeaningWith(m, i, f, takes)
           pay == Payload(i, f.size)
           msg == [op |-> IF Starts(f) THEN f.op ELSE m.op, data |-> m.data \o pay]
<1>1. m.messages \in Seq(MessageSet) /\ m.pings \in Seq(PayloadSet) /\ m.data \in PayloadSet
      /\ m.op \in {0, 1, 2} /\ pay \in PayloadSet
  BY PayloadIs DEF MeaningSet
<1>2. Longer(MessageSet, m.messages, m.messages) /\ Longer(PayloadSet, m.pings, m.pings)
      /\ Longer(PayloadSet, m.pings, Append(m.pings, pay))
  <2> HIDE DEF pay
  <2> QED
    BY <1>1, LongerIs
<1>3. ASSUME Allowed(m, f, takes), f.op < 3
      PROVE  Longer(MessageSet, m.messages, Append(m.messages, msg))
  <2>1. m.data \o pay \in PayloadSet
    BY <1>1, ConcatProperties DEF PayloadSet
  <2>2. (IF Starts(f) THEN f.op ELSE m.op) \in {1, 2}
    BY <1>1, <1>3 DEF Starts, Allowed, TEXT, BINARY, OpCodes, CONTINUATION, CLOSE, PING, PONG
  <2>3. msg \in MessageSet
    BY <2>1, <2>2 DEF MessageSet
  <2> HIDE DEF msg
  <2> QED
    BY <1>1, <2>3, LongerIs
<1>7. NextMeaning(m, i, f, takes, m2)
  BY MeaningCases, Zenon
<1> SUFFICES GoesOn(m, m2)
  OBVIOUS
<1> HIDE DEF m2
<1>4. CASE m.over
  <2>1. m2 = m
    BY <1>4, <1>7 DEF NextMeaning
  <2> QED
    BY <1>2, <2>1 DEF GoesOn
<1>5. CASE ~m.over /\ ~Allowed(m, f, takes)
  <2>1. ~m2.legal
    BY <1>5, <1>7 DEF NextMeaning
  <2> QED
    BY <2>1 DEF GoesOn
<1>6. CASE ~m.over /\ Allowed(m, f, takes)
  <2>1. f.op > 2 \/ f.op < 3
    BY DEF OpCodes, CLOSE, PING, PONG, CONTINUATION, TEXT, BINARY
  <2>2. m2.legal = m.legal
    BY <1>6, <1>7 DEF NextMeaning
  <2>3. CASE f.op > 2
    <3>1. m2.messages = m.messages
          /\ (m2.pings = Append(m.pings, pay) \/ m2.pings = m.pings)
      BY <1>6, <1>7, <2>3 DEF NextMeaning
    <3> QED
      BY <1>2, <2>2, <3>1 DEF GoesOn
  <2>4. CASE f.op < 3
    <3>1. m2.pings = m.pings
          /\ (m2.messages = Append(m.messages, msg) \/ m2.messages = m.messages)
      BY <1>6, <1>7, <2>4 DEF NextMeaning
    <3> QED
      BY <1>2, <1>3, <1>6, <2>2, <2>4, <3>1 DEF GoesOn
  <2> QED
    BY <2>1, <2>3, <2>4
<1> QED
  BY <1>4, <1>5, <1>6

LEMMA MeaningsGoOn ==
  ASSUME NEW fs \in FrameStreams, NEW takes, NEW k \in 0..Len(fs)
  PROVE  GoesOn(Meanings(fs, takes)[k], Meanings(fs, takes)[Len(fs)])
<1> DEFINE c == Meanings(fs, takes)
           Bad == {n \in k..Len(fs) : ~GoesOn(c[k], c[n])}
<1>1. Len(fs) \in Nat /\ k \in Nat
  BY DEF FrameStreams
<1>2. \A n \in 0..Len(fs) : c[n] \in MeaningSet
  BY MeaningsDef
<1>3. \A n \in 1..Len(fs) : GoesOn(c[n - 1], c[n])
  <2> TAKE n \in 1..Len(fs)
  <2>1. n - 1 \in 0..Len(fs) /\ n \in Nat
    BY <1>1
  <2>2. c[n - 1] \in MeaningSet /\ c[n] = MeaningWith(c[n - 1], n, fs[n], takes)
    BY <2>1, MeaningsDef
  <2>3. fs[n].op \in OpCodes /\ fs[n].fin \in BOOLEAN /\ fs[n].size \in Nat
    BY FrameIs
  <2> HIDE DEF c
  <2> QED
    BY <2>1, <2>2, <2>3, MeaningGoesOn
<1> HIDE DEF c
<1>4. ASSUME NEW x \in MeaningSet, NEW y \in MeaningSet, NEW z \in MeaningSet,
             GoesOn(x, y), GoesOn(y, z)
      PROVE  GoesOn(x, z)
  <2>1. /\ x.messages \in Seq(MessageSet) /\ x.pings \in Seq(PayloadSet)
        /\ y.messages \in Seq(MessageSet) /\ y.pings \in Seq(PayloadSet)
        /\ z.messages \in Seq(MessageSet) /\ z.pings \in Seq(PayloadSet)
    BY DEF MeaningSet
  <2> QED
    BY <1>4, <2>1, LongerIs DEF GoesOn
<1>5. Bad = {}
  <2>1. SUFFICES ASSUME NEW b \in Bad PROVE FALSE
    OBVIOUS
  <2>2. Bad \in SUBSET Nat
    BY <1>1
  <2>3. PICK n \in Bad : \A j \in Bad : n <= j
    <3> HIDE DEF Bad
    <3> QED
      BY <2>2, LeastNat
  <2>4. n # k
    <3>1. c[k] \in MeaningSet
      BY <1>2
    <3>2. c[k].messages \in Seq(MessageSet) /\ c[k].pings \in Seq(PayloadSet)
      BY <3>1 DEF MeaningSet
    <3>3. Longer(MessageSet, c[k].messages, c[k].messages)
          /\ Longer(PayloadSet, c[k].pings, c[k].pings)
      BY <3>2, LongerIs, Zenon
    <3>4. GoesOn(c[k], c[k])
      BY <3>3 DEF GoesOn
    <3> QED
      BY <2>3, <3>4
  <2>5. n \in 1..Len(fs) /\ n - 1 \in k..Len(fs) /\ n - 1 \notin Bad
    <3>1. n \in k..Len(fs)
      BY <2>3
    <3> HIDE DEF Bad
    <3> QED
      BY <1>1, <2>3, <2>4, <3>1
  <2>6. GoesOn(c[k], c[n - 1]) /\ GoesOn(c[n - 1], c[n])
    BY <1>3, <2>5
  <2>7. n \in 0..Len(fs) /\ n - 1 \in 0..Len(fs)
    BY <1>1, <2>5
  <2>8. GoesOn(c[k], c[n])
    BY <1>2, <1>4, <2>6, <2>7, Zenon
  <2> QED
    BY <2>3, <2>8
<1>6. Len(fs) \in k..Len(fs)
  BY <1>1
<1> QED
  BY <1>5, <1>6 DEF c

-----------------------------------------------------------------------------
(* What was read of the frame at src, and what is still in hand of it.       *)
FrameDone == frame.size - remainingBytes
InHand ==
  IF wantsHead THEN IF parsing THEN length ELSE spill
  ELSE FrameUnits(frame) - remainingBytes + (IF parsing THEN length ELSE 0)

FrameTypes ==
  /\ stream \in FrameStreams
  /\ came \in 0..Total /\ at \in 1..Len(stream) + 1 /\ length \in 0..Total
  /\ spill \in 0..2 /\ parsing \in BOOLEAN /\ wantsHead \in BOOLEAN
  /\ ops \in Seq(OpCodes) /\ Len(ops) <= 2 /\ lastFin \in BOOLEAN
  /\ remainingBytes \in 0..MaxPayload /\ mask \in 0..MaskSize - 1
  /\ compression \in {"DISABLED", "ENABLED", "COMPRESSED"}
  /\ ended \in {"no", "handler", "close frame", "protocol"}

(* All that was read is of the frames before, in hand, or still to be parsed.*)
FramePlaces ==
  /\ parsing => ended = "no"
  /\ ended = "no" => came = FrameEnds(stream)[at - 1] + InHand
  /\ wantsHead /\ parsing /\ length = 0 => spill = 0
  /\ wantsHead /\ ~parsing /\ ended = "no" /\ at <= Len(stream) => spill < HeadSize(frame)
  /\ ~wantsHead => /\ spill = 0 /\ at <= Len(stream) /\ ops # <<>> /\ ended = "no"
                   /\ remainingBytes > 0 /\ remainingBytes <= frame.size
                   /\ frame.size <= MaxPayload

(* Of a legal stream, the handlers were told what the frames before mean; a  *)
(* message that goes on is in the fragment buffer, what came of this frame   *)
(* behind it, and its opcode at the bottom of the stack.                     *)
SoFar == Meanings(stream, Takes)[at - 1]
OpenOps(m) == IF m.op = 0 THEN <<>> ELSE <<m.op>>
OpsOf(m, f) == IF f.op = CONTINUATION THEN OpenOps(m) ELSE Append(OpenOps(m), f.op)

ToldInv ==
  /\ given = SoFar.messages /\ pongs = SoFar.pings
  /\ SoFar.legal /\ (SoFar.over <=> ended = "close frame")
  /\ ended = "protocol" => CutCompressed

BetweenFrames ==
  /\ ops = OpenOps(SoFar) /\ fragmentBuffer = SoFar.data /\ controlTip = 0
  /\ SoFar.op = 0 => lastFin /\ (compression = "COMPRESSED" => CutCompressed)

InFrame ==
  /\ ops = OpsOf(SoFar, frame) /\ lastFin = frame.fin /\ mask = FrameDone % MaskSize
  /\ fragmentBuffer = SoFar.data \o Payload(at, FrameDone)
  /\ controlTip = IF frame.op > 2 THEN FrameDone ELSE 0
  /\ frame.op > 2 /\ SoFar.op = 0 => compression # "COMPRESSED"

LegalInv ==
  Meaning.legal => ToldInv /\ (wantsHead => BetweenFrames) /\ (~wantsHead => InFrame)

FramesInv == FrameTypes /\ FramePlaces /\ LegalInv

LEMMA StreamFacts ==
  ASSUME FrameTypes
  PROVE  /\ stream \in FrameStreams /\ Len(stream) \in Nat /\ at \in Nat
         /\ at - 1 \in 0..Len(stream) /\ at >= 1 /\ at <= Len(stream) + 1
         /\ Total \in Nat /\ came \in Nat /\ came <= Total /\ length \in Nat /\ length <= Total
         /\ spill \in 0..2 /\ remainingBytes \in Nat /\ remainingBytes <= MaxPayload
         /\ mask \in Nat /\ MaxPayload \in Nat /\ MaskSize \in Nat \ {0} /\ MaxFrames \in Nat
         /\ FrameEnds(stream)[at - 1] \in Nat /\ FrameEnds(stream)[at - 1] <= Total
         /\ SoFar \in MeaningSet /\ Meaning \in MeaningSet
<1>1. stream \in FrameStreams /\ at \in 1..Len(stream) + 1 /\ Len(stream) \in Nat
  <2>1. stream \in FrameStreams /\ at \in 1..Len(stream) + 1
    BY Zenon DEF FrameTypes
  <2> QED
    BY <2>1 DEF FrameStreams
<1>2. at - 1 \in 0..Len(stream) /\ Len(stream) \in 0..Len(stream)
  BY <1>1
<1>3. FrameEnds(stream)[at - 1] \in Nat /\ Total \in Nat
  BY <1>1, <1>2, FrameEndsDef DEF Total
<1>4. FrameEnds(stream)[at - 1] <= Total
  BY <1>1, <1>2, FrameEndsGrow DEF Total
<1>5. SoFar \in MeaningSet /\ Meaning \in MeaningSet
  <2>1. Meanings(stream, Takes) \in [0..Len(stream) -> MeaningSet]
    BY <1>1, MeaningsDef
  <2> QED
    BY <1>2, <2>1 DEF SoFar, Meaning
<1>6. MaxPayload \in Nat /\ MaskSize \in Nat \ {0} /\ MaxFrames \in Nat
  BY FramesAssumption
<1>7. /\ came \in Nat /\ came <= Total /\ length \in Nat /\ length <= Total
      /\ spill \in 0..2 /\ remainingBytes \in Nat /\ remainingBytes <= MaxPayload /\ mask \in Nat
  <2>1. /\ came \in 0..Total /\ length \in 0..Total /\ spill \in 0..2
        /\ remainingBytes \in 0..MaxPayload /\ mask \in 0..MaskSize - 1
    BY Zenon DEF FrameTypes
  <2> QED
    BY <1>3, <1>6, <2>1
<1> QED
  BY <1>1, <1>2, <1>3, <1>4, <1>5, <1>6, <1>7

LEMMA FrameFacts ==
  ASSUME FrameTypes, at <= Len(stream)
  PROVE  /\ at \in 0..Len(stream) /\ at + 1 \in 1..Len(stream) + 1
         /\ frame.op \in OpCodes /\ frame.fin \in BOOLEAN /\ frame.rsv1 \in BOOLEAN
         /\ frame.wide \in BOOLEAN /\ frame.size \in Nat
         /\ HeadSize(frame) \in {2, 3} /\ (~frame.wide => HeadSize(frame) = 2)
         /\ FrameUnits(frame) = HeadSize(frame) + frame.size
         /\ FrameEnds(stream)[at] = FrameEnds(stream)[at - 1] + HeadSize(frame) + frame.size
         /\ FrameEnds(stream)[at] \in Nat /\ FrameEnds(stream)[at] <= Total
         /\ NextMeaning(SoFar, at, frame, Takes, Meanings(stream, Takes)[at])
<1>1. /\ stream \in FrameStreams /\ at \in 1..Len(stream) /\ at \in 0..Len(stream)
      /\ at + 1 \in 1..Len(stream) + 1 /\ Len(stream) \in Nat /\ at - 1 \in 0..Len(stream)
      /\ FrameEnds(stream)[at - 1] \in Nat /\ SoFar \in MeaningSet /\ at \in Nat
  BY StreamFacts, SMTT(40)
<1>2. /\ frame.op \in OpCodes /\ frame.fin \in BOOLEAN /\ frame.rsv1 \in BOOLEAN
      /\ frame.wide \in BOOLEAN /\ frame.size \in Nat
      /\ HeadSize(frame) \in {2, 3} /\ (~frame.wide => HeadSize(frame) = 2)
      /\ FrameUnits(frame) = HeadSize(frame) + frame.size
  BY <1>1, FrameIs DEF frame
<1>3. FrameEnds(stream)[at] = FrameEnds(stream)[at - 1] + FrameUnits(frame)
      /\ FrameEnds(stream)[at] \in Nat
  BY <1>1, FrameEndsDef DEF frame
<1>4. FrameEnds(stream)[at] <= Total
  BY <1>1, FrameEndsGrow DEF Total
<1>5. Meanings(stream, Takes)[at] = MeaningWith(SoFar, at, frame, Takes)
  BY <1>1, MeaningsDef DEF SoFar, frame
<1>6. NextMeaning(SoFar, at, frame, Takes, MeaningWith(SoFar, at, frame, Takes))
  BY <1>1, <1>2, MeaningCases, Zenon
<1>7. NextMeaning(SoFar, at, frame, Takes, Meanings(stream, Takes)[at])
  BY <1>5, <1>6
<1>8. FrameEnds(stream)[at] = FrameEnds(stream)[at - 1] + HeadSize(frame) + frame.size
  BY <1>1, <1>2, <1>3
<1> QED
  BY <1>1, <1>2, <1>3, <1>4, <1>7, <1>8

(* In a legal stream the frame at src is allowed.                            *)
LEMMA FrameAllowed ==
  ASSUME FramesInv, Meaning.legal, at <= Len(stream), ended = "no"
  PROVE  /\ ~SoFar.over /\ Allowed(SoFar, frame, Takes) /\ Meanings(stream, Takes)[at].legal
<1>1. ~SoFar.over
  BY DEF FramesInv, LegalInv, ToldInv
<1>2. FrameTypes
  BY DEF FramesInv
<1>3. stream \in FrameStreams /\ at \in 0..Len(stream)
  BY <1>2, StreamFacts, FrameFacts
<1>4. GoesOn(Meanings(stream, Takes)[at], Meanings(stream, Takes)[Len(stream)])
  BY <1>3, MeaningsGoOn
<1>5. Meanings(stream, Takes)[at].legal
  BY <1>4 DEF GoesOn, Meaning
<1>6. NextMeaning(SoFar, at, frame, Takes, Meanings(stream, Takes)[at])
  BY <1>2, FrameFacts
<1> QED
  BY <1>1, <1>5, <1>6 DEF NextMeaning

LEMMA FramesInitInv == FramesInit => FramesInv
<1> SUFFICES ASSUME FramesInit PROVE FramesInv
  OBVIOUS
<1> USE DEF FramesInit
<1>1. stream \in FrameStreams
  <2>1. PICK n \in 0..MaxFrames : stream \in [1..n -> FrameKinds]
    BY DEF SeqOf
  <2> QED
    BY <2>1, FramesAssumption DEF FrameStreams
<1>2. Len(stream) \in Nat /\ 0 \in 0..Len(stream) /\ Len(stream) \in 0..Len(stream)
  BY <1>1 DEF FrameStreams
<1>3. FrameEnds(stream)[0] = 0 /\ Total \in Nat /\ Meanings(stream, Takes)[0] = NothingYet
  BY <1>1, <1>2, FrameEndsDef, MeaningsDef DEF Total
<1>4. FrameTypes
  <2>1. 0 \in 0..Total /\ 1 \in 1..Len(stream) + 1 /\ 0 \in 0..2 /\ 0 \in 0..MaxPayload
        /\ 0 \in 0..MaskSize - 1
    BY <1>2, <1>3, FramesAssumption
  <2>2. ops \in Seq(OpCodes) /\ Len(ops) = 0
    BY EmptySeq
  <2>3. Len(ops) <= 2
    BY <2>2
  <2> QED
    BY <1>1, <2>1, <2>2, <2>3, Zenon DEF FrameTypes
<1>5. FramePlaces
  <2>1. at <= Len(stream) => HeadSize(frame) \in {2, 3}
    BY <1>4, FrameFacts
  <2>2. came = FrameEnds(stream)[at - 1] + InHand
    BY <1>3 DEF InHand
  <2> QED
    BY <2>1, <2>2 DEF FramePlaces
<1>6. SoFar = NothingYet
  BY <1>3 DEF SoFar
<1>7. LegalInv
  BY <1>6 DEF LegalInv, ToldInv, BetweenFrames, NothingYet, OpenOps
<1> QED
  BY <1>4, <1>5, <1>7 DEF FramesInv

-----------------------------------------------------------------------------
(* Short sequences, and sequences of payload.                                *)
LEMMA ShortOnes ==
  ASSUME NEW T, NEW a \in T, NEW b \in T
  PROVE  /\ Append(<<>>, a) = <<a>> /\ <<a>> \in Seq(T) /\ Len(<<a>>) = 1 /\ <<a>>[1] = a
         /\ SubSeq(<<a>>, 1, Len(<<a>>) - 1) = <<>>
         /\ Append(<<a>>, b) = <<a, b>> /\ <<a, b>> \in Seq(T) /\ Len(<<a, b>>) = 2
         /\ <<a, b>>[2] = b /\ SubSeq(<<a, b>>, 1, Len(<<a, b>>) - 1) = <<a>>
<1>1. Append(<<>>, a) = <<a>> /\ <<a>> \in Seq(T) /\ Len(<<a>>) = 1 /\ <<a>>[1] = a
  OBVIOUS
<1>2. SubSeq(<<a>>, 1, Len(<<a>>) - 1) = <<>>
  BY <1>1, SubSeqEmpty
<1>3. Append(<<a>>, b) = <<a, b>> /\ <<a, b>> \in Seq(T) /\ Len(<<a, b>>) = 2 /\ <<a, b>>[2] = b
  <2>1. <<a, b>> \in Seq(T) /\ Len(<<a, b>>) = 2 /\ <<a, b>>[2] = b /\ <<a, b>>[1] = a
    OBVIOUS
  <2> DEFINE s == <<a>>  t == Append(s, b)  u == <<a, b>>
  <2>2. s \in Seq(T) /\ Len(s) = 1 /\ s[1] = a
    BY <1>1
  <2> HIDE DEF s, u
  <2>3. t \in Seq(T) /\ Len(t) = 2 /\ t[1] = a /\ t[2] = b
    <3>1. t \in Seq(T) /\ Len(t) = Len(s) + 1
      BY <2>2, AppendProperties, Zenon
    <3>2. ASSUME NEW i \in 1..Len(s) PROVE t[i] = s[i]
      BY <2>2
    <3>3. t[Len(s) + 1] = b
      BY <2>2, AppendProperties, Zenon
    <3>4. 1 \in 1..Len(s) /\ Len(s) + 1 = 2
      BY <2>2
    <3> HIDE DEF t
    <3> QED
      BY <2>2, <3>1, <3>2, <3>3, <3>4
  <2> HIDE DEF t
  <2>4. \A i \in 1..2 : t[i] = u[i]
    <3>1. \A i \in 1..2 : i = 1 \/ i = 2
      OBVIOUS
    <3> QED
      BY <2>1, <2>3, <3>1 DEF u
  <2>5. t = u
    BY <2>1, <2>3, <2>4, SeqEqual DEF u
  <2> QED
    BY <2>1, <2>5 DEF t, s, u
<1>4. SubSeq(<<a, b>>, 1, Len(<<a, b>>) - 1) = <<a>>
  <2> DEFINE s == <<a, b>>  t == SubSeq(s, 1, 1)
  <2>1. s \in Seq(T) /\ Len(s) = 2 /\ s[1] = a
    BY <1>3
  <2> HIDE DEF s
  <2>2. t \in Seq(T) /\ Len(t) = 1 /\ t[1] = a
    BY <2>1, SubSeqProperties
  <2> HIDE DEF t
  <2>3. t = <<a>>
    BY <1>1, <2>2, SeqEqual
  <2> QED
    BY <2>1, <2>3 DEF t, s
<1> QED
  BY <1>1, <1>2, <1>3, <1>4

LEMMA PayloadParts ==
  \A x, y \in PayloadSet :
    /\ x \o y \in PayloadSet /\ Len(x \o y) = Len(x) + Len(y) /\ Len(x) \in Nat
    /\ SubSeq(x \o y, 1, Len(x)) = x /\ SubSeq(x \o y, Len(x) + 1, Len(x) + Len(y)) = y
    /\ \A z \in PayloadSet : (x \o y) \o z = x \o (y \o z)
<1> SUFFICES ASSUME NEW x \in PayloadSet, NEW y \in PayloadSet
             PROVE  /\ x \o y \in PayloadSet /\ Len(x \o y) = Len(x) + Len(y) /\ Len(x) \in Nat
                    /\ SubSeq(x \o y, 1, Len(x)) = x
                    /\ SubSeq(x \o y, Len(x) + 1, Len(x) + Len(y)) = y
                    /\ \A z \in PayloadSet : (x \o y) \o z = x \o (y \o z)
  OBVIOUS
<1> DEFINE T == Nat \X Nat
<1>1. PayloadSet = Seq(T)
  BY DEF PayloadSet
<1> HIDE DEF T
<1>2. x \in Seq(T) /\ y \in Seq(T) /\ Len(x) \in Nat /\ Len(y) \in Nat
  BY <1>1
<1>3. /\ x \o y \in Seq(T) /\ Len(x \o y) = Len(x) + Len(y)
      /\ \A i \in 1..Len(x) + Len(y) : (x \o y)[i] = IF i <= Len(x) THEN x[i] ELSE y[i - Len(x)]
  BY <1>2, ConcatProperties
<1> DEFINE s == x \o y
<1>4. SubSeq(s, 1, Len(x)) = x
  <2> DEFINE t == SubSeq(s, 1, Len(x))
  <2> HIDE DEF s
  <2>1. t \in Seq(T) /\ Len(t) = Len(x) /\ \A i \in 1..Len(x) : t[i] = x[i]
    BY <1>2, <1>3, SubSeqProperties DEF s
  <2> HIDE DEF t
  <2>2. t = x
    BY <1>2, <2>1, SeqEqual
  <2> QED
    BY <2>2 DEF t
<1>5. SubSeq(s, Len(x) + 1, Len(x) + Len(y)) = y
  <2> DEFINE t == SubSeq(s, Len(x) + 1, Len(x) + Len(y))
  <2>1. s \in Seq(T) /\ Len(s) = Len(x) + Len(y)
    BY <1>3
  <2>2. \A i \in 1..Len(y) : s[Len(x) + i] = y[i]
    <3> TAKE i \in 1..Len(y)
    <3>1. Len(x) + i \in 1..Len(x) + Len(y) /\ ~(Len(x) + i <= Len(x))
          /\ Len(x) + i - Len(x) = i
      BY <1>2
    <3> QED
      BY <1>3, <3>1
  <2> HIDE DEF s
  <2>3. t \in Seq(T) /\ Len(t) = Len(y) /\ \A i \in 1..Len(y) : t[i] = s[Len(x) + i]
    <3>1. \A m, n \in Int : (m \in 1..Len(s) + 1 /\ n \in m - 1..Len(s)) =>
            /\ SubSeq(s, m, n) \in Seq(T) /\ Len(SubSeq(s, m, n)) = n - m + 1
            /\ \A i \in 1..n - m + 1 : SubSeq(s, m, n)[i] = s[m + i - 1]
      BY <2>1, SubSeqProperties
    <3>2. /\ Len(x) + 1 \in Int /\ Len(x) + Len(y) \in Int /\ Len(x) + 1 \in 1..Len(s) + 1
          /\ Len(x) + Len(y) \in Len(x) + 1 - 1..Len(s)
          /\ Len(x) + Len(y) - (Len(x) + 1) + 1 = Len(y)
          /\ \A i \in 1..Len(y) : Len(x) + 1 + i - 1 = Len(x) + i
      BY <1>2, <2>1
    <3> QED
      BY <3>1, <3>2
  <2> HIDE DEF t
  <2>4. t = y
    BY <1>2, <2>2, <2>3, SeqEqual
  <2> QED
    BY <2>4 DEF t
<1>6. \A z \in Seq(T) : (x \o y) \o z = x \o (y \o z)
  BY <1>2, ConcatAssociative, SMTT(40)
<1> QED
  BY <1>1, <1>2, <1>3, <1>4, <1>5, <1>6

-----------------------------------------------------------------------------
(* What handleFragment does with a part of a frame, and with its last one.   *)
RestOf(p, n) == [i \in 1..n |-> <<at, p + i>>]

LEMMA RestIs ==
  ASSUME NEW p \in Nat, NEW n \in Nat, at \in Nat
  PROVE  /\ RestOf(p, n) \in PayloadSet /\ Len(RestOf(p, n)) = n
         /\ Payload(at, p) \o RestOf(p, n) = Payload(at, p + n)
         /\ Unmasked(p, n, p % MaskSize) = RestOf(p, n)
         /\ (p = 0 => Unmasked(p, n, 0) = RestOf(p, n))
<1>1. RestOf(p, n) \in PayloadSet /\ Len(RestOf(p, n)) = n
  BY DEF RestOf, PayloadSet
<1>2. Payload(at, p) \o RestOf(p, n) = Payload(at, p + n)
  <2> DEFINE a == Payload(at, p)  b == RestOf(p, n)  c == Payload(at, p + n)
  <2>1. /\ a \in PayloadSet /\ Len(a) = p /\ \A j \in 1..p : a[j] = <<at, j>>
        /\ c \in PayloadSet /\ Len(c) = p + n /\ \A j \in 1..p + n : c[j] = <<at, j>>
    BY PayloadIs
  <2>2. \A i \in 1..n : b[i] = <<at, p + i>>
    BY DEF RestOf
  <2>3. b \in PayloadSet /\ Len(b) = n
    BY <1>1
  <2> HIDE DEF a, b, c
  <2>4. /\ a \o b \in PayloadSet /\ Len(a \o b) = p + n
        /\ \A j \in 1..p + n : (a \o b)[j] = IF j <= p THEN a[j] ELSE b[j - p]
    BY <2>1, <2>3, ConcatProperties DEF PayloadSet
  <2>5. \A j \in 1..p + n : (a \o b)[j] = c[j]
    <3> TAKE j \in 1..p + n
    <3>1. CASE j <= p
      BY <2>1, <2>4, <3>1
    <3>2. CASE ~(j <= p)
      <4>1. j - p \in 1..n /\ p + (j - p) = j
        BY <3>2
      <4> QED
        BY <2>1, <2>2, <2>4, <3>2, <4>1
    <3> QED
      BY <3>1, <3>2
  <2>6. a \o b = c
    BY <2>1, <2>4, <2>5, SeqEqual DEF PayloadSet
  <2> QED
    BY <2>6 DEF a, b, c
<1>3. \A i \in 1..n : (i - 1 + (p % MaskSize)) % MaskSize = (p + i - 1) % MaskSize
  <2> TAKE i \in 1..n
  <2>1. i - 1 \in Nat /\ MaskSize \in Nat \ {0}
    BY FramesAssumption
  <2>2. ((p % MaskSize) + (i - 1)) % MaskSize = (p + (i - 1)) % MaskSize
    BY <2>1, ModSum
  <2>3. (p % MaskSize) \in Nat
    BY <2>1, ModParts
  <2> DEFINE d == p % MaskSize
  <2>4. d \in Nat /\ (d + (i - 1)) % MaskSize = (p + (i - 1)) % MaskSize
    BY <2>2, <2>3
  <2> HIDE DEF d
  <2>5. d + (i - 1) = i - 1 + d /\ p + (i - 1) = p + i - 1
    BY <2>4
  <2>6. (i - 1 + d) % MaskSize = (p + i - 1) % MaskSize
    BY <2>4, <2>5
  <2> QED
    BY <2>6 DEF d
<1>4. Unmasked(p, n, p % MaskSize) = RestOf(p, n)
  <2>1. \A i \in 1..n : p + i - 1 = p + i - 1
    OBVIOUS
  <2> QED
    BY <1>3 DEF Unmasked, RestOf
<1>5. ASSUME p = 0 PROVE Unmasked(p, n, 0) = RestOf(p, n)
  <2>1. \A i \in 1..n : i - 1 + 0 = p + i - 1
    BY <1>5
  <2> QED
    BY <2>1 DEF Unmasked, RestOf
<1> QED
  BY <1>1, <1>2, <1>4, <1>5

LEMMA FragmentPart ==
  ASSUME NEW data, NEW left, NEW op, NEW fin, handleFragment(data, left, op, fin), left # 0
  PROVE  /\ fragmentBuffer' = fragmentBuffer \o data
         /\ controlTip' = IF op < 3 THEN controlTip ELSE controlTip + Len(data)
         /\ given' = given /\ pongs' = pongs /\ ended' = ended
BY DEF handleFragment

LEMMA FragmentEnds ==
  ASSUME NEW data, NEW left, NEW op, NEW fin, handleFragment(data, left, op, fin)
  PROVE  ended' \in {ended, "handler", "close frame"}
BY DEF handleFragment, Emit, answerControl

FragmentTold(whole, tip, op, fin) ==
  /\ op < 3 /\ fin =>
       /\ given' = Append(given, [op |-> op, data |-> whole])
       /\ ended' \in {ended, "handler"} /\ fragmentBuffer' = <<>> /\ pongs' = pongs
       /\ controlTip' = controlTip
  /\ op < 3 /\ ~fin =>
       /\ fragmentBuffer' = whole /\ controlTip' = controlTip /\ given' = given
       /\ pongs' = pongs /\ ended' = ended
  /\ ~(op < 3) /\ fin =>
       /\ fragmentBuffer' = SubSeq(whole, 1, Len(whole) - tip) /\ controlTip' = 0
       /\ given' = given /\ ended' = (IF op = CLOSE THEN "close frame" ELSE ended)
       /\ pongs' = (IF op = PING
                    THEN Append(pongs, SubSeq(whole, Len(whole) - tip + 1, Len(whole)))
                    ELSE pongs)

LEMMA FragmentWhole ==
  ASSUME NEW data, NEW op, NEW fin, handleFragment(data, 0, op, fin)
  PROVE  FragmentTold(fragmentBuffer \o data, controlTip + Len(data), op, fin)
BY DEF FragmentTold, handleFragment, Emit, answerControl

(* A legal frame that is whole now: what came before it, its payload, and    *)
(* what both mean together.                                                  *)
OpOf(m, f) == IF f.op = CONTINUATION THEN m.op ELSE f.op

FrameTold(m, m2) ==
  /\ given' = m2.messages /\ pongs' = m2.pings /\ fragmentBuffer' = m2.data /\ controlTip' = 0
  /\ m2.legal /\ (m2.over <=> ended' = "close frame") /\ ended' # "protocol"

LEMMA FrameComplete ==
  ASSUME FramesInv, Meaning.legal, at <= Len(stream), ended = "no",
         NEW done \in Nat, NEW n \in Nat, done + n = frame.size,
         fragmentBuffer = SoFar.data \o Payload(at, done),
         controlTip = (IF frame.op > 2 THEN done ELSE 0),
         handleFragment(RestOf(done, n), 0, OpOf(SoFar, frame), frame.fin)
  PROVE  FrameTold(SoFar, Meanings(stream, Takes)[at])
<1> DEFINE m == SoFar  m2 == Meanings(stream, Takes)[at]  op == OpOf(m, frame)
           data == RestOf(done, n)  pay == Payload(at, frame.size)
           whole == fragmentBuffer \o data
<1>1. /\ frame.op \in OpCodes /\ frame.size \in Nat /\ at \in Nat /\ m \in MeaningSet
      /\ frame.fin \in BOOLEAN /\ NextMeaning(m, at, frame, Takes, m2)
  BY StreamFacts, FrameFacts DEF FramesInv
<1>2. ~m.over /\ Allowed(m, frame, Takes) /\ m2.legal
  BY FrameAllowed
<1>3. given = m.messages /\ pongs = m.pings /\ m.data \in PayloadSet /\ m.op \in {0, 1, 2}
  BY <1>1 DEF FramesInv, LegalInv, ToldInv, MeaningSet
<1>4. /\ data \in PayloadSet /\ Len(data) = n /\ pay \in PayloadSet /\ Len(pay) = frame.size
      /\ Payload(at, done) \o data = pay /\ Payload(at, done) \in PayloadSet
  <2>1. data \in PayloadSet /\ Len(data) = n /\ Payload(at, done) \o data = Payload(at, done + n)
    BY <1>1, RestIs
  <2>2. Payload(at, done) \in PayloadSet
    BY <1>1, PayloadIs
  <2>3. pay \in PayloadSet /\ Len(pay) = frame.size
    BY <1>1, PayloadIs
  <2> QED
    BY <2>1, <2>2, <2>3
<1>5. whole = m.data \o pay
  <2> DEFINE y == Payload(at, done)
  <2>1. y \in PayloadSet /\ y \o data = pay /\ whole = (m.data \o y) \o data
    BY <1>4
  <2> HIDE DEF y, data, pay, whole, m
  <2>2. (m.data \o y) \o data = m.data \o (y \o data)
    <3>1. m.data \in PayloadSet /\ data \in PayloadSet
      BY <1>3, <1>4
    <3>2. \A x, y1, z \in PayloadSet : (x \o y1) \o z = x \o (y1 \o z)
      BY PayloadParts
    <3> QED
      BY <2>1, <3>1, <3>2, Zenon
  <2> QED
    BY <2>1, <2>2
<1>6. /\ frame.op > 2 => op = frame.op /\ ~(op < 3) /\ frame.fin
      /\ frame.op < 3 => op = (IF Starts(frame) THEN frame.op ELSE m.op) /\ op < 3
      /\ frame.op > 2 \/ (frame.op < 3 /\ ~(frame.op > 2) /\ frame.op # CLOSE)
  BY <1>1, <1>2, <1>3
  DEF OpOf, Allowed, Starts, OpCodes, CONTINUATION, TEXT, BINARY, CLOSE, PING, PONG
<1> DEFINE tip == controlTip + Len(data)
<1>7. FragmentTold(whole, tip, op, frame.fin)
  BY FragmentWhole, Zenon
<1>8. /\ controlTip = (IF frame.op > 2 THEN done ELSE 0)
      /\ ended = "no" /\ done + n = frame.size
  OBVIOUS
<1>9. op = PING <=> frame.op = PING
  BY <1>3 DEF OpOf, CONTINUATION, PING
<1>10. op = CLOSE <=> frame.op = CLOSE
  BY <1>3 DEF OpOf, CONTINUATION, CLOSE
<1> SUFFICES FrameTold(m, m2)
  OBVIOUS
<1> HIDE DEF m, m2, op, data, pay, whole, tip
<1>11. CASE frame.op > 2
  <2>1. /\ m2.op = m.op /\ m2.data = m.data /\ m2.messages = m.messages
        /\ m2.pings = IF frame.op = PING THEN Append(m.pings, pay) ELSE m.pings
        /\ (m2.over <=> frame.op = CLOSE)
    BY <1>1, <1>2, <1>11 DEF NextMeaning, pay
  <2>2. tip = Len(pay)
    BY <1>4, <1>8, <1>11 DEF tip
  <2>3. /\ Len(whole) = Len(m.data) + Len(pay) /\ Len(m.data) \in Nat /\ Len(pay) \in Nat
        /\ SubSeq(whole, 1, Len(m.data)) = m.data
        /\ SubSeq(whole, Len(m.data) + 1, Len(m.data) + Len(pay)) = pay
    BY <1>3, <1>4, <1>5, PayloadParts, Zenon
  <2>4. Len(whole) - Len(pay) = Len(m.data)
    BY <2>3
  <2>5. SubSeq(whole, 1, Len(whole) - Len(pay)) = m.data
        /\ SubSeq(whole, Len(whole) - Len(pay) + 1, Len(whole)) = pay
    BY <2>3, <2>4
  <2>6. /\ fragmentBuffer' = SubSeq(whole, 1, Len(whole) - Len(pay)) /\ controlTip' = 0
        /\ given' = given /\ ended' = (IF op = CLOSE THEN "close frame" ELSE ended)
        /\ pongs' = (IF op = PING
                     THEN Append(pongs, SubSeq(whole, Len(whole) - Len(pay) + 1, Len(whole)))
                     ELSE pongs)
    BY <1>6, <1>7, <1>11, <2>2 DEF FragmentTold
  <2> QED
    BY <1>2, <1>3, <1>8, <1>9, <1>10, <2>1, <2>5, <2>6 DEF FrameTold
<1>12. CASE frame.op < 3 /\ frame.fin
  <2>1. /\ m2.data = <<>> /\ m2.pings = m.pings /\ ~m2.over
        /\ m2.messages = Append(m.messages, [op |-> op, data |-> m.data \o pay])
    BY <1>1, <1>2, <1>6, <1>12, Zenon DEF NextMeaning, pay
  <2>2. /\ given' = Append(given, [op |-> op, data |-> whole])
        /\ ended' \in {ended, "handler"} /\ fragmentBuffer' = <<>> /\ pongs' = pongs
        /\ controlTip' = controlTip
    BY <1>6, <1>7, <1>12 DEF FragmentTold
  <2>3. controlTip = 0
    BY <1>6, <1>8, <1>12
  <2> QED
    BY <1>2, <1>3, <1>5, <1>8, <2>1, <2>2, <2>3 DEF FrameTold
<1>13. CASE frame.op < 3 /\ ~frame.fin
  <2>1. m2.data = m.data \o pay /\ m2.pings = m.pings /\ m2.messages = m.messages /\ ~m2.over
    BY <1>1, <1>2, <1>6, <1>13, Zenon DEF NextMeaning, pay
  <2>2. /\ fragmentBuffer' = whole /\ controlTip' = controlTip /\ given' = given
        /\ pongs' = pongs /\ ended' = ended
    BY <1>6, <1>7, <1>13 DEF FragmentTold
  <2>3. controlTip = 0
    BY <1>6, <1>8, <1>13
  <2> QED
    BY <1>2, <1>3, <1>5, <1>8, <2>1, <2>2, <2>3 DEF FrameTold
<1> QED
  BY <1>1, <1>6, <1>11, <1>12, <1>13

(* The opcodes of the messages that go on.                                   *)
LEMMA OpsAre ==
  ASSUME NEW m \in MeaningSet, NEW i, NEW f, f.op \in OpCodes, f.fin \in BOOLEAN, NEW takes,
         NEW m2, ~m.over, Allowed(m, f, takes), NextMeaning(m, i, f, takes, m2)
  PROVE  /\ OpsOf(m, f) \in Seq(OpCodes) /\ Len(OpsOf(m, f)) \in {1, 2}
         /\ OpsOf(m, f)[Len(OpsOf(m, f))] = OpOf(m, f)
         /\ OpsLeft(OpsOf(m, f), f.fin) = OpenOps(m2)
         /\ (m2.op = 0 => f.fin)
         /\ (f.fin /\ f.op < 3 => m2.op = 0) /\ (f.op > 2 => m2.op = m.op)
<1>1. m.op \in {0, 1, 2} /\ m2.op \in {0, 1, 2}
  BY DEF MeaningSet, NextMeaning
<1>2. f.op < 3 => (m.op = 0 <=> Starts(f))
  <2>1. f.op < 3 => ~(f.op > 2)
    BY DEF OpCodes, CONTINUATION, TEXT, BINARY, CLOSE, PING, PONG
  <2> QED
    BY <2>1, Zenon DEF Allowed
<1>3. f.op > 2 => f.fin /\ m2.op = m.op
  BY DEF Allowed, NextMeaning
<1>4. f.op < 3 => m2.op = IF f.fin THEN 0 ELSE IF Starts(f) THEN f.op ELSE m.op
  BY DEF NextMeaning
<1>5. m.op # 0 => m.op \in OpCodes
  BY <1>1 DEF OpCodes, TEXT, BINARY
<1>6. f.op = CONTINUATION \/ Starts(f) \/ f.op > 2
  BY DEF Starts, OpCodes, CONTINUATION, TEXT, BINARY, CLOSE, PING, PONG
<1>7. CASE f.op = CONTINUATION
  <2>1. f.op < 3 /\ ~Starts(f) /\ ~(f.op > 2)
    BY <1>7 DEF Starts, CONTINUATION, TEXT, BINARY
  <2>2. m.op # 0 /\ m.op \in OpCodes
    BY <1>2, <1>5, <2>1
  <2>3. OpsOf(m, f) = <<m.op>> /\ OpOf(m, f) = m.op
    BY <1>7, <2>2 DEF OpsOf, OpenOps, OpOf
  <2>4. /\ <<m.op>> \in Seq(OpCodes) /\ Len(<<m.op>>) = 1 /\ <<m.op>>[1] = m.op
        /\ SubSeq(<<m.op>>, 1, Len(<<m.op>>) - 1) = <<>>
    BY <2>2, ShortOnes
  <2>5. m2.op = IF f.fin THEN 0 ELSE m.op
    BY <1>4, <2>1
  <2>6. OpsLeft(OpsOf(m, f), f.fin) = OpenOps(m2)
    BY <2>2, <2>3, <2>4, <2>5 DEF OpsLeft, OpenOps
  <2> QED
    BY <2>1, <2>2, <2>3, <2>4, <2>5, <2>6
<1>8. CASE Starts(f)
  <2>1. f.op < 3 /\ f.op # CONTINUATION /\ ~(f.op > 2) /\ f.op # 0
    BY <1>8 DEF Starts, CONTINUATION, TEXT, BINARY
  <2>2. m.op = 0
    BY <1>2, <1>8, <2>1
  <2>3. /\ Append(<<>>, f.op) = <<f.op>>
        /\ <<f.op>> \in Seq(OpCodes) /\ Len(<<f.op>>) = 1 /\ <<f.op>>[1] = f.op
        /\ SubSeq(<<f.op>>, 1, Len(<<f.op>>) - 1) = <<>>
    BY ShortOnes
  <2>4. OpsOf(m, f) = <<f.op>> /\ OpOf(m, f) = f.op
    BY <2>1, <2>2, <2>3 DEF OpsOf, OpenOps, OpOf
  <2>5. m2.op = IF f.fin THEN 0 ELSE f.op
    BY <1>4, <1>8, <2>1
  <2>6. OpsLeft(OpsOf(m, f), f.fin) = OpenOps(m2)
    BY <2>1, <2>3, <2>4, <2>5 DEF OpsLeft, OpenOps
  <2> QED
    BY <2>1, <2>3, <2>4, <2>5, <2>6
<1>9. CASE f.op > 2
  <2>1. f.op # CONTINUATION /\ ~(f.op < 3) /\ f.fin /\ m2.op = m.op
    BY <1>3, <1>9 DEF CONTINUATION, TEXT, BINARY, OpCodes, CLOSE, PING, PONG
  <2>2. OpOf(m, f) = f.op
    BY <2>1 DEF OpOf
  <2>3. CASE m.op = 0
    <3>1. /\ Append(<<>>, f.op) = <<f.op>>
          /\ <<f.op>> \in Seq(OpCodes) /\ Len(<<f.op>>) = 1 /\ <<f.op>>[1] = f.op
          /\ SubSeq(<<f.op>>, 1, Len(<<f.op>>) - 1) = <<>>
      BY ShortOnes
    <3>2. OpsOf(m, f) = <<f.op>>
      BY <2>1, <2>3, <3>1 DEF OpsOf, OpenOps
    <3>3. OpsLeft(OpsOf(m, f), f.fin) = OpenOps(m2)
      BY <2>1, <2>3, <3>1, <3>2 DEF OpsLeft, OpenOps
    <3> QED
      BY <2>1, <2>2, <3>1, <3>2, <3>3
  <2>4. CASE m.op # 0
    <3>1. /\ Append(<<m.op>>, f.op) = <<m.op, f.op>> /\ <<m.op, f.op>> \in Seq(OpCodes)
          /\ Len(<<m.op, f.op>>) = 2 /\ <<m.op, f.op>>[2] = f.op
          /\ SubSeq(<<m.op, f.op>>, 1, Len(<<m.op, f.op>>) - 1) = <<m.op>>
      BY <1>5, <2>4, ShortOnes
    <3>2. OpsOf(m, f) = <<m.op, f.op>>
      BY <2>1, <2>4, <3>1 DEF OpsOf, OpenOps
    <3>3. OpsLeft(OpsOf(m, f), f.fin) = OpenOps(m2)
      BY <2>1, <2>4, <3>1, <3>2 DEF OpsLeft, OpenOps
    <3> QED
      BY <2>1, <2>2, <3>1, <3>2, <3>3
  <2> QED
    BY <2>3, <2>4
<1> QED
  BY <1>6, <1>7, <1>8, <1>9

-----------------------------------------------------------------------------
(* The steps.  The stream, and whether compression is on, stay.              *)
LEMMA SameStream ==
  ASSUME stream' = stream, compression' = "DISABLED" <=> compression = "DISABLED"
  PROVE  /\ Takes' = Takes /\ Meaning' = Meaning /\ Total' = Total
         /\ SoFar' = Meanings(stream, Takes)[at' - 1]
         /\ (at' = at => SoFar' = SoFar /\ frame' = frame /\ CutCompressed' = CutCompressed)
<1>1. Takes' = Takes
  BY DEF Takes
<1>2. Meaning' = Meaning /\ Total' = Total
  BY <1>1 DEF Meaning, Total
<1>3. SoFar' = Meanings(stream, Takes)[at' - 1]
  BY <1>1 DEF SoFar
<1>4. ASSUME at' = at PROVE SoFar' = SoFar /\ frame' = frame /\ CutCompressed' = CutCompressed
  <2>1. SoFar' = SoFar
    BY <1>3, <1>4 DEF SoFar
  <2>2. frame' = frame
    BY <1>4 DEF frame
  <2> QED
    BY <1>4, <2>1, <2>2 DEF CutCompressed
<1> QED
  BY <1>1, <1>2, <1>3, <1>4

LEMMA FramesStutter ==
  ASSUME FramesInv, UNCHANGED framesVars
  PROVE  FramesInv'
<1> USE DEF framesVars, headVars, bodyVars
<1>1. /\ Takes' = Takes /\ Meaning' = Meaning /\ Total' = Total /\ SoFar' = SoFar
      /\ frame' = frame /\ CutCompressed' = CutCompressed
  BY SameStream
<1>2. FrameTypes'
  BY <1>1 DEF FramesInv, FrameTypes
<1>3. FramePlaces'
  BY <1>1 DEF FramesInv, FramePlaces, InHand
<1>4. LegalInv'
  BY <1>1 DEF FramesInv, LegalInv, ToldInv, BetweenFrames, InFrame, FrameDone
<1> QED
  BY <1>2, <1>3, <1>4 DEF FramesInv

LEMMA OnReadStep ==
  ASSUME FramesInv, NEW k \in 1..Total - came, OnRead(k)
  PROVE  FramesInv'
<1>1. /\ ~parsing /\ ended = "no" /\ came' = came + k /\ length' = k + spill /\ parsing' = TRUE
      /\ stream' = stream /\ at' = at /\ spill' = spill /\ wantsHead' = wantsHead /\ ops' = ops
      /\ lastFin' = lastFin /\ remainingBytes' = remainingBytes /\ mask' = mask
      /\ UNCHANGED bodyVars /\ compression' = compression
  BY DEF OnRead
<1>2. /\ Takes' = Takes /\ Meaning' = Meaning /\ Total' = Total /\ SoFar' = SoFar
      /\ frame' = frame /\ CutCompressed' = CutCompressed
  BY <1>1, SameStream
<1>3. FrameTypes /\ FramePlaces /\ LegalInv
  BY DEF FramesInv
<1> DEFINE e == FrameEnds(stream)[at - 1]  hand == FrameUnits(frame) - remainingBytes
<1>4. /\ Total \in Nat /\ came \in Nat /\ spill \in 0..2 /\ e \in Nat /\ remainingBytes \in Nat
  BY <1>3, StreamFacts
<1>5. wantsHead => came = e + spill
  BY <1>1, <1>3 DEF FramePlaces, InHand
<1>6. ~wantsHead => /\ came = e + (hand + 0) /\ spill = 0 /\ hand \in Nat
  <2> SUFFICES ASSUME ~wantsHead PROVE came = e + (hand + 0) /\ spill = 0 /\ hand \in Nat
    OBVIOUS
  <2>1. /\ came = e + (hand + 0) /\ spill = 0 /\ at <= Len(stream)
        /\ remainingBytes <= frame.size
    BY <1>1, <1>3 DEF FramePlaces, InHand
  <2>2. FrameUnits(frame) = HeadSize(frame) + frame.size /\ frame.size \in Nat
        /\ HeadSize(frame) \in {2, 3}
    BY <1>3, <2>1, FrameFacts
  <2> QED
    BY <1>4, <2>1, <2>2, SMTT(40)
<1> HIDE DEF e, hand
<1>7. came' \in 0..Total /\ length' \in 0..Total /\ length' > 0
  BY <1>1, <1>4, <1>5, <1>6
<1>8. wantsHead => came' = e + length'
  BY <1>1, <1>4, <1>5
<1>9. ~wantsHead => came' = e + (hand + length')
  BY <1>1, <1>4, <1>6
<1>10. FrameTypes'
  BY <1>1, <1>2, <1>3, <1>7 DEF FrameTypes, bodyVars
<1>11. FramePlaces'
  <2>1. came' = FrameEnds(stream')[at' - 1] + InHand'
    BY <1>1, <1>2, <1>8, <1>9 DEF InHand, e, hand
  <2>2. ended' = "no" /\ length' # 0
    BY <1>1, <1>7 DEF bodyVars
  <2>3. ~wantsHead => /\ spill = 0 /\ at <= Len(stream) /\ ops # <<>> /\ ended = "no"
                      /\ remainingBytes > 0 /\ remainingBytes <= frame.size
                      /\ frame.size <= MaxPayload
    BY <1>3 DEF FramePlaces
  <2> QED
    BY <1>1, <1>2, <2>1, <2>2, <2>3 DEF FramePlaces
<1>12. LegalInv'
  BY <1>1, <1>2, <1>3 DEF LegalInv, ToldInv, BetweenFrames, InFrame, FrameDone, bodyVars
<1> QED
  BY <1>10, <1>11, <1>12 DEF FramesInv

(* A head can only be parsed of a frame that the stream has;                 *)
LEMMA HeadHere ==
  ASSUME FramesInv, parsing, wantsHead, length > 0
  PROVE  at <= Len(stream) /\ ended = "no" /\ came = FrameEnds(stream)[at - 1] + length
<1>1. ended = "no" /\ came = FrameEnds(stream)[at - 1] + length
  BY DEF FramesInv, FramePlaces, InHand
<1>2. /\ at \in Nat /\ Len(stream) \in Nat /\ at <= Len(stream) + 1 /\ came <= Total
      /\ came \in Nat /\ length \in Nat /\ Total \in Nat
  BY StreamFacts DEF FramesInv
<1>3. at - 1 = Len(stream) => FrameEnds(stream)[at - 1] = Total
  BY DEF Total
<1> QED
  BY <1>1, <1>2, <1>3

(* and that of a legal stream is refused only when a read has cut it before. *)
LEMMA HeadLegal ==
  ASSUME FramesInv, Parsing, Meaning.legal
  PROVE  /\ Refused => CutCompressed
         /\ ~Refused => /\ ~BadStart /\ frame.size <= MaxPayload /\ OpsWith = OpsOf(SoFar, frame)
                        /\ frame.op > 2 /\ SoFar.op = 0 => NowCompressed # "COMPRESSED"
<1>1. at <= Len(stream) /\ ended = "no" /\ wantsHead
  <2>1. length > 0 /\ parsing /\ wantsHead
    <3>1. length \in Nat
      BY StreamFacts DEF FramesInv
    <3> QED
      BY <3>1 DEF Parsing, SHORT_MESSAGE_HEADER
  <2> QED
    BY <2>1, HeadHere
<1>2. /\ ~SoFar.over /\ Allowed(SoFar, frame, Takes)
  BY <1>1, FrameAllowed
<1>3. BetweenFrames
  BY <1>1 DEF FramesInv, LegalInv
<1>4. /\ frame.op \in OpCodes /\ frame.fin \in BOOLEAN /\ frame.rsv1 \in BOOLEAN
      /\ frame.wide \in BOOLEAN /\ frame.size \in Nat /\ SoFar \in MeaningSet
      /\ compression \in {"DISABLED", "ENABLED", "COMPRESSED"}
  BY <1>1, FrameFacts, StreamFacts DEF FramesInv, FrameTypes
<1>5. SoFar.op \in {0, 1, 2}
  BY <1>4 DEF MeaningSet
<1>6. frame.op > 2 => frame.fin /\ ~frame.wide /\ ~frame.rsv1
  BY <1>2 DEF Allowed
<1>7. ~(frame.op > 2) => /\ (Starts(frame) <=> SoFar.op = 0)
                         /\ frame.rsv1 => Starts(frame) /\ compression # "DISABLED"
  BY <1>2, Zenon DEF Allowed, Takes
<1>8. ~(frame.op > 2) => (Starts(frame) <=> frame.op # CONTINUATION)
  BY <1>4 DEF Starts, OpCodes, CONTINUATION, TEXT, BINARY, CLOSE, PING, PONG
<1>9. ~BadControl
  BY <1>6 DEF BadControl
<1>10. CompressedTwice => CutCompressed
  <2> SUFFICES ASSUME frame.rsv1, compression # "ENABLED" PROVE CutCompressed
    BY DEF CompressedTwice
  <2>1. SoFar.op = 0 /\ compression = "COMPRESSED"
    BY <1>4, <1>6, <1>7
  <2> QED
    BY <1>3, <2>1 DEF BetweenFrames
<1>11. frame.size <= MaxPayload
  BY <1>2 DEF Allowed
<1>12. OpsWith = OpsOf(SoFar, frame)
  BY <1>3 DEF OpsWith, OpsOf, BetweenFrames
<1>13. ~BadStart
  <2>1. CASE frame.op = CONTINUATION
    <3>1. SoFar.op # 0
      BY <1>6, <1>7, <1>8, <2>1 DEF CONTINUATION
    <3>2. ops # <<>>
      BY <1>3, <3>1 DEF BetweenFrames, OpenOps
    <3> QED
      BY <2>1, <3>2 DEF BadStart
  <2>2. CASE frame.op # CONTINUATION
    <3>1. Len(ops) # 2
      BY <1>3 DEF BetweenFrames, OpenOps
    <3>2. frame.op < 2 => lastFin
      <4>1. frame.op < 2 => SoFar.op = 0
        BY <1>4, <1>7, <1>8, <2>2 DEF OpCodes, CONTINUATION, TEXT, BINARY, CLOSE, PING, PONG
      <4> QED
        BY <1>3, <4>1 DEF BetweenFrames
    <3> QED
      BY <2>2, <3>1, <3>2 DEF BadStart
  <2> QED
    BY <2>1, <2>2
<1>14. frame.op > 2 /\ SoFar.op = 0 => NowCompressed # "COMPRESSED"
  <2> SUFFICES ASSUME frame.op > 2, SoFar.op = 0 PROVE NowCompressed # "COMPRESSED"
    OBVIOUS
  <2>1. ~frame.rsv1
    BY <1>6
  <2>2. compression = "COMPRESSED" => CutCompressed
    BY <1>3 DEF BetweenFrames
  <2> QED
    BY <2>1, <2>2 DEF NowCompressed, CutCompressed
<1> QED
  BY <1>9, <1>10, <1>11, <1>12, <1>13, <1>14 DEF Refused

LEMMA ParsingIs ==
  ASSUME FramesInv, Parsing
  PROVE  parsing /\ wantsHead /\ length >= 2 /\ length > 0 /\ length \in Nat
<1>1. length \in Nat
  BY StreamFacts DEF FramesInv
<1> QED
  BY <1>1 DEF Parsing, SHORT_MESSAGE_HEADER

LEMMA ForceCloseStep ==
  ASSUME FramesInv, forceClose, wantsHead, ended = "no", Meaning.legal => CutCompressed
  PROVE  FramesInv'
<1>1. /\ ended' = "protocol" /\ parsing' = FALSE /\ stream' = stream /\ came' = came
      /\ at' = at /\ length' = length /\ spill' = spill /\ wantsHead' = wantsHead /\ ops' = ops
      /\ lastFin' = lastFin /\ remainingBytes' = remainingBytes /\ mask' = mask
      /\ compression' = compression /\ fragmentBuffer' = fragmentBuffer
      /\ controlTip' = controlTip /\ given' = given /\ pongs' = pongs
  BY DEF forceClose, headVars
<1>2. /\ Takes' = Takes /\ Meaning' = Meaning /\ Total' = Total /\ SoFar' = SoFar
      /\ frame' = frame /\ CutCompressed' = CutCompressed
  BY <1>1, SameStream
<1>3. FrameTypes /\ FramePlaces /\ LegalInv
  BY DEF FramesInv
<1>4. FrameTypes'
  BY <1>1, <1>2, <1>3 DEF FrameTypes
<1>5. FramePlaces'
  BY <1>1 DEF FramePlaces
<1>6. ASSUME Meaning.legal PROVE ToldInv' /\ BetweenFrames'
  <2>1. ToldInv /\ BetweenFrames /\ CutCompressed
    BY <1>3, <1>6 DEF LegalInv
  <2>2. ToldInv'
    BY <1>1, <1>2, <2>1 DEF ToldInv
  <2>3. BetweenFrames'
    BY <1>1, <1>2, <2>1 DEF BetweenFrames
  <2> QED
    BY <2>2, <2>3
<1>7. LegalInv'
  BY <1>1, <1>2, <1>6 DEF LegalInv
<1> QED
  BY <1>4, <1>5, <1>7 DEF FramesInv

LEMMA RefuseHeadStep ==
  ASSUME FramesInv, RefuseHead
  PROVE  FramesInv'
<1>1. Parsing /\ Refused /\ forceClose
  BY DEF RefuseHead
<1>2. wantsHead /\ ended = "no"
  BY <1>1, ParsingIs, HeadHere
<1>3. Meaning.legal => CutCompressed
  BY <1>1, HeadLegal
<1> QED
  BY <1>1, <1>2, <1>3, ForceCloseStep

LEMMA RefuseMessageStep ==
  ASSUME FramesInv, RefuseMessage
  PROVE  FramesInv'
<1>1. Parsing /\ ~Refused /\ forceClose /\ (BadStart \/ frame.size > MaxPayload)
  BY DEF RefuseMessage
<1>2. wantsHead /\ ended = "no" /\ at <= Len(stream)
  BY <1>1, ParsingIs, HeadHere
<1>3. ~Meaning.legal
  <2> SUFFICES ASSUME Meaning.legal PROVE FALSE
    OBVIOUS
  <2>1. ~BadStart /\ frame.size <= MaxPayload
    BY <1>1, HeadLegal
  <2>2. frame.size \in Nat /\ MaxPayload \in Nat
    BY <1>2, FrameFacts, StreamFacts DEF FramesInv
  <2> QED
    BY <1>1, <2>1, <2>2
<1> QED
  BY <1>1, <1>2, <1>3, ForceCloseStep

LEMMA SpillHeadStep ==
  ASSUME FramesInv, SpillHead
  PROVE  FramesInv'
<1>1. /\ parsing /\ wantsHead /\ length' = 0 /\ parsing' = FALSE
      /\ spill' = (IF length > 0 THEN length ELSE spill)
      /\ stream' = stream /\ came' = came /\ at' = at /\ wantsHead' = wantsHead /\ ops' = ops
      /\ lastFin' = lastFin /\ remainingBytes' = remainingBytes /\ mask' = mask
      /\ UNCHANGED bodyVars
  BY DEF SpillHead, Spilled
<1>2. \/ length < 2 /\ compression' = compression
      \/ ~(length < 2) /\ ~Refused /\ ~FrameHeadWhole /\ compression' = NowCompressed
  BY DEF SpillHead, SHORT_MESSAGE_HEADER
<1>3. FrameTypes /\ FramePlaces /\ LegalInv
  BY DEF FramesInv
<1> DEFINE e == FrameEnds(stream)[at - 1]
<1>4. /\ length \in Nat /\ spill \in 0..2 /\ Total \in Nat /\ came <= Total /\ e \in Nat
      /\ came \in Nat /\ compression \in {"DISABLED", "ENABLED", "COMPRESSED"}
  BY <1>3, StreamFacts DEF FrameTypes
<1>5. length > 0 => at <= Len(stream) /\ came = e + length
  BY <1>1, HeadHere
<1>6. ended = "no" /\ came = e + length /\ (length = 0 => spill = 0)
  BY <1>1, <1>3 DEF FramePlaces, InHand
<1>7. at <= Len(stream) => HeadSize(frame) \in {2, 3} /\ frame.rsv1 \in BOOLEAN
                           /\ (~frame.wide => HeadSize(frame) = 2)
  BY <1>3, FrameFacts
<1>8. ~(length < 2) => /\ length < HeadSize(frame) /\ at <= Len(stream) /\ HeadSize(frame) = 3
                       /\ frame.wide /\ Parsing
  <2> SUFFICES ASSUME ~(length < 2)
               PROVE  /\ length < HeadSize(frame) /\ at <= Len(stream) /\ HeadSize(frame) = 3
                      /\ frame.wide /\ Parsing
    OBVIOUS
  <2>1. length > 0 /\ length >= 2
    BY <1>4
  <2>2. at <= Len(stream) /\ ~(length >= HeadSize(frame))
    BY <1>2, <1>5, <2>1 DEF FrameHeadWhole
  <2> QED
    BY <1>1, <1>4, <1>7, <2>1, <2>2 DEF Parsing, SHORT_MESSAGE_HEADER
<1>9. /\ compression' \in {"DISABLED", "ENABLED", "COMPRESSED"}
      /\ (compression' = "DISABLED" <=> compression = "DISABLED")
      /\ (compression' # compression => frame.rsv1 /\ frame.wide /\ at <= Len(stream))
  BY <1>2, <1>4, <1>8 DEF NowCompressed, Refused, CompressedTwice
<1>10. /\ Takes' = Takes /\ Meaning' = Meaning /\ Total' = Total /\ SoFar' = SoFar
       /\ frame' = frame /\ CutCompressed' = CutCompressed
  BY <1>1, <1>9, SameStream
<1>11. spill' \in 0..2 /\ spill' = length
       /\ (at <= Len(stream) => spill' < HeadSize(frame))
  BY <1>1, <1>4, <1>6, <1>7, <1>8
<1>12. FrameTypes'
  <2>1. length' \in 0..Total
    BY <1>1, <1>4
  <2> QED
    BY <1>1, <1>3, <1>9, <1>10, <1>11, <2>1 DEF FrameTypes, bodyVars
<1>13. FramePlaces'
  <2>1. came' = FrameEnds(stream')[at' - 1] + InHand'
    BY <1>1, <1>6, <1>11 DEF InHand
  <2> QED
    BY <1>1, <1>10, <1>11, <2>1 DEF FramePlaces
<1>14. ASSUME Meaning.legal PROVE ToldInv' /\ BetweenFrames'
  <2>1. ToldInv /\ BetweenFrames
    BY <1>1, <1>3, <1>14 DEF LegalInv
  <2>2. ToldInv'
    BY <1>1, <1>10, <2>1 DEF ToldInv, bodyVars
  <2>3. compression' = "COMPRESSED" => compression = "COMPRESSED" \/ CutCompressed
    BY <1>9 DEF CutCompressed
  <2>4. BetweenFrames'
    BY <1>1, <1>10, <2>1, <2>3 DEF BetweenFrames, bodyVars
  <2> QED
    BY <2>2, <2>4
<1>15. LegalInv'
  BY <1>1, <1>10, <1>14 DEF LegalInv
<1> QED
  BY <1>12, <1>13, <1>15 DEF FramesInv

LEMMA UpToTwo ==
  \A n \in Nat : n <= 2 => n \in {0, 1, 2} /\ (n # 0 => n \in {1, 2}) /\ (n # 2 => n + 1 \in {1, 2})
OBVIOUS

LEMMA ShortOps ==
  \A s \in Seq(OpCodes) : Len(s) <= 2 => Len(s) \in {0, 1, 2} /\ (s = <<>> <=> Len(s) = 0)
<1> SUFFICES ASSUME NEW s \in Seq(OpCodes), Len(s) <= 2
             PROVE  Len(s) \in {0, 1, 2} /\ (s = <<>> <=> Len(s) = 0)
  OBVIOUS
<1>1. Len(s) \in Nat
  BY LenProperties
<1>2. Len(s) \in {0, 1, 2}
  BY <1>1, UpToTwo
<1>3. s = <<>> <=> Len(s) = 0
  BY EmptySeq
<1> QED
  BY <1>2, <1>3

(* What an accepted head does to the stack of opcodes, whatever the stream.  *)
LEMMA AcceptedIs ==
  ASSUME FramesInv, Accepted
  PROVE  /\ parsing /\ wantsHead /\ length \in Nat /\ ended = "no" /\ at <= Len(stream)
         /\ came = FrameEnds(stream)[at - 1] + length
         /\ length >= HeadSize(frame) /\ frame.size <= MaxPayload /\ ~Refused /\ Parsing
         /\ lastFin' = frame.fin /\ spill' = 0 /\ stream' = stream /\ came' = came
         /\ OpsWith \in Seq(OpCodes) /\ Len(OpsWith) \in {1, 2} /\ OpsWith # <<>>
         /\ NowCompressed \in {"DISABLED", "ENABLED", "COMPRESSED"}
         /\ (NowCompressed = "DISABLED" <=> compression = "DISABLED")
<1>1. /\ Parsing /\ ~Refused /\ FrameHeadWhole /\ ~BadStart /\ frame.size <= MaxPayload
      /\ lastFin' = frame.fin /\ spill' = 0 /\ stream' = stream /\ came' = came
  BY DEF Accepted
<1>2. parsing /\ wantsHead /\ length > 0 /\ length \in Nat
  BY <1>1, ParsingIs
<1>3. at <= Len(stream) /\ ended = "no" /\ came = FrameEnds(stream)[at - 1] + length
  BY <1>2, HeadHere
<1>4. length >= HeadSize(frame)
  BY <1>1 DEF FrameHeadWhole
<1>5. frame.op \in OpCodes /\ ops \in Seq(OpCodes) /\ Len(ops) <= 2 /\ Len(ops) \in Nat
      /\ compression \in {"DISABLED", "ENABLED", "COMPRESSED"} /\ frame.rsv1 \in BOOLEAN
  BY <1>3, FrameFacts DEF FramesInv, FrameTypes
<1>9. /\ Len(ops) \in {0, 1, 2} /\ (ops = <<>> <=> Len(ops) = 0)
      /\ (Len(ops) # 2 => Len(ops) + 1 \in {1, 2})
  BY <1>5, ShortOps, UpToTwo
<1>6. OpsWith \in Seq(OpCodes) /\ Len(OpsWith) \in {1, 2}
  <2>1. CASE frame.op = CONTINUATION
    <3>1. ops # <<>> /\ OpsWith = ops
      BY <1>1, <2>1 DEF BadStart, OpsWith
    <3>2. Len(ops) \in {1, 2}
      BY <1>9, <3>1
    <3> QED
      BY <1>5, <3>1, <3>2
  <2>2. CASE frame.op # CONTINUATION
    <3>1. Len(ops) # 2 /\ OpsWith = Append(ops, frame.op)
      BY <1>1, <2>2 DEF BadStart, OpsWith
    <3>2. Append(ops, frame.op) \in Seq(OpCodes)
      BY <1>5, AppendProperties
    <3>3. Len(Append(ops, frame.op)) = Len(ops) + 1
      BY <1>5, AppendProperties
    <3>4. Len(ops) + 1 \in {1, 2}
      BY <1>9, <3>1
    <3> QED
      BY <3>1, <3>2, <3>3, <3>4
  <2> QED
    BY <2>1, <2>2
<1>7. OpsWith # <<>>
  BY <1>6, ShortOps
<1>8. /\ NowCompressed \in {"DISABLED", "ENABLED", "COMPRESSED"}
      /\ (NowCompressed = "DISABLED" <=> compression = "DISABLED")
  BY <1>1, <1>5 DEF NowCompressed, Refused, CompressedTwice
<1> QED
  BY <1>1, <1>2, <1>3, <1>4, <1>6, <1>7, <1>8

LEMMA OpsLeftIs ==
  ASSUME NEW s \in Seq(OpCodes), Len(s) <= 2, s # <<>>, NEW fin
  PROVE  OpsLeft(s, fin) \in Seq(OpCodes) /\ Len(OpsLeft(s, fin)) <= 2
<1>1. Len(s) \in {1, 2}
  BY ShortOps
<1>2. SubSeq(s, 1, Len(s) - 1) \in Seq(OpCodes) /\ Len(SubSeq(s, 1, Len(s) - 1)) <= 2
  <2>1. Len(s) - 1 \in Int /\ \A i \in 1..Len(s) - 1 : s[i] \in OpCodes
    <3>1. \A i \in 1..Len(s) : s[i] \in OpCodes
      BY ElementOfSeq
    <3> QED
      BY <1>1, <3>1
  <2>2. /\ SubSeq(s, 1, Len(s) - 1) \in Seq(OpCodes)
        /\ Len(SubSeq(s, 1, Len(s) - 1)) = IF 1 <= Len(s) - 1 THEN Len(s) - 1 - 1 + 1 ELSE 0
    BY <2>1, SubSeqProperties
  <2> QED
    BY <1>1, <2>2
<1> QED
  BY <1>1, <1>2 DEF OpsLeft

(* Of a legal stream, a frame that ends here; and one that goes on.          *)
LEMMA WholeLegal ==
  ASSUME FramesInv, Meaning.legal, at <= Len(stream), ended = "no",
         FrameTold(SoFar, Meanings(stream, Takes)[at]), at' = at + 1, stream' = stream,
         compression' = "DISABLED" <=> compression = "DISABLED",
         ops' = OpsLeft(OpsOf(SoFar, frame), frame.fin), lastFin' = frame.fin, wantsHead' = TRUE,
         NEW c, compression' = Inflated(c, OpOf(SoFar, frame), 0, frame.fin),
         frame.op > 2 /\ SoFar.op = 0 => c # "COMPRESSED"
  PROVE  LegalInv'
<1> DEFINE m == SoFar  m2 == Meanings(stream, Takes)[at]
<1>1. /\ frame.op \in OpCodes /\ frame.fin \in BOOLEAN /\ m \in MeaningSet
      /\ NextMeaning(m, at, frame, Takes, m2) /\ at \in Nat
  BY StreamFacts, FrameFacts DEF FramesInv
<1>2. ~m.over /\ Allowed(m, frame, Takes)
  BY FrameAllowed
<1>3. at' - 1 = at
  BY <1>1
<1>4. SoFar' = m2
  BY <1>3, SameStream
<1>5. /\ OpsLeft(OpsOf(m, frame), frame.fin) = OpenOps(m2)
      /\ (m2.op = 0 => frame.fin)
      /\ (frame.fin /\ frame.op < 3 => m2.op = 0) /\ (frame.op > 2 => m2.op = m.op)
  BY <1>1, <1>2, OpsAre
<1>6. /\ given' = m2.messages /\ pongs' = m2.pings /\ fragmentBuffer' = m2.data /\ controlTip' = 0
      /\ m2.legal /\ (m2.over <=> ended' = "close frame") /\ ended' # "protocol"
  BY DEF FrameTold
<1>7. m2.op = 0 => compression' # "COMPRESSED"
  <2> SUFFICES ASSUME m2.op = 0 PROVE compression' # "COMPRESSED"
    OBVIOUS
  <2>1. frame.fin
    BY <1>5
  <2>2. CASE frame.op > 2
    <3>1. m.op = 0
      BY <1>5, <2>2
    <3>2. c # "COMPRESSED"
      BY <2>2, <3>1
    <3> QED
      BY <3>2 DEF Inflated
  <2>3. CASE ~(frame.op > 2)
    <3>1. OpOf(m, frame) < 3
      <4>1. m.op \in {0, 1, 2}
        BY <1>1 DEF MeaningSet
      <4> QED
        BY <1>1, <2>3, <4>1 DEF OpOf, OpCodes, CONTINUATION, TEXT, BINARY, CLOSE, PING, PONG
    <3> QED
      BY <2>1, <3>1 DEF Inflated
  <2> QED
    BY <2>2, <2>3
<1> HIDE DEF m2
<1>8. ToldInv'
  BY <1>4, <1>6 DEF ToldInv
<1>9. BetweenFrames'
  <2>1. ops' = OpenOps(m2) /\ lastFin' = frame.fin
    BY <1>5
  <2> QED
    BY <1>4, <1>5, <1>6, <1>7, <2>1 DEF BetweenFrames, OpenOps
<1> QED
  BY <1>8, <1>9 DEF LegalInv

LEMMA PartLegal ==
  ASSUME FramesInv, Meaning.legal, at <= Len(stream), ended = "no",
         NEW p \in Nat, NEW n \in Nat, NEW left, left # 0,
         fragmentBuffer = SoFar.data \o Payload(at, p),
         controlTip = (IF frame.op > 2 THEN p ELSE 0),
         handleFragment(RestOf(p, n), left, OpOf(SoFar, frame), frame.fin),
         at' = at, stream' = stream, compression' = "DISABLED" <=> compression = "DISABLED",
         ops' = OpsOf(SoFar, frame), lastFin' = frame.fin, wantsHead' = FALSE,
         frame.size - remainingBytes' = p + n, mask' = (p + n) % MaskSize,
         frame.op > 2 /\ SoFar.op = 0 => compression' # "COMPRESSED"
  PROVE  LegalInv'
<1> DEFINE m == SoFar  data == RestOf(p, n)  op == OpOf(m, frame)
<1>1. /\ frame.op \in OpCodes /\ m \in MeaningSet /\ at \in Nat
      /\ NextMeaning(m, at, frame, Takes, Meanings(stream, Takes)[at])
  BY StreamFacts, FrameFacts DEF FramesInv
<1>2. SoFar' = SoFar /\ frame' = frame /\ CutCompressed' = CutCompressed
  BY SameStream
<1>3. /\ fragmentBuffer' = fragmentBuffer \o data
      /\ controlTip' = (IF op < 3 THEN controlTip ELSE controlTip + Len(data))
      /\ given' = given /\ pongs' = pongs /\ ended' = ended
  BY FragmentPart
<1>4. /\ data \in PayloadSet /\ Len(data) = n /\ Payload(at, p) \o data = Payload(at, p + n)
      /\ Payload(at, p) \in PayloadSet
  BY <1>1, RestIs, PayloadIs
<1>5. m.data \in PayloadSet /\ m.op \in {0, 1, 2}
  BY <1>1 DEF MeaningSet
<1>6. fragmentBuffer' = m.data \o Payload(at, p + n)
  <2> DEFINE y == Payload(at, p)
  <2>1. y \in PayloadSet /\ y \o data = Payload(at, p + n) /\ fragmentBuffer' = (m.data \o y) \o data
    BY <1>3, <1>4
  <2> HIDE DEF y, data, m
  <2>2. (m.data \o y) \o data = m.data \o (y \o data)
    <3>1. m.data \in PayloadSet /\ data \in PayloadSet
      BY <1>4, <1>5
    <3>2. \A x, v, z \in PayloadSet : (x \o v) \o z = x \o (v \o z)
      BY PayloadParts
    <3> QED
      BY <2>1, <3>1, <3>2, Zenon
  <2> QED
    BY <2>1, <2>2
<1>7. op < 3 <=> ~(frame.op > 2)
  BY <1>1, <1>5 DEF OpOf, OpCodes, CONTINUATION, TEXT, BINARY, CLOSE, PING, PONG
<1>8. controlTip' = IF frame.op > 2 THEN p + n ELSE 0
  BY <1>3, <1>4, <1>7
<1>9. FrameDone' = p + n
  BY <1>2 DEF FrameDone
<1>10. ToldInv'
  <2>1. ToldInv
    BY DEF FramesInv, LegalInv
  <2> QED
    BY <1>2, <1>3, <2>1 DEF ToldInv
<1>11. InFrame'
  BY <1>2, <1>6, <1>8, <1>9 DEF InFrame
<1> QED
  BY <1>10, <1>11 DEF LegalInv

LEMMA NothingDone ==
  ASSUME FrameTypes, BetweenFrames, at <= Len(stream)
  PROVE  /\ fragmentBuffer = SoFar.data \o Payload(at, 0)
         /\ controlTip = (IF frame.op > 2 THEN 0 ELSE 0)
<1>1. SoFar.data \in PayloadSet /\ at \in Nat
  BY StreamFacts DEF MeaningSet
<1>2. Payload(at, 0) = <<>>
  BY DEF Payload
<1>3. SoFar.data \o <<>> = SoFar.data
  BY <1>1, ConcatEmptySeq DEF PayloadSet
<1> QED
  BY <1>2, <1>3 DEF BetweenFrames

LEMMA ConsumeMessageStep ==
  ASSUME FramesInv, consumeMessage
  PROVE  FramesInv'
<1> DEFINE op == OpsWith[Len(OpsWith)]  h == HeadSize(frame)  z == frame.size
           e == FrameEnds(stream)[at - 1]  e2 == FrameEnds(stream)[at]
<1>1. /\ Accepted /\ length >= h + z /\ handleFragment(Unmasked(0, z, 0), 0, op, frame.fin)
      /\ compression' = Inflated(NowCompressed, op, 0, frame.fin)
      /\ ops' = OpsLeft(OpsWith, frame.fin) /\ at' = at + 1 /\ length' = length - h - z
      /\ parsing' = (ended' = "no") /\ wantsHead' = wantsHead
      /\ remainingBytes' = remainingBytes /\ mask' = mask
  BY DEF consumeMessage, Last
<1>2. /\ parsing /\ wantsHead /\ length \in Nat /\ ended = "no" /\ at <= Len(stream)
      /\ came = e + length /\ ~Refused /\ Parsing
      /\ lastFin' = frame.fin /\ spill' = 0 /\ stream' = stream /\ came' = came
      /\ OpsWith \in Seq(OpCodes) /\ Len(OpsWith) \in {1, 2} /\ OpsWith # <<>>
      /\ NowCompressed \in {"DISABLED", "ENABLED", "COMPRESSED"}
      /\ (NowCompressed = "DISABLED" <=> compression = "DISABLED")
  BY <1>1, AcceptedIs
<1>3. FrameTypes /\ FramePlaces /\ LegalInv
  BY DEF FramesInv
<1>4. /\ compression' \in {"DISABLED", "ENABLED", "COMPRESSED"}
      /\ (compression' = "DISABLED" <=> compression = "DISABLED")
  BY <1>1, <1>2 DEF Inflated
<1>5. Takes' = Takes /\ Meaning' = Meaning /\ Total' = Total
  BY <1>2, <1>4, SameStream
<1>6. /\ at + 1 \in 1..Len(stream) + 1 /\ h \in {2, 3} /\ z \in Nat /\ e2 = e + h + z
      /\ e \in Nat /\ Total \in Nat /\ length <= Total /\ at \in Nat /\ frame.fin \in BOOLEAN
  BY <1>2, <1>3, FrameFacts, StreamFacts
<1>7. ended' \in {"no", "handler", "close frame"}
  BY <1>1, <1>2, FragmentEnds
<1> HIDE DEF op, h, z, e, e2
<1>8. length' \in 0..Total /\ came = e2 + length' /\ at' - 1 = at
  BY <1>1, <1>2, <1>6
<1>9. ops' \in Seq(OpCodes) /\ Len(ops') <= 2
  <2>1. Len(OpsWith) <= 2
    <3>1. \A n \in {1, 2} : n <= 2
      OBVIOUS
    <3> QED
      BY <1>2, <3>1
  <2> QED
    BY <1>1, <1>2, <2>1, OpsLeftIs
<1>10. parsing' \in BOOLEAN /\ (parsing' <=> ended' = "no")
  BY <1>1
<1>11. FrameTypes'
  <2>1. at' \in 1..Len(stream') + 1
    BY <1>1, <1>2, <1>6
  <2>2. spill' \in 0..2
    BY <1>2
  <2> QED
    BY <1>1, <1>2, <1>3, <1>4, <1>5, <1>6, <1>7, <1>8, <1>9, <1>10, <2>1, <2>2 DEF FrameTypes
<1>12. FramePlaces'
  <2>1. parsing' => came' = FrameEnds(stream')[at' - 1] + InHand'
    BY <1>1, <1>2, <1>8 DEF InHand, e2
  <2> QED
    BY <1>1, <1>2, <1>10, <2>1 DEF FramePlaces
<1>13. ASSUME Meaning.legal PROVE LegalInv'
  <2>1. OpsWith = OpsOf(SoFar, frame)
        /\ (frame.op > 2 /\ SoFar.op = 0 => NowCompressed # "COMPRESSED")
    BY <1>2, <1>13, HeadLegal
  <2>2. /\ ~SoFar.over /\ Allowed(SoFar, frame, Takes) /\ frame.op \in OpCodes
        /\ NextMeaning(SoFar, at, frame, Takes, Meanings(stream, Takes)[at])
        /\ SoFar \in MeaningSet
    BY <1>2, <1>3, <1>13, FrameAllowed, FrameFacts, StreamFacts
  <2>3. op = OpOf(SoFar, frame)
    BY <1>6, <2>1, <2>2, OpsAre DEF op
  <2>4. /\ fragmentBuffer = SoFar.data \o Payload(at, 0)
        /\ controlTip = (IF frame.op > 2 THEN 0 ELSE 0)
    BY <1>2, <1>3, <1>13, NothingDone DEF LegalInv
  <2>5. Unmasked(0, z, 0) = RestOf(0, z) /\ 0 \in Nat /\ 0 + z = frame.size
    <3>1. 0 \in Nat /\ 0 + z = z /\ z = frame.size
      BY <1>6 DEF z
    <3>2. Unmasked(0, z, 0) = RestOf(0, z)
      BY <1>6, <3>1, RestIs, Zenon
    <3> QED
      BY <3>1, <3>2
  <2>6. handleFragment(RestOf(0, z), 0, OpOf(SoFar, frame), frame.fin)
    BY <1>1, <2>3, <2>5
  <2>7. FrameTold(SoFar, Meanings(stream, Takes)[at])
    BY <1>2, <1>6, <1>13, <2>4, <2>5, <2>6, FrameComplete
  <2> QED
    BY <1>1, <1>2, <1>4, <1>13, <2>1, <2>3, <2>7, WholeLegal
<1>14. LegalInv'
  BY <1>5, <1>13 DEF LegalInv
<1> QED
  BY <1>11, <1>12, <1>14 DEF FramesInv

LEMMA ConsumeStartStep ==
  ASSUME FramesInv, consumeStart
  PROVE  FramesInv'
<1> DEFINE op == OpsWith[Len(OpsWith)]  h == HeadSize(frame)  z == frame.size
           e == FrameEnds(stream)[at - 1]  n == length - HeadSize(frame)
<1>1. /\ Accepted /\ n < z /\ handleFragment(Unmasked(0, n, 0), z - n, op, frame.fin)
      /\ compression' = NowCompressed /\ ops' = OpsWith /\ at' = at /\ length' = 0
      /\ parsing' = FALSE /\ wantsHead' = FALSE /\ remainingBytes' = z - n
      /\ mask' = n % MaskSize
  BY DEF consumeStart, Last
<1>2. /\ parsing /\ wantsHead /\ length \in Nat /\ ended = "no" /\ at <= Len(stream)
      /\ came = e + length /\ ~Refused /\ Parsing /\ length >= h /\ z <= MaxPayload
      /\ lastFin' = frame.fin /\ spill' = 0 /\ stream' = stream /\ came' = came
      /\ OpsWith \in Seq(OpCodes) /\ Len(OpsWith) \in {1, 2} /\ OpsWith # <<>>
      /\ NowCompressed \in {"DISABLED", "ENABLED", "COMPRESSED"}
      /\ (NowCompressed = "DISABLED" <=> compression = "DISABLED")
  BY <1>1, AcceptedIs
<1>3. FrameTypes /\ FramePlaces /\ LegalInv
  BY DEF FramesInv
<1>4. /\ compression' \in {"DISABLED", "ENABLED", "COMPRESSED"}
      /\ (compression' = "DISABLED" <=> compression = "DISABLED")
  BY <1>1, <1>2
<1>5. /\ Takes' = Takes /\ Meaning' = Meaning /\ Total' = Total /\ frame' = frame
  BY <1>1, <1>2, <1>4, SameStream
<1>6. /\ h \in {2, 3} /\ z \in Nat /\ FrameUnits(frame) = h + z /\ frame.fin \in BOOLEAN
      /\ e \in Nat /\ Total \in Nat /\ at \in Nat /\ MaxPayload \in Nat /\ MaskSize \in Nat \ {0}
  BY <1>2, <1>3, FrameFacts, StreamFacts
<1>d. n = length - h
  OBVIOUS
<1> HIDE DEF op, h, z, e, n
<1>7. n \in Nat /\ z - n # 0 /\ z - n > 0 /\ z - n <= z /\ z - n \in 0..MaxPayload
      /\ z - (z - n) = n /\ e + (h + z - (z - n) + 0) = e + length
  BY <1>1, <1>2, <1>6, <1>d
<1>8. ended' = ended /\ given' = given
  BY <1>1, <1>7, FragmentPart
<1>9. mask' \in 0..MaskSize - 1
  BY <1>1, <1>6, <1>7, ModParts
<1>10. FrameTypes'
  <2>1. spill' \in 0..2 /\ length' \in 0..Total /\ remainingBytes' \in 0..MaxPayload
    BY <1>1, <1>2, <1>6, <1>7
  <2>2. Len(OpsWith) <= 2
    <3>1. \A i \in {1, 2} : i <= 2
      OBVIOUS
    <3> QED
      BY <1>2, <3>1
  <2> QED
    BY <1>1, <1>2, <1>3, <1>4, <1>5, <1>6, <1>8, <1>9, <2>1, <2>2 DEF FrameTypes
<1>11. FramePlaces'
  <2>1. came' = FrameEnds(stream')[at' - 1] + InHand'
    BY <1>1, <1>2, <1>5, <1>6, <1>7 DEF InHand, e
  <2> QED
    BY <1>1, <1>2, <1>5, <1>7, <1>8, <2>1 DEF FramePlaces, z
<1>12. ASSUME Meaning.legal PROVE LegalInv'
  <2>1. OpsWith = OpsOf(SoFar, frame)
        /\ (frame.op > 2 /\ SoFar.op = 0 => compression' # "COMPRESSED")
    BY <1>1, <1>2, <1>12, HeadLegal
  <2>2. /\ ~SoFar.over /\ Allowed(SoFar, frame, Takes) /\ frame.op \in OpCodes
        /\ NextMeaning(SoFar, at, frame, Takes, Meanings(stream, Takes)[at])
        /\ SoFar \in MeaningSet
    BY <1>2, <1>3, <1>12, FrameAllowed, FrameFacts, StreamFacts
  <2>3. op = OpOf(SoFar, frame)
    BY <1>6, <2>1, <2>2, OpsAre DEF op
  <2>4. /\ fragmentBuffer = SoFar.data \o Payload(at, 0)
        /\ controlTip = (IF frame.op > 2 THEN 0 ELSE 0)
    BY <1>2, <1>3, <1>12, NothingDone DEF LegalInv
  <2>5. Unmasked(0, n, 0) = RestOf(0, n) /\ 0 \in Nat /\ 0 + n = n
    <3>1. 0 \in Nat /\ 0 + n = n
      BY <1>7
    <3>2. Unmasked(0, n, 0) = RestOf(0, n)
      BY <1>6, <1>7, <3>1, RestIs, Zenon
    <3> QED
      BY <3>1, <3>2
  <2>6. handleFragment(RestOf(0, n), z - n, OpOf(SoFar, frame), frame.fin)
    BY <1>1, <2>3, <2>5
  <2>7. /\ frame.size - remainingBytes' = 0 + n /\ mask' = (0 + n) % MaskSize
        /\ ops' = OpsOf(SoFar, frame)
    BY <1>1, <1>7, <2>1, <2>5 DEF z
  <2> QED
    BY <1>1, <1>2, <1>4, <1>7, <1>12, <2>1, <2>4, <2>5, <2>6, <2>7, PartLegal
<1>13. LegalInv'
  BY <1>5, <1>12 DEF LegalInv
<1> QED
  BY <1>10, <1>11, <1>13 DEF FramesInv

(* In a frame, whatever the stream; and what comes of its payload, if it is  *)
(* a legal one.                                                              *)
LEMMA InFrameIs ==
  ASSUME FramesInv, parsing, ~wantsHead
  PROVE  /\ at <= Len(stream) /\ at \in Nat /\ spill = 0 /\ ended = "no" /\ ops # <<>>
         /\ came = FrameEnds(stream)[at - 1] + (HeadSize(frame) + frame.size - remainingBytes + length)
         /\ FrameEnds(stream)[at - 1] \in Nat /\ HeadSize(frame) \in {2, 3}
         /\ FrameUnits(frame) = HeadSize(frame) + frame.size
         /\ FrameEnds(stream)[at] = FrameEnds(stream)[at - 1] + HeadSize(frame) + frame.size
         /\ frame.size \in Nat /\ frame.size <= MaxPayload /\ remainingBytes \in Nat
         /\ remainingBytes > 0 /\ remainingBytes <= frame.size /\ FrameDone \in Nat
         /\ FrameDone = frame.size - remainingBytes
         /\ length \in Nat /\ length <= Total /\ Total \in Nat /\ mask \in Nat
         /\ MaxPayload \in Nat /\ MaskSize \in Nat \ {0} /\ at + 1 \in 1..Len(stream) + 1
<1>1. /\ at <= Len(stream) /\ spill = 0 /\ ended = "no" /\ ops # <<>>
      /\ came = FrameEnds(stream)[at - 1] + InHand
      /\ remainingBytes > 0 /\ remainingBytes <= frame.size /\ frame.size <= MaxPayload
  BY DEF FramesInv, FramePlaces
<1>2. FrameTypes
  BY DEF FramesInv
<1>3. /\ at \in Nat /\ FrameEnds(stream)[at - 1] \in Nat /\ remainingBytes \in Nat
      /\ length \in Nat /\ length <= Total /\ Total \in Nat /\ mask \in Nat
      /\ MaxPayload \in Nat /\ MaskSize \in Nat \ {0}
  BY <1>2, StreamFacts
<1>4. /\ HeadSize(frame) \in {2, 3} /\ FrameUnits(frame) = HeadSize(frame) + frame.size
      /\ FrameEnds(stream)[at] = FrameEnds(stream)[at - 1] + HeadSize(frame) + frame.size
      /\ frame.size \in Nat /\ at + 1 \in 1..Len(stream) + 1
  BY <1>1, <1>2, FrameFacts
<1>5. InHand = HeadSize(frame) + frame.size - remainingBytes + length
  BY <1>3, <1>4 DEF InHand
<1>6. FrameDone \in Nat /\ FrameDone = frame.size - remainingBytes
  BY <1>1, <1>3, <1>4 DEF FrameDone
<1> QED
  BY <1>1, <1>3, <1>4, <1>5, <1>6

LEMMA InFrameLegal ==
  ASSUME FramesInv, parsing, ~wantsHead, Meaning.legal, NEW n \in Nat
  PROVE  /\ Unmasked(FrameDone, n, mask) = RestOf(FrameDone, n)
         /\ Opcode = OpOf(SoFar, frame) /\ lastFin = frame.fin /\ ops = OpsOf(SoFar, frame)
         /\ fragmentBuffer = SoFar.data \o Payload(at, FrameDone)
         /\ controlTip = (IF frame.op > 2 THEN FrameDone ELSE 0)
         /\ mask = FrameDone % MaskSize
         /\ (frame.op > 2 /\ SoFar.op = 0 => compression # "COMPRESSED")
<1>1. InFrame /\ at <= Len(stream) /\ ended = "no" /\ FrameTypes
  BY InFrameIs DEF FramesInv, LegalInv
<1>2. FrameDone \in Nat /\ at \in Nat
  BY InFrameIs
<1>3. Unmasked(FrameDone, n, mask) = RestOf(FrameDone, n)
  <2> DEFINE p == FrameDone
  <2>1. p \in Nat /\ mask = p % MaskSize
    BY <1>1, <1>2 DEF InFrame
  <2> HIDE DEF p
  <2>2. Unmasked(p, n, p % MaskSize) = RestOf(p, n)
    BY <1>2, <2>1, RestIs
  <2> QED
    BY <2>1, <2>2 DEF p
<1>4. /\ ~SoFar.over /\ Allowed(SoFar, frame, Takes) /\ frame.op \in OpCodes
      /\ NextMeaning(SoFar, at, frame, Takes, Meanings(stream, Takes)[at])
      /\ SoFar \in MeaningSet /\ frame.fin \in BOOLEAN
  BY <1>1, FrameAllowed, FrameFacts, StreamFacts
<1>5. Opcode = OpOf(SoFar, frame)
  BY <1>1, <1>4, OpsAre DEF InFrame, Opcode
<1> QED
  BY <1>1, <1>3, <1>5 DEF InFrame

LEMMA ContinueFrameStep ==
  ASSUME FramesInv, ContinueFrame
  PROVE  FramesInv'
<1> DEFINE p == FrameDone  r == remainingBytes  h == HeadSize(frame)  z == frame.size
           e == FrameEnds(stream)[at - 1]
<1>1. /\ parsing /\ ~wantsHead /\ length < r
      /\ handleFragment(Unmasked(p, length, mask), r - length, Opcode, lastFin)
      /\ remainingBytes' = r - length /\ mask' = (mask + length) % MaskSize
      /\ length' = 0 /\ parsing' = FALSE /\ stream' = stream /\ came' = came /\ at' = at
      /\ spill' = spill /\ wantsHead' = wantsHead /\ ops' = ops /\ lastFin' = lastFin
      /\ compression' = compression
  BY DEF ContinueFrame, Turned, FrameDone
<1>2. FrameTypes /\ FramePlaces /\ LegalInv
  BY DEF FramesInv
<1>3. /\ Takes' = Takes /\ Meaning' = Meaning /\ Total' = Total /\ frame' = frame
      /\ SoFar' = SoFar
  BY <1>1, SameStream
<1>4. /\ at <= Len(stream) /\ spill = 0 /\ ended = "no" /\ ops # <<>>
      /\ came = e + (h + z - r + length) /\ e \in Nat /\ h \in {2, 3}
      /\ FrameUnits(frame) = h + z /\ z \in Nat /\ z <= MaxPayload /\ r \in Nat
      /\ r > 0 /\ r <= z /\ p \in Nat /\ p = z - r
      /\ length \in Nat /\ length <= Total /\ Total \in Nat /\ mask \in Nat
      /\ MaxPayload \in Nat /\ MaskSize \in Nat \ {0}
  BY <1>1, InFrameIs
<1> HIDE DEF p, r, h, z, e
<1>5. /\ r - length # 0 /\ r - length \in 0..MaxPayload /\ r - length > 0 /\ r - length <= z
      /\ z - (r - length) = p + length /\ came = e + (h + z - (r - length) + 0)
      /\ 0 \in 0..Total
  BY <1>1, <1>4
<1>6. ended' = ended
  BY <1>1, <1>5, FragmentPart
<1>7. mask' \in 0..MaskSize - 1
  <2>1. mask + length \in Nat
    BY <1>4
  <2> QED
    BY <1>1, <1>4, <2>1, ModParts
<1>8. FrameTypes'
  BY <1>1, <1>2, <1>3, <1>5, <1>6, <1>7 DEF FrameTypes
<1>9. FramePlaces'
  <2>1. came' = FrameEnds(stream')[at' - 1] + InHand'
    BY <1>1, <1>3, <1>4, <1>5 DEF InHand, e
  <2> QED
    BY <1>1, <1>3, <1>4, <1>5, <1>6, <2>1 DEF FramePlaces, z
<1>10. ASSUME Meaning.legal PROVE LegalInv'
  <2>1. /\ Unmasked(p, length, mask) = RestOf(p, length)
        /\ Opcode = OpOf(SoFar, frame) /\ lastFin = frame.fin /\ ops = OpsOf(SoFar, frame)
        /\ fragmentBuffer = SoFar.data \o Payload(at, p)
        /\ controlTip = (IF frame.op > 2 THEN p ELSE 0)
        /\ mask = p % MaskSize
        /\ (frame.op > 2 /\ SoFar.op = 0 => compression # "COMPRESSED")
    BY <1>1, <1>4, <1>10, InFrameLegal DEF p
  <2>2. handleFragment(RestOf(p, length), r - length, OpOf(SoFar, frame), frame.fin)
    BY <1>1, <2>1
  <2>3. mask' = (p + length) % MaskSize
    BY <1>1, <1>4, <2>1, ModSum
  <2>4. frame.size - remainingBytes' = p + length
    BY <1>1, <1>5 DEF z
  <2>5. wantsHead' = FALSE
    <3>1. wantsHead \in BOOLEAN
      BY <1>2 DEF FrameTypes
    <3> QED
      BY <1>1, <3>1
  <2>6. /\ ops' = OpsOf(SoFar, frame) /\ lastFin' = frame.fin
        /\ frame.op > 2 /\ SoFar.op = 0 => compression' # "COMPRESSED"
    BY <1>1, <2>1
  <2> QED
    BY <1>1, <1>4, <1>5, <1>10, <2>1, <2>2, <2>3, <2>4, <2>5, <2>6, PartLegal
<1>11. LegalInv'
  BY <1>3, <1>10 DEF LegalInv
<1> QED
  BY <1>8, <1>9, <1>11 DEF FramesInv

LEMMA EndFrameStep ==
  ASSUME FramesInv, EndFrame
  PROVE  FramesInv'
<1> DEFINE p == FrameDone  r == remainingBytes  h == HeadSize(frame)  z == frame.size
           e == FrameEnds(stream)[at - 1]  e2 == FrameEnds(stream)[at]
<1>1. /\ parsing /\ ~wantsHead /\ r <= length
      /\ handleFragment(Unmasked(p, r, mask), 0, Opcode, lastFin)
      /\ compression' = Inflated(compression, Opcode, 0, lastFin)
      /\ ops' = OpsLeft(ops, lastFin) /\ at' = at + 1 /\ length' = length - r
      /\ wantsHead' = TRUE /\ parsing' = (ended' = "no")
      /\ stream' = stream /\ came' = came /\ spill' = spill /\ lastFin' = lastFin
      /\ remainingBytes' = remainingBytes /\ mask' = mask
  BY DEF EndFrame, FrameDone
<1>2. FrameTypes /\ FramePlaces /\ LegalInv
  BY DEF FramesInv
<1>3. /\ compression' \in {"DISABLED", "ENABLED", "COMPRESSED"}
      /\ (compression' = "DISABLED" <=> compression = "DISABLED")
  BY <1>1, <1>2 DEF Inflated, FrameTypes
<1>4. Takes' = Takes /\ Meaning' = Meaning /\ Total' = Total
  BY <1>1, <1>3, SameStream
<1>5. /\ at <= Len(stream) /\ at \in Nat /\ spill = 0 /\ ended = "no" /\ ops # <<>>
      /\ came = e + (h + z - r + length) /\ e \in Nat /\ h \in {2, 3}
      /\ e2 = e + h + z /\ z \in Nat /\ r \in Nat
      /\ r > 0 /\ r <= z /\ p \in Nat /\ p = z - r
      /\ length \in Nat /\ length <= Total /\ Total \in Nat /\ at + 1 \in 1..Len(stream) + 1
  BY <1>1, InFrameIs
<1> HIDE DEF p, r, h, z, e, e2
<1>6. length' \in 0..Total /\ came = e2 + length' /\ at' - 1 = at /\ p + r = z
  BY <1>1, <1>5
<1>7. ended' \in {"no", "handler", "close frame"}
  BY <1>1, <1>5, FragmentEnds
<1>8. parsing' \in BOOLEAN /\ (parsing' <=> ended' = "no")
  BY <1>1
<1>9. ops' \in Seq(OpCodes) /\ Len(ops') <= 2
  <2>1. ops \in Seq(OpCodes) /\ Len(ops) <= 2
    BY <1>2 DEF FrameTypes
  <2> QED
    BY <1>1, <1>5, <2>1, OpsLeftIs
<1>10. FrameTypes'
  <2>1. at' \in 1..Len(stream') + 1
    BY <1>1, <1>5
  <2> QED
    BY <1>1, <1>2, <1>3, <1>4, <1>6, <1>7, <1>8, <1>9, <2>1 DEF FrameTypes
<1>11. FramePlaces'
  <2>1. parsing' => came' = FrameEnds(stream')[at' - 1] + InHand'
    BY <1>1, <1>6 DEF InHand, e2
  <2> QED
    BY <1>1, <1>5, <1>8, <2>1 DEF FramePlaces
<1>12. ASSUME Meaning.legal PROVE LegalInv'
  <2>1. /\ Unmasked(p, r, mask) = RestOf(p, r)
        /\ Opcode = OpOf(SoFar, frame) /\ lastFin = frame.fin /\ ops = OpsOf(SoFar, frame)
        /\ fragmentBuffer = SoFar.data \o Payload(at, p)
        /\ controlTip = (IF frame.op > 2 THEN p ELSE 0)
        /\ (frame.op > 2 /\ SoFar.op = 0 => compression # "COMPRESSED")
    BY <1>1, <1>5, <1>12, InFrameLegal DEF p
  <2>2. handleFragment(RestOf(p, r), 0, OpOf(SoFar, frame), frame.fin)
    BY <1>1, <2>1
  <2>3. p + r = frame.size
    BY <1>6 DEF z
  <2>4. FrameTold(SoFar, Meanings(stream, Takes)[at])
    BY <1>5, <1>12, <2>1, <2>2, <2>3, FrameComplete
  <2>5. compression' = Inflated(compression, OpOf(SoFar, frame), 0, frame.fin)
        /\ ops' = OpsLeft(OpsOf(SoFar, frame), frame.fin) /\ lastFin' = frame.fin
    BY <1>1, <2>1
  <2> QED
    BY <1>1, <1>3, <1>5, <1>12, <2>1, <2>4, <2>5, WholeLegal
<1>13. LegalInv'
  BY <1>4, <1>12 DEF LegalInv
<1> QED
  BY <1>10, <1>11, <1>13 DEF FramesInv

LEMMA FramesStep ==
  ASSUME FramesInv, [FramesNext]_framesVars
  PROVE  FramesInv'
<1>1. CASE UNCHANGED framesVars
  BY <1>1, FramesStutter
<1>2. CASE \E k \in 1..Total - came : OnRead(k)
  BY <1>2, OnReadStep
<1>3. CASE RefuseHead
  BY <1>3, RefuseHeadStep
<1>4. CASE RefuseMessage
  BY <1>4, RefuseMessageStep
<1>5. CASE SpillHead
  BY <1>5, SpillHeadStep
<1>6. CASE consumeMessage
  BY <1>6, ConsumeMessageStep
<1>7. CASE consumeStart
  BY <1>7, ConsumeStartStep
<1>8. CASE ContinueFrame
  BY <1>8, ContinueFrameStep
<1>9. CASE EndFrame
  BY <1>9, EndFrameStep
<1>10. CASE FramesEnd
  <2>1. UNCHANGED framesVars
    BY <1>10 DEF FramesEnd
  <2> QED
    BY <2>1, FramesStutter
<1> QED
  BY <1>1, <1>2, <1>3, <1>4, <1>5, <1>6, <1>7, <1>8, <1>9, <1>10 DEF FramesNext

(* What the parts say of what the handlers were told.                        *)
LEMMA FramesInvTells == FramesInv => DeliveredAsSent /\ FramesTypeOK
<1> SUFFICES ASSUME FramesInv PROVE DeliveredAsSent /\ FramesTypeOK
  OBVIOUS
<1>1. FrameTypes /\ FramePlaces /\ LegalInv
  BY DEF FramesInv
<1>2. /\ stream \in FrameStreams /\ Len(stream) \in Nat /\ at \in Nat /\ at - 1 \in 0..Len(stream)
      /\ at >= 1 /\ at <= Len(stream) + 1 /\ Total \in Nat /\ FrameEnds(stream)[at - 1] \in Nat
      /\ SoFar \in MeaningSet /\ Meaning \in MeaningSet /\ MaxFrames \in Nat
      /\ spill \in 0..2 /\ remainingBytes \in Nat /\ length \in Nat /\ length <= Total
  BY <1>1, StreamFacts
<1>3. FramesTypeOK
  <2>1. at \in 1..MaxFrames + 1
    <3>1. Len(stream) <= MaxFrames
      BY <1>2 DEF FrameStreams
    <3> QED
      BY <1>2, <3>1
  <2>2. spill \in 0..MEDIUM_MESSAGE_HEADER - 1
    BY <1>2 DEF MEDIUM_MESSAGE_HEADER
  <2> QED
    BY <1>1, <2>1, <2>2 DEF FrameTypes, FramesTypeOK
<1>4. ASSUME Meaning.legal
      PROVE  /\ IsPrefix(given, Meaning.messages) /\ IsPrefix(pongs, Meaning.pings)
             /\ ended = "protocol" => CutCompressed
             /\ ended = "no" /\ ~parsing /\ came = Total =>
                    given = Meaning.messages /\ pongs = Meaning.pings
  <2>1. ToldInv
    BY <1>1, <1>4 DEF LegalInv
  <2>2. GoesOn(SoFar, Meaning)
    BY <1>2, MeaningsGoOn DEF SoFar, Meaning
  <2>3. /\ Longer(MessageSet, SoFar.messages, Meaning.messages)
        /\ Longer(PayloadSet, SoFar.pings, Meaning.pings)
    BY <1>4, <2>2 DEF GoesOn
  <2>4. /\ SoFar.messages \in Seq(MessageSet) /\ SoFar.pings \in Seq(PayloadSet)
        /\ Meaning.messages \in Seq(MessageSet) /\ Meaning.pings \in Seq(PayloadSet)
    BY <1>2 DEF MeaningSet
  <2>5. IsPrefix(SoFar.messages, Meaning.messages) /\ IsPrefix(SoFar.pings, Meaning.pings)
    BY <2>3, <2>4, LongerIs, Zenon
  <2>6. ASSUME ended = "no", ~parsing, came = Total PROVE SoFar = Meaning
    <3>1. at = Len(stream) + 1
      <4> SUFFICES ASSUME at <= Len(stream) PROVE FALSE
        BY <1>2
      <4> DEFINE e == FrameEnds(stream)[at - 1]  h == HeadSize(frame)  z == frame.size
      <4>1. /\ FrameEnds(stream)[at] = e + h + z /\ FrameEnds(stream)[at] <= Total
            /\ h \in {2, 3} /\ z \in Nat /\ FrameUnits(frame) = h + z
        BY <1>1, FrameFacts
      <4>2. /\ wantsHead => came = e + spill
            /\ ~wantsHead => came = e + (h + z - remainingBytes)
        <5> DEFINE i == InHand  u == FrameUnits(frame)
        <5>1. came = e + i
          BY <1>1, <2>6 DEF FramePlaces
        <5>2. /\ wantsHead => i = spill
              /\ ~wantsHead => i = u - remainingBytes + 0
          BY <2>6, Zenon DEF InHand
        <5>3. u = h + z
          BY <4>1
        <5>4. e \in Nat /\ h \in {2, 3} /\ z \in Nat
          BY <1>2, <4>1
        <5> HIDE DEF e, h, z, i, u
        <5> QED
          BY <5>1, <5>2, <5>3, <5>4, <1>2
      <4>3. /\ wantsHead => spill < h
            /\ ~wantsHead => remainingBytes > 0
        BY <1>1, <2>6 DEF FramePlaces
      <4>4. e \in Nat
        BY <1>2
      <4> HIDE DEF e, h, z
      <4>5. CASE wantsHead
        BY <1>2, <2>6, <4>1, <4>2, <4>3, <4>4, <4>5
      <4>6. CASE ~wantsHead
        BY <1>2, <2>6, <4>1, <4>2, <4>3, <4>4, <4>6
      <4> QED
        BY <4>5, <4>6
    <3>2. at - 1 = Len(stream)
      BY <1>2, <3>1
    <3> QED
      BY <3>2 DEF SoFar, Meaning
  <2> QED
    BY <2>1, <2>5, <2>6 DEF ToldInv
<1> QED
  BY <1>3, <1>4 DEF DeliveredAsSent

(* The inductive invariant of Frames: every unit that was read is of a frame *)
(* before, in hand, or still to be parsed, and of a legal stream the         *)
(* handlers have been told what the frames before mean                       *)
(* (WebSocketProtocol.h:288-427).                                            *)
THEOREM FramesInvariant == FramesSpec => []FramesInv
<1>1. FramesInit => FramesInv
  BY FramesInitInv
<1>2. FramesInv /\ [FramesNext]_framesVars => FramesInv'
  BY FramesStep
<1> QED
  BY <1>1, <1>2, PTL DEF FramesSpec

(* However the reads cut a legal stream, its messages and pongs come as when *)
(* it is read at once, and it is not refused but for a compressed frame with *)
(* a wide head (WebSocketProtocol.h:288-427, WebSocketContext.h:60-212).     *)
THEOREM FramesComeAsSent == FramesSpec => []DeliveredAsSent
<1>1. FramesInv => DeliveredAsSent
  BY FramesInvTells
<1> QED
  BY <1>1, FramesInvariant, PTL

(* The parser's state has the values its fields stand for.                   *)
THEOREM FramesTypesHold == FramesSpec => []FramesTypeOK
<1>1. FramesInv => FramesTypeOK
  BY FramesInvTells
<1> QED
  BY <1>1, FramesInvariant, PTL
=============================================================================

---------------------------- MODULE StreamProofs ----------------------------
(***************************************************************************)
(* Proofs about what comes out of what comes in, however it is cut: the    *)
(* requests out of the reads of a connection (HttpParser.h), the messages  *)
(* to a topic out of the loop's iterations (TopicTreeDraft.h), and the     *)
(* handlers out of the segments of a URL (HttpRouter.h).                   *)
(***************************************************************************)
EXTENDS HttpParser, Topics, HttpRouter, RecursionLemmas

-----------------------------------------------------------------------------
(* HttpParser.h: where requests end, and what the handlers are called for.   *)

Streams == {rs \in Seq(Requests) : Len(rs) <= MaxPipelined}
CallSet == Nat \X (Nat \cup {"request", "last"})

LEMMA RequestIs ==
  ASSUME NEW rs \in Streams, NEW n \in 1..Len(rs)
  PROVE  /\ Len(rs) \in Nat /\ rs[n].head \in Nat \ {0} /\ rs[n].body \in Nat
         /\ rs[n].sized \in BOOLEAN /\ (~rs[n].sized => rs[n].body = 0)
BY HttpParserAssumption DEF Streams, RequestType

LEMMA EndsDef ==
  ASSUME NEW rs \in Streams
  PROVE  /\ Ends(rs) \in [0..Len(rs) -> Nat] /\ Ends(rs)[0] = 0
         /\ \A n \in 1..Len(rs) : Ends(rs)[n] = Ends(rs)[n - 1] + Units(rs[n])
<1> DEFINE N == Len(rs)
           step == [n \in 1..N |-> [x \in Nat |-> x + Units(rs[n])]]
           e == Ends(rs)
<1>1. step \in [1..N -> [Nat -> Nat]] /\ N \in Nat
  BY RequestIs DEF Streams, Units
<1>2. PICK f : Steps(Nat, 0, step, N, f)
  <2> HIDE DEF step, N
  <2> QED
    BY <1>1, StepsExist
<1>3. ASSUME NEW n \in 1..N PROVE f[n] = f[n - 1] + Units(rs[n])
  <2>1. n - 1 \in 0..N
    BY <1>1
  <2>2. f[n - 1] \in Nat /\ f[n] = step[n][f[n - 1]]
    BY <1>2, <2>1 DEF Steps
  <2> QED
    BY <2>2
<1>4. f = [n \in 0..N |-> IF n = 0 THEN 0 ELSE f[n - 1] + Units(rs[n])]
  BY <1>1, <1>2, <1>3 DEF Steps
<1>5. e = [n \in 0..N |-> IF n = 0 THEN 0 ELSE e[n - 1] + Units(rs[n])]
  BY <1>4 DEF Ends
<1> HIDE DEF e, N
<1>6. e[0] = 0
  <2>1. 0 \in 0..N
    BY <1>1
  <2> QED
    BY <1>5, <2>1, Zenon
<1>7. ASSUME NEW n \in 1..N PROVE e[n] = e[n - 1] + Units(rs[n])
  <2>1. n \in 0..N /\ n # 0
    BY <1>1
  <2> QED
    BY <1>5, <2>1, Zenon
<1>8. Makes(Nat, 0, step, N, e)
  BY <1>6, <1>7 DEF Makes
<1> HIDE DEF step
<1>9. \A n \in 0..N : e[n] \in Nat
  BY <1>1, <1>2, <1>8, StepsAre
<1>10. e \in [0..N -> Nat]
  BY <1>5, <1>9, Zenon
<1> QED
  BY <1>6, <1>7, <1>10 DEF e, N

LEMMA BodyIs ==
  ASSUME NEW r \in Nat, NEW from \in Nat, NEW n \in Nat
  PROVE  Body(r, from, n) \in Seq(CallSet) /\ Len(Body(r, from, n)) = n
BY DEF Body, CallSet

LEMMA CallsOfIs ==
  ASSUME NEW rs \in Streams, NEW n \in 1..Len(rs)
  PROVE  CallsOf(n, rs[n]) \in Seq(CallSet)
<1>1. n \in Nat /\ rs[n].body \in Nat
  BY RequestIs
<1>2. <<n, "request">> \in CallSet /\ <<n, "last">> \in CallSet
  BY <1>1 DEF CallSet
<1>3. <<<<n, "request">>>> \in Seq(CallSet) /\ <<<<n, "last">>>> \in Seq(CallSet)
  BY <1>2
<1>4. Body(n, 0, rs[n].body) \in Seq(CallSet)
  BY <1>1, BodyIs
<1> QED
  BY <1>3, <1>4, ConcatProperties DEF CallsOf, LastData

LEMMA CallsDef ==
  ASSUME NEW rs \in Streams
  PROVE  /\ Calls(rs) \in [0..Len(rs) -> Seq(CallSet)] /\ Calls(rs)[0] = <<>>
         /\ \A n \in 1..Len(rs) : Calls(rs)[n] = Calls(rs)[n - 1] \o CallsOf(n, rs[n])
<1> DEFINE N == Len(rs)
           X == Seq(CallSet)
           step == [n \in 1..N |-> [x \in X |-> x \o CallsOf(n, rs[n])]]
           c == Calls(rs)
<1>1. step \in [1..N -> [X -> X]] /\ N \in Nat /\ <<>> \in X
  BY CallsOfIs, EmptySeq DEF Streams
<1>2. PICK f : Steps(X, <<>>, step, N, f)
  <2> HIDE DEF step, N, X
  <2> QED
    BY <1>1, StepsExist
<1> HIDE DEF X
<1>3. ASSUME NEW n \in 1..N PROVE f[n] = f[n - 1] \o CallsOf(n, rs[n])
  <2>1. n - 1 \in 0..N
    BY <1>1
  <2>2. f[n - 1] \in X /\ f[n] = step[n][f[n - 1]]
    BY <1>2, <2>1 DEF Steps
  <2> QED
    BY <2>2
<1>4. f = [n \in 0..N |-> IF n = 0 THEN <<>> ELSE f[n - 1] \o CallsOf(n, rs[n])]
  <2>1. f \in [0..N -> X] /\ f[0] = <<>>
    BY <1>2 DEF Steps
  <2>2. \A n \in 0..N : f[n] = IF n = 0 THEN <<>> ELSE f[n - 1] \o CallsOf(n, rs[n])
    <3>1. \A n \in 0..N : n = 0 \/ n \in 1..N
      BY <1>1, SMTT(40)
    <3> QED
      BY <1>3, <2>1, <3>1, Zenon
  <2> QED
    BY <2>1, <2>2, Zenon
<1>5. c = [n \in 0..N |-> IF n = 0 THEN <<>> ELSE c[n - 1] \o CallsOf(n, rs[n])]
  BY <1>4 DEF Calls
<1> HIDE DEF c, N
<1>6. c[0] = <<>>
  <2>1. 0 \in 0..N
    BY <1>1
  <2> QED
    BY <1>5, <2>1, Zenon
<1>7. ASSUME NEW n \in 1..N PROVE c[n] = c[n - 1] \o CallsOf(n, rs[n])
  <2>1. n \in 0..N /\ n # 0
    BY <1>1
  <2> QED
    BY <1>5, <2>1, Zenon
<1>8. Makes(X, <<>>, step, N, c)
  BY <1>6, <1>7 DEF Makes
<1> HIDE DEF step
<1>9. \A n \in 0..N : c[n] \in X
  BY <1>1, <1>2, <1>8, StepsAre
<1>10. c \in [0..N -> X]
  BY <1>5, <1>9, Zenon
<1> QED
  BY <1>6, <1>7, <1>10 DEF c, N, X

(* A request ends no later than those behind it, and what the handlers are   *)
(* called for up to it comes first.                                          *)
LEMMA EndsGrow ==
  ASSUME NEW rs \in Streams, NEW m \in 0..Len(rs)
  PROVE  \A n \in m..Len(rs) : Ends(rs)[m] <= Ends(rs)[n]
<1> DEFINE e == Ends(rs)
           Bad == {n \in m..Len(rs) : ~(e[m] <= e[n])}
<1>1. Len(rs) \in Nat /\ m \in Nat
  BY DEF Streams
<1>2. \A n \in 0..Len(rs) : e[n] \in Nat
  BY EndsDef
<1>3. \A n \in 1..Len(rs) : e[n - 1] <= e[n]
  <2> TAKE n \in 1..Len(rs)
  <2>1. n - 1 \in 0..Len(rs) /\ e[n] = e[n - 1] + Units(rs[n])
    BY <1>1, EndsDef
  <2>2. Units(rs[n]) \in Nat
    BY RequestIs DEF Units
  <2> QED
    BY <1>2, <2>1, <2>2
<1> HIDE DEF e
<1>4. Bad = {}
  <2>1. SUFFICES ASSUME NEW b \in Bad PROVE FALSE
    OBVIOUS
  <2>2. Bad \in SUBSET Nat
    BY <1>1
  <2>3. PICK n \in Bad : \A k \in Bad : n <= k
    <3> HIDE DEF Bad
    <3> QED
      BY <2>2, LeastNat
  <2>4. n \in 1..Len(rs) /\ n - 1 \in m..Len(rs) /\ n - 1 \notin Bad
    BY <1>1, <1>2, <2>3
  <2>5. e[m] <= e[n - 1] /\ e[n - 1] <= e[n] /\ ~(e[m] <= e[n])
    BY <1>3, <2>3, <2>4
  <2>6. n \in 0..Len(rs) /\ n - 1 \in 0..Len(rs)
    BY <1>1, <2>4
  <2> QED
    BY <1>2, <2>5, <2>6
<1> QED
  BY <1>4 DEF e

LEMMA CallsGrow ==
  ASSUME NEW rs \in Streams, NEW m \in 0..Len(rs)
  PROVE  \A n \in m..Len(rs) : \E t \in Seq(CallSet) : Calls(rs)[n] = Calls(rs)[m] \o t
<1> DEFINE c == Calls(rs)
           Bad == {n \in m..Len(rs) : ~\E t \in Seq(CallSet) : c[n] = c[m] \o t}
<1>1. Len(rs) \in Nat /\ m \in Nat
  BY DEF Streams
<1>2. \A n \in 0..Len(rs) : c[n] \in Seq(CallSet)
  BY CallsDef
<1>3. \A n \in 1..Len(rs) : c[n] = c[n - 1] \o CallsOf(n, rs[n])
  BY CallsDef
<1> HIDE DEF c
<1>4. Bad = {}
  <2>1. SUFFICES ASSUME NEW b \in Bad PROVE FALSE
    OBVIOUS
  <2>2. Bad \in SUBSET Nat
    BY <1>1
  <2>3. PICK n \in Bad : \A k \in Bad : n <= k
    <3> HIDE DEF Bad
    <3> QED
      BY <2>2, LeastNat
  <2>4. n # m
    <3>1. c[m] = c[m] \o <<>>
      BY <1>2, ConcatEmptySeq
    <3> QED
      BY <2>3, <3>1, EmptySeq
  <2>5. n \in 1..Len(rs) /\ n - 1 \in m..Len(rs) /\ n - 1 \notin Bad
    <3>1. n \in m..Len(rs)
      BY <2>3
    <3> HIDE DEF Bad
    <3> QED
      BY <1>1, <2>3, <2>4, <3>1
  <2>6. PICK t \in Seq(CallSet) : c[n - 1] = c[m] \o t
    BY <2>5
  <2> DEFINE u == CallsOf(n, rs[n])
  <2>7. u \in Seq(CallSet) /\ c[m] \in Seq(CallSet) /\ c[n] = c[n - 1] \o u
    BY <1>2, <1>3, <2>5, CallsOfIs
  <2> HIDE DEF u
  <2>8. c[n] = c[m] \o (t \o u) /\ t \o u \in Seq(CallSet)
    <3>1. (c[m] \o t) \o u = c[m] \o (t \o u)
      <4>1. t \in Seq(CallSet) /\ u \in Seq(CallSet) /\ c[m] \in Seq(CallSet)
        BY <2>6, <2>7
      <4>2. \A x, y, z \in Seq(CallSet) : (x \o y) \o z = x \o (y \o z)
        BY Regrouped, SMTT(40)
      <4> QED
        BY <4>1, <4>2, Zenon
    <3>2. t \o u \in Seq(CallSet)
      BY <2>7, ConcatProperties
    <3> QED
      BY <2>6, <2>7, <3>1, <3>2
  <2> QED
    BY <2>3, <2>8
<1> QED
  BY <1>4 DEF c

-----------------------------------------------------------------------------
(* What of the current request was passed on, and what was read of it.       *)
Begun(r, n) == <<<<r, "request">>>> \o Body(r, 0, n)
Given ==
  IF remainingStreamingBytes > 0 THEN Begun(nth, Current.body - remainingStreamingBytes) ELSE <<>>
Taken ==
  IF remainingStreamingBytes > 0 THEN Current.head + Current.body - remainingStreamingBytes
  ELSE fallback

(* The parts of consumePostPadded, and what each may assume.                 *)
PlacesInv ==
  /\ parser = "idle" => unread = 0
  /\ parser = "body" => remainingStreamingBytes > 0
  /\ parser = "fallback" => fallback > 0 /\ unread > 0
  /\ parser = "fence" => fallback = 0 /\ (remainingStreamingBytes = 0 \/ unread = 0)
  /\ remainingStreamingBytes > 0 =>
       nth <= Len(requests) /\ remainingStreamingBytes <= Current.body /\ fallback = 0

(* All that was read has been passed on, is kept or is still to be parsed; a *)
(* stream is refused for a head that is too long.                            *)
ReadInv ==
  IF refused
  THEN parser = "idle" /\ nth <= Len(requests) /\ Current.head > MAX_FALLBACK_SIZE
  ELSE /\ received = Ends(requests)[nth - 1] + Taken + unread
       /\ fallback < MAX_FALLBACK_SIZE /\ (fallback > 0 => fallback < Current.head)

GivenInv == ~cut => events = Calls(requests)[nth - 1] \o Given

ParserTypes ==
  /\ requests \in Streams /\ received \in 0..All /\ nth \in 1..Len(requests) + 1
  /\ parser \in {"idle", "body", "fallback", "fence"}
  /\ unread \in 0..All /\ fallback \in 0..MAX_FALLBACK_SIZE /\ remainingStreamingBytes \in Nat
  /\ events \in Seq(CallSet) /\ cut \in BOOLEAN /\ refused \in BOOLEAN

ParserInv == ParserTypes /\ PlacesInv /\ ReadInv /\ GivenInv

LEMMA ParserFacts ==
  ASSUME ParserInv
  PROVE  /\ requests \in Streams /\ Len(requests) \in Nat /\ nth - 1 \in 0..Len(requests)
         /\ MAX_FALLBACK_SIZE \in Nat \ {0} /\ All \in Nat /\ unread \in Nat /\ fallback \in Nat
         /\ received \in Nat /\ remainingStreamingBytes \in Nat
         /\ Ends(requests)[nth - 1] \in Nat /\ Calls(requests)[nth - 1] \in Seq(CallSet)
         /\ ~refused /\ unread + remainingStreamingBytes + fallback > 0 => nth <= Len(requests)
         /\ nth <= Len(requests) =>
              /\ Current = requests[nth] /\ Current.head \in Nat \ {0} /\ Current.body \in Nat
              /\ Current.sized \in BOOLEAN /\ (~Current.sized => Current.body = 0)
              /\ Ends(requests)[nth] = Ends(requests)[nth - 1] + Current.head + Current.body
              /\ Calls(requests)[nth] = Calls(requests)[nth - 1] \o CallsOf(nth, Current)
              /\ Ends(requests)[nth] <= All
<1>1. requests \in Streams /\ nth \in 1..Len(requests) + 1 /\ Len(requests) \in Nat
  BY DEF ParserInv, ParserTypes, Streams
<1>2. nth - 1 \in 0..Len(requests) /\ Len(requests) \in 0..Len(requests)
  BY <1>1
<1>3. /\ Ends(requests)[nth - 1] \in Nat /\ Calls(requests)[nth - 1] \in Seq(CallSet)
      /\ All \in Nat /\ Ends(requests)[nth - 1] <= All
  <2>1. Len(requests) \in (nth - 1)..Len(requests)
    BY <1>1
  <2> QED
    BY <1>1, <1>2, <2>1, EndsDef, CallsDef, EndsGrow DEF All
<1>4. /\ unread \in Nat /\ fallback \in Nat /\ received \in Nat /\ remainingStreamingBytes \in Nat
      /\ received <= All
  BY <1>3 DEF ParserInv, ParserTypes
<1>5. ASSUME ~refused, unread + remainingStreamingBytes + fallback > 0, ~(nth <= Len(requests))
      PROVE  FALSE
  <2>1. nth - 1 = Len(requests) /\ ~(remainingStreamingBytes > 0) /\ Taken = fallback
    BY <1>1, <1>5 DEF ParserInv, PlacesInv, Taken
  <2>2. received = Ends(requests)[nth - 1] + fallback + unread
    BY <1>5, <2>1 DEF ParserInv, ReadInv
  <2>3. Ends(requests)[nth - 1] = All
    BY <2>1 DEF All
  <2> QED
    BY <1>3, <1>4, <1>5, <2>1, <2>2, <2>3
<1>6. ASSUME nth <= Len(requests)
      PROVE  /\ Current = requests[nth] /\ Current.head \in Nat \ {0} /\ Current.body \in Nat
             /\ Current.sized \in BOOLEAN /\ (~Current.sized => Current.body = 0)
             /\ Ends(requests)[nth] = Ends(requests)[nth - 1] + Current.head + Current.body
             /\ Calls(requests)[nth] = Calls(requests)[nth - 1] \o CallsOf(nth, Current)
             /\ Ends(requests)[nth] <= All
  <2>1. nth \in 1..Len(requests) /\ nth \in 0..Len(requests) /\ Len(requests) \in nth..Len(requests)
    BY <1>1, <1>6
  <2>2. /\ Current.head \in Nat \ {0} /\ Current.body \in Nat
        /\ Current.sized \in BOOLEAN /\ (~Current.sized => Current.body = 0)
    BY <1>1, <2>1, RequestIs DEF Current
  <2>3. Ends(requests)[nth] = Ends(requests)[nth - 1] + Units(Current)
    BY <1>1, <2>1, EndsDef DEF Current
  <2>4. Ends(requests)[nth] <= All
    BY <1>1, <2>1, EndsGrow DEF All
  <2>5. Calls(requests)[nth] = Calls(requests)[nth - 1] \o CallsOf(nth, Current)
    BY <1>1, <2>1, CallsDef DEF Current
  <2> QED
    BY <1>3, <2>2, <2>3, <2>4, <2>5 DEF Units, Current
<1> QED
  BY <1>1, <1>2, <1>3, <1>4, <1>5, <1>6, HttpParserAssumption

(* The same, one by one.                                                     *)
LEMMA NumbersAre ==
  ASSUME ParserInv
  PROVE  /\ requests \in Streams /\ Len(requests) \in Nat /\ nth \in Nat /\ nth - 1 \in 0..Len(requests)
         /\ unread \in Nat /\ fallback \in Nat /\ received \in Nat
         /\ remainingStreamingBytes \in Nat /\ All \in Nat /\ Ends(requests)[nth - 1] \in Nat
         /\ MAX_FALLBACK_SIZE \in Nat \ {0} /\ received <= All
         /\ unread <= All /\ fallback <= MAX_FALLBACK_SIZE
BY ParserFacts DEF ParserInv, ParserTypes

LEMMA CurrentIs ==
  ASSUME ParserInv, nth <= Len(requests)
  PROVE  /\ Current.head \in Nat /\ Current.head > 0 /\ Current.body \in Nat
         /\ nth \in 0..Len(requests) /\ nth + 1 \in 1..Len(requests) + 1
         /\ Ends(requests)[nth] = Ends(requests)[nth - 1] + Current.head + Current.body
         /\ (~Current.sized => Current.body = 0) /\ Ends(requests)[nth] <= All
         /\ Ends(requests)[nth] \in Nat
<1>1. /\ Current.head \in Nat \ {0} /\ Current.body \in Nat
      /\ Ends(requests)[nth] = Ends(requests)[nth - 1] + Current.head + Current.body
      /\ (~Current.sized => Current.body = 0) /\ Ends(requests)[nth] <= All
  BY ParserFacts
<1>2. nth \in Nat /\ nth - 1 \in 0..Len(requests) /\ Len(requests) \in Nat
      /\ Ends(requests)[nth - 1] \in Nat
  BY NumbersAre
<1> QED
  BY <1>1, <1>2

LEMMA CallsAre ==
  ASSUME ParserInv
  PROVE  /\ Calls(requests)[nth - 1] \in Seq(CallSet)
         /\ nth <= Len(requests) =>
              Calls(requests)[nth] = Calls(requests)[nth - 1] \o CallsOf(nth, Current)
BY ParserFacts

LEMMA ThereIsMore ==
  ASSUME ParserInv, ~refused, unread > 0 \/ remainingStreamingBytes > 0 \/ fallback > 0
  PROVE  nth <= Len(requests)
<1>1. unread + remainingStreamingBytes + fallback > 0
  BY NumbersAre
<1> QED
  BY <1>1, ParserFacts

LEMMA ParserInit == HttpParserInit => ParserInv
<1> SUFFICES ASSUME HttpParserInit PROVE ParserInv
  OBVIOUS
<1> USE DEF HttpParserInit
<1>1. requests \in Streams
  <2>1. PICK n \in 0..MaxPipelined : requests \in [1..n -> Requests]
    BY DEF SeqOf
  <2> QED
    BY <2>1, HttpParserAssumption DEF Streams
<1>2. 0 \in 0..Len(requests) /\ Len(requests) \in 0..Len(requests)
  BY <1>1 DEF Streams
<1>3. All \in Nat /\ Ends(requests)[0] = 0 /\ Calls(requests)[0] = <<>>
  BY <1>1, <1>2, EndsDef, CallsDef DEF All
<1>4. ParserTypes
  <2>1. 0 \in 0..All /\ 1 \in 1..Len(requests) + 1
    BY <1>1, <1>3 DEF Streams
  <2>2. 0 \in 0..MAX_FALLBACK_SIZE /\ events \in Seq(CallSet)
    BY HttpParserAssumption, EmptySeq
  <2> QED
    BY <1>1, <2>1, <2>2 DEF ParserTypes
<1>5. PlacesInv
  BY DEF PlacesInv
<1>6. ReadInv
  BY <1>3, HttpParserAssumption DEF ReadInv, Taken
<1>7. GivenInv
  BY <1>3, EmptySeq, ConcatEmptySeq DEF GivenInv, Given
<1> QED
  BY <1>4, <1>5, <1>6, <1>7 DEF ParserInv

-----------------------------------------------------------------------------
(* The steps of the parser.                                                  *)

(* A piece of a body and the piece behind it are one.                        *)
LEMMA BodyJoins ==
  ASSUME NEW r \in Nat, NEW a \in Nat, NEW b \in Nat
  PROVE  Body(r, 0, a) \o Body(r, a, b) = Body(r, 0, a + b)
<1> DEFINE s == Body(r, 0, a)  t == Body(r, a, b)  u == Body(r, 0, a + b)
<1>1. s \in Seq(CallSet) /\ t \in Seq(CallSet) /\ u \in Seq(CallSet)
      /\ Len(s) = a /\ Len(t) = b /\ Len(u) = a + b
  <2>1. 0 \in Nat /\ a + b \in Nat
    OBVIOUS
  <2> QED
    BY <2>1, BodyIs
<1>2. s \o t \in Seq(CallSet) /\ Len(s \o t) = Len(u)
  BY <1>1, ConcatProperties
<1>3. ASSUME NEW i \in 1..Len(u) PROVE (s \o t)[i] = u[i]
  <2>1. u[i] = <<r, i>>
    BY <1>1 DEF Body
  <2>2. CASE i <= a
    BY <1>1, <2>1, <2>2, ConcatProperties DEF Body
  <2>3. CASE i > a
    <3>1. (s \o t)[i] = t[i - a] /\ i - a \in 1..b
      BY <1>1, <2>3, ConcatProperties
    <3>2. t[i - a] = <<r, a + (i - a)>>
      BY <3>1 DEF Body
    <3>3. a + (i - a) = i
      BY <1>1
    <3> QED
      BY <2>1, <3>1, <3>2, <3>3, Zenon
  <2> QED
    BY <1>1, <2>2, <2>3
<1> QED
  BY <1>1, <1>2, <1>3, SeqEqual

(* The calls for one request: its head alone, more of its body, its end.     *)
BegunSteps(r, a, b, c) ==
    /\ Begun(r, a) \in Seq(CallSet) /\ LastData(r) \in Seq(CallSet) /\ Body(r, a, b) \in Seq(CallSet)
    /\ <<<<r, "request">>>> \in Seq(CallSet) /\ c \o Begun(r, a) \in Seq(CallSet)
    /\ c \o Begun(r, a) \o LastData(r) \in Seq(CallSet)
    /\ c \o Begun(r, a) \o Body(r, a, b) = c \o Begun(r, a + b)
    /\ c \o Begun(r, a) \o LastData(r) = c \o (Begun(r, a) \o LastData(r))
    /\ c \o <<<<r, "request">>>> \o Body(r, 0, a) = c \o Begun(r, a)
    /\ c \o <<<<r, "request">>>> = c \o Begun(r, 0)
    /\ c \o <<>> = c

LEMMA BegunIs == \A r, a, b \in Nat, c \in Seq(CallSet) : BegunSteps(r, a, b, c)
<1> TAKE r, a, b \in Nat, c \in Seq(CallSet)
<1> DEFINE q == <<<<r, "request">>>>
<1>1. <<r, "request">> \in CallSet /\ <<r, "last">> \in CallSet
  BY DEF CallSet
<1>2. q \in Seq(CallSet) /\ LastData(r) \in Seq(CallSet)
  BY <1>1 DEF LastData
<1>3. /\ Body(r, 0, a) \in Seq(CallSet) /\ Body(r, a, b) \in Seq(CallSet)
      /\ Body(r, 0, a) \o Body(r, a, b) = Body(r, 0, a + b)
  BY BodyIs, BodyJoins
<1> HIDE DEF q
<1>4. \A x, y, z \in Seq(CallSet) : (x \o y) \o z = x \o (y \o z)
  BY Regrouped
<1>5. \A x, y \in Seq(CallSet) : x \o y \in Seq(CallSet)
  BY Joined
<1>6. Begun(r, a) = q \o Body(r, 0, a) /\ Begun(r, a + b) = q \o Body(r, 0, a + b)
      /\ Begun(r, 0) = q \o Body(r, 0, 0)
  BY DEF Begun, q
<1>7. Begun(r, a) \in Seq(CallSet) /\ c \o Begun(r, a) \in Seq(CallSet)
      /\ c \o Begun(r, a) \o LastData(r) \in Seq(CallSet)
  <2>1. Begun(r, a) \in Seq(CallSet)
    BY <1>2, <1>3, <1>5, <1>6, Zenon
  <2>2. c \o Begun(r, a) \in Seq(CallSet)
    BY <1>5, <2>1, Zenon
  <2> QED
    BY <1>2, <1>5, <2>1, <2>2, Zenon
<1>8. c \o Begun(r, a) \o Body(r, a, b) = c \o Begun(r, a + b)
  <2>1. c \o Begun(r, a) \o Body(r, a, b) = c \o (Begun(r, a) \o Body(r, a, b))
    BY <1>3, <1>4, <1>7, Zenon
  <2>2. (q \o Body(r, 0, a)) \o Body(r, a, b) = q \o (Body(r, 0, a) \o Body(r, a, b))
    BY <1>2, <1>3, <1>4, Zenon
  <2> QED
    BY <1>3, <1>6, <2>1, <2>2
<1>9. c \o Begun(r, a) \o LastData(r) = c \o (Begun(r, a) \o LastData(r))
  BY <1>2, <1>4, <1>7, Zenon
<1>10. c \o q \o Body(r, 0, a) = c \o Begun(r, a)
  <2>1. (c \o q) \o Body(r, 0, a) = c \o (q \o Body(r, 0, a))
    BY <1>2, <1>3, <1>4, Zenon
  <2> QED
    BY <1>6, <2>1
<1>11. Begun(r, 0) = q
  <2>1. Body(r, 0, 0) = <<>>
    BY BodyIs, EmptySeq
  <2>2. q \o <<>> = q
    BY <1>2, ConcatEmptySeq
  <2> QED
    BY <1>6, <2>1, <2>2
<1>12. c \o <<>> = c
  BY ConcatEmptySeq
<1> QED
  BY <1>2, <1>3, <1>7, <1>8, <1>9, <1>10, <1>11, <1>12 DEF q, BegunSteps

LEMMA TakenIs ==
  ASSUME ParserInv
  PROVE  Taken \in Nat
<1>1. CASE remainingStreamingBytes > 0
  <2>1. nth <= Len(requests) /\ remainingStreamingBytes <= Current.body
    BY <1>1 DEF ParserInv, PlacesInv
  <2> QED
    <3>1. /\ Current.head \in Nat /\ Current.body \in Nat /\ remainingStreamingBytes \in Nat
          /\ remainingStreamingBytes <= Current.body
      BY <2>1, NumbersAre, CurrentIs
    <3> QED
      BY <1>1, <3>1 DEF Taken
<1>2. CASE ~(remainingStreamingBytes > 0)
  BY <1>2, NumbersAre DEF Taken
<1> QED
  BY <1>1, <1>2

LEMMA ConsumeStep ==
  ASSUME ParserInv, NEW k \in 1..All - received, Consume(k)
  PROVE  ParserInv'
<1> USE DEF Consume
<1>1. requests' = requests /\ All' = All /\ Current' = Current
  BY DEF All, Current
<1>2. All \in Nat /\ received \in 0..All /\ k \in Nat \ {0} /\ k <= All - received
  BY ParserFacts DEF ParserInv, ParserTypes
<1>3. ParserTypes'
  BY <1>1, <1>2 DEF ParserInv, ParserTypes
<1>4. PlacesInv'
  BY <1>1, <1>2, ParserFacts DEF ParserInv, ParserTypes, PlacesInv
<1>5. ReadInv'
  <2>1. Taken' = Taken /\ unread = 0 /\ unread' = k /\ received' = received + k
    BY <1>1 DEF Taken, ParserInv, PlacesInv
  <2>2. received = Ends(requests)[nth - 1] + Taken + 0
    BY <2>1 DEF ParserInv, ReadInv
  <2>3. Taken \in Nat
    BY TakenIs DEF ParserInv, PlacesInv
  <2>4. received' = Ends(requests)[nth - 1] + Taken + k
    BY <2>1, <2>2, <2>3, ParserFacts, SMTT(40)
  <2> QED
    BY <1>1, <2>1, <2>4 DEF ReadInv, ParserInv
<1>6. GivenInv'
  BY <1>1 DEF GivenInv, Given, ParserInv
<1> QED
  BY <1>3, <1>4, <1>5, <1>6 DEF ParserInv

LEMMA StreamBodyStep ==
  ASSUME ParserInv, StreamBody
  PROVE  ParserInv'
<1> DEFINE n == Shorter(remainingStreamingBytes, unread)
           done == Current.body - remainingStreamingBytes
           h == Current.head  b == Current.body  c == Calls(requests)[nth - 1]
           start == Ends(requests)[nth - 1]  end == Ends(requests)[nth]
<1>1. requests' = requests /\ All' = All /\ received' = received /\ fallback' = fallback
      /\ cut' = cut /\ refused' = refused
  BY DEF StreamBody, All
<1>2. /\ remainingStreamingBytes > 0 /\ nth <= Len(requests) /\ fallback = 0 /\ ~refused
      /\ remainingStreamingBytes <= b
  BY DEF StreamBody, ParserInv, PlacesInv, ReadInv
<1>a. /\ Len(requests) \in Nat /\ nth \in Nat /\ nth - 1 \in 0..Len(requests)
      /\ unread \in Nat /\ fallback \in Nat /\ received \in Nat
      /\ remainingStreamingBytes \in Nat /\ All \in Nat /\ start \in Nat
      /\ MAX_FALLBACK_SIZE \in Nat \ {0} /\ unread <= All
  BY NumbersAre
<1>b. /\ h \in Nat /\ h > 0 /\ b \in Nat /\ end = start + h + b /\ end \in Nat
      /\ nth \in 0..Len(requests) /\ nth + 1 \in 1..Len(requests) + 1
  BY <1>2, CurrentIs
<1>c. c \in Seq(CallSet) /\ Calls(requests)[nth] = c \o CallsOf(nth, Current)
      /\ events \in Seq(CallSet) /\ (~cut => events = c \o Begun(nth, done))
  BY <1>2, CallsAre DEF ParserInv, ParserTypes, GivenInv, Given
<1>3. /\ received = start + (h + b - remainingStreamingBytes) + unread
      /\ fallback < MAX_FALLBACK_SIZE
  BY <1>2 DEF ParserInv, ReadInv, Taken
<1>5. remainingStreamingBytes' = remainingStreamingBytes - n /\ unread' = unread - n
      /\ nth' = (IF n = remainingStreamingBytes THEN nth + 1 ELSE nth)
      /\ parser' = (IF remainingStreamingBytes >= unread THEN "idle" ELSE "fence")
  BY DEF StreamBody, BodyEnds
<1>6. events' = events \o Body(nth, done, n)
                  \o IF n = remainingStreamingBytes THEN LastData(nth) ELSE <<>>
  BY DEF StreamBody, BodyEnds
<1>d. done = b - remainingStreamingBytes
  OBVIOUS
<1>e. CallsOf(nth, Current) = Begun(nth, b) \o LastData(nth)
  BY DEF CallsOf, Begun
<1>f. Current' = Current \/ nth' # nth
  BY <1>1 DEF Current
<1>g. (nth' = nth /\ remainingStreamingBytes' > 0 =>
         /\ Taken' = h + b - remainingStreamingBytes'
         /\ Given' = Begun(nth, b - remainingStreamingBytes'))
      /\ (remainingStreamingBytes' = 0 => Taken' = 0 /\ Given' = <<>>)
  BY <1>1, <1>2, <1>f DEF Taken, Given
<1>4. n \in Nat /\ n <= remainingStreamingBytes /\ n <= unread /\ done \in Nat
      /\ (n = remainingStreamingBytes \/ n = unread)
  BY <1>2, <1>a, <1>b DEF Shorter
<1> HIDE DEF n, done, h, b, c, start, end
<1>h. BegunSteps(nth, done, n, c) /\ BegunSteps(nth, b, 0, c)
  <2>1. 0 \in Nat
    OBVIOUS
  <2> QED
    BY <1>4, <1>a, <1>b, <1>c, <2>1, BegunIs, Zenon
<1>7. ParserTypes'
  <2>1. nth' \in 1..Len(requests) + 1 /\ unread' \in 0..All /\ remainingStreamingBytes' \in Nat
        /\ parser' \in {"idle", "body", "fallback", "fence"}
    BY <1>2, <1>4, <1>5, <1>a, <1>b
  <2>2. events' \in Seq(CallSet)
    <3>1. Body(nth, done, n) \in Seq(CallSet) /\ LastData(nth) \in Seq(CallSet)
          /\ <<>> \in Seq(CallSet)
      BY <1>h, EmptySeq DEF BegunSteps
    <3>2. \A x, y \in Seq(CallSet) : x \o y \in Seq(CallSet)
      BY Joined
    <3> QED
      BY <1>6, <1>c, <3>1, <3>2, Zenon
  <2> QED
    BY <1>1, <2>1, <2>2 DEF ParserInv, ParserTypes
<1>10. ~cut => events \o Body(nth, done, n) = c \o Begun(nth, done + n)
  BY <1>c, <1>h DEF BegunSteps
<1>8. CASE n = remainingStreamingBytes
  <2>1. /\ nth' = nth + 1 /\ nth' - 1 = nth /\ remainingStreamingBytes' = 0
        /\ parser' \in {"idle", "fence"} /\ (parser' = "idle" => unread' = 0)
    BY <1>1, <1>2, <1>4, <1>5, <1>8, <1>a
  <2>2. PlacesInv'
    BY <1>1, <1>2, <2>1 DEF PlacesInv
  <2>3. ReadInv'
    <3>1. received = end + 0 + unread'
      BY <1>2, <1>3, <1>4, <1>5, <1>8, <1>a, <1>b
    <3> QED
      BY <1>1, <1>2, <1>3, <1>g, <2>1, <3>1 DEF ReadInv, end
  <2>4. GivenInv'
    <3> SUFFICES ASSUME ~cut PROVE events' = Calls(requests)[nth] \o <<>>
      BY <1>1, <1>g, <2>1 DEF GivenInv
    <3>1. done + n = b
      BY <1>2, <1>4, <1>8, <1>a, <1>b, <1>d
    <3>2. events' = c \o Begun(nth, b) \o LastData(nth)
      BY <1>6, <1>8, <1>10, <3>1
    <3>3. events' = Calls(requests)[nth]
      BY <1>c, <1>e, <1>h, <3>2 DEF BegunSteps
    <3>4. events' \in Seq(CallSet)
      BY <1>7 DEF ParserTypes
    <3> QED
      BY <3>3, <3>4, ConcatEmptySeq
  <2> QED
    BY <1>7, <2>2, <2>3, <2>4 DEF ParserInv
<1>9. CASE n # remainingStreamingBytes
  <2>1. /\ n = unread /\ nth' = nth /\ remainingStreamingBytes' > 0 /\ unread' = 0
        /\ parser' = "idle" /\ remainingStreamingBytes' <= b
        /\ remainingStreamingBytes' = remainingStreamingBytes - unread
    BY <1>2, <1>4, <1>5, <1>9, <1>a, <1>b
  <2>2. Current' = Current
    BY <1>1, <2>1 DEF Current
  <2>3. PlacesInv'
    BY <1>1, <1>2, <2>1, <2>2 DEF PlacesInv, b
  <2>4. ReadInv'
    <3>1. received = start + (h + b - remainingStreamingBytes') + unread'
      BY <1>2, <1>3, <2>1, <1>a, <1>b
    <3> QED
      BY <1>1, <1>2, <1>3, <1>g, <2>1, <2>2, <3>1 DEF ReadInv, start
  <2>5. GivenInv'
    <3> SUFFICES ASSUME ~cut PROVE events' = c \o Begun(nth, b - remainingStreamingBytes')
      BY <1>1, <1>g, <2>1, <2>2 DEF GivenInv, c
    <3>1. done + n = b - remainingStreamingBytes' /\ done + n \in Nat
      BY <1>2, <1>4, <2>1, <1>a, <1>b, <1>d
    <3>2. events' = c \o Begun(nth, done + n) \o <<>>
      BY <1>6, <1>9, <1>10
    <3>3. c \o Begun(nth, done + n) \in Seq(CallSet)
      BY <1>a, <1>c, <3>1, BegunIs DEF BegunSteps
    <3> QED
      BY <3>1, <3>2, <3>3, ConcatEmptySeq
  <2> QED
    BY <1>7, <2>3, <2>4, <2>5 DEF ParserInv
<1> QED
  BY <1>8, <1>9

(* A head that was kept and is now whole.                                    *)
LEMMA CompleteHeadStep ==
  ASSUME ParserInv, CompleteHead
  PROVE  ParserInv'
<1> DEFINE h == Current.head  b == Current.body  c == Calls(requests)[nth - 1]
           start == Ends(requests)[nth - 1]  end == Ends(requests)[nth]
           n == Shorter(MAX_FALLBACK_SIZE - fallback, unread)
<1>1. requests' = requests /\ All' = All /\ received' = received /\ refused' = refused
  BY DEF CompleteHead, All
<1>2. fallback > 0 /\ unread > 0 /\ ~refused /\ ~(remainingStreamingBytes > 0)
  BY DEF CompleteHead, ParserInv, PlacesInv, ReadInv
<1>3. nth <= Len(requests)
  BY <1>2, ThereIsMore
<1>a. /\ Len(requests) \in Nat /\ nth \in Nat /\ nth - 1 \in 0..Len(requests)
      /\ unread \in Nat /\ fallback \in Nat /\ received \in Nat
      /\ remainingStreamingBytes \in Nat /\ All \in Nat /\ start \in Nat
      /\ MAX_FALLBACK_SIZE \in Nat \ {0} /\ unread <= All
  BY NumbersAre
<1>b. /\ h \in Nat /\ h > 0 /\ b \in Nat /\ end = start + h + b /\ end \in Nat
      /\ nth \in 0..Len(requests) /\ nth + 1 \in 1..Len(requests) + 1
      /\ (~Current.sized => b = 0)
  BY <1>3, CurrentIs
<1>c. c \in Seq(CallSet) /\ Calls(requests)[nth] = c \o CallsOf(nth, Current)
      /\ events \in Seq(CallSet) /\ (~cut => events = c \o <<>>)
  BY <1>2, <1>3, CallsAre DEF ParserInv, ParserTypes, GivenInv, Given
<1>4. received = start + fallback + unread /\ fallback < MAX_FALLBACK_SIZE /\ fallback < h
  BY <1>2 DEF ParserInv, ReadInv, Taken
<1>5. /\ fallback' = 0 /\ unread' = unread - (h - fallback) /\ remainingStreamingBytes' = b
      /\ nth' = (IF b > 0 THEN nth ELSE nth + 1) /\ parser' = (IF b > 0 THEN "body" ELSE "fence")
      /\ cut' = (cut \/ (Current.sized /\ b = 0))
      /\ fallback + n >= h
  BY DEF CompleteHead
<1>6. events' = events \o <<<<nth, "request">>>>
                  \o IF Current.sized THEN <<>> ELSE LastData(nth)
  BY DEF CompleteHead
<1>7. n <= unread /\ n \in Nat
  BY <1>a, <1>4 DEF Shorter
<1>8. BegunSteps(nth, 0, b, c) /\ BegunSteps(nth, 0, b, events)
  <2>1. 0 \in Nat
    OBVIOUS
  <2> QED
    BY <1>a, <1>b, <1>c, <2>1, BegunIs, Zenon
<1>9. CallsOf(nth, Current) = Begun(nth, b) \o LastData(nth)
  BY DEF CallsOf, Begun
<1>10. nth' = nth => Current' = Current
  BY <1>1 DEF Current
<1>11. (b > 0 => Taken' = h + b - b /\ Given' = Begun(nth, b - b))
       /\ (b = 0 => Taken' = 0 /\ Given' = <<>>)
  BY <1>1, <1>5, <1>10, <1>b DEF Taken, Given
<1>12. b > 0 => Current'.body = b
  BY <1>5, <1>10
<1> HIDE DEF h, b, c, start, end, n
<1>13. unread' \in Nat /\ unread' <= unread
  BY <1>a, <1>b, <1>4, <1>5, <1>7
<1>14. b > 0 \/ b = 0
  BY <1>b
<1>15. ParserTypes'
  <2>1. nth' \in 1..Len(requests) + 1 /\ unread' \in 0..All /\ remainingStreamingBytes' \in Nat
        /\ parser' \in {"idle", "body", "fallback", "fence"} /\ fallback' \in 0..MAX_FALLBACK_SIZE
    BY <1>3, <1>5, <1>13, <1>a, <1>b
  <2>2. events' \in Seq(CallSet)
    <3>1. events \o <<<<nth, "request">>>> = events \o Begun(nth, 0)
          /\ events \o Begun(nth, 0) \in Seq(CallSet)
          /\ events \o Begun(nth, 0) \o LastData(nth) \in Seq(CallSet)
      BY <1>8 DEF BegunSteps
    <3> QED
      BY <1>6, <3>1, ConcatEmptySeq
  <2>3. cut' \in BOOLEAN
    BY <1>5
  <2> QED
    BY <1>1, <2>1, <2>2, <2>3 DEF ParserInv, ParserTypes
<1>16. PlacesInv'
  BY <1>1, <1>3, <1>5, <1>12, <1>14, <1>b DEF PlacesInv
<1>17. ReadInv'
  <2>1. CASE b > 0
    <3>1. received = start + (h + b - b) + unread'
      BY <1>4, <1>5, <1>a, <1>b
    <3> QED
      BY <1>1, <1>2, <1>4, <1>5, <1>11, <1>a, <2>1, <3>1 DEF ReadInv, start
  <2>2. CASE b = 0
    <3>1. received = end + 0 + unread'
      BY <1>4, <1>5, <1>a, <1>b, <2>2
    <3>2. nth' - 1 = nth
      BY <1>5, <1>a, <2>2
    <3> QED
      BY <1>1, <1>2, <1>4, <1>5, <1>11, <1>a, <2>2, <3>1, <3>2 DEF ReadInv, end
  <2> QED
    BY <1>14, <2>1, <2>2
<1>18. GivenInv'
  <2> SUFFICES ASSUME ~cut'
               PROVE  events' = Calls(requests)[nth' - 1] \o Given'
    BY <1>1 DEF GivenInv
  <2>1. ~cut /\ (b = 0 => ~Current.sized) /\ events = c
    BY <1>5, <1>c, ConcatEmptySeq
  <2>2. CASE b > 0
    <3>1. Current.sized /\ nth' = nth /\ b - b = 0
      BY <1>5, <1>b, <2>2
    <3>2. events' = c \o Begun(nth, 0) \o <<>>
      BY <1>6, <1>8, <2>1, <3>1 DEF BegunSteps
    <3>3. c \o Begun(nth, 0) \in Seq(CallSet)
      BY <1>8 DEF BegunSteps
    <3> QED
      BY <1>11, <2>2, <3>1, <3>2, <3>3, ConcatEmptySeq DEF c
  <2>3. CASE b = 0
    <3>1. nth' - 1 = nth /\ Given' = <<>> /\ ~Current.sized
      BY <1>5, <1>11, <1>a, <2>1, <2>3
    <3>2. events' = c \o Begun(nth, 0) \o LastData(nth)
      BY <1>6, <1>8, <2>1, <3>1 DEF BegunSteps
    <3>3. events' = Calls(requests)[nth] /\ events' \in Seq(CallSet)
      BY <1>8, <1>9, <1>c, <2>3, <3>2 DEF BegunSteps
    <3> QED
      BY <3>1, <3>3, ConcatEmptySeq
  <2> QED
    BY <1>14, <2>2, <2>3
<1> QED
  BY <1>15, <1>16, <1>17, <1>18 DEF ParserInv

(* A request whose head is whole in what was read.                           *)
LEMMA ConsumeRequestStep ==
  ASSUME ParserInv, ConsumeRequest
  PROVE  ParserInv'
<1> DEFINE h == Current.head  b == Current.body  c == Calls(requests)[nth - 1]
           start == Ends(requests)[nth - 1]  end == Ends(requests)[nth]
           n == Shorter(Current.body, unread - Current.head)
<1>1. requests' = requests /\ All' = All /\ received' = received /\ refused' = refused
      /\ cut' = cut /\ fallback' = fallback /\ parser' = "fence" /\ parser = "fence"
  BY DEF ConsumeRequest, All
<1>2. fallback = 0 /\ unread > 0 /\ ~refused /\ unread >= h /\ remainingStreamingBytes = 0
  BY DEF ConsumeRequest, HeadWhole, ParserInv, PlacesInv, ReadInv
<1>3. nth <= Len(requests)
  BY <1>2, ThereIsMore
<1>a. /\ Len(requests) \in Nat /\ nth \in Nat /\ nth - 1 \in 0..Len(requests)
      /\ unread \in Nat /\ fallback \in Nat /\ received \in Nat
      /\ remainingStreamingBytes \in Nat /\ All \in Nat /\ start \in Nat
      /\ MAX_FALLBACK_SIZE \in Nat \ {0} /\ unread <= All
  BY NumbersAre
<1>b. /\ h \in Nat /\ h > 0 /\ b \in Nat /\ end = start + h + b /\ end \in Nat
      /\ nth \in 0..Len(requests) /\ nth + 1 \in 1..Len(requests) + 1
  BY <1>3, CurrentIs
<1>c. c \in Seq(CallSet) /\ Calls(requests)[nth] = c \o CallsOf(nth, Current)
      /\ events \in Seq(CallSet) /\ (~cut => events = c \o <<>>)
  BY <1>2, <1>3, CallsAre DEF ParserInv, ParserTypes, GivenInv, Given
<1>4. received = start + 0 + unread /\ 0 < MAX_FALLBACK_SIZE
  BY <1>2 DEF ParserInv, ReadInv, Taken
<1>5. /\ unread' = unread - h - n /\ remainingStreamingBytes' = b - n
      /\ nth' = (IF n = b THEN nth + 1 ELSE nth)
  BY DEF ConsumeRequest
<1>6. events' = events \o <<<<nth, "request">>>> \o Body(nth, 0, n)
                  \o IF n = b THEN LastData(nth) ELSE <<>>
  BY DEF ConsumeRequest
<1>7. n \in Nat /\ n <= b /\ n <= unread - h /\ (n = b \/ n = unread - h)
  BY <1>2, <1>a, <1>b, SMTT(40) DEF Shorter
<1> HIDE DEF n
<1>8. BegunSteps(nth, n, 0, events)
  <2>1. 0 \in Nat
    OBVIOUS
  <2> QED
    BY <1>7, <1>a, <1>b, <1>c, <2>1, BegunIs, Zenon
<1>9. CallsOf(nth, Current) = Begun(nth, b) \o LastData(nth)
  BY DEF CallsOf, Begun
<1>10. nth' = nth => Current' = Current
  BY <1>1 DEF Current
<1>11. (n # b => /\ Taken' = h + b - remainingStreamingBytes'
                 /\ Given' = Begun(nth, b - remainingStreamingBytes'))
       /\ (n = b => Taken' = 0 /\ Given' = <<>>)
  <2>1. (n # b => remainingStreamingBytes' > 0) /\ (n = b => ~(remainingStreamingBytes' > 0))
    BY <1>5, <1>7, <1>b
  <2> QED
    BY <1>1, <1>2, <1>5, <1>10, <2>1 DEF Taken, Given
<1>12. n # b => Current'.body = b
  BY <1>5, <1>10
<1> HIDE DEF h, b, c, start, end
<1>13. unread' \in Nat /\ unread' <= unread /\ remainingStreamingBytes' \in Nat
       /\ remainingStreamingBytes' <= b /\ (n # b => unread' = 0)
       /\ (n = b => remainingStreamingBytes' = 0)
       /\ (n # b => remainingStreamingBytes' = b - n /\ b - remainingStreamingBytes' = n)
  BY <1>2, <1>5, <1>7, <1>a, <1>b
<1>14. /\ events \o <<<<nth, "request">>>> \o Body(nth, 0, n) = events \o Begun(nth, n)
       /\ events \o Begun(nth, n) \in Seq(CallSet)
       /\ events \o Begun(nth, n) \o LastData(nth) \in Seq(CallSet)
       /\ events \o Begun(nth, n) \o LastData(nth) = events \o (Begun(nth, n) \o LastData(nth))
  BY <1>8 DEF BegunSteps
<1>15. events' \in Seq(CallSet)
       /\ (n # b => events' = events \o Begun(nth, n))
       /\ (n = b => events' = events \o (Begun(nth, n) \o LastData(nth)))
  BY <1>6, <1>14, ConcatEmptySeq
<1>16. ParserTypes'
  <2>1. nth' \in 1..Len(requests) + 1 /\ unread' \in 0..All
    BY <1>3, <1>5, <1>13, <1>a, <1>b
  <2> QED
    BY <1>1, <1>13, <1>15, <2>1 DEF ParserInv, ParserTypes
<1>17. PlacesInv'
  BY <1>1, <1>2, <1>3, <1>5, <1>12, <1>13, <1>b DEF PlacesInv
<1>18. ReadInv'
  <2>1. CASE n # b
    <3>1. received = start + (h + b - remainingStreamingBytes') + unread'
      BY <1>4, <1>5, <1>7, <1>13, <1>a, <1>b, <2>1
    <3> QED
      BY <1>1, <1>2, <1>4, <1>5, <1>11, <2>1, <3>1 DEF ReadInv, start
  <2>2. CASE n = b
    <3>1. received = end + 0 + unread'
      BY <1>4, <1>5, <1>a, <1>b, <2>2
    <3>2. nth' - 1 = nth
      BY <1>5, <1>a, <2>2
    <3> QED
      BY <1>1, <1>2, <1>4, <1>11, <2>2, <3>1, <3>2 DEF ReadInv, end
  <2> QED
    BY <2>1, <2>2
<1>19. GivenInv'
  <2> SUFFICES ASSUME ~cut
               PROVE  events' = Calls(requests)[nth' - 1] \o Given'
    BY <1>1 DEF GivenInv
  <2>1. events = c
    BY <1>c, ConcatEmptySeq
  <2>2. CASE n # b
    <3>1. nth' = nth /\ Given' = Begun(nth, n)
      BY <1>5, <1>11, <1>13, <2>2
    <3> QED
      BY <1>15, <2>1, <2>2, <3>1 DEF c
  <2>3. CASE n = b
    <3>1. nth' - 1 = nth /\ Given' = <<>>
      BY <1>5, <1>11, <1>a, <2>3
    <3>2. events' = Calls(requests)[nth]
      BY <1>9, <1>15, <1>c, <2>1, <2>3
    <3> QED
      BY <1>15, <3>1, <3>2, ConcatEmptySeq
  <2> QED
    BY <2>2, <2>3
<1> QED
  BY <1>16, <1>17, <1>18, <1>19 DEF ParserInv

(* A head that is kept, or refused because it fills the fallback buffer.     *)
LEMMA HeadStillCutStep ==
  ASSUME ParserInv, HeadStillCut
  PROVE  ParserInv'
<1> DEFINE h == Current.head  start == Ends(requests)[nth - 1]
           n == Shorter(MAX_FALLBACK_SIZE - fallback, unread)
<1>1. requests' = requests /\ All' = All /\ received' = received /\ cut' = cut /\ nth' = nth
      /\ events' = events /\ remainingStreamingBytes' = remainingStreamingBytes
      /\ parser' = "idle" /\ unread' = 0 /\ Current' = Current
  BY DEF HeadStillCut, All, Current
<1>2. fallback > 0 /\ unread > 0 /\ ~refused /\ ~(remainingStreamingBytes > 0)
  BY DEF HeadStillCut, ParserInv, PlacesInv, ReadInv
<1>3. nth <= Len(requests)
  BY <1>2, ThereIsMore
<1>a. /\ unread \in Nat /\ fallback \in Nat /\ received \in Nat /\ start \in Nat /\ All \in Nat
      /\ MAX_FALLBACK_SIZE \in Nat \ {0}
  BY NumbersAre
<1>b. h \in Nat
  BY <1>3, CurrentIs
<1>4. received = start + fallback + unread /\ fallback < MAX_FALLBACK_SIZE
  BY <1>2 DEF ParserInv, ReadInv, Taken
<1>5. fallback' = fallback + n /\ refused' = (fallback' = MAX_FALLBACK_SIZE) /\ fallback + n < h
  BY DEF HeadStillCut
<1>6. n \in Nat /\ (n = unread \/ n = MAX_FALLBACK_SIZE - fallback)
      /\ n <= MAX_FALLBACK_SIZE - fallback
  BY <1>4, <1>a DEF Shorter
<1>7. Taken' = fallback' /\ Given' = Given
  BY <1>1, <1>2 DEF Taken, Given
<1> HIDE DEF n, h, start
<1>8. fallback' \in 0..MAX_FALLBACK_SIZE /\ refused' \in BOOLEAN
      /\ (refused' => h > MAX_FALLBACK_SIZE)
      /\ (~refused' => received = start + fallback' + 0 /\ fallback' < MAX_FALLBACK_SIZE)
      /\ fallback' < h
  <2>1. /\ fallback' \in Nat /\ fallback' <= MAX_FALLBACK_SIZE /\ fallback' < h
        /\ fallback' = MAX_FALLBACK_SIZE => h > MAX_FALLBACK_SIZE
        /\ fallback' # MAX_FALLBACK_SIZE =>
             received = start + fallback' + 0 /\ fallback' < MAX_FALLBACK_SIZE
    <3>1. fallback' = fallback + n
      BY <1>5
    <3>2. fallback + n < h
      BY <1>5
    <3> QED
      BY <1>4, <1>6, <1>a, <1>b, <3>1, <3>2
  <2>2. fallback' \in 0..MAX_FALLBACK_SIZE
    BY <1>a, <2>1
  <2>3. refused' = (fallback' = MAX_FALLBACK_SIZE)
    BY <1>5
  <2> QED
    BY <2>1, <2>2, <2>3, Zenon
<1>9. ParserTypes'
  BY <1>1, <1>8, <1>a DEF ParserInv, ParserTypes
<1>10. PlacesInv'
  BY <1>1, <1>2 DEF PlacesInv
<1>11. ReadInv'
  BY <1>1, <1>3, <1>7, <1>8 DEF ReadInv, h, start
<1>12. GivenInv'
  BY <1>1, <1>7 DEF GivenInv, ParserInv
<1> QED
  BY <1>9, <1>10, <1>11, <1>12 DEF ParserInv

LEMMA KeepRestStep ==
  ASSUME ParserInv, KeepRest
  PROVE  ParserInv'
<1> DEFINE h == Current.head  start == Ends(requests)[nth - 1]
<1>1. requests' = requests /\ All' = All /\ received' = received /\ cut' = cut /\ nth' = nth
      /\ events' = events /\ remainingStreamingBytes' = remainingStreamingBytes
      /\ parser' = "idle" /\ unread' = 0 /\ Current' = Current
  BY DEF KeepRest, All, Current
<1>2. fallback = 0 /\ ~refused /\ (remainingStreamingBytes = 0 \/ unread = 0)
      /\ ~(unread > 0 /\ unread >= h)
  BY DEF KeepRest, HeadWhole, ParserInv, PlacesInv, ReadInv
<1>3. unread > 0 => nth <= Len(requests)
  BY <1>2, ThereIsMore
<1>a. /\ unread \in Nat /\ fallback \in Nat /\ received \in Nat /\ start \in Nat /\ All \in Nat
      /\ MAX_FALLBACK_SIZE \in Nat \ {0} /\ remainingStreamingBytes \in Nat
  BY NumbersAre
<1>b. unread > 0 => h \in Nat /\ unread < h
  <2>1. unread > 0 => h \in Nat
    BY <1>3, CurrentIs
  <2> QED
    BY <1>2, <1>a, <2>1
<1>4. received = start + Taken + unread
  BY <1>2 DEF ParserInv, ReadInv
<1>5. refused' = (unread >= MAX_FALLBACK_SIZE)
      /\ fallback' = (IF refused' THEN 0 ELSE 0 + unread)
  BY <1>2 DEF KeepRest
<1>c. Taken \in Nat
  BY TakenIs
<1>6. Given' = Given
  BY <1>1 DEF Given
<1>7. Taken' = Taken \/ (Taken = 0 /\ Taken' = fallback')
  BY <1>1, <1>2 DEF Taken
<1>8. remainingStreamingBytes > 0 => Taken' = Taken /\ unread = 0 /\ fallback' = 0
  BY <1>1, <1>2, <1>5, <1>a DEF Taken
<1>9. ~(remainingStreamingBytes > 0) => Taken' = fallback' /\ Taken = 0
  BY <1>1, <1>2 DEF Taken
<1> HIDE DEF h, start
<1>10. refused' \in BOOLEAN /\ fallback' \in 0..MAX_FALLBACK_SIZE
       /\ (refused' => unread > 0 /\ h > MAX_FALLBACK_SIZE)
       /\ (~refused' => fallback' < MAX_FALLBACK_SIZE /\ (fallback' > 0 => fallback' < h)
                        /\ fallback' = unread)
  <2>1. refused' = (unread >= MAX_FALLBACK_SIZE)
    BY <1>5
  <2>2. CASE unread >= MAX_FALLBACK_SIZE
    <3>1. unread > 0 /\ h > MAX_FALLBACK_SIZE /\ 0 \in 0..MAX_FALLBACK_SIZE
      BY <1>a, <1>b, <2>2
    <3> QED
      BY <1>5, <2>2, <3>1, Zenon
  <2>3. CASE ~(unread >= MAX_FALLBACK_SIZE)
    <3>0. ~refused'
      BY <2>1, <2>3, Zenon
    <3>1. fallback' = unread
      BY <1>5, <1>a, <3>0
    <3>2. unread < MAX_FALLBACK_SIZE /\ (unread > 0 => unread < h) /\ unread \in 0..MAX_FALLBACK_SIZE
      BY <1>a, <1>b, <2>3
    <3> QED
      <4>1. refused' \in BOOLEAN /\ ~refused'
        BY <2>1, <3>0
      <4>2. fallback' \in 0..MAX_FALLBACK_SIZE /\ fallback' < MAX_FALLBACK_SIZE
            /\ (fallback' > 0 => fallback' < h)
        BY <3>1, <3>2
      <4> QED
        BY <3>1, <4>1, <4>2, Zenon
  <2> QED
    BY <2>2, <2>3
<1>11. ~refused' => received = start + Taken' + 0
  BY <1>4, <1>8, <1>9, <1>10, <1>a, <1>c
<1>12. ParserTypes'
  BY <1>1, <1>10, <1>a DEF ParserInv, ParserTypes
<1>13. PlacesInv'
  <2>1. remainingStreamingBytes > 0 => nth <= Len(requests) /\ remainingStreamingBytes <= Current.body
    BY DEF ParserInv, PlacesInv
  <2> QED
    BY <1>1, <1>8, <2>1 DEF PlacesInv
<1>14. ReadInv'
  BY <1>1, <1>3, <1>10, <1>11 DEF ReadInv, h, start
<1>15. GivenInv'
  BY <1>1, <1>6 DEF GivenInv, ParserInv
<1> QED
  BY <1>12, <1>13, <1>14, <1>15 DEF ParserInv

LEMMA ParserStep == ParserInv /\ [HttpParserNext]_parserVars => ParserInv'
<1> SUFFICES ASSUME ParserInv, [HttpParserNext]_parserVars PROVE ParserInv'
  OBVIOUS
<1>1. CASE \E k \in 1..All - received : Consume(k)
  BY <1>1, ConsumeStep
<1>2. CASE StreamBody
  BY <1>2, StreamBodyStep
<1>3. CASE CompleteHead
  BY <1>3, CompleteHeadStep
<1>4. CASE HeadStillCut
  BY <1>4, HeadStillCutStep
<1>5. CASE ConsumeRequest
  BY <1>5, ConsumeRequestStep
<1>6. CASE KeepRest
  BY <1>6, KeepRestStep
<1>7. CASE UNCHANGED parserVars
  BY <1>7 DEF parserVars, ParserInv, ParserTypes, PlacesInv, ReadInv, GivenInv, Taken, Given,
              Current, All
<1> QED
  BY <1>1, <1>2, <1>3, <1>4, <1>5, <1>6, <1>7 DEF HttpParserNext, ParserEnd

LEMMA ParserAlways == HttpParserSpec => []ParserInv
<1> QED
  BY ParserInit, ParserStep, PTL DEF HttpParserSpec

(* What was passed on is where the calls for the whole stream begin.         *)
LEMMA GivenFirst ==
  ASSUME ParserInv, ~cut
  PROVE  IsPrefix(events, AtOnce)
<1>a. /\ requests \in Streams /\ Len(requests) \in Nat /\ nth \in Nat /\ nth - 1 \in 0..Len(requests)
      /\ remainingStreamingBytes \in Nat
  BY NumbersAre
<1>1. events = Calls(requests)[nth - 1] \o Given /\ events \in Seq(CallSet)
      /\ Calls(requests)[nth - 1] \in Seq(CallSet)
  BY CallsAre DEF ParserInv, GivenInv, ParserTypes
<1>2. \A x, y \in Seq(CallSet) : x \o y \in Seq(CallSet) /\ IsPrefix(x, x \o y)
  BY Joined
<1>3. \A x, y, z \in Seq(CallSet) : (x \o y) \o z = x \o (y \o z)
  BY Regrouped
<1>4. CASE nth <= Len(requests)
  <2> DEFINE b == Current.body  c == Calls(requests)[nth - 1]
             x == Current.body - remainingStreamingBytes
  <2>1. Calls(requests)[nth] = c \o (Begun(nth, b) \o LastData(nth)) /\ b \in Nat
    BY <1>4, CallsAre, CurrentIs DEF CallsOf, Begun
  <2>2. PICK t \in Seq(CallSet) : AtOnce = Calls(requests)[nth] \o t
    <3>1. nth \in 0..Len(requests) /\ Len(requests) \in nth..Len(requests)
      BY <1>4, <1>a
    <3> QED
      BY <1>a, <3>1, CallsGrow DEF AtOnce
  <2>3. \E w \in Seq(CallSet) : Calls(requests)[nth] = events \o w
    <3>1. CASE remainingStreamingBytes > 0
      <4>1. x \in Nat /\ x + remainingStreamingBytes = b
        <5>1. remainingStreamingBytes <= b
          BY <3>1 DEF ParserInv, PlacesInv
        <5> QED
          BY <1>a, <2>1, <5>1
      <4>2. events = c \o Begun(nth, x)
        BY <1>1, <3>1 DEF Given
      <4>3. BegunSteps(nth, x, remainingStreamingBytes, c) /\ BegunSteps(nth, b, 0, c)
        <5>1. 0 \in Nat
          OBVIOUS
        <5> HIDE DEF x, b, c
        <5> QED
          BY <1>a, <1>1, <2>1, <4>1, <5>1, BegunIs, Zenon DEF c
      <4> DEFINE w == Body(nth, x, remainingStreamingBytes) \o LastData(nth)
      <4> HIDE DEF x, b, c
      <4>4. /\ Calls(requests)[nth] = c \o Begun(nth, b) \o LastData(nth)
            /\ events \o Body(nth, x, remainingStreamingBytes) = c \o Begun(nth, b)
            /\ Body(nth, x, remainingStreamingBytes) \in Seq(CallSet)
            /\ LastData(nth) \in Seq(CallSet)
        BY <2>1, <4>1, <4>2, <4>3 DEF BegunSteps
      <4>5. events \o Body(nth, x, remainingStreamingBytes) \o LastData(nth) = events \o w
        BY <1>1, <1>3, <4>4, Zenon
      <4>6. w \in Seq(CallSet)
        BY <1>2, <4>4, Zenon
      <4>7. Calls(requests)[nth] = events \o w
        BY <4>4, <4>5
      <4> HIDE DEF w
      <4> QED
        BY <4>6, <4>7
    <3>2. CASE ~(remainingStreamingBytes > 0)
      <4>1. events = c
        BY <1>1, <3>2, ConcatEmptySeq DEF Given
      <4>2. BegunSteps(nth, b, 0, c)
        <5>1. 0 \in Nat
          OBVIOUS
        <5> HIDE DEF b, c
        <5> QED
          BY <1>a, <1>1, <2>1, <5>1, BegunIs, Zenon DEF c
      <4>3. Begun(nth, b) \in Seq(CallSet) /\ LastData(nth) \in Seq(CallSet)
        BY <4>2 DEF BegunSteps
      <4>4. Begun(nth, b) \o LastData(nth) \in Seq(CallSet)
        BY <1>2, <4>3, Zenon
      <4> QED
        BY <2>1, <4>1, <4>4
    <3> QED
      BY <3>1, <3>2
  <2>4. PICK w \in Seq(CallSet) : Calls(requests)[nth] = events \o w
    BY <2>3
  <2>5. AtOnce = events \o (w \o t) /\ w \o t \in Seq(CallSet)
    <3>1. (events \o w) \o t = events \o (w \o t)
      BY <1>1, <1>3, <2>2, <2>4, Zenon
    <3>2. w \o t \in Seq(CallSet)
      BY <1>2, <2>2, <2>4, Zenon
    <3> QED
      BY <2>2, <2>4, <3>1, <3>2
  <2> QED
    BY <1>1, <1>2, <2>5
<1>5. CASE ~(nth <= Len(requests))
  <2>1. nth - 1 = Len(requests) /\ Given = <<>>
    BY <1>5, <1>a DEF ParserInv, PlacesInv, Given
  <2>2. AtOnce = events
    BY <1>1, <2>1, ConcatEmptySeq DEF AtOnce
  <2>3. events \o <<>> = events /\ <<>> \in Seq(CallSet)
    BY <1>1, ConcatEmptySeq, EmptySeq
  <2> QED
    BY <1>1, <1>2, <2>2, <2>3
<1> QED
  BY <1>4, <1>5

LEMMA AllGiven ==
  ASSUME ParserInv, ~cut, parser = "idle", received = All, ~refused
  PROVE  events = AtOnce
<1>a. /\ Len(requests) \in Nat /\ nth \in Nat /\ nth - 1 \in 0..Len(requests)
      /\ remainingStreamingBytes \in Nat /\ fallback \in Nat /\ received \in Nat
      /\ Ends(requests)[nth - 1] \in Nat /\ All \in Nat
  BY NumbersAre
<1>1. unread = 0 /\ received = Ends(requests)[nth - 1] + Taken + unread
      /\ (fallback > 0 => fallback < Current.head)
  BY DEF ParserInv, PlacesInv, ReadInv
<1>2. ~(nth <= Len(requests))
  <2> SUFFICES ASSUME nth <= Len(requests) PROVE FALSE
    OBVIOUS
  <2> DEFINE h == Current.head  b == Current.body  start == Ends(requests)[nth - 1]
             end == Ends(requests)[nth]
  <2>1. /\ h \in Nat /\ h > 0 /\ b \in Nat /\ end = start + h + b /\ end <= All /\ end \in Nat
        /\ start \in Nat
    BY <1>a, CurrentIs
  <2>2. Taken \in Nat /\ Taken < h + b
    <3>1. CASE remainingStreamingBytes > 0
      <4>1. Taken = h + b - remainingStreamingBytes /\ remainingStreamingBytes <= b
        BY <3>1 DEF Taken, ParserInv, PlacesInv
      <4> HIDE DEF h, b
      <4> QED
        BY <1>a, <2>1, <3>1, <4>1
    <3>2. CASE ~(remainingStreamingBytes > 0)
      <4>1. Taken = fallback /\ (fallback > 0 => fallback < h)
        BY <1>1, <3>2 DEF Taken
      <4> HIDE DEF h, b
      <4> QED
        BY <1>a, <2>1, <4>1
    <3> QED
      BY <3>1, <3>2
  <2>3. All = start + Taken + 0
    BY <1>1
  <2> HIDE DEF h, b, start, end
  <2> QED
    BY <1>a, <2>1, <2>2, <2>3
<1>3. nth - 1 = Len(requests) /\ Given = <<>>
  BY <1>2, <1>a DEF ParserInv, PlacesInv, Given
<1>4. events = Calls(requests)[nth - 1] \o Given /\ events \in Seq(CallSet)
      /\ Calls(requests)[nth - 1] \in Seq(CallSet)
  BY CallsAre DEF ParserInv, GivenInv, ParserTypes
<1> QED
  BY <1>3, <1>4, ConcatEmptySeq DEF AtOnce

(* However the reads cut the stream, the handlers are called for what it     *)
(* holds, once and in order (HttpParser.h:176-329).                          *)
THEOREM RequestsComeAsSent == HttpParserSpec => []RequestsAsSent
<1>1. ParserInv => RequestsAsSent
  <2> SUFFICES ASSUME ParserInv, ~cut
               PROVE  /\ IsPrefix(events, AtOnce)
                      /\ parser = "idle" /\ received = All /\ ~refused => events = AtOnce
                      /\ refused => Current.head > MAX_FALLBACK_SIZE
    BY DEF RequestsAsSent
  <2>1. IsPrefix(events, AtOnce)
    BY GivenFirst
  <2>2. parser = "idle" /\ received = All /\ ~refused => events = AtOnce
    BY AllGiven
  <2>3. refused => Current.head > MAX_FALLBACK_SIZE
    BY DEF ParserInv, ReadInv
  <2> QED
    BY <2>1, <2>2, <2>3
<1> QED
  BY <1>1, ParserAlways, PTL

(* The variables of the parser keep their types (HttpParser.h:176-329).      *)
THEOREM HttpParserTypes == HttpParserSpec => []HttpParserTypeOK
<1>1. ParserInv => HttpParserTypeOK
  <2> SUFFICES ASSUME ParserInv PROVE HttpParserTypeOK
    OBVIOUS
  <2>1. nth \in 1..MaxPipelined + 1
    <3>1. Len(requests) \in Nat /\ Len(requests) <= MaxPipelined /\ nth \in 1..Len(requests) + 1
      BY DEF ParserInv, ParserTypes, Streams
    <3> QED
      BY <3>1, HttpParserAssumption
  <2> QED
    BY <2>1 DEF ParserInv, ParserTypes, PlacesInv, HttpParserTypeOK
<1> QED
  BY <1>1, ParserAlways, PTL

-----------------------------------------------------------------------------
(* TopicTreeDraft.h: least and greatest, and a batch in the order of ids.    *)

Sorted(b, M) ==
  /\ b \in [1..Cardinality(M) -> M] /\ \A i, j \in DOMAIN b : i < j => b[i] < b[j]

LEMMA SmallFinite ==
  ASSUME NEW n \in Nat, NEW M \in SUBSET (1..n)
  PROVE  IsFiniteSet(M)
<1>1. \A s \in M : s <= n
  OBVIOUS
<1>2. M \in SUBSET Nat
  OBVIOUS
<1> QED
  BY <1>1, <1>2, FS_BoundedSetOfNaturals

LEMMA SortedExists ==
  ASSUME NEW n \in Nat
  PROVE  \A M \in SUBSET (1..n) : \E b : Sorted(b, M)
<1> DEFINE Bad == {k \in Nat : \E M \in SUBSET (1..k) : ~\E b : Sorted(b, M)}
<1>1. Bad = {}
  <2>1. SUFFICES ASSUME NEW b \in Bad PROVE FALSE
    OBVIOUS
  <2>2. Bad \in SUBSET Nat
    OBVIOUS
  <2>3. PICK k \in Bad : \A j \in Bad : k <= j
    <3> HIDE DEF Bad
    <3> QED
      BY <2>2, LeastNat
  <2>4. PICK M \in SUBSET (1..k) : ~\E f : Sorted(f, M)
    BY <2>3
  <2>5. k \in Nat
    BY <2>3
  <2>6. IsFiniteSet(M)
    BY <2>5, SmallFinite
  <2>7. k # 0
    <3>1. SUFFICES ASSUME k = 0 PROVE FALSE
      OBVIOUS
    <3>2. M = {}
      BY <2>4, <3>1
    <3>3. 1..Cardinality(M) = {}
      BY <3>2, FS_EmptySet
    <3>4. [i \in {} |-> 0] \in [{} -> {}]
      OBVIOUS
    <3>5. Sorted([i \in {} |-> 0], M)
      BY <3>2, <3>3, <3>4 DEF Sorted
    <3> QED
      BY <2>4, <3>5
  <2>8. k - 1 \in Nat /\ k - 1 \notin Bad
    <3>1. k - 1 \in Nat
      BY <2>5, <2>7
    <3> HIDE DEF Bad
    <3> QED
      BY <2>3, <2>5, <3>1
  <2>9. \A T \in SUBSET (1..(k - 1)) : \E f : Sorted(f, T)
    BY <2>8
  <2>10. M \ {k} \in SUBSET (1..(k - 1))
    BY <2>4, <2>5
  <2>11. PICK f : Sorted(f, M \ {k})
    BY <2>9, <2>10
  <2>12. k \in M
    <3> SUFFICES ASSUME k \notin M PROVE FALSE
      OBVIOUS
    <3>1. M \ {k} = M
      OBVIOUS
    <3> QED
      BY <2>4, <2>11, <3>1
  <2> DEFINE c == Cardinality(M)
             g == [i \in 1..c |-> IF i = c THEN k ELSE f[i]]
  <2>13. c \in Nat /\ Cardinality(M \ {k}) = c - 1 /\ c - 1 \in Nat
    <3>1. c \in Nat /\ IsFiniteSet(M \ {k}) /\ Cardinality(M \ {k}) = c - 1
      BY <2>6, <2>12, FS_RemoveElement, FS_CardinalityType
    <3>2. Cardinality(M \ {k}) \in Nat
      BY <3>1, FS_CardinalityType
    <3> QED
      BY <3>1, <3>2
  <2>14. f \in [1..(c - 1) -> M \ {k}] /\ \A i, j \in 1..(c - 1) : i < j => f[i] < f[j]
    BY <2>11, <2>13 DEF Sorted
  <2> HIDE DEF c
  <2>15. g \in [1..c -> M]
    BY <2>12, <2>13, <2>14
  <2>16. ASSUME NEW i \in 1..c, NEW j \in 1..c, i < j PROVE g[i] < g[j]
    <3>1. i \in 1..(c - 1)
      BY <2>13, <2>16
    <3>2. g[i] = f[i] /\ f[i] \in M \ {k} /\ f[i] \in 1..(k - 1)
      <4>1. i # c /\ g[i] = f[i]
        BY <2>13, <2>16, <3>1
      <4>2. f[i] \in M \ {k}
        BY <2>14, <3>1
      <4> QED
        BY <2>10, <4>1, <4>2
    <3>3. CASE j = c
      BY <2>5, <3>2, <3>3
    <3>4. CASE j # c
      <4>1. j \in 1..(c - 1) /\ g[j] = f[j]
        BY <2>13, <3>4
      <4> QED
        BY <2>14, <2>16, <3>1, <3>2, <4>1
    <3> QED
      BY <3>3, <3>4
  <2>17. Sorted(g, M)
    BY <2>15, <2>16 DEF Sorted, c
  <2> QED
    BY <2>4, <2>17
<1> QED
  BY <1>1

LEMMA InOrderIs ==
  ASSUME NEW n \in Nat, NEW M \in SUBSET (1..n)
  PROVE  /\ InOrderOfIds(M) \in Seq(M) /\ ToSet(InOrderOfIds(M)) = M
         /\ \A i, j \in DOMAIN InOrderOfIds(M) : i < j => InOrderOfIds(M)[i] < InOrderOfIds(M)[j]
<1> DEFINE o == InOrderOfIds(M)
<1>1. Sorted(o, M)
  <2>1. PICK b : Sorted(b, M)
    BY SortedExists
  <2>2. b \in [1..Cardinality(M) -> M] /\ \A i, j \in DOMAIN b : i < j => b[i] < b[j]
    BY <2>1 DEF Sorted
  <2>3. /\ o \in [1..Cardinality(M) -> M]
        /\ \A i, j \in DOMAIN o : i < j => o[i] < o[j]
    BY <2>2 DEF InOrderOfIds
  <2> QED
    BY <2>3 DEF Sorted
<1> HIDE DEF o
<1>2. IsFiniteSet(M) /\ Cardinality(M) \in Nat
  <2>1. IsFiniteSet(M)
    BY SmallFinite
  <2> QED
    BY <2>1, FS_CardinalityType
<1> DEFINE c == Cardinality(M)
<1>3. o \in [1..c -> M] /\ \A i, j \in 1..c : i < j => o[i] < o[j]
  BY <1>1 DEF Sorted
<1>4. ASSUME NEW i \in 1..c, NEW j \in 1..c, o[i] = o[j] PROVE i = j
  <2>1. o[i] \in Nat /\ o[j] \in Nat /\ i \in Nat /\ j \in Nat
    <3>1. o[i] \in M /\ o[j] \in M
      BY <1>3
    <3>2. \A x \in M : x \in Nat
      OBVIOUS
    <3>3. \A x \in 1..c : x \in Nat
      BY <1>2
    <3> QED
      BY <3>1, <3>2, <3>3
  <2>2. ~(i < j) /\ ~(j < i)
    BY <1>3, <1>4, <2>1
  <2> QED
    BY <2>1, <2>2
<1>5. o \in Injection(1..c, M)
  BY <1>3, <1>4 DEF Injection, IsInjective
<1>6. IsFiniteSet(1..c) /\ Cardinality(1..c) = c
  BY <1>2, FS_Interval
<1>7. o \in Surjection(1..c, M)
  BY <1>2, <1>5, <1>6, FS_Injection
<1>8. ToSet(o) = M
  BY <1>3, <1>7 DEF Surjection, ToSet
<1>9. o \in Seq(M)
  BY <1>2, <1>3
<1> QED
  BY <1>3, <1>8, <1>9 DEF o

-----------------------------------------------------------------------------
(* The tree: the topics of its subscribers and what is above them.           *)

Path(p) == p \in Seq(ToSet(p)) /\ p # <<>>
PathTo(p) == {SubSeq(p, 1, n) : n \in 1..Len(p)}
Above(F) == UNION {PathTo(f) : f \in F}

LEMMA PathIs ==
  ASSUME NEW p, Path(p)
  PROVE  Len(p) \in Nat \ {0} /\ p \in PathTo(p) /\ IsPrefix(p, p) /\ DOMAIN p = 1..Len(p)
<1> DEFINE T == ToSet(p)
<1>1. p \in Seq(T) /\ p # <<>>
  BY DEF Path
<1> HIDE DEF T
<1>2. Len(p) \in Nat \ {0} /\ DOMAIN p = 1..Len(p)
  BY <1>1, EmptySeq
<1>3. SubSeq(p, 1, Len(p)) = p
  BY <1>1, <1>2, SubSeqProperties, SeqEqual, SMTT(40)
<1>4. p \in PathTo(p)
  <2>1. Len(p) \in 1..Len(p)
    BY <1>2
  <2> QED
    BY <1>3, <2>1 DEF PathTo
<1>5. IsPrefix(p, p)
  BY <1>2 DEF IsPrefix
<1> QED
  BY <1>2, <1>4, <1>5

LEMMA PrefixPath ==
  ASSUME NEW p, Path(p), NEW n \in 1..Len(p)
  PROVE  /\ Path(SubSeq(p, 1, n)) /\ Len(SubSeq(p, 1, n)) = n /\ IsPrefix(SubSeq(p, 1, n), p)
<1> DEFINE T == ToSet(p)
           q == SubSeq(p, 1, n)
<1>1. p \in Seq(T) /\ p # <<>>
  BY DEF Path
<1>2. Len(p) \in Nat
  BY PathIs
<1> HIDE DEF T
<1>3. q \in Seq(T) /\ Len(q) = n /\ \A i \in 1..n : q[i] = p[i]
  BY <1>1, <1>2, SubSeqProperties
<1> HIDE DEF q
<1>4. q \in Seq(ToSet(q)) /\ q # <<>>
  <2>1. \A i \in 1..Len(q) : q[i] \in ToSet(q)
    BY <1>3 DEF ToSet
  <2>2. n \in Nat /\ n # 0
    BY <1>2
  <2> QED
    BY <1>3, <2>1, <2>2
<1>5. SubSeq(q, 1, n) = q
  BY <1>2, <1>3, SubSeqProperties, SeqEqual, SMTT(40)
<1> QED
  BY <1>2, <1>3, <1>4, <1>5 DEF Path, IsPrefix, q

(* Above a topic are the topics it begins with.                              *)
LEMMA PrefixIs ==
  ASSUME NEW p, Path(p), NEW q, Path(q), IsPrefix(q, p)
  PROVE  q \in PathTo(p)
<1>1. Len(q) \in Nat \ {0} /\ Len(p) \in Nat
  BY PathIs
<1>2. Len(q) <= Len(p) /\ SubSeq(q, 1, Len(q)) = SubSeq(p, 1, Len(q))
  BY DEF IsPrefix
<1>3. SubSeq(q, 1, Len(q)) = q
  <2> DEFINE T == ToSet(q)
  <2>1. q \in Seq(T)
    BY DEF Path
  <2> HIDE DEF T
  <2> QED
    BY <1>1, <2>1, SubSeqProperties, SeqEqual
<1>4. Len(q) \in 1..Len(p)
  BY <1>1, <1>2
<1> QED
  BY <1>2, <1>3, <1>4 DEF PathTo

LEMMA NodesArePaths ==
  /\ \A p \in Nodes : Path(p)
  /\ \A f \in Filters : f \in Nodes
  /\ \A f \in Filters : PathTo(f) \subseteq Nodes
<1>1. \A f \in Filters : Path(f)
  BY TopicsAssumption DEF Path
<1>2. Nodes = UNION {PathTo(f) : f \in Filters}
  BY DEF Nodes, PathTo
<1>3. \A f \in Filters : f \in PathTo(f)
  BY <1>1, PathIs
<1>4. \A f \in Filters : \A q \in PathTo(f) : Path(q)
  BY <1>1, PrefixPath DEF PathTo
<1> QED
  BY <1>2, <1>3, <1>4

(* What is trimmed leaves the topics that have subscribers, and those above. *)
LEMMA TrimKeeps ==
  ASSUME NEW A \in [Nodes -> SUBSET Subscribers], NEW S \in [Nodes -> SUBSET Subscribers],
         tree \subseteq Nodes, tree = Above({p \in Nodes : A[p] # {}}),
         \A p \in Nodes : S[p] \subseteq A[p],
         NEW P \in SUBSET Nodes, \A p \in Nodes : S[p] # A[p] => p \in P
  PROVE  /\ tree \ Trimmed(S, P) = Above({p \in Nodes : S[p] # {}})
         /\ \A p \in Trimmed(S, P) : S[p] = {} /\ p \in Nodes
<1> DEFINE gone == Trimmed(S, P)
<1>1. \A q : q \in gone <=> /\ q \in tree /\ \E p \in P : IsPrefix(q, p)
                            /\ \A r \in tree : IsPrefix(q, r) => S[r] = {}
  BY DEF Trimmed
<1> HIDE DEF gone
<1>2. ASSUME NEW q \in tree, q \notin gone
      PROVE  q \in Above({p \in Nodes : S[p] # {}})
  <2>1. PICK p \in Nodes : A[p] # {} /\ q \in PathTo(p)
    BY DEF Above
  <2>2. Path(p) /\ IsPrefix(q, p) /\ Path(q)
    <3>1. Path(p)
      BY NodesArePaths
    <3> QED
      BY <2>1, <3>1, PrefixPath DEF PathTo
  <2>3. CASE S[p] # {}
    BY <2>1, <2>3 DEF Above
  <2>4. CASE S[p] = {}
    <3>1. p \in P
      BY <2>1, <2>4
    <3>2. PICK r \in tree : IsPrefix(q, r) /\ S[r] # {}
      BY <1>1, <1>2, <2>2, <3>1
    <3>3. r \in Nodes /\ q \in PathTo(r)
      BY <2>2, <3>2, NodesArePaths, PrefixIs
    <3> QED
      BY <3>2, <3>3 DEF Above
  <2> QED
    BY <2>3, <2>4
<1>3. ASSUME NEW q \in Above({p \in Nodes : S[p] # {}})
      PROVE  q \in tree /\ q \notin gone
  <2>1. PICK p \in Nodes : S[p] # {} /\ q \in PathTo(p)
    BY <1>3 DEF Above
  <2>2. A[p] # {} /\ Path(p)
    BY <2>1, NodesArePaths
  <2>3. q \in tree /\ p \in tree
    BY <2>1, <2>2, PathIs DEF Above
  <2>4. IsPrefix(q, p)
    BY <2>1, <2>2, PrefixPath DEF PathTo
  <2> QED
    BY <1>1, <2>1, <2>3, <2>4
<1>4. ASSUME NEW p \in gone PROVE S[p] = {} /\ p \in Nodes
  <2>1. p \in tree /\ p \in Nodes /\ IsPrefix(p, p)
    BY <1>1, <1>4, NodesArePaths, PathIs
  <2> QED
    BY <1>1, <1>4, <2>1
<1> QED
  BY <1>2, <1>3, <1>4 DEF gone

-----------------------------------------------------------------------------
(* The inductive invariant.                                                  *)

Subscribed(S) == {p \in Nodes : S[p] # {}}

TopicTypes ==
  /\ tree \subseteq Nodes /\ IsFiniteSet(tree)
  /\ subs \in [Nodes -> SUBSET Subscribers]
  /\ subscriptions \in [Subscribers -> [Nodes -> Nat]]
  /\ messageId \in 1..MaxMessages + 1
  /\ messages \in [Nodes -> SUBSET (1..messageId)]
  /\ toTrigger \subseteq Nodes /\ wildcards \subseteq Nodes
  /\ drain \in [Nodes -> SUBSET Subscribers]
  /\ min \in Subscribers \cup {0, UINTPTR_MAX}
  /\ got \in [Subscribers -> Seq(1..MaxMessages)]
  /\ due \in [Subscribers -> SUBSET Nat]

ListsInv ==
  /\ tree = Above(Subscribed(subs))
  /\ \A p \in Nodes : \A s \in subs[p] : subscriptions[s][p] > 0
  /\ triggered \subseteq tree /\ Cardinality(triggered) <= MaxTriggered
  /\ \A p \in Nodes : messages[p] # {} => p \in triggered

(* A message that is being published is kept at the topics triggered so far, *)
(* and no other is that new.  What a drain in the middle finds is noted.     *)
WalkInv ==
  /\ publishing # <<>> => messageId <= MaxMessages
  /\ publishing = <<>> => toTrigger = {} /\ \A p \in Nodes : messageId \notin messages[p]
  /\ min # 0 => \A p \in Nodes : messageId \in messages[p] => messageId \in split

(* Who is still to be served comes behind the next one.                      *)
DrainInv == \A p \in Nodes : \A s \in drain[p] : min # 0 /\ min <= s

(* What is kept is newer than all that was sent to those it may still go to, *)
(* or was sent in the middle of its publish.                                 *)
NotAfter(x, k, S) == x < k \/ (x = k /\ k \in S)
Older(s) ==
  \A i \in DOMAIN got[s] :
    /\ IF publishing = <<>> THEN got[s][i] < messageId ELSE NotAfter(got[s][i], messageId, split)
    /\ (min = 0 \/ min <= s => \A p \in Nodes : \A k \in messages[p] : NotAfter(got[s][i], k, split))
Rising(b, S) == \A i, j \in DOMAIN b : i < j => NotAfter(b[i], b[j], S)
SentInv == \A s \in Subscribers : Older(s) /\ Rising(got[s], split)

(* What is due was sent, or is kept where the next drain serves, or the one  *)
(* that runs still will, or its publish has still to come to such a topic.   *)
WaitsAt(s, p) == IF min = 0 THEN s \in subs[p] ELSE s \in drain[p]
ToCome(s, m) == m = messageId /\ \E p \in toTrigger : s \in subs[p]
DueInv ==
  \A s \in Subscribers : \A m \in due[s] :
    \/ m \in ToSet(got[s]) \/ \E p \in Nodes : m \in messages[p] /\ WaitsAt(s, p)
    \/ ToCome(s, m)

TopicsInv == TopicTypes /\ ListsInv /\ WalkInv /\ DrainInv /\ SentInv /\ DueInv
DefinedInv == undefined = "no" => TopicsInv

LEMMA LastSubscriber ==
  /\ UINTPTR_MAX \in Nat /\ UINTPTR_MAX > 0
  /\ \A s \in Subscribers : s \in Nat /\ s > 0 /\ s < UINTPTR_MAX
<1>1. Max(Subscribers) \in Nat /\ \A s \in Subscribers : s <= Max(Subscribers)
  BY TopicsAssumption, MaxIs
<1>2. \A s \in Subscribers : s \in Nat /\ s > 0
  BY TopicsAssumption
<1> DEFINE m == Max(Subscribers)
<1>3. UINTPTR_MAX = m + 1
  BY DEF UINTPTR_MAX
<1> HIDE DEF m
<1> QED
  BY <1>1, <1>2, <1>3 DEF m

LEMMA TopicsStart == TopicsInit => DefinedInv
<1> SUFFICES ASSUME TopicsInit PROVE TopicsInv
  BY DEF DefinedInv
<1> USE DEF TopicsInit
<1>0. MaxMessages \in Nat /\ MaxTriggered \in Nat
  BY TopicsAssumption
<1>1. TopicTypes
  <2>1. IsFiniteSet(tree)
    BY FS_EmptySet
  <2>2. min \in Subscribers \cup {0, UINTPTR_MAX} /\ messageId \in 1..MaxMessages + 1
    BY <1>0, LastSubscriber
  <2>3. <<>> \in Seq(1..MaxMessages)
    BY EmptySeq
  <2>4. got \in [Subscribers -> Seq(1..MaxMessages)]
    BY <2>3
  <2> QED
    BY <2>1, <2>2, <2>4 DEF TopicTypes
<1>2. ListsInv
  <2>1. Cardinality(triggered) <= MaxTriggered
    BY <1>0, FS_EmptySet
  <2>2. Subscribed(subs) = {}
    BY DEF Subscribed
  <2>3. tree = Above(Subscribed(subs))
    BY <2>2 DEF Above
  <2> QED
    BY <2>1, <2>3 DEF ListsInv
<1>3. DrainInv /\ WalkInv
  BY DEF DrainInv, WalkInv
<1>4. SentInv
  <2>1. \A s \in Subscribers : got[s] = <<>> /\ DOMAIN got[s] = {}
    BY EmptySeq
  <2> QED
    BY <2>1 DEF SentInv, Older, Rising
<1>5. DueInv
  BY DEF DueInv
<1> QED
  BY <1>1, <1>2, <1>3, <1>4, <1>5 DEF TopicsInv

-----------------------------------------------------------------------------
(* Subscribing and unsubscribing, when nothing else runs.                    *)

LEMMA SubscribeStep ==
  ASSUME TopicsInv, NEW s \in Subscribers, NEW f \in Filters, Subscribe(s, f)
  PROVE  TopicsInv'
<1> USE DEF Subscribe, walkVars, drainVars
<1>0. f \in Nodes /\ Path(f) /\ min = 0 /\ PathTo(f) \subseteq Nodes
  BY NodesArePaths DEF Idle
<1>1. TopicTypes /\ ListsInv /\ WalkInv /\ DrainInv /\ SentInv /\ DueInv
  BY DEF TopicsInv
<1>2. /\ tree' = tree \cup PathTo(f)
      /\ \A p \in Nodes : subs'[p] = IF p = f THEN subs[p] \cup {s} ELSE subs[p]
  BY <1>0, <1>1 DEF PathTo, TopicTypes
<1>3. TopicTypes'
  <2>1. IsFiniteSet(tree')
    <3> DEFINE upTo == [n \in 1..Len(f) |-> SubSeq(f, 1, n)]
    <3>1. upTo \in Surjection(1..Len(f), PathTo(f))
      BY DEF Surjection, PathTo
    <3>2. IsFiniteSet(1..Len(f))
      <4>1. Len(f) \in Nat
        BY <1>0, PathIs
      <4> QED
        BY <4>1, SmallFinite
    <3>3. IsFiniteSet(PathTo(f))
      BY <3>1, <3>2, FS_Surjection
    <3> QED
      <4>1. IsFiniteSet(tree)
        BY <1>1 DEF TopicTypes
      <4>2. IsFiniteSet(tree \cup PathTo(f))
        BY <3>3, <4>1, FS_Union
      <4> QED
        BY <1>2, <4>2, Zenon
  <2>2. subs' \in [Nodes -> SUBSET Subscribers]
        /\ subscriptions' \in [Subscribers -> [Nodes -> Nat]]
    BY <1>0, <1>1 DEF TopicTypes
  <2>3. tree' \subseteq Nodes
    BY <1>0, <1>1, <1>2 DEF TopicTypes
  <2> QED
    BY <1>1, <2>1, <2>2, <2>3 DEF TopicTypes
<1>4. ListsInv'
  <2>1. Subscribed(subs') = Subscribed(subs) \cup {f}
    <3>1. \A p \in Nodes : subs'[p] # {} <=> subs[p] # {} \/ p = f
      <4> TAKE p \in Nodes
      <4>1. CASE p = f
        <5>1. subs'[p] = subs[p] \cup {s}
          BY <1>2, <4>1
        <5> QED
          BY <4>1, <5>1
      <4>2. CASE p # f
        BY <1>2, <4>2
      <4> QED
        BY <4>1, <4>2
    <3> QED
      BY <1>0, <3>1 DEF Subscribed
  <2>2. tree' = Above(Subscribed(subs'))
    BY <1>1, <1>2, <2>1, ZenonT(40) DEF Above, ListsInv
  <2>3. \A p \in Nodes : \A t \in subs'[p] : subscriptions'[t][p] > 0
    <3>1. \A p \in Nodes, t \in Subscribers :
            /\ subscriptions'[t][p] = IF p = f /\ t = s THEN subscriptions[t][p] + 1
                                      ELSE subscriptions[t][p]
            /\ subscriptions[t][p] \in Nat
      BY <1>0, <1>1 DEF TopicTypes
    <3>2. \A p \in Nodes : \A t \in subs'[p] : t \in Subscribers /\ (t \in subs[p] \/ (p = f /\ t = s))
      BY <1>1, <1>2 DEF TopicTypes
    <3>3. \A p \in Nodes : \A t \in subs[p] : subscriptions[t][p] > 0
      BY <1>1 DEF ListsInv
    <3> QED
      BY <3>1, <3>2, <3>3
  <2> QED
    BY <1>1, <2>2, <2>3, <1>2 DEF ListsInv
<1>5. DrainInv' /\ SentInv' /\ WalkInv'
  BY <1>1 DEF DrainInv, SentInv, Older, WalkInv
<1>6. DueInv'
  BY <1>0, <1>1, <1>2 DEF DueInv, WaitsAt, ToCome, Idle, WalkInv
<1> QED
  BY <1>3, <1>4, <1>5, <1>6 DEF TopicsInv

(* What trimming leaves: A step that takes subscribers away and trims the    *)
(* topics P, with nothing undefined.                                         *)
Taking(S, P) ==
  /\ S \in [Nodes -> SUBSET Subscribers] /\ \A p \in Nodes : S[p] \subseteq subs[p]
  /\ P \subseteq Nodes /\ \A p \in Nodes : S[p] # subs[p] => p \in P
  /\ subs' = S /\ Trim(Trimmed(S, P))

LEMMA TakingKeeps ==
  ASSUME TopicTypes, ListsInv, NEW S, NEW P, Taking(S, P),
         NEW c \in [Subscribers -> [Nodes -> Nat]], subscriptions' = c,
         \A p \in Nodes : \A s \in S[p] : c[s][p] > 0,
         UNCHANGED messageId
  PROVE  /\ tree' \subseteq Nodes /\ IsFiniteSet(tree') /\ subs' \in [Nodes -> SUBSET Subscribers]
         /\ subscriptions' \in [Subscribers -> [Nodes -> Nat]]
         /\ messages' \in [Nodes -> SUBSET (1..messageId')]
         /\ ListsInv' /\ triggered' \subseteq triggered
         /\ \A p \in Nodes : messages'[p] = {} \/ messages'[p] = messages[p]
         /\ \A p \in Nodes : S[p] # {} => messages'[p] = messages[p]
         /\ \A p \in Nodes : p \in Trimmed(S, P) \/ messages'[p] = messages[p]
<1> DEFINE gone == Trimmed(S, P)
<1>1. /\ S \in [Nodes -> SUBSET Subscribers] /\ P \in SUBSET Nodes /\ subs' = S
      /\ subs \in [Nodes -> SUBSET Subscribers] /\ tree \subseteq Nodes /\ IsFiniteSet(tree)
      /\ \A p \in Nodes : S[p] \subseteq subs[p] /\ (S[p] # subs[p] => p \in P)
      /\ tree = Above({p \in Nodes : subs[p] # {}})
  BY DEF Taking, TopicTypes, ListsInv, Subscribed
<1>2. tree \ gone = Above({p \in Nodes : S[p] # {}}) /\ \A p \in gone : S[p] = {} /\ p \in Nodes
  BY <1>1, TrimKeeps
<1>3. /\ tree' = tree \ gone /\ triggered' = triggered \ gone
      /\ messages' = [p \in Nodes |-> IF p \in gone THEN {} ELSE messages[p]]
  BY DEF Taking, Trim, Untriggered
<1> HIDE DEF gone
<1>4. /\ messages' \in [Nodes -> SUBSET (1..messageId')]
      /\ \A p \in Nodes : messages'[p] = IF p \in gone THEN {} ELSE messages[p]
  BY <1>3 DEF TopicTypes
<1>5. IsFiniteSet(tree') /\ tree' \subseteq Nodes
  <2>1. tree' \in SUBSET tree
    BY <1>3
  <2> QED
    BY <1>1, <2>1, FS_Subset
<1>6. Cardinality(triggered') <= MaxTriggered
  <2>1. IsFiniteSet(triggered)
    BY <1>1, FS_Subset DEF ListsInv
  <2>2. Cardinality(triggered') <= Cardinality(triggered) /\ IsFiniteSet(triggered')
    <3>1. triggered' \in SUBSET triggered
      BY <1>3
    <3> QED
      BY <2>1, <3>1, FS_Subset
  <2>3. /\ Cardinality(triggered) \in Nat /\ Cardinality(triggered') \in Nat
        /\ Cardinality(triggered) <= MaxTriggered /\ MaxTriggered \in Nat
    BY <2>1, <2>2, FS_CardinalityType, TopicsAssumption DEF ListsInv
  <2> QED
    BY <2>2, <2>3
<1>7. ListsInv'
  <2>1. tree' = Above(Subscribed(subs'))
    BY <1>1, <1>2, <1>3 DEF Subscribed
  <2>2. \A p \in Nodes : \A s \in subs'[p] : subscriptions'[s][p] > 0
    BY <1>1
  <2>3. triggered' \subseteq tree'
    BY <1>3 DEF ListsInv
  <2>4. \A p \in Nodes : messages'[p] # {} => p \in triggered'
    BY <1>3, <1>4 DEF ListsInv
  <2> QED
    BY <1>6, <2>1, <2>2, <2>3, <2>4 DEF ListsInv
<1> QED
  BY <1>1, <1>2, <1>3, <1>4, <1>5, <1>7 DEF gone

LEMMA UnsubscribeStep ==
  ASSUME TopicsInv, NEW s \in Subscribers, NEW f \in Filters, Unsubscribe(s, f)
  PROVE  DefinedInv'
<1> DEFINE S == [subs EXCEPT ![f] = @ \ {s}]
           c == [subscriptions EXCEPT ![s][f] = @ - 1]
           keep == {p \in Nodes : s \in S[p]}
<1> SUFFICES ASSUME undefined' = "no" PROVE TopicsInv'
  BY DEF DefinedInv
<1>0. f \in Nodes /\ min = 0 /\ min' = 0 /\ drain' = drain /\ got' = got /\ subs' = S
      /\ subscriptions[s][f] > 0 /\ UNCHANGED <<messageId, walkVars, split>> /\ publishing = <<>>
  BY NodesArePaths DEF Unsubscribe, Idle, drainVars
<1>1. TopicTypes /\ ListsInv /\ WalkInv /\ DrainInv /\ SentInv /\ DueInv
  BY DEF TopicsInv
<1>2. /\ S \in [Nodes -> SUBSET Subscribers]
      /\ \A p \in Nodes : S[p] = IF p = f THEN subs[p] \ {s} ELSE subs[p]
  BY <1>0, <1>1 DEF TopicTypes
<1>3. Taking(S, {f})
  BY <1>0, <1>2 DEF Taking, Unsubscribe
<1>4. c \in [Subscribers -> [Nodes -> Nat]] /\ subscriptions' = c
  BY <1>0, <1>1 DEF TopicTypes, Unsubscribe
<1>5. ~Dangling(Trimmed(S, {f}))
  BY DEF Unsubscribe
<1>6. \A p \in Nodes : \A t \in S[p] : c[t][p] > 0
  <2> TAKE p \in Nodes
  <2> TAKE t \in S[p]
  <2>1. t \in subs[p] /\ t \in Subscribers /\ ~(p = f /\ t = s)
    BY <1>1, <1>2 DEF TopicTypes
  <2>2. subscriptions[t][p] > 0
    BY <1>1, <2>1 DEF ListsInv
  <2>3. c[t][p] = subscriptions[t][p]
    BY <1>1, <2>1 DEF TopicTypes
  <2> QED
    BY <2>2, <2>3
<1>7. /\ tree' \subseteq Nodes /\ IsFiniteSet(tree') /\ subs' \in [Nodes -> SUBSET Subscribers]
      /\ subscriptions' \in [Subscribers -> [Nodes -> Nat]]
      /\ messages' \in [Nodes -> SUBSET (1..messageId')]
      /\ ListsInv'
      /\ \A p \in Nodes : messages'[p] = {} \/ messages'[p] = messages[p]
      /\ \A p \in Nodes : S[p] # {} => messages'[p] = messages[p]
  <2> HIDE DEF S, c
  <2> QED
    BY <1>0, <1>1, <1>3, <1>4, <1>6, TakingKeeps
<1>8. due' = [due EXCEPT ![s] = StillDue(s, keep)]
  BY DEF Unsubscribe
<1> HIDE DEF S, c
<1>9. TopicTypes'
  <2>1. due' \in [Subscribers -> SUBSET Nat]
    BY <1>1, <1>8 DEF TopicTypes, StillDue
  <2> QED
    BY <1>0, <1>1, <1>7, <2>1 DEF TopicTypes, walkVars
<1>10. DrainInv' /\ SentInv' /\ WalkInv'
  <2>1. DrainInv'
    BY <1>0, <1>1 DEF DrainInv
  <2>2. \A p \in Nodes : messages'[p] \subseteq messages[p]
    BY <1>7
  <2>3. SentInv'
    BY <1>0, <1>1, <2>2 DEF SentInv, Older, walkVars
  <2>4. WalkInv'
    BY <1>0, <1>1, <2>2 DEF WalkInv, walkVars
  <2> QED
    BY <2>1, <2>3, <2>4
<1>11. DueInv'
  <2> SUFFICES ASSUME NEW t \in Subscribers, NEW m \in due'[t], m \notin ToSet(got[t])
               PROVE  \E p \in Nodes : m \in messages'[p] /\ t \in S[p]
    BY <1>0 DEF DueInv, WaitsAt
  <2>1. CASE t = s
    <3>1. m \in due[s] \cap (ToSet(got[s]) \cup UNION {messages[p] : p \in keep})
      BY <1>1, <1>8, <2>1 DEF TopicTypes, StillDue
    <3>2. PICK p \in Nodes : s \in S[p] /\ m \in messages[p]
      BY <2>1, <3>1
    <3> QED
      BY <1>7, <2>1, <3>2
  <2>2. CASE t # s
    <3>1. m \in due[t]
      BY <1>8, <2>2 DEF TopicTypes
    <3>2. PICK p \in Nodes : m \in messages[p] /\ t \in subs[p]
      BY <1>0, <1>1, <3>1 DEF DueInv, WaitsAt, ToCome, WalkInv
    <3>3. t \in S[p]
      BY <1>2, <2>2, <3>2
    <3> QED
      BY <1>7, <3>2, <3>3
  <2> QED
    BY <2>1, <2>2
<1> QED
  BY <1>7, <1>9, <1>10, <1>11 DEF TopicsInv

(* A subscriber that goes leaves every topic it was at.                      *)
LEMMA ForgottenIs ==
  ASSUME TopicTypes, ListsInv, NEW s \in Subscribers, UnsubscribeAll(s),
         UNCHANGED messageId
  PROVE  /\ tree' \subseteq Nodes /\ IsFiniteSet(tree') /\ subs' \in [Nodes -> SUBSET Subscribers]
         /\ subscriptions' \in [Subscribers -> [Nodes -> Nat]]
         /\ messages' \in [Nodes -> SUBSET (1..messageId')]
         /\ ListsInv' /\ triggered' \subseteq triggered
         /\ \A p \in Nodes : messages'[p] = {} \/ messages'[p] = messages[p]
         /\ \A p \in Nodes : subs'[p] # {} => messages'[p] = messages[p]
         /\ \A p \in Nodes : p \in AllTrimmed(s) \/ messages'[p] = messages[p]
         /\ \A p \in Nodes : subs'[p] = subs[p] \ {s}
<1> DEFINE S == Forgotten(s)
           P == {p \in Nodes : subscriptions[s][p] > 0}
           c == [subscriptions EXCEPT ![s] = [p \in Nodes |-> 0]]
<1>1. /\ S \in [Nodes -> SUBSET Subscribers] /\ \A p \in Nodes : S[p] = subs[p] \ {s}
  BY DEF Forgotten, TopicTypes
<1>2. \A p \in Nodes : S[p] # subs[p] => p \in P
  <2> SUFFICES ASSUME NEW p \in Nodes, s \in subs[p] PROVE subscriptions[s][p] > 0
    BY <1>1
  <2> QED
    BY DEF ListsInv
<1>3. subs' = S /\ Trim(Trimmed(S, P)) /\ subscriptions' = c
  BY DEF UnsubscribeAll, AllTrimmed
<1>4. Taking(S, P)
  <2>1. P \subseteq Nodes
    OBVIOUS
  <2> HIDE DEF S, P
  <2> QED
    BY <1>1, <1>2, <1>3, <2>1 DEF Taking
<1>5. c \in [Subscribers -> [Nodes -> Nat]]
  BY DEF TopicTypes
<1>6. \A p \in Nodes : \A t \in S[p] : c[t][p] > 0
  <2> TAKE p \in Nodes
  <2> TAKE t \in S[p]
  <2>1. t \in subs[p] /\ t \in Subscribers /\ t # s
    BY <1>1 DEF TopicTypes
  <2>2. subscriptions[t][p] > 0
    BY <2>1 DEF ListsInv
  <2>3. c[t][p] = subscriptions[t][p]
    BY <2>1 DEF TopicTypes
  <2> QED
    BY <2>2, <2>3
<1>7. AllTrimmed(s) = Trimmed(S, P)
  BY DEF AllTrimmed
<1> HIDE DEF S, P, c
<1> QED
  BY <1>1, <1>3, <1>4, <1>5, <1>6, <1>7, TakingKeeps

LEMMA SubscriberClosesStep ==
  ASSUME TopicsInv, NEW s \in Subscribers, SubscriberCloses(s)
  PROVE  TopicsInv'
<1>0. min = 0 /\ min' = 0 /\ drain' = drain /\ got' = got /\ UnsubscribeAll(s)
      /\ UNCHANGED <<messageId, walkVars, split>> /\ due' = [due EXCEPT ![s] = {}] /\ publishing = <<>>
  BY DEF SubscriberCloses, Idle, drainVars
<1>1. TopicTypes /\ ListsInv /\ WalkInv /\ DrainInv /\ SentInv /\ DueInv
  BY DEF TopicsInv
<1>2. /\ tree' \subseteq Nodes /\ IsFiniteSet(tree') /\ subs' \in [Nodes -> SUBSET Subscribers]
      /\ subscriptions' \in [Subscribers -> [Nodes -> Nat]]
      /\ messages' \in [Nodes -> SUBSET (1..messageId')]
      /\ ListsInv'
      /\ \A p \in Nodes : messages'[p] = {} \/ messages'[p] = messages[p]
      /\ \A p \in Nodes : subs'[p] # {} => messages'[p] = messages[p]
      /\ \A p \in Nodes : subs'[p] = subs[p] \ {s}
  BY <1>0, <1>1, ForgottenIs
<1>3. TopicTypes'
  BY <1>0, <1>1, <1>2 DEF TopicTypes, walkVars
<1>4. DrainInv' /\ SentInv' /\ WalkInv'
  <2>1. \A p \in Nodes : messages'[p] \subseteq messages[p]
    BY <1>2
  <2> QED
    BY <1>0, <1>1, <2>1 DEF DrainInv, SentInv, Older, WalkInv, walkVars
<1>5. DueInv'
  <2> SUFFICES ASSUME NEW t \in Subscribers, NEW m \in due'[t], m \notin ToSet(got[t])
               PROVE  \E p \in Nodes : m \in messages'[p] /\ t \in subs'[p]
    BY <1>0 DEF DueInv, WaitsAt
  <2>1. t # s /\ m \in due[t]
    BY <1>0, <1>1 DEF TopicTypes
  <2>2. PICK p \in Nodes : m \in messages[p] /\ t \in subs[p]
    BY <1>0, <1>1, <2>1 DEF DueInv, WaitsAt, ToCome, WalkInv
  <2>3. t \in subs'[p]
    BY <1>2, <2>1, <2>2
  <2> QED
    BY <1>2, <2>2, <2>3
<1> QED
  BY <1>2, <1>3, <1>4, <1>5 DEF TopicsInv

-----------------------------------------------------------------------------
(* Publishing.                                                               *)

LEMMA PublishStep ==
  ASSUME TopicsInv, NEW t \in Names, Publish(t)
  PROVE  TopicsInv'
<1> DEFINE R == Reached(t)
<1>1. TopicTypes /\ ListsInv /\ WalkInv /\ DrainInv /\ SentInv /\ DueInv
  BY DEF TopicsInv
<1>2. R \subseteq tree /\ tree \subseteq Nodes /\ Pluses(t) \subseteq Nodes
  BY <1>1 DEF Reached, Pluses, TopicTypes
<1>3. /\ publishing = <<>> /\ min = 0 /\ messageId <= MaxMessages /\ t # <<>>
      /\ publishing' = t /\ toTrigger' = R /\ wildcards' = Pluses(t)
      /\ due' = [s \in Subscribers |->
                   IF \E f \in Filters : s \in subs[f] /\ Matches(f, t)
                   THEN due[s] \cup {messageId} ELSE due[s]]
      /\ UNCHANGED <<tree, subs, subscriptions, messages, messageId, triggered, drain, min, split, got>>
  BY TopicsAssumption DEF Publish, Idle, drainVars
<1> HIDE DEF R
<1>4. messageId \in Nat
  BY <1>1, TopicsAssumption DEF TopicTypes
<1>5. TopicTypes'
  <2>1. due' \in [Subscribers -> SUBSET Nat]
    BY <1>1, <1>3, <1>4 DEF TopicTypes
  <2> QED
    BY <1>1, <1>2, <1>3, <2>1 DEF TopicTypes
<1>6. ListsInv' /\ DrainInv' /\ WalkInv'
  BY <1>1, <1>3 DEF ListsInv, Subscribed, DrainInv, WalkInv
<1>7. SentInv'
  BY <1>1, <1>3 DEF SentInv, Older, NotAfter, Rising
<1>8. DueInv'
  <2> SUFFICES ASSUME NEW s \in Subscribers, NEW m \in due'[s], m \notin ToSet(got[s])
               PROVE  \/ \E p \in Nodes : m \in messages[p] /\ s \in subs[p]
                      \/ m = messageId /\ \E p \in R : s \in subs[p]
    BY <1>3 DEF DueInv, WaitsAt, ToCome
  <2>1. CASE m \in due[s]
    BY <1>1, <1>3, <2>1 DEF DueInv, WaitsAt, ToCome, WalkInv
  <2>2. CASE m \notin due[s]
    <3>1. m = messageId /\ \E f \in Filters : s \in subs[f] /\ Matches(f, t)
      BY <1>3, <2>2
    <3>2. PICK f \in Filters : s \in subs[f] /\ Matches(f, t)
      BY <3>1
    <3>3. f \in Nodes /\ Path(f)
      BY NodesArePaths
    <3>4. f \in tree
      <4>1. f \in PathTo(f) /\ f \in Subscribed(subs)
        BY <3>2, <3>3, PathIs DEF Subscribed
      <4> QED
        BY <1>1, <4>1 DEF ListsInv, Above
    <3>5. f \in R
      <4>1. f # <<>> /\ DOMAIN f = 1..Len(f)
        BY <3>3, PathIs DEF Path
      <4>2. \/ Last(f) = "#" /\ Len(f) <= Len(t) /\ \A i \in 1..(Len(f) - 1) : f[i] \in {t[i], "+"}
            \/ Len(f) = Len(t) /\ \A i \in 1..Len(f) : f[i] \in {t[i], "+"}
        BY <1>3, <3>2, <4>1 DEF Matches
      <4> QED
        BY <3>4, <4>2 DEF Reached, Passes, R
    <3> QED
      BY <3>1, <3>2, <3>5
  <2> QED
    BY <2>1, <2>2
<1> QED
  BY <1>5, <1>6, <1>7, <1>8 DEF TopicsInv

(* The walk triggers what it passes; what it has still to come to is kept.   *)
LEMMA PublishTriggersStep ==
  ASSUME TopicsInv, PublishTriggers, undefined' = "no"
  PROVE  TopicsInv'
<1> DEFINE A == BeforeNextPlus
           full == DrainsAt(Cardinality(triggered))
           before == IF full THEN {} ELSE triggered
<1>1. TopicTypes /\ ListsInv /\ WalkInv /\ DrainInv /\ SentInv /\ DueInv
  BY DEF TopicsInv
<1>2. /\ publishing # <<>> /\ min = 0 /\ messageId <= MaxMessages /\ (full => Served = {})
      /\ messages' = [p \in Nodes |-> (IF full THEN {} ELSE messages[p])
                                        \cup (IF p \in A THEN {messageId} ELSE {})]
      /\ triggered' = before \cup A
      /\ ~(Cardinality(before \cup A) > MaxTriggered)
      /\ UNCHANGED <<tree, subs, subscriptions, drain, min, split, got, due>>
  BY <1>1 DEF PublishTriggers, Walks, WalkInv, drainVars
<1>3. A \subseteq toTrigger \cap tree /\ tree \subseteq Nodes
  BY <1>1 DEF BeforeNextPlus, TopicTypes
<1>4. \/ /\ publishing' = <<>> /\ toTrigger' = {} /\ wildcards' = {} /\ messageId' = messageId + 1
         /\ A = toTrigger \cap tree
      \/ /\ publishing' = publishing /\ toTrigger' = toTrigger \ A /\ messageId' = messageId
         /\ wildcards' \subseteq wildcards
  <2>1. CASE WalkEnds
    BY <2>1 DEF WalkEnds, BeforeNextPlus
  <2>2. ASSUME NEW q, NextPlus(q)
        PROVE  /\ publishing' = publishing /\ toTrigger' = toTrigger \ A /\ messageId' = messageId
               /\ wildcards' \subseteq wildcards
    BY <2>2 DEF NextPlus
  <2> QED
    BY <2>1, <2>2 DEF PublishTriggers
<1> HIDE DEF A, full
<1>5. /\ messageId \in Nat \ {0} /\ MaxMessages \in Nat /\ MaxTriggered \in Nat
      /\ messageId' \in Nat /\ messageId <= messageId' /\ messageId' <= MaxMessages + 1
  BY <1>1, <1>2, <1>4, TopicsAssumption DEF TopicTypes
<1>6. /\ \A p \in Nodes : messages[p] \subseteq 1..messageId
      /\ \A p \in Nodes : \A k \in messages'[p] : k \in messages[p] \/ k = messageId
  BY <1>1, <1>2 DEF TopicTypes
<1>7. \A p \in Nodes : messages'[p] # {} => p \in triggered'
  BY <1>1, <1>2 DEF ListsInv
<1>8. TopicTypes'
  <2>1. \A k \in 1..messageId : k \in 1..messageId'
    BY <1>5
  <2>2. messageId \in 1..messageId /\ messageId' \in 1..MaxMessages + 1
    BY <1>5
  <2>3. \A p \in Nodes : messages'[p] \subseteq 1..messageId'
    BY <1>6, <2>1, <2>2
  <2>4. messages' \in [Nodes -> SUBSET (1..messageId')]
    BY <1>2, <2>3
  <2>5. toTrigger' \subseteq Nodes /\ wildcards' \subseteq Nodes
    BY <1>1, <1>4 DEF TopicTypes
  <2> QED
    BY <1>1, <1>2, <2>2, <2>4, <2>5 DEF TopicTypes
<1>9. ListsInv'
  <2>1. triggered' \subseteq tree'
    BY <1>1, <1>2, <1>3 DEF ListsInv
  <2>2. Cardinality(triggered') <= MaxTriggered
    <3>1. IsFiniteSet(triggered')
      <4>1. triggered' \in SUBSET tree /\ IsFiniteSet(tree)
        BY <1>1, <1>2, <2>1 DEF TopicTypes
      <4> QED
        BY <4>1, FS_Subset
    <3>2. Cardinality(triggered') \in Nat /\ ~(Cardinality(triggered') > MaxTriggered)
      BY <1>2, <3>1, FS_CardinalityType
    <3> QED
      BY <1>5, <3>2
  <2> QED
    BY <1>1, <1>2, <1>7, <2>1, <2>2 DEF ListsInv, Subscribed
<1>10. DrainInv' /\ WalkInv'
  <2>1. messageId' = messageId + 1 => \A p \in Nodes : messageId' \notin messages'[p]
    <3>1. \A k \in 1..messageId : k # messageId + 1
      BY <1>5
    <3> QED
      BY <1>5, <1>6, <3>1
  <2> QED
    BY <1>1, <1>2, <1>4, <2>1 DEF DrainInv, WalkInv
<1>11. SentInv'
  <2> SUFFICES ASSUME NEW s \in Subscribers PROVE Older(s)' /\ Rising(got[s], split)
    BY <1>2 DEF SentInv
  <2>1. Older(s) /\ Rising(got[s], split)
    BY <1>1 DEF SentInv
  <2>2. ASSUME NEW i \in DOMAIN got[s]
        PROVE  /\ IF publishing' = <<>> THEN got[s][i] < messageId' ELSE NotAfter(got[s][i], messageId', split)
               /\ \A p \in Nodes : \A k \in messages'[p] : NotAfter(got[s][i], k, split)
    <3>1. NotAfter(got[s][i], messageId, split)
          /\ \A p \in Nodes : \A k \in messages[p] : NotAfter(got[s][i], k, split)
      BY <1>2, <2>1 DEF Older
    <3>2. got[s][i] \in Nat
      <4> DEFINE g == got[s]
      <4>1. i \in DOMAIN g /\ g \in Seq(1..MaxMessages)
        BY <1>1 DEF TopicTypes
      <4> HIDE DEF g
      <4>2. g[i] \in Nat
        BY <4>1, <1>5, ElementOfSeq
      <4> QED
        BY <4>2 DEF g
    <3>3. CASE messageId' = messageId /\ publishing' = publishing
      BY <1>2, <1>6, <3>1, <3>3
    <3>4. CASE messageId' = messageId + 1 /\ publishing' = <<>>
      <4>1. got[s][i] < messageId'
        BY <1>5, <3>1, <3>2, <3>4 DEF NotAfter
      <4> QED
        BY <1>6, <3>1, <3>4, <4>1
    <3> QED
      BY <1>4, <3>3, <3>4
  <2> QED
    BY <1>2, <2>1, <2>2 DEF Older
<1>12. DueInv'
  <2> SUFFICES ASSUME NEW s \in Subscribers, NEW m \in due[s], m \notin ToSet(got[s])
               PROVE  \/ \E p \in Nodes : m \in messages'[p] /\ s \in subs[p]
                      \/ m = messageId' /\ \E p \in toTrigger' : s \in subs[p]
    BY <1>2 DEF DueInv, WaitsAt, ToCome
  <2>1. ASSUME NEW p \in Nodes, m \in messages[p], s \in subs[p]
        PROVE  m \in messages'[p]
    <3>1. p \in triggered
      BY <1>1, <2>1 DEF ListsInv
    <3>2. s \in Served
      BY <2>1, <3>1 DEF Served
    <3> QED
      BY <1>2, <2>1, <3>2
  <2>2. ASSUME NEW p \in toTrigger, s \in subs[p], m = messageId
        PROVE  \/ p \in Nodes /\ m \in messages'[p]
               \/ m = messageId' /\ p \in toTrigger'
    <3>1. p \in Nodes /\ Path(p)
      BY <1>1, NodesArePaths DEF TopicTypes
    <3>2. p \in tree
      <4>1. p \in PathTo(p) /\ p \in Subscribed(subs)
        BY <2>2, <3>1, PathIs DEF Subscribed
      <4> QED
        BY <1>1, <4>1 DEF ListsInv, Above
    <3>3. CASE p \in A
      BY <1>2, <2>2, <3>1, <3>3
    <3>4. CASE p \notin A
      BY <1>4, <2>2, <3>2, <3>4
    <3> QED
      BY <3>3, <3>4
  <2>3. \/ \E p \in Nodes : m \in messages[p] /\ s \in subs[p]
        \/ m = messageId /\ \E p \in toTrigger : s \in subs[p]
    BY <1>1, <1>2 DEF DueInv, WaitsAt, ToCome
  <2> QED
    BY <2>1, <2>2, <2>3
<1> QED
  BY <1>8, <1>9, <1>10, <1>11, <1>12 DEF TopicsInv

-----------------------------------------------------------------------------
(* The drain.                                                                *)

LEMMA DrainBeginsStep ==
  ASSUME TopicsInv, min = 0, Served # {}, DrainBegins,
         UNCHANGED <<tree, subs, subscriptions, messages, messageId, triggered, walkVars, got, due>>
  PROVE  TopicsInv'
<1>1. TopicTypes /\ ListsInv /\ WalkInv /\ DrainInv /\ SentInv /\ DueInv
  BY DEF TopicsInv
<1>2. /\ drain' = [p \in Nodes |-> IF p \in triggered THEN subs[p] ELSE {}]
      /\ min' = Min(Served)
      /\ split' = split \cup ({messageId} \cap UNION {messages[p] : p \in Nodes})
      /\ UNCHANGED <<publishing, toTrigger, wildcards>>
  BY DEF DrainBegins, walkVars
<1>3. triggered \subseteq Nodes /\ Served \in SUBSET Nat /\ Served \subseteq Subscribers
  <2>1. triggered \subseteq Nodes
    BY <1>1 DEF TopicTypes, ListsInv
  <2>2. Served \subseteq Subscribers
    BY <1>1, <2>1 DEF Served, TopicTypes
  <2> QED
    BY <2>1, <2>2, TopicsAssumption
<1>4. min' \in Served /\ min' \in Nat /\ \A x \in Served : min' <= x
  BY <1>2, <1>3, MinIs
<1>5. min' \in Nat /\ min' > 0 /\ min' <= UINTPTR_MAX /\ UINTPTR_MAX \in Nat
  BY <1>3, <1>4, LastSubscriber
<1>6. \A p \in Nodes : drain'[p] = (IF p \in triggered THEN subs[p] ELSE {})
  BY <1>2
<1>7. TopicTypes'
  <2>1. drain' \in [Nodes -> SUBSET Subscribers]
    BY <1>1, <1>2 DEF TopicTypes
  <2>2. min' \in Subscribers \cup {0, UINTPTR_MAX}
    BY <1>3, <1>4
  <2> QED
    BY <1>1, <1>2, <2>1, <2>2 DEF TopicTypes
<1>8. ListsInv' /\ WalkInv'
  BY <1>1, <1>2 DEF ListsInv, Subscribed, WalkInv
<1>9. DrainInv'
  <2> SUFFICES ASSUME NEW p \in Nodes, NEW s \in drain'[p] PROVE min' # 0 /\ min' <= s
    BY DEF DrainInv
  <2>1. s \in Served
    BY <1>6 DEF Served
  <2>2. min' <= s
    BY <1>4, <2>1, Zenon
  <2>3. min' # 0
    BY <1>5
  <2> QED
    BY <2>2, <2>3
<1>10. SentInv'
  <2>1. \A x, k : NotAfter(x, k, split) => NotAfter(x, k, split')
    BY <1>2 DEF NotAfter
  <2> SUFFICES ASSUME NEW s \in Subscribers PROVE Older(s)' /\ Rising(got[s], split')
    BY DEF SentInv
  <2>2. Older(s) /\ Rising(got[s], split)
    BY <1>1 DEF SentInv
  <2>3. Rising(got[s], split')
    BY <2>1, <2>2 DEF Rising
  <2> QED
    BY <1>2, <2>1, <2>2, <2>3 DEF Older
<1>11. DueInv'
  <2> SUFFICES ASSUME NEW s \in Subscribers, NEW m \in due[s], m \notin ToSet(got[s])
               PROVE  (\E p \in Nodes : m \in messages[p] /\ s \in drain'[p]) \/ ToCome(s, m)
    BY <1>2, <1>5 DEF DueInv, WaitsAt, ToCome
  <2>1. (\E p \in Nodes : m \in messages[p] /\ s \in subs[p]) \/ ToCome(s, m)
    BY <1>1 DEF DueInv, WaitsAt
  <2>2. \A p \in Nodes : m \in messages[p] => p \in triggered
    BY <1>1 DEF ListsInv
  <2> QED
    BY <1>6, <2>1, <2>2
<1> QED
  BY <1>7, <1>8, <1>9, <1>10, <1>11 DEF TopicsInv

LEMMA ConcatRises ==
  ASSUME NEW a \in Seq(Nat), NEW b \in Seq(Nat), NEW S, Rising(a, S), Rising(b, S),
         \A i \in DOMAIN a : \A j \in DOMAIN b : NotAfter(a[i], b[j], S)
  PROVE  Rising(a \o b, S) /\ ToSet(a \o b) = ToSet(a) \cup ToSet(b)
<1> DEFINE m == Len(a)  n == Len(b)  c == a \o b
<1>1. /\ c \in Seq(Nat) /\ Len(c) = m + n /\ m \in Nat /\ n \in Nat
      /\ DOMAIN a = 1..m /\ DOMAIN b = 1..n /\ DOMAIN c = 1..(m + n)
      /\ \A i \in 1..(m + n) : c[i] = IF i <= m THEN a[i] ELSE b[i - m]
  BY ConcatProperties
<1> HIDE DEF m, n, c
<1>2. ASSUME NEW i \in 1..(m + n) PROVE (i \in 1..m /\ c[i] = a[i]) \/ (i - m \in 1..n /\ c[i] = b[i - m])
  BY <1>1
<1>3. ASSUME NEW i \in 1..(m + n), NEW j \in 1..(m + n), i < j PROVE NotAfter(c[i], c[j], S)
  <2>1. CASE j <= m
    <3>1. i \in 1..m /\ j \in 1..m
      BY <1>1, <1>3, <2>1
    <3>2. c[i] = a[i] /\ c[j] = a[j]
      BY <1>1, <2>1, <3>1
    <3> QED
      BY <1>1, <1>3, <3>1, <3>2 DEF Rising
  <2>2. CASE ~(j <= m) /\ i <= m
    <3>1. i \in 1..m /\ j - m \in 1..n /\ c[i] = a[i] /\ c[j] = b[j - m]
      BY <1>1, <1>3, <2>2
    <3>2. i \in DOMAIN a /\ j - m \in DOMAIN b
      BY <1>1, <3>1, Zenon
    <3>3. NotAfter(a[i], b[j - m], S)
      BY <3>2, Zenon
    <3> QED
      BY <3>1, <3>3, Zenon
  <2>3. CASE ~(i <= m)
    <3>1. i - m \in 1..n /\ j - m \in 1..n /\ i - m < j - m /\ ~(j <= m)
      <4>1. /\ i \in Nat /\ j \in Nat /\ m \in Nat /\ n \in Nat
            /\ i > m /\ i < j /\ i <= m + n /\ j <= m + n
        BY <1>1, <1>3, <2>3
      <4>2. j > m /\ i - m \in Nat /\ j - m \in Nat
        BY ONLY <4>1
      <4> QED
        BY ONLY <4>1, <4>2
    <3>2. c[i] = b[i - m] /\ c[j] = b[j - m]
      BY <1>1, <2>3, <3>1
    <3> QED
      BY <1>1, <3>1, <3>2 DEF Rising
  <2> QED
    BY <2>1, <2>2, <2>3
<1>4. Rising(c, S)
  BY <1>1, <1>3 DEF Rising
<1>5. ToSet(c) = ToSet(a) \cup ToSet(b)
  <2>1. \A x \in ToSet(c) : x \in ToSet(a) \cup ToSet(b)
    BY <1>1, <1>2 DEF ToSet
  <2>2. ASSUME NEW x \in ToSet(a) PROVE x \in ToSet(c)
    <3>1. PICK i \in 1..m : x = a[i]
      BY <1>1 DEF ToSet
    <3>2. i \in 1..(m + n) /\ c[i] = a[i]
      BY <1>1
    <3> QED
      BY <1>1, <3>1, <3>2 DEF ToSet
  <2>3. ASSUME NEW x \in ToSet(b) PROVE x \in ToSet(c)
    <3>1. PICK i \in 1..n : x = b[i]
      BY <1>1, <2>3 DEF ToSet
    <3>2. i + m \in 1..(m + n) /\ (i + m) - m = i /\ ~(i + m <= m)
      BY <1>1
    <3>3. c[i + m] = b[i]
      BY <1>1, <3>2
    <3> QED
      BY <1>1, <3>1, <3>2, <3>3 DEF ToSet
  <2> QED
    BY <2>1, <2>2, <2>3
<1> QED
  BY <1>4, <1>5 DEF c

(* A round of the drain: the next one is behind, and behind it are all who   *)
(* are still to be served.                                                   *)
Served1(D) == D = [p \in Nodes |-> IF p \in AtMin THEN drain[p] \ {min} ELSE drain[p]]

LEMMA RoundIs ==
  ASSUME TopicTypes, DrainInv, min # 0, min < UINTPTR_MAX, NEW D, Served1(D)
  PROVE  /\ min \in Subscribers
         /\ \A p \in Nodes : p \in AtMin <=> min \in drain[p]
         /\ D \in [Nodes -> SUBSET Subscribers] /\ \A p \in Nodes : D[p] = drain[p] \ {min}
         /\ NextMin(D) \in Subscribers \cup {UINTPTR_MAX}
         /\ NextMin(D) # 0 /\ min < NextMin(D)
         /\ \A p \in Nodes : \A s \in D[p] : NextMin(D) <= s
<1>1. min \in Subscribers /\ min \in Nat /\ UINTPTR_MAX \in Nat
  BY LastSubscriber DEF TopicTypes
<1>2. ASSUME NEW p \in Nodes
      PROVE  drain[p] \in SUBSET Subscribers /\ drain[p] \in SUBSET Nat
  BY <1>2, LastSubscriber DEF TopicTypes
<1>3. ASSUME NEW p \in Nodes PROVE p \in AtMin <=> min \in drain[p]
  <2>1. ASSUME drain[p] # {} PROVE Min(drain[p]) \in drain[p] /\ \A x \in drain[p] : Min(drain[p]) <= x
    BY <1>2, <2>1, MinIs
  <2>2. p \in AtMin <=> drain[p] # {} /\ Min(drain[p]) = min
    BY DEF AtMin
  <2>3. ASSUME min \in drain[p] PROVE Min(drain[p]) = min
    <3> DEFINE m == Min(drain[p])
    <3>1. m \in drain[p] /\ m <= min /\ min <= m
      BY <2>1, <2>3 DEF DrainInv
    <3>2. m \in Nat
      BY <1>2, <3>1
    <3> HIDE DEF m
    <3>3. m = min
      BY <1>1, <3>1, <3>2
    <3> QED
      BY <3>3 DEF m
  <2> QED
    BY <2>1, <2>2, <2>3
<1>4. D \in [Nodes -> SUBSET Subscribers] /\ \A p \in Nodes : D[p] = drain[p] \ {min}
  BY <1>2, <1>3 DEF Served1
<1>5. ASSUME NEW p \in Nodes, NEW s \in D[p] PROVE s \in Subscribers /\ s \in Nat /\ min < s
  <2>1. s \in drain[p] /\ s # min
    BY <1>4
  <2>2. s \in Subscribers /\ s \in Nat /\ min <= s
    BY <1>2, <2>1, LastSubscriber DEF DrainInv
  <2> QED
    BY <1>1, <2>1, <2>2
<1> DEFINE C == {UINTPTR_MAX} \cup {Min(D[p]) : p \in {q \in Nodes : D[q] # {}}}
<1>6. ASSUME NEW p \in Nodes, D[p] # {}
      PROVE  Min(D[p]) \in D[p] /\ \A s \in D[p] : Min(D[p]) <= s
  <2>1. D[p] \in SUBSET Nat
    BY <1>5
  <2> QED
    BY <1>6, <2>1, MinIs
<1>7. C \in SUBSET Nat /\ C # {} /\ \A x \in C : min < x /\ x \in Subscribers \cup {UINTPTR_MAX}
  BY <1>1, <1>5, <1>6
<1>8. NextMin(D) = Min(C)
  BY DEF NextMin
<1> HIDE DEF C
<1>9. NextMin(D) \in C /\ \A x \in C : NextMin(D) <= x
  BY <1>7, <1>8, MinIs
<1>10. ASSUME NEW p \in Nodes, NEW s \in D[p] PROVE NextMin(D) <= s
  <2>1. Min(D[p]) \in C /\ Min(D[p]) \in D[p] /\ Min(D[p]) <= s
    BY <1>6 DEF C
  <2> DEFINE n == NextMin(D)  m == Min(D[p])
  <2>2. n <= m /\ m <= s /\ n \in Nat /\ m \in Nat /\ s \in Nat
    BY <1>5, <1>7, <1>9, <2>1
  <2> HIDE DEF n, m
  <2>3. n <= s
    BY <2>2
  <2> QED
    BY <2>3 DEF n
<1>11. NextMin(D) # 0 /\ min < NextMin(D) /\ NextMin(D) \in Subscribers \cup {UINTPTR_MAX}
  <2> DEFINE n == NextMin(D)
  <2>1. min < n /\ n \in Nat /\ n \in Subscribers \cup {UINTPTR_MAX}
    BY <1>7, <1>9
  <2> HIDE DEF n
  <2>2. n # 0
    BY <1>1, <2>1
  <2> QED
    BY <2>1, <2>2 DEF n
<1> QED
  BY <1>1, <1>3, <1>4, <1>10, <1>11

LEMMA DrainNextStep ==
  ASSUME TopicsInv, DrainNext
  PROVE  DefinedInv'
<1> SUFFICES ASSUME undefined' = "no" PROVE TopicsInv'
  BY DEF DefinedInv
<1>1. TopicTypes /\ ListsInv /\ WalkInv /\ DrainInv /\ SentInv /\ DueInv
  BY DEF TopicsInv
<1> DEFINE D == [p \in Nodes |-> IF p \in AtMin THEN drain[p] \ {min} ELSE drain[p]]
<1>2. min # 0 /\ min < UINTPTR_MAX /\ drain' = D /\ min' = NextMin(D)
      /\ got' = [got EXCEPT ![min] = @ \o Batch] /\ messageId' = messageId /\ split' = split
      /\ UNCHANGED <<publishing, toTrigger, wildcards>>
  BY DEF DrainNext, walkVars
<1>3. Served1(D)
  BY DEF Served1
<1> HIDE DEF D
<1>4. /\ min \in Subscribers
      /\ \A p \in Nodes : p \in AtMin <=> min \in drain[p]
      /\ drain' \in [Nodes -> SUBSET Subscribers] /\ \A p \in Nodes : drain'[p] = drain[p] \ {min}
      /\ min' \in Subscribers \cup {UINTPTR_MAX} /\ min' # 0 /\ min < min'
      /\ \A p \in Nodes : \A s \in drain'[p] : min' <= s
  BY <1>1, <1>2, <1>3, RoundIs
<1>5. min \in Nat /\ min' \in Nat /\ messageId \in Nat \ {0} /\ messageId <= MaxMessages + 1
      /\ MaxMessages \in Nat
  BY <1>1, <1>4, LastSubscriber, TopicsAssumption DEF TopicTypes
<1> DEFINE M == UNION {messages[p] : p \in AtMin}
<1>6. M \in SUBSET (1..messageId) /\ messageId \in Nat
  BY <1>1, <1>5 DEF AtMin, TopicTypes
<1>7. Batch = InOrderOfIds(M)
  BY DEF Batch
<1> HIDE DEF M
<1>8. Batch \in Seq(M) /\ ToSet(Batch) = M /\ Rising(Batch, split)
  BY <1>6, <1>7, InOrderIs DEF Rising, NotAfter
<1>9. \A x \in M : x \in Nat /\ x \in 1..MaxMessages
                  /\ IF publishing = <<>> THEN x < messageId ELSE NotAfter(x, messageId, split)
  <2> SUFFICES ASSUME NEW x \in M
               PROVE  x \in Nat /\ x \in 1..MaxMessages
                      /\ IF publishing = <<>> THEN x < messageId ELSE NotAfter(x, messageId, split)
    OBVIOUS
  <2>1. x \in Nat /\ x > 0 /\ x <= messageId
    BY <1>5, <1>6
  <2>2. x = messageId => x \in split /\ publishing # <<>> /\ messageId <= MaxMessages
    BY <1>1, <1>2 DEF M, AtMin, WalkInv
  <2>3. x <= MaxMessages /\ (x # messageId => x < messageId)
    BY <1>5, <2>1, <2>2
  <2>4. x \in 1..MaxMessages
    BY <1>5, <2>1, <2>3
  <2> QED
    BY <2>1, <2>2, <2>3, <2>4 DEF NotAfter
<1>10. Batch \in Seq(Nat) /\ Batch \in Seq(1..MaxMessages) /\ got[min] \in Seq(1..MaxMessages)
       /\ got[min] \in Seq(Nat)
  <2>1. Batch \in Seq(Nat) /\ Batch \in Seq(1..MaxMessages)
    <3>1. M \subseteq Nat /\ M \subseteq 1..MaxMessages
      BY <1>9
    <3>2. \A T : M \subseteq T => Batch \in Seq(T)
      BY <1>8, SeqMonotonic, Zenon
    <3> QED
      BY <3>1, <3>2, Zenon
  <2>2. got[min] \in Seq(1..MaxMessages)
    BY <1>1, <1>4 DEF TopicTypes
  <2>3. got[min] \in Seq(Nat)
    <3> DEFINE g == got[min]
    <3>1. g \in Seq(1..MaxMessages)
      BY <2>2
    <3> HIDE DEF g
    <3>2. g \in Seq(Nat)
      BY <1>5, <3>1
    <3> QED
      BY <3>2 DEF g
  <2> QED
    BY <2>1, <2>2, <2>3
<1>11. \A i \in DOMAIN Batch : Batch[i] \in M
  <2>1. \A i \in DOMAIN Batch : Batch[i] \in ToSet(Batch)
    BY DEF ToSet
  <2> QED
    BY <1>8, <2>1
<1>12. Older(min) /\ Rising(got[min], split)
  BY <1>1, <1>4 DEF SentInv
<1>13. \A i \in DOMAIN got[min] : \A x \in M : NotAfter(got[min][i], x, split)
  BY <1>5, <1>12 DEF Older, M, AtMin
<1>14. Rising(got[min] \o Batch, split) /\ ToSet(got[min] \o Batch) = ToSet(got[min]) \cup M
  BY <1>8, <1>10, <1>11, <1>12, <1>13, ConcatRises
<1>15. /\ got' \in [Subscribers -> Seq(1..MaxMessages)] /\ got'[min] = got[min] \o Batch
       /\ \A s \in Subscribers : s # min => got'[s] = got[s]
  <2>1. got[min] \o Batch \in Seq(1..MaxMessages)
    BY <1>10, ConcatProperties
  <2> QED
    BY <1>1, <1>2, <1>4, <2>1 DEF TopicTypes
<1>16. \A i \in DOMAIN got'[min] :
          IF publishing = <<>> THEN got'[min][i] < messageId ELSE NotAfter(got'[min][i], messageId, split)
  <2> TAKE i \in DOMAIN got'[min]
  <2>1. got'[min][i] \in ToSet(got[min]) \cup M
    BY <1>14, <1>15 DEF ToSet
  <2>2. \A x \in ToSet(got[min]) :
          IF publishing = <<>> THEN x < messageId ELSE NotAfter(x, messageId, split)
    BY <1>12 DEF Older, ToSet
  <2> QED
    BY <1>9, <2>1, <2>2
<1>17. /\ tree' \subseteq Nodes /\ IsFiniteSet(tree') /\ subs' \in [Nodes -> SUBSET Subscribers]
       /\ subscriptions' \in [Subscribers -> [Nodes -> Nat]]
       /\ messages' \in [Nodes -> SUBSET (1..messageId')]
       /\ ListsInv' /\ \A p \in Nodes : messages'[p] = messages[p]
       /\ due' \in [Subscribers -> SUBSET Nat]
       /\ \A s \in Subscribers : due'[s] \subseteq due[s]
       /\ \A s \in Subscribers : due'[s] = {} \/ \A p \in Nodes : s \in subs[p] => s \in subs'[p]
  <2>1. CASE UNCHANGED <<tree, subs, subscriptions, messages, triggered, undefined, due>>
    BY <1>1, <1>2, <2>1 DEF TopicTypes, ListsInv, Subscribed
  <2>2. CASE UnsubscribeAll(min) /\ due' = [due EXCEPT ![min] = {}]
    <3>1. /\ tree' \subseteq Nodes /\ IsFiniteSet(tree') /\ subs' \in [Nodes -> SUBSET Subscribers]
          /\ subscriptions' \in [Subscribers -> [Nodes -> Nat]]
          /\ messages' \in [Nodes -> SUBSET (1..messageId')]
          /\ ListsInv'
          /\ \A p \in Nodes : messages'[p] = {} \/ messages'[p] = messages[p]
          /\ \A p \in Nodes : p \in AllTrimmed(min) \/ messages'[p] = messages[p]
          /\ \A p \in Nodes : subs'[p] = subs[p] \ {min}
      BY <1>1, <1>2, <1>4, <2>2, ForgottenIs
    <3>2. AllTrimmed(min) \cap triggered = {}
      BY <1>2, <2>2 DEF UnsubscribeAll
    <3>3. \A p \in Nodes : p \in AllTrimmed(min) => messages[p] = {}
      BY <1>1, <3>2 DEF ListsInv
    <3>4. due' \in [Subscribers -> SUBSET Nat] /\ \A s \in Subscribers : due'[s] \subseteq due[s]
      BY <1>1, <2>2 DEF TopicTypes
    <3>5. due'[min] = {}
      BY <1>1, <1>4, <2>2 DEF TopicTypes
    <3>6. \A s \in Subscribers : due'[s] = {} \/ \A p \in Nodes : s \in subs[p] => s \in subs'[p]
      BY <3>1, <3>5
    <3> QED
      BY <3>1, <3>3, <3>4, <3>6
  <2> QED
    BY <2>1, <2>2 DEF DrainNext
<1>18. TopicTypes'
  BY <1>1, <1>2, <1>4, <1>15, <1>17 DEF TopicTypes
<1>19. DrainInv' /\ WalkInv'
  BY <1>1, <1>2, <1>4, <1>17 DEF DrainInv, WalkInv
<1>20. SentInv'
  <2> SUFFICES ASSUME NEW s \in Subscribers PROVE Older(s)' /\ Rising(got'[s], split)
    BY <1>2 DEF SentInv
  <2>1. CASE s = min
    <3>1. ~(min' = 0 \/ min' <= s)
      BY <1>4, <1>5, <2>1
    <3> QED
      BY <1>2, <1>14, <1>15, <1>16, <2>1, <3>1 DEF Older
  <2>2. CASE s # min
    <3>1. Older(s) /\ Rising(got[s], split) /\ got'[s] = got[s]
      BY <1>1, <1>15, <2>2 DEF SentInv
    <3>2. min' = 0 \/ min' <= s => min <= s
      <4>1. s \in Nat
        BY LastSubscriber
      <4> QED
        BY <1>4, <1>5, <4>1
    <3> DEFINE g == got[s]
    <3>3. /\ messageId' = messageId /\ publishing' = publishing /\ split' = split /\ got'[s] = g
          /\ \A p \in Nodes : messages'[p] = messages[p]
      BY <1>2, <1>17, <3>1
    <3>4. /\ Rising(g, split)
          /\ \A i \in DOMAIN g :
               /\ IF publishing = <<>> THEN g[i] < messageId ELSE NotAfter(g[i], messageId, split)
               /\ (min = 0 \/ min <= s => \A p \in Nodes : \A k \in messages[p] : NotAfter(g[i], k, split))
      BY <3>1 DEF Older
    <3> HIDE DEF g
    <3> QED
      BY <3>2, <3>3, <3>4 DEF Older
  <2> QED
    BY <2>1, <2>2
<1>21. DueInv'
  <2> SUFFICES ASSUME NEW s \in Subscribers, NEW m \in due'[s], m \notin ToSet(got'[s])
               PROVE  \/ \E p \in Nodes : m \in messages'[p] /\ s \in drain'[p]
                      \/ m = messageId /\ \E p \in toTrigger : s \in subs'[p]
    BY <1>2, <1>4 DEF DueInv, WaitsAt, ToCome
  <2>1. m \in due[s] /\ m \notin ToSet(got[s])
    BY <1>14, <1>15, <1>17
  <2>2. \/ \E p \in Nodes : m \in messages[p] /\ s \in drain[p]
        \/ m = messageId /\ \E p \in toTrigger : s \in subs[p]
    BY <1>1, <1>2, <2>1 DEF DueInv, WaitsAt, ToCome
  <2>3. ASSUME NEW p \in Nodes, m \in messages[p], s \in drain[p]
        PROVE  m \in messages'[p] /\ s \in drain'[p]
    <3>1. s # min
      <4> SUFFICES ASSUME s = min PROVE FALSE
        OBVIOUS
      <4>1. m \in M
        BY <1>4, <2>3 DEF M
      <4> QED
        BY <1>14, <1>15, <4>1
    <3> QED
      BY <1>4, <1>17, <2>3, <3>1
  <2>4. \A p \in toTrigger : s \in subs[p] => s \in subs'[p]
    BY <1>1, <1>17 DEF TopicTypes
  <2> QED
    BY <2>2, <2>3, <2>4
<1> QED
  BY <1>17, <1>18, <1>19, <1>20, <1>21 DEF TopicsInv

(* Nothing is kept any more, and nobody waits for it.                        *)
LEMMA ClearedStep ==
  ASSUME TopicsInv, Cleared, min' = 0, drain' = drain,
         \A p \in Nodes : drain[p] = {},
         \A s \in Subscribers : \A p \in Nodes : WaitsAt(s, p) => messages[p] = {},
         UNCHANGED <<tree, subs, subscriptions, messageId, walkVars, split, got, due>>
  PROVE  TopicsInv'
<1>1. TopicTypes /\ ListsInv /\ WalkInv /\ DrainInv /\ SentInv /\ DueInv
  BY DEF TopicsInv
<1>2. /\ triggered' = {} /\ messages' = [p \in Nodes |-> {}] /\ \A p \in Nodes : messages'[p] = {}
      /\ UNCHANGED <<tree, subs, subscriptions, messageId, split, got, due>>
      /\ UNCHANGED <<publishing, toTrigger, wildcards>>
  BY DEF Cleared, walkVars
<1>3. TopicTypes'
  BY <1>1, <1>2 DEF TopicTypes
<1>4. ListsInv'
  <2>1. Cardinality(triggered') <= MaxTriggered
    BY <1>2, FS_EmptySet, TopicsAssumption
  <2> QED
    BY <1>1, <1>2, <2>1 DEF ListsInv, Subscribed
<1>5. DrainInv' /\ WalkInv'
  BY <1>1, <1>2 DEF DrainInv, WalkInv
<1>6. SentInv'
  BY <1>1, <1>2 DEF SentInv, Older
<1>7. DueInv'
  BY <1>1, <1>2 DEF DueInv, ToCome
<1> QED
  BY <1>3, <1>4, <1>5, <1>6, <1>7 DEF TopicsInv

LEMMA DrainEndsStep ==
  ASSUME TopicsInv, DrainEnds
  PROVE  TopicsInv'
<1>1. TopicTypes /\ DrainInv
  BY DEF TopicsInv
<1>2. min = UINTPTR_MAX /\ min # 0
  BY LastSubscriber DEF DrainEnds
<1>3. ASSUME NEW p \in Nodes PROVE drain[p] = {}
  <2> SUFFICES ASSUME NEW s \in drain[p] PROVE FALSE
    OBVIOUS
  <2>1. s \in Subscribers /\ min <= s
    BY <1>1 DEF TopicTypes, DrainInv
  <2>2. s \in Nat /\ s < UINTPTR_MAX /\ UINTPTR_MAX \in Nat
    BY <2>1, LastSubscriber
  <2> QED
    BY <1>2, <2>1, <2>2
<1>4. \A s \in Subscribers : \A p \in Nodes : ~WaitsAt(s, p)
  BY <1>2, <1>3 DEF WaitsAt
<1> QED
  BY <1>3, <1>4, ClearedStep DEF DrainEnds

LEMMA IdleDrain ==
  ASSUME TopicsInv, min = 0
  PROVE  \A p \in Nodes : drain[p] = {}
BY DEF TopicsInv, DrainInv

LEMMA CommitStep ==
  ASSUME TopicsInv, Commit
  PROVE  DefinedInv'
<1>1. min = 0 /\ publishing = <<>>
  BY DEF Commit, Idle
<1>2. CASE Served # {}
  <2>1. DrainBegins
        /\ UNCHANGED <<tree, subs, subscriptions, messages, messageId, triggered, walkVars, got, due>>
    BY <1>1, <1>2 DEF Commit
  <2> QED
    BY <1>1, <1>2, <2>1, DrainBeginsStep DEF DefinedInv
<1>3. CASE Served = {}
  <2>1. Cleared /\ UNCHANGED <<tree, subs, subscriptions, messageId, walkVars, split, drain, min, got, due>>
    BY <1>3 DEF Commit, drainVars
  <2>2. \A s \in Subscribers : \A p \in Nodes : WaitsAt(s, p) => messages[p] = {}
    BY <1>1, <1>3 DEF WaitsAt, Served, TopicsInv, ListsInv
  <2>3. min' = 0 /\ drain' = drain
    BY <1>1, <2>1
  <2> QED
    BY <1>1, <2>1, <2>2, <2>3, IdleDrain, ClearedStep DEF DefinedInv
<1> QED
  BY <1>2, <1>3

LEMMA TopicsStep == DefinedInv /\ [TopicsNext]_topicVars => DefinedInv'
<1> SUFFICES ASSUME DefinedInv, [TopicsNext]_topicVars PROVE DefinedInv'
  OBVIOUS
<1>1. CASE UNCHANGED topicVars
  BY <1>1 DEF topicVars, DefinedInv, TopicsInv, TopicTypes, ListsInv, DrainInv, SentInv, DueInv,
              Older, WaitsAt, Subscribed, WalkInv, ToCome, walkVars, drainVars
<1>2. ASSUME NEW s \in Subscribers, NEW f \in Filters, Subscribe(s, f) PROVE DefinedInv'
  BY <1>2, SubscribeStep DEF DefinedInv, Subscribe, Idle
<1>3. ASSUME NEW s \in Subscribers, NEW f \in Filters, Unsubscribe(s, f) PROVE DefinedInv'
  <2>1. TopicsInv
    BY <1>3 DEF DefinedInv, Unsubscribe, Idle
  <2> QED
    BY <1>3, <2>1, UnsubscribeStep
<1>4. ASSUME NEW s \in Subscribers, SubscriberCloses(s) PROVE DefinedInv'
  BY <1>4, SubscriberClosesStep DEF DefinedInv, SubscriberCloses, Idle
<1>5. ASSUME NEW t \in Names, Publish(t) PROVE DefinedInv'
  <2>1. TopicsInv
    BY <1>5 DEF DefinedInv, Publish, Idle
  <2> QED
    BY <1>5, <2>1, PublishStep DEF DefinedInv
<1>6. CASE WalksOnFreed \/ PublishTriggers
  <2>1. TopicsInv
    BY <1>6 DEF DefinedInv, WalksOnFreed, PublishTriggers, Walks
  <2>2. WalksOnFreed => undefined' # "no"
    BY DEF WalksOnFreed
  <2> QED
    BY <1>6, <2>1, <2>2, PublishTriggersStep DEF DefinedInv
<1>10. CASE PublishDrains
  <2>1. TopicsInv
    BY <1>10 DEF DefinedInv, PublishDrains, Walks
  <2> QED
    BY <1>10, <2>1, DrainBeginsStep DEF PublishDrains, Walks, DefinedInv
<1>7. CASE Commit
  <2>1. TopicsInv
    BY <1>7 DEF DefinedInv, Commit, Idle
  <2> QED
    BY <1>7, <2>1, CommitStep
<1>8. CASE DrainNext
  <2>1. TopicsInv
    BY <1>8 DEF DefinedInv, DrainNext
  <2> QED
    BY <1>8, <2>1, DrainNextStep
<1>9. CASE DrainEnds
  BY <1>9, DrainEndsStep DEF DefinedInv, DrainEnds
<1> QED
  BY <1>1, <1>2, <1>3, <1>4, <1>5, <1>6, <1>7, <1>8, <1>9, <1>10 DEF TopicsNext

LEMMA TopicsAlways == TopicsSpec => []DefinedInv
<1> QED
  BY TopicsStart, TopicsStep, PTL DEF TopicsSpec

(* Every message comes in order, and at most once unless a drain interrupted *)
(* its publish, and none that matched is missing                             *)
(* (TopicTreeDraft.h:122-241, 291-388).                                      *)
THEOREM MessagesComeOnceInOrder == TopicsSpec => []MessagesOnceInOrder
<1>1. DefinedInv => MessagesOnceInOrder
  <2> SUFFICES ASSUME TopicsInv, NEW s \in Subscribers
               PROVE  /\ \A i, j \in DOMAIN got[s] : i < j =>
                           got[s][i] < got[s][j] \/ (got[s][i] = got[s][j] /\ got[s][i] \in split)
                      /\ Idle => due[s] = StillDue(s, {p \in triggered : s \in subs[p]})
    BY DEF DefinedInv, MessagesOnceInOrder
  <2>1. \A i, j \in DOMAIN got[s] : i < j =>
          got[s][i] < got[s][j] \/ (got[s][i] = got[s][j] /\ got[s][i] \in split)
    BY DEF TopicsInv, SentInv, Rising, NotAfter
  <2>2. ASSUME Idle, NEW m \in due[s], m \notin ToSet(got[s])
        PROVE  \E p \in triggered : s \in subs[p] /\ m \in messages[p]
    BY <2>2 DEF TopicsInv, DueInv, ListsInv, WalkInv, WaitsAt, ToCome, Idle
  <2>3. Idle => due[s] = StillDue(s, {p \in triggered : s \in subs[p]})
    BY <2>2 DEF StillDue
  <2> QED
    BY <2>1, <2>3
<1> QED
  BY <1>1, TopicsAlways, PTL

(* The tree and the lists of its topics and its subscribers agree            *)
(* (TopicTreeDraft.h:81-119, 189-287).                                       *)
THEOREM TopicsTypes == TopicsSpec => []TopicsTypeOK
<1>1. DefinedInv => TopicsTypeOK
  <2> SUFFICES ASSUME TopicsInv, undefined = "no" PROVE TopicsTypeOK
    BY DEF DefinedInv, TopicsTypeOK
  <2>1. TopicTypes /\ ListsInv
    BY DEF TopicsInv
  <2>2. tree = UNION {{SubSeq(f, 1, n) : n \in 1..Len(f)} : f \in {p \in Nodes : subs[p] # {}}}
    BY <2>1 DEF ListsInv, Above, PathTo, Subscribed
  <2>3. \A p \in Nodes : subs[p] \subseteq {s \in Subscribers : subscriptions[s][p] > 0}
    BY <2>1 DEF TopicTypes, ListsInv
  <2>4. min \in 0..UINTPTR_MAX
    BY <2>1, LastSubscriber DEF TopicTypes
  <2> QED
    BY <2>1, <2>2, <2>3, <2>4 DEF TopicTypes, ListsInv, TopicsTypeOK
<1> QED
  BY <1>1, TopicsAlways, PTL

-----------------------------------------------------------------------------
(* HttpRouter.h: the nodes of the tree, and what is left of a URL.           *)

Segments == Seq(STRING)

LEMMA UnderIs ==
  ASSUME NEW s \in Segments, NEW t \in Segments
  PROVE  IsPrefix(s, t) <=> Len(s) <= Len(t) /\ \A j \in 1..Len(s) : s[j] = t[j]
<1>1. Len(s) \in Nat /\ Len(t) \in Nat
  BY LenProperties DEF Segments
<1>2. SubSeq(s, 1, Len(s)) = s
  BY <1>1, SubSeqProperties, SeqEqual DEF Segments
<1>3. ASSUME Len(s) <= Len(t)
      PROVE  (SubSeq(s, 1, Len(s)) = SubSeq(t, 1, Len(s))) <=> \A j \in 1..Len(s) : s[j] = t[j]
  <2> DEFINE u == SubSeq(t, 1, Len(s))
  <2>1. u \in Segments /\ Len(u) = Len(s) /\ \A j \in 1..Len(s) : u[j] = t[j]
    BY <1>1, <1>3, SubSeqProperties DEF Segments
  <2> HIDE DEF u
  <2>2. ASSUME \A j \in 1..Len(s) : s[j] = t[j] PROVE s = u
    BY <2>1, <2>2, SeqEqual DEF Segments
  <2>3. s = u <=> \A j \in 1..Len(s) : s[j] = t[j]
    BY <2>1, <2>2
  <2> QED
    BY <1>2, <2>3 DEF u
<1> QED
  BY <1>3 DEF IsPrefix

Routes == routes \in Seq(Patterns)

LEMMA RouteIs ==
  ASSUME Routes
  PROVE  /\ Len(routes) \in Nat /\ DOMAIN routes = 1..Len(routes)
         /\ \A n \in 1..Len(routes) :
              /\ routes[n] \in Patterns /\ routes[n] \in Segments
              /\ Len(routes[n]) \in Nat \ {0} /\ DOMAIN routes[n] = 1..Len(routes[n])
              /\ \A j \in 1..Len(routes[n]) : routes[n][j] \in STRING
              /\ \A j \in 1..Len(routes[n]) - 1 : routes[n][j] # Wild
<1>1. Len(routes) \in Nat /\ DOMAIN routes = 1..Len(routes)
  BY LenProperties DEF Routes
<1>2. ASSUME NEW n \in 1..Len(routes)
      PROVE  /\ routes[n] \in Patterns /\ routes[n] \in Segments
             /\ Len(routes[n]) \in Nat \ {0} /\ DOMAIN routes[n] = 1..Len(routes[n])
             /\ \A j \in 1..Len(routes[n]) : routes[n][j] \in STRING
             /\ \A j \in 1..Len(routes[n]) - 1 : routes[n][j] # Wild
  <2>1. routes[n] \in Patterns
    BY ElementOfSeq DEF Routes
  <2>2. routes[n] \in Seq(STRING) /\ Len(routes[n]) > 0
    BY <2>1, HttpRouterAssumption
  <2>3. Len(routes[n]) \in Nat /\ DOMAIN routes[n] = 1..Len(routes[n])
    BY <2>2, LenProperties
  <2>4. \A j \in 1..Len(routes[n]) : routes[n][j] \in STRING
    BY <2>2, ElementOfSeq
  <2>5. \A j \in 1..Len(routes[n]) - 1 : routes[n][j] # Wild
    BY <2>1, HttpRouterAssumption
  <2> QED
    BY <2>1, <2>2, <2>3, <2>4, <2>5 DEF Segments
<1> QED
  BY <1>1, <1>2

(* A node's handler is the last route to it.                                 *)
LEMMA HandlerIs ==
  ASSUME Routes, NEW path
  PROVE  /\ HandlerOf(path) \in Nat
         /\ HandlerOf(path) # 0 => HandlerOf(path) \in Added /\ routes[HandlerOf(path)] = path
         /\ \A n \in 1..Len(routes) : routes[n] = path => HandlerOf(path) # 0
<1> DEFINE S == {n \in DOMAIN routes : routes[n] = path} \cup {0}
<1>1. Len(routes) \in Nat /\ DOMAIN routes = 1..Len(routes)
  BY RouteIs
<1>2. S \in SUBSET Nat /\ S # {} /\ S \subseteq 0..Len(routes)
  BY <1>1
<1>3. IsFiniteSet(S)
  <2>1. IsFiniteSet(0..Len(routes))
    BY <1>1, FS_Interval
  <2> HIDE DEF S
  <2> QED
    BY <1>2, <2>1, FS_Subset
<1>4. Max(S) \in S /\ Max(S) \in Nat /\ \A x \in S : x <= Max(S)
  <2> HIDE DEF S
  <2> QED
    BY <1>2, <1>3, MaxIs
<1>5. HandlerOf(path) = Max(S)
  BY DEF HandlerOf
<1> DEFINE h == HandlerOf(path)
<1>6. h \in S /\ h \in Nat /\ \A x \in S : x <= h
  BY <1>4, <1>5
<1> HIDE DEF h
<1>7. ASSUME h # 0 PROVE h \in DOMAIN routes /\ routes[h] = path
  BY <1>6, <1>7
<1>8. ASSUME h # 0 PROVE h \in Added
  BY <1>7, <1>8 DEF Added, h
<1>9. ASSUME NEW n \in 1..Len(routes), routes[n] = path PROVE h # 0
  <2>1. n \in S
    BY <1>1, <1>9
  <2> QED
    BY <1>1, <1>6, <2>1
<1> QED
  BY <1>6, <1>7, <1>8, <1>9 DEF h

LEMMA AddedIs ==
  ASSUME Routes, NEW h \in Added
  PROVE  h \in 1..Len(routes) /\ HandlerOf(routes[h]) = h
BY RouteIs DEF Added

(* The URLs that a client asks for.                                          *)
LEMMA UrlIs ==
  ASSUME NEW url \in Urls
  PROVE  /\ url \in Segments /\ Len(url) \in Nat \ {0} /\ DOMAIN url = 1..Len(url)
         /\ \A j \in 1..Len(url) : url[j] \in STRING
         /\ \A j \in 2..Len(url) : url[j] # ""
<1>1. url \in Seq(STRING) /\ Len(url) > 0 /\ \A n \in 2..Len(url) : url[n] # ""
  BY HttpRouterAssumption
<1>2. Len(url) \in Nat /\ DOMAIN url = 1..Len(url)
  BY <1>1, LenProperties
<1>3. \A j \in 1..Len(url) : url[j] \in STRING
  BY <1>1, ElementOfSeq
<1>4. Len(url) \in Nat \ {0}
  <2>1. Len(url) > 0
    BY <1>1
  <2> QED
    BY <1>2, <2>1
<1> QED
  BY <1>1, <1>2, <1>3, <1>4, Zenon DEF Segments

(* The path of a child.                                                      *)
LEMMA ChildPath ==
  ASSUME NEW path \in Segments, NEW name \in STRING
  PROVE  /\ Append(path, name) \in Segments /\ Len(Append(path, name)) = Len(path) + 1
         /\ Len(path) \in Nat /\ Append(path, name)[Len(path) + 1] = name
         /\ \A j \in 1..Len(path) : Append(path, name)[j] = path[j]
         /\ Last(Append(path, name)) = name
<1> DEFINE p == Append(path, name)
<1>1. p \in Segments /\ Len(p) = Len(path) + 1
  BY AppendProperties DEF Segments
<1>2. Len(path) \in Nat
  BY LenProperties DEF Segments
<1>3. p[Len(path) + 1] = name
  BY AppendProperties DEF Segments
<1>4. \A j \in 1..Len(path) : p[j] = path[j]
  BY AppendProperties DEF Segments
<1> HIDE DEF p
<1>5. Last(p) = name
  BY <1>1, <1>3 DEF Last
<1> QED
  BY <1>1, <1>2, <1>3, <1>4, <1>5 DEF p

(* The segments that a path's parameters stand for, by how far it has come.  *)
TakesArguments(p, url) ==
  [n \in 1..Len(p) |-> [x \in Segments |->
     IF p[n] \in Parameters THEN Append(x, url[n]) ELSE x]]
ArgumentsOf(p, url) == Arguments(p, url)[Len(p)]

LEMMA TakingIs ==
  ASSUME NEW url \in Urls, NEW p \in Segments, Len(p) <= Len(url)
  PROVE  TakesArguments(p, url) \in [1..Len(p) -> [Segments -> Segments]] /\ Len(p) \in Nat
<1>1. Len(p) \in Nat
  BY LenProperties DEF Segments
<1>2. ASSUME NEW n \in 1..Len(p), NEW x \in Segments PROVE Append(x, url[n]) \in Segments
  <2>1. n \in 1..Len(url)
    <3>1. Len(url) \in Nat
      BY UrlIs
    <3> QED
      BY <1>1, <3>1
  <2>2. url[n] \in STRING
    BY <2>1, UrlIs
  <2> QED
    BY <2>2, ChildPath
<1> QED
  BY <1>1, <1>2 DEF TakesArguments

LEMMA ArgumentsDef ==
  ASSUME NEW url \in Urls, NEW p \in Segments, Len(p) <= Len(url)
  PROVE  Steps(Segments, <<>>, TakesArguments(p, url), Len(p), Arguments(p, url))
<1> DEFINE N == Len(p)
           X == Segments
           step == TakesArguments(p, url)
           a == Arguments(p, url)
           Next1(x, n) == IF p[n] \in Parameters THEN Append(x, url[n]) ELSE x
<1>1. step \in [1..N -> [X -> X]] /\ N \in Nat /\ <<>> \in X
  BY TakingIs, EmptySeq DEF Segments
<1>2. PICK f : Steps(X, <<>>, step, N, f)
  <2> HIDE DEF step, N, X
  <2> QED
    BY <1>1, StepsExist
<1>3. ASSUME NEW n \in 1..N, NEW x \in X PROVE step[n][x] = Next1(x, n)
  BY DEF TakesArguments
<1> HIDE DEF step, X
<1>4. ASSUME NEW n \in 1..N PROVE f[n] = Next1(f[n - 1], n)
  <2>1. n - 1 \in 0..N
    BY <1>1
  <2>2. f[n - 1] \in X /\ f[n] = step[n][f[n - 1]]
    BY <1>2, <2>1 DEF Steps
  <2> QED
    BY <1>3, <2>2, Zenon
<1>5. f = [n \in 0..N |-> IF n = 0 THEN <<>> ELSE Next1(f[n - 1], n)]
  <2>1. f \in [0..N -> X] /\ f[0] = <<>>
    BY <1>2 DEF Steps
  <2>2. \A n \in 0..N : f[n] = IF n = 0 THEN <<>> ELSE Next1(f[n - 1], n)
    <3>1. \A n \in 0..N : n = 0 \/ n \in 1..N
      BY <1>1
    <3> QED
      BY <1>4, <2>1, <3>1, Zenon
  <2> QED
    BY <2>1, <2>2, Zenon
<1>6. a = [n \in 0..N |-> IF n = 0 THEN <<>> ELSE Next1(a[n - 1], n)]
  BY <1>5, Zenon DEF Arguments
<1> HIDE DEF a, N
<1>7. a[0] = <<>>
  <2>1. 0 \in 0..N
    BY <1>1
  <2> QED
    BY <1>6, <2>1, Zenon
<1>8. ASSUME NEW n \in 1..N PROVE a[n] = Next1(a[n - 1], n)
  <2>1. n \in 0..N /\ n # 0
    BY <1>1
  <2> QED
    BY <1>6, <2>1, Zenon
<1> HIDE DEF Next1
<1>9. Makes(X, <<>>, step, N, a)
  BY <1>3, <1>7, <1>8, Zenon DEF Makes
<1>10. \A n \in 0..N : a[n] = f[n] /\ a[n] \in X
  BY <1>1, <1>2, <1>9, StepsAre
<1>11. a \in [0..N -> X]
  BY <1>6, <1>10, Zenon
<1>12. \A n \in 1..N : n - 1 \in 0..N
  BY <1>1
<1>13. Steps(X, <<>>, step, N, a)
  BY <1>7, <1>9, <1>10, <1>11, <1>12, Zenon DEF Steps, Makes
<1> QED
  BY <1>13 DEF a, N, X, step

(* A child takes one more if it is a parameter.                              *)
LEMMA ArgumentsOn ==
  ASSUME NEW url \in Urls, NEW path \in Segments, NEW name \in STRING, Len(path) < Len(url)
  PROVE  /\ ArgumentsOf(path, url) \in Segments
         /\ ArgumentsOf(Append(path, name), url) =
              IF name \in Parameters
              THEN Append(ArgumentsOf(path, url), url[Len(path) + 1])
              ELSE ArgumentsOf(path, url)
<1> DEFINE p == Append(path, name)
           N == Len(path)
           a == Arguments(path, url)
           b == Arguments(p, url)
<1>1. /\ p \in Segments /\ Len(p) = N + 1 /\ N \in Nat /\ p[N + 1] = name
      /\ \A j \in 1..N : p[j] = path[j]
  BY ChildPath
<1>2. Len(path) <= Len(url) /\ Len(p) <= Len(url) /\ Len(url) \in Nat
  <2>1. Len(url) \in Nat
    BY UrlIs
  <2> QED
    BY <1>1, <2>1
<1>3. Steps(Segments, <<>>, TakesArguments(path, url), N, a)
  BY <1>2, ArgumentsDef
<1>4. Steps(Segments, <<>>, TakesArguments(p, url), N + 1, b)
  <2> HIDE DEF p
  <2> QED
    BY <1>1, <1>2, ArgumentsDef
<1> HIDE DEF p, N, a, b
<1>5. b[0] = <<>> /\ \A n \in 1..N + 1 : b[n] = TakesArguments(p, url)[n][b[n - 1]]
  BY <1>4 DEF Steps
<1>6. \A n \in 1..N : TakesArguments(p, url)[n] = TakesArguments(path, url)[n]
  <2>1. \A n \in 1..N : n \in 1..Len(p) /\ n \in 1..Len(path)
    BY <1>1 DEF N
  <2> QED
    BY <1>1, <2>1 DEF TakesArguments
<1>7. Makes(Segments, <<>>, TakesArguments(path, url), N, b)
  <2>1. \A n \in 1..N : n \in 1..N + 1
    BY <1>1
  <2> QED
    BY <1>5, <1>6, <2>1 DEF Makes
<1>8. TakesArguments(path, url) \in [1..N -> [Segments -> Segments]] /\ <<>> \in Segments
  BY <1>2, TakingIs, EmptySeq DEF N, Segments
<1>9. \A n \in 0..N : b[n] = a[n] /\ b[n] \in Segments
  BY <1>1, <1>3, <1>7, <1>8, StepsAre
<1>10. b[N] = a[N] /\ b[N] \in Segments
  BY <1>1, <1>9
<1>11. b[N + 1] = TakesArguments(p, url)[N + 1][b[N]]
  <2>1. N + 1 \in 1..N + 1 /\ (N + 1) - 1 = N
    BY <1>1
  <2> QED
    BY <1>5, <2>1
<1>12. TakesArguments(p, url)[N + 1][b[N]] =
         IF name \in Parameters THEN Append(b[N], url[N + 1]) ELSE b[N]
  <2>1. N + 1 \in 1..Len(p)
    BY <1>1
  <2> QED
    BY <1>1, <1>10, <2>1 DEF TakesArguments
<1>13. /\ a[N] \in Segments
       /\ b[N + 1] = IF name \in Parameters THEN Append(a[N], url[N + 1]) ELSE a[N]
  BY <1>10, <1>11, <1>12, Zenon
<1>14. ArgumentsOf(path, url) = a[N] /\ ArgumentsOf(p, url) = b[N + 1]
  BY <1>1, Zenon DEF ArgumentsOf, a, b, N
<1> QED
  BY <1>13, <1>14, Zenon DEF p, N

(* A run with what the handlers so far were told.                            *)
LEMMA RunIs ==
  ASSUME NEW f \in Runs
  PROVE  /\ f.ran \in Seq(Nat \X Segments) /\ Len(f.ran) \in Nat /\ DOMAIN f.ran = 1..Len(f.ran)
         /\ f.params \in Segments /\ f.handled \in BOOLEAN /\ f.over \in BOOLEAN
<1>1. f.ran \in Seq(Nat \X Segments) /\ f.params \in Segments
      /\ f.handled \in BOOLEAN /\ f.over \in BOOLEAN
  BY DEF Runs, Segments
<1> QED
  BY <1>1, LenProperties

LEMMA RanIs ==
  ASSUME NEW f \in Runs, NEW h \in Nat, NEW accepts
  PROVE  /\ Ran(f, h, accepts) \in Runs /\ Ran(f, h, accepts).params = f.params
         /\ Ran(f, h, accepts).handled = (h \in accepts) /\ Ran(f, h, accepts).over = f.over
         /\ Ran(f, h, accepts).ran = Append(f.ran, <<h, f.params>>)
<1> DEFINE r == Append(f.ran, <<h, f.params>>)
<1>1. f.ran \in Seq(Nat \X Segments) /\ f.params \in Segments
  BY RunIs
<1>2. <<h, f.params>> \in Nat \X Segments
  BY <1>1
<1>3. r \in Seq(Nat \X Segments)
  BY <1>1, <1>2, AppendProperties
<1> HIDE DEF r
<1>4. (h \in accepts) \in BOOLEAN
  OBVIOUS
<1>5. Ran(f, h, accepts) = [f EXCEPT !.ran = r, !.handled = h \in accepts]
  BY DEF Ran, r, Runs
<1> DEFINE b == h \in accepts
<1> HIDE DEF b
<1>6. b \in BOOLEAN /\ Ran(f, h, accepts) = [f EXCEPT !.ran = r, !.handled = b]
  BY <1>4, <1>5, Zenon DEF b
<1>7. LET g == Ran(f, h, accepts)
      IN g \in Runs /\ g.params = f.params /\ g.handled = b /\ g.over = f.over /\ g.ran = r
  BY <1>3, <1>6 DEF Runs, Segments
<1> QED
  BY <1>7, Zenon DEF b, r

LEMMA PushedIs ==
  ASSUME NEW f \in Runs, NEW segment \in STRING
  PROVE  /\ Pushed(f, segment) \in Runs /\ Pushed(f, segment).ran = f.ran
         /\ Pushed(f, segment).handled = f.handled /\ Pushed(f, segment).over = f.over
         /\ Pushed(f, segment).params = Append(f.params, segment)
<1>1. f.params \in Segments
  BY RunIs
<1>2. Append(f.params, segment) \in Segments
  BY <1>1, ChildPath
<1> QED
  BY <1>2 DEF Pushed, Runs, Segments

LEMMA FrontIs ==
  ASSUME NEW s \in Segments
  PROVE  /\ Front(s) \in Segments
         /\ \A t \in Segments, x \in STRING : s = Append(t, x) => Front(s) = t
<1>1. Len(s) \in Nat
  BY LenProperties DEF Segments
<1>2. Front(s) \in Segments
  <2>1. CASE Len(s) = 0
    <3>1. Front(s) = SubSeq(s, 1, 0 - 1)
      BY <2>1 DEF Front
    <3>2. SubSeq(s, 1, 0 - 1) \in Seq(STRING)
      BY DEF Segments
    <3> QED
      BY <3>1, <3>2 DEF Segments
  <2>2. CASE Len(s) # 0
    BY <1>1, <2>2, SubSeqProperties DEF Front, Segments
  <2> QED
    BY <2>1, <2>2
<1>3. ASSUME NEW t \in Segments, NEW x \in STRING, s = Append(t, x) PROVE Front(s) = t
  <2> DEFINE k == Len(t)  u == SubSeq(s, 1, k)
  <2>1. k \in Nat /\ Len(s) = k + 1 /\ \A j \in 1..k : s[j] = t[j]
    BY <1>3, ChildPath
  <2>2. Front(s) = u
    BY <2>1 DEF Front
  <2>3. u \in Segments
    BY <2>1, SubSeqProperties DEF Segments
  <2>4. Len(u) = k
    BY <2>1, SubSeqProperties DEF Segments
  <2>5. \A j \in 1..k : u[j] = s[j]
    BY <2>1, SubSeqProperties DEF Segments
  <2>6. \A j \in 1..k : u[j] = t[j]
    BY <2>1, <2>5
  <2> HIDE DEF u
  <2> QED
    BY <2>2, <2>3, <2>4, <2>6, SeqEqual DEF Segments
<1> QED
  BY <1>2, <1>3

LEMMA PoppedIs ==
  ASSUME NEW f \in Runs
  PROVE  /\ Popped(f) \in Runs /\ Popped(f).ran = f.ran
         /\ Popped(f).handled = f.handled /\ Popped(f).over = f.over
         /\ Popped(f).params = Front(f.params)
<1>1. f.params \in Segments
  BY RunIs
<1>2. Front(f.params) \in Segments
  BY <1>1, FrontIs
<1> QED
  BY <1>2 DEF Popped, Runs, Segments

LEMMA OverIs ==
  ASSUME NEW f \in Runs, NEW b \in BOOLEAN
  PROVE  [f EXCEPT !.over = b] \in Runs
BY DEF Runs

LEMMA StandsIs ==
  ASSUME Routes, NEW f \in Runs, NEW path, NEW accepts
  PROVE  Stands(f, path, accepts) \in Runs
<1>1. HandlerOf(path) \in Nat
  BY HandlerIs
<1>2. Ran(f, HandlerOf(path), accepts) \in Runs
  BY <1>1, RanIs
<1> QED
  BY <1>2 DEF Stands

Results == [Segments -> [Runs -> Runs]]

LEMMA ChildIs ==
  ASSUME Routes, NEW f \in Runs, NEW p \in Segments, NEW segment \in STRING, NEW accepts,
         NEW below \in Results
  PROVE  Child(f, p, segment, accepts, below) \in Runs
<1>1. HandlerOf(p) \in Nat
  BY HandlerIs
<1>2. Ran(f, HandlerOf(p), accepts) \in Runs
  BY <1>1, RanIs
<1>3. [f EXCEPT !.over = TRUE] \in Runs
  BY OverIs
<1>4. \A g \in Runs : below[p][g] \in Runs
  BY DEF Results
<1> DEFINE g == below[p][Pushed(f, segment)]
           k == Child(f, p, segment, accepts, below)
<1>5. g \in Runs /\ Popped(g) \in Runs
  BY <1>4, PushedIs, PoppedIs
<1>6. k \in {f, Ran(f, HandlerOf(p), accepts), [f EXCEPT !.over = TRUE], g, Popped(g), below[p][f]}
  <2>1. CASE f.handled \/ f.over
    BY <2>1, Zenon DEF Child
  <2>2. CASE ~(f.handled \/ f.over) /\ Last(p) = Wild
    BY <2>2, Zenon DEF Child
  <2>3. CASE ~(f.handled \/ f.over) /\ Last(p) # Wild /\ Last(p) \in Parameters /\ segment # ""
    BY <2>3, Zenon DEF Child
  <2>4. CASE ~(f.handled \/ f.over) /\ Last(p) # Wild /\ ~(Last(p) \in Parameters /\ segment # "")
    BY <2>4, Zenon DEF Child
  <2> QED
    BY <2>1, <2>2, <2>3, <2>4
<1> HIDE DEF g, k
<1> QED
  BY <1>2, <1>3, <1>4, <1>5, <1>6 DEF k

LEMMA MakesChildIs ==
  ASSUME Routes, NEW path \in Segments, NEW n \in 1..Len(routes), MakesChild(path, n)
  PROVE  /\ Len(path) \in Nat /\ Len(path) + 1 \in 1..Len(routes[n])
         /\ routes[n][Len(path) + 1] \in STRING
         /\ \A j \in 1..Len(path) : routes[n][j] = path[j]
<1> DEFINE r == routes[n]
<1>1. r \in Segments /\ Len(r) \in Nat /\ \A j \in 1..Len(r) : r[j] \in STRING
  BY RouteIs
<1>2. Len(path) \in Nat
  BY LenProperties DEF Segments
<1>3. IsPrefix(path, r) /\ path # r
  BY DEF MakesChild, IsStrictPrefix
<1> HIDE DEF r
<1>4. Len(path) <= Len(r) /\ \A j \in 1..Len(path) : path[j] = r[j]
  BY <1>1, <1>3, UnderIs
<1>5. Len(path) # Len(r)
  BY <1>1, <1>2, <1>3, <1>4, SeqEqual DEF Segments
<1> QED
  BY <1>1, <1>2, <1>4, <1>5 DEF r

(* The path of the child that the n-th route made.                           *)
Through(path, n) == Append(path, routes[n][Len(path) + 1])

LEMMA ChildrenDef ==
  ASSUME Routes, NEW f \in Runs, NEW path \in Segments, NEW segment \in STRING, NEW accepts,
         NEW below \in Results
  PROVE  LET g == Children(f, path, segment, accepts, below)
         IN /\ g \in [0..Len(routes) -> Runs] /\ g[0] = f
            /\ \A n \in 1..Len(routes) :
                 g[n] = IF MakesChild(path, n)
                        THEN Child(g[n - 1], Through(path, n), segment, accepts, below)
                        ELSE g[n - 1]
<1> DEFINE N == Len(routes)
           Next1(x, n) == IF MakesChild(path, n)
                          THEN Child(x, Append(path, routes[n][Len(path) + 1]), segment, accepts,
                                     below)
                          ELSE x
           step == [n \in 1..N |-> [x \in Runs |-> Next1(x, n)]]
           g == Children(f, path, segment, accepts, below)
<1>1. N \in Nat
  BY RouteIs
<1>2. ASSUME NEW n \in 1..N, NEW x \in Runs PROVE Next1(x, n) \in Runs
  <2>1. CASE MakesChild(path, n)
    <3>1. Append(path, routes[n][Len(path) + 1]) \in Segments
      BY <2>1, MakesChildIs, ChildPath
    <3>2. Child(x, Append(path, routes[n][Len(path) + 1]), segment, accepts, below) \in Runs
      BY <3>1, ChildIs
    <3> QED
      BY <2>1, <3>2
  <2>2. CASE ~MakesChild(path, n)
    BY <2>2
  <2> QED
    BY <2>1, <2>2
<1> HIDE DEF Next1
<1>3. step \in [1..N -> [Runs -> Runs]]
  BY <1>2
<1>4. PICK h : Steps(Runs, f, step, N, h)
  <2> HIDE DEF step, N
  <2> QED
    BY <1>1, <1>3, StepsExist
<1>5. ASSUME NEW n \in 1..N PROVE h[n] = Next1(h[n - 1], n)
  <2>1. n - 1 \in 0..N
    BY <1>1
  <2>2. h[n - 1] \in Runs /\ h[n] = step[n][h[n - 1]]
    BY <1>4, <2>1 DEF Steps
  <2> QED
    BY <2>2
<1>6. h = [n \in 0..N |-> IF n = 0 THEN f ELSE Next1(h[n - 1], n)]
  <2>1. h \in [0..N -> Runs] /\ h[0] = f
    BY <1>4 DEF Steps
  <2>2. \A n \in 0..N : h[n] = IF n = 0 THEN f ELSE Next1(h[n - 1], n)
    <3>1. \A n \in 0..N : n = 0 \/ n \in 1..N
      BY <1>1
    <3> QED
      BY <1>5, <2>1, <3>1, Zenon
  <2> QED
    BY <2>1, <2>2, Zenon
<1>7. g = [n \in 0..N |-> IF n = 0 THEN f ELSE Next1(g[n - 1], n)]
  BY <1>6, Zenon DEF Children, Next1
<1> HIDE DEF g, N
<1>8. g[0] = f
  <2>1. 0 \in 0..N
    BY <1>1
  <2> QED
    BY <1>7, <2>1, Zenon
<1>9. ASSUME NEW n \in 1..N PROVE g[n] = Next1(g[n - 1], n)
  <2>1. n \in 0..N /\ n # 0
    BY <1>1
  <2> QED
    BY <1>7, <2>1, Zenon
<1>10. Makes(Runs, f, step, N, g)
  BY <1>8, <1>9 DEF Makes
<1> HIDE DEF step
<1>11. \A n \in 0..N : g[n] \in Runs
  BY <1>1, <1>3, <1>4, <1>10, StepsAre
<1>12. g \in [0..N -> Runs]
  BY <1>7, <1>11, Zenon
<1> QED
  BY <1>8, <1>9, <1>12, Zenon DEF g, N, Next1, Through

LEMMA DescendsIs ==
  ASSUME Routes, NEW f \in Runs, NEW path \in Segments, NEW segment \in STRING, NEW accepts,
         NEW below \in Results
  PROVE  Descends(f, path, segment, accepts, below) \in Runs
<1> DEFINE g == Children(f, path, segment, accepts, below)
<1>1. g \in [0..Len(routes) -> Runs]
  BY ChildrenDef
<1>2. Len(routes) \in 0..Len(routes)
  <2>1. Len(routes) \in Nat
    BY RouteIs
  <2> QED
    BY <2>1
<1> HIDE DEF g
<1>3. g[Len(routes)] \in Runs /\ f.over \in BOOLEAN
  BY <1>1, <1>2, RunIs
<1>4. [g[Len(routes)] EXCEPT !.over = f.over] \in Runs
  BY <1>3, OverIs
<1> QED
  BY <1>4 DEF Descends, g

(* What executeHandlers comes to, by the segments that are left.             *)
Standing(accepts) == [path \in Segments |-> [f \in Runs |-> Stands(f, path, accepts)]]
SegmentLeft(url, left) == getUrlSegment(url, Len(url) - left)
Descending(url, accepts, left) ==
  [below \in Results |-> [path \in Segments |-> [f \in Runs |->
     Descends(f, path, SegmentLeft(url, left), accepts, below)]]]

LEMMA LeftIs ==
  ASSUME NEW url \in Urls, NEW left \in 1..Len(url)
  PROVE  /\ Len(url) \in Nat /\ Len(url) - left \in Nat /\ Len(url) - left + 1 \in 1..Len(url)
         /\ SegmentLeft(url, left) = url[Len(url) - left + 1] /\ SegmentLeft(url, left) \in STRING
<1>1. Len(url) \in Nat
  BY UrlIs
<1>2. Len(url) - left \in Nat /\ Len(url) - left + 1 \in 1..Len(url) /\ Len(url) - left < Len(url)
  BY <1>1
<1>3. url[Len(url) - left + 1] \in STRING
  BY <1>2, UrlIs
<1>4. SegmentLeft(url, left) = url[Len(url) - left + 1]
  BY <1>2, Zenon DEF SegmentLeft, getUrlSegment
<1> QED
  BY <1>1, <1>2, <1>3, <1>4

LEMMA ExecuteDef ==
  ASSUME Routes, NEW url \in Urls, NEW accepts
  PROVE  LET e == executeHandlers(url, accepts)
         IN /\ e \in [0..Len(url) -> Results] /\ e[0] = Standing(accepts)
            /\ \A left \in 1..Len(url) : e[left] = Descending(url, accepts, left)[e[left - 1]]
<1> DEFINE N == Len(url)
           Next1(x, left) == LET segment == getUrlSegment(url, N - left)
                             IN [path \in Seq(STRING) |-> [f \in Runs |->
                                   Descends(f, path, segment, accepts, x)]]
           first == [path \in Seq(STRING) |-> [f \in Runs |-> Stands(f, path, accepts)]]
           step == [left \in 1..N |-> Descending(url, accepts, left)]
           e == executeHandlers(url, accepts)
<1>1. N \in Nat
  BY UrlIs
<1>2. ASSUME NEW left \in 1..N
      PROVE  /\ Descending(url, accepts, left) \in [Results -> Results]
             /\ \A x \in Results : Descending(url, accepts, left)[x] = Next1(x, left)
  <2>1. SegmentLeft(url, left) \in STRING
    BY LeftIs
  <2>2. ASSUME NEW x \in Results, NEW path \in Segments, NEW f \in Runs
        PROVE  Descends(f, path, SegmentLeft(url, left), accepts, x) \in Runs
    BY <2>1, DescendsIs
  <2>3. Descending(url, accepts, left) \in [Results -> Results]
    BY <2>2 DEF Descending, Results
  <2>4. ASSUME NEW x \in Results PROVE Descending(url, accepts, left)[x] = Next1(x, left)
    BY Zenon DEF Descending, SegmentLeft, Segments
  <2> QED
    BY <2>3, <2>4
<1>3. step \in [1..N -> [Results -> Results]]
  BY <1>2
<1>4. first = Standing(accepts) /\ first \in Results
  <2>1. first = Standing(accepts)
    BY DEF Standing, Segments
  <2>2. \A path \in Segments, f \in Runs : Stands(f, path, accepts) \in Runs
    BY StandsIs
  <2>3. Standing(accepts) \in Results
    BY <2>2 DEF Standing, Results
  <2> QED
    BY <2>1, <2>3, Zenon
<1> HIDE DEF Next1, first
<1>5. PICK h : Steps(Results, first, step, N, h)
  <2> HIDE DEF step, N
  <2> QED
    BY <1>1, <1>3, <1>4, StepsExist
<1>6. ASSUME NEW n \in 1..N PROVE h[n] = Next1(h[n - 1], n)
  <2>1. n - 1 \in 0..N
    BY <1>1
  <2>2. h[n - 1] \in Results /\ h[n] = step[n][h[n - 1]]
    BY <1>5, <2>1 DEF Steps
  <2>3. step[n] = Descending(url, accepts, n)
    OBVIOUS
  <2> QED
    BY <1>2, <2>2, <2>3, Zenon
<1>7. h = [n \in 0..N |-> IF n = 0 THEN first ELSE Next1(h[n - 1], n)]
  <2>1. h \in [0..N -> Results] /\ h[0] = first
    BY <1>5 DEF Steps
  <2>2. \A n \in 0..N : h[n] = IF n = 0 THEN first ELSE Next1(h[n - 1], n)
    <3>1. \A n \in 0..N : n = 0 \/ n \in 1..N
      BY <1>1
    <3> QED
      BY <1>6, <2>1, <3>1, Zenon
  <2> QED
    BY <2>1, <2>2, Zenon
<1>8. e = [n \in 0..N |-> IF n = 0 THEN first ELSE Next1(e[n - 1], n)]
  BY <1>7, Zenon DEF executeHandlers, Next1, first
<1> HIDE DEF e, N
<1>9. e[0] = first
  <2>1. 0 \in 0..N
    BY <1>1
  <2> QED
    BY <1>8, <2>1, Zenon
<1>10. ASSUME NEW n \in 1..N PROVE e[n] = Next1(e[n - 1], n)
  <2>1. n \in 0..N /\ n # 0
    BY <1>1
  <2> QED
    BY <1>8, <2>1, Zenon
<1>11. ASSUME NEW n \in 1..N, e[n - 1] \in Results
       PROVE  e[n] = Descending(url, accepts, n)[e[n - 1]]
  BY <1>2, <1>10, <1>11, Zenon
<1>12. Makes(Results, first, step, N, e)
  <2>1. \A n \in 1..N : step[n] = Descending(url, accepts, n)
    OBVIOUS
  <2> QED
    BY <1>9, <1>11, <2>1, Zenon DEF Makes
<1> HIDE DEF step
<1>13. \A n \in 0..N : e[n] \in Results
  BY <1>1, <1>3, <1>4, <1>5, <1>12, StepsAre
<1>14. e \in [0..N -> Results]
  BY <1>8, <1>13, Zenon
<1>15. \A n \in 1..N : n - 1 \in 0..N
  BY <1>1
<1>16. \A n \in 1..N : e[n] = Descending(url, accepts, n)[e[n - 1]]
  BY <1>11, <1>13, <1>15, Zenon
<1> QED
  BY <1>4, <1>9, <1>14, <1>16, Zenon DEF e, N

(* From f to g handlers of M ran, each once and with its arguments; all of   *)
(* them and the parameters as they were, if none accepted, and the one that  *)
(* accepted last.                                                            *)
Between(f, g) == Len(f.ran) + 1..Len(g.ran)
RanAsMatched(f, g, M, url, accepts) ==
  /\ g \in Runs /\ ~g.over /\ Len(f.ran) <= Len(g.ran)
  /\ \A i \in 1..Len(f.ran) : g.ran[i] = f.ran[i]
  /\ \A i \in Between(f, g) :
       /\ g.ran[i][1] \in M
       /\ g.ran[i][2] = ArgumentsOf(routes[g.ran[i][1]], url)
       /\ g.ran[i][1] \in accepts <=> g.handled /\ i = Len(g.ran)
  /\ \A i, j \in Between(f, g) : g.ran[i][1] = g.ran[j][1] => i = j
  /\ g.handled => Len(f.ran) < Len(g.ran)
  /\ ~g.handled => g.params = f.params /\ \A h \in M : \E i \in Between(f, g) : g.ran[i][1] = h

Undecided(f) == f \in Runs /\ ~f.handled /\ ~f.over

LEMMA NoneRan ==
  ASSUME NEW f, Undecided(f), NEW url, NEW accepts
  PROVE  RanAsMatched(f, f, {}, url, accepts)
<1>1. f \in Runs /\ ~f.handled /\ ~f.over
  BY DEF Undecided
<1>2. Len(f.ran) \in Nat
  BY <1>1, RunIs
<1>3. Between(f, f) = {}
  BY <1>2 DEF Between
<1> QED
  BY <1>1, <1>2, <1>3 DEF RanAsMatched

LEMMA OneRan ==
  ASSUME NEW f, Undecided(f), NEW url, NEW accepts, NEW h \in Nat,
         f.params = ArgumentsOf(routes[h], url)
  PROVE  RanAsMatched(f, Ran(f, h, accepts), {h}, url, accepts)
<1> DEFINE g == Ran(f, h, accepts)
           n == Len(f.ran)
           b == h \in accepts
<1>1. f \in Runs /\ ~f.handled /\ ~f.over
  BY DEF Undecided
<1>2. /\ n \in Nat /\ f.ran \in Seq(Nat \X Segments) /\ f.params \in Segments
  BY <1>1, RunIs
<1>3. /\ g \in Runs /\ g.params = f.params /\ g.handled = b /\ ~g.over
      /\ g.ran = Append(f.ran, <<h, f.params>>)
  BY <1>1, RanIs
<1>4. <<h, f.params>> \in Nat \X Segments
  BY <1>2
<1>5. /\ Len(g.ran) = n + 1 /\ g.ran[n + 1] = <<h, f.params>>
      /\ \A i \in 1..n : g.ran[i] = f.ran[i]
  BY <1>2, <1>3, <1>4, AppendProperties
<1> HIDE DEF g
<1>6. g.ran[n + 1][1] = h /\ g.ran[n + 1][2] = f.params
  BY <1>5
<1>7. Between(f, g) = {n + 1}
  BY <1>2, <1>5 DEF Between
<1> HIDE DEF b
<1>8. \A i \in Between(f, g) :
        /\ g.ran[i][1] \in {h}
        /\ g.ran[i][2] = ArgumentsOf(routes[g.ran[i][1]], url)
  BY <1>6, <1>7
<1>9. \A i \in Between(f, g) : g.ran[i][1] \in accepts <=> g.handled /\ i = Len(g.ran)
  <2>1. g.ran[n + 1][1] \in accepts <=> g.handled
    BY <1>3, <1>6, Zenon DEF b
  <2> QED
    BY <1>5, <1>7, <2>1, Zenon
<1>10. \A i, j \in Between(f, g) : g.ran[i][1] = g.ran[j][1] => i = j
  BY <1>7
<1>11. \A x \in {h} : \E i \in Between(f, g) : g.ran[i][1] = x
  BY <1>6, <1>7
<1>12. Len(f.ran) <= Len(g.ran) /\ Len(f.ran) < Len(g.ran)
  BY <1>2, <1>5
<1> QED
  BY <1>3, <1>5, <1>8, <1>9, <1>10, <1>11, <1>12, Zenon DEF RanAsMatched, g, n

LEMMA AcceptedRan ==
  ASSUME NEW f, NEW g, NEW M, NEW N, NEW url, NEW accepts,
         RanAsMatched(f, g, M, url, accepts), g.handled, M \subseteq N
  PROVE  RanAsMatched(f, g, N, url, accepts)
BY Zenon DEF RanAsMatched

LEMMA MoreRan ==
  ASSUME NEW f, Undecided(f), NEW g, NEW k, NEW M, NEW N, NEW url, NEW accepts,
         RanAsMatched(f, g, M, url, accepts), ~g.handled,
         RanAsMatched(g, k, N, url, accepts), M \cap N = {}
  PROVE  RanAsMatched(f, k, M \cup N, url, accepts)
<1> DEFINE a == Len(f.ran)
           b == Len(g.ran)
           c == Len(k.ran)
<1>1. f \in Runs /\ g \in Runs /\ k \in Runs /\ ~k.over
  BY DEF Undecided, RanAsMatched
<1>2. a \in Nat /\ b \in Nat /\ c \in Nat
  BY <1>1, RunIs
<1>3. a <= b /\ b <= c
  BY DEF RanAsMatched
<1>4. \A i \in 1..b : k.ran[i] = g.ran[i]
  BY DEF RanAsMatched
<1>5. \A i \in 1..a : g.ran[i] = f.ran[i]
  BY DEF RanAsMatched
<1>6. \A i \in a + 1..b :
        /\ g.ran[i][1] \in M /\ g.ran[i][2] = ArgumentsOf(routes[g.ran[i][1]], url)
        /\ g.ran[i][1] \notin accepts
  BY Zenon DEF RanAsMatched, Between
<1>7. \A i \in b + 1..c :
        /\ k.ran[i][1] \in N /\ k.ran[i][2] = ArgumentsOf(routes[k.ran[i][1]], url)
        /\ k.ran[i][1] \in accepts <=> k.handled /\ i = c
  BY Zenon DEF RanAsMatched, Between
<1>8. /\ \A i, j \in a + 1..b : g.ran[i][1] = g.ran[j][1] => i = j
      /\ \A i, j \in b + 1..c : k.ran[i][1] = k.ran[j][1] => i = j
      /\ k.handled => b < c
  BY Zenon DEF RanAsMatched, Between
<1>9. g.params = f.params /\ \A h \in M : \E i \in a + 1..b : g.ran[i][1] = h
  BY Zenon DEF RanAsMatched, Between
<1>10. ~k.handled => k.params = g.params /\ \A h \in N : \E i \in b + 1..c : k.ran[i][1] = h
  BY Zenon DEF RanAsMatched, Between
<1> HIDE DEF a, b, c
<1>11. \A i \in a + 1..c : i \in a + 1..b \/ i \in b + 1..c
  BY <1>2
<1>12. \A i \in a + 1..b : k.ran[i] = g.ran[i] /\ i # c + 1 /\ i \in a + 1..c /\ i <= b
  BY <1>2, <1>3, <1>4
<1>13. \A i \in b + 1..c : i \in a + 1..c
  BY <1>2, <1>3
<1>14. \A i \in 1..a : k.ran[i] = f.ran[i]
  BY <1>2, <1>3, <1>4, <1>5
<1>15. ASSUME NEW i \in a + 1..b
       PROVE  /\ k.ran[i][1] \in M /\ k.ran[i][2] = ArgumentsOf(routes[k.ran[i][1]], url)
              /\ k.ran[i][1] \in accepts <=> k.handled /\ i = c
  <2>1. ~(k.handled /\ i = c)
    BY <1>2, <1>8
  <2> QED
    BY <1>6, <1>12, <2>1
<1>16. \A i \in a + 1..c :
         /\ k.ran[i][1] \in M \cup N /\ k.ran[i][2] = ArgumentsOf(routes[k.ran[i][1]], url)
         /\ k.ran[i][1] \in accepts <=> k.handled /\ i = c
  BY <1>7, <1>11, <1>15
<1>17. ASSUME NEW i \in a + 1..c, NEW j \in a + 1..c, k.ran[i][1] = k.ran[j][1] PROVE i = j
  <2>1. CASE i \in a + 1..b /\ j \in a + 1..b
    BY <1>8, <1>12, <1>17, <2>1
  <2>2. CASE i \in b + 1..c /\ j \in b + 1..c
    BY <1>8, <1>17, <2>2
  <2>3. CASE i \in a + 1..b /\ j \in b + 1..c
    BY <1>7, <1>15, <1>17, <2>3
  <2>4. CASE i \in b + 1..c /\ j \in a + 1..b
    BY <1>7, <1>15, <1>17, <2>4
  <2> QED
    BY <1>11, <2>1, <2>2, <2>3, <2>4
<1>18. ASSUME ~k.handled, NEW h \in M \cup N PROVE \E i \in a + 1..c : k.ran[i][1] = h
  <2>1. CASE h \in M
    BY <1>9, <1>12, <2>1
  <2>2. CASE h \in N
    BY <1>10, <1>13, <1>18, <2>2
  <2> QED
    BY <2>1, <2>2
<1>19. ~k.handled => k.params = f.params
  BY <1>9, <1>10
<1>20. a <= c /\ (k.handled => a < c)
  BY <1>2, <1>3, <1>8
<1> QED
  BY <1>1, <1>14, <1>16, <1>17, <1>18, <1>19, <1>20, Zenon DEF RanAsMatched, Between, a, c

LEMMA PushedRan ==
  ASSUME NEW f, Undecided(f), NEW g, NEW M, NEW url, NEW accepts, NEW segment \in STRING,
         RanAsMatched(Pushed(f, segment), g, M, url, accepts)
  PROVE  RanAsMatched(f, IF g.handled THEN g ELSE Popped(g), M, url, accepts)
<1> DEFINE p == Pushed(f, segment)
           k == IF g.handled THEN g ELSE Popped(g)
<1>1. f \in Runs /\ g \in Runs
  BY DEF Undecided, RanAsMatched
<1>2. p.ran = f.ran /\ p.params = Append(f.params, segment) /\ f.params \in Segments
  BY <1>1, PushedIs, RunIs
<1>3. /\ Popped(g) \in Runs /\ Popped(g).ran = g.ran /\ Popped(g).handled = g.handled
      /\ Popped(g).over = g.over /\ Popped(g).params = Front(g.params)
  BY <1>1, PoppedIs
<1>4. k \in Runs /\ k.ran = g.ran /\ k.handled = g.handled /\ k.over = g.over
  BY <1>1, <1>3
<1>5. ASSUME ~g.handled PROVE k.params = f.params
  <2>1. g.params = p.params
    BY <1>5, Zenon DEF RanAsMatched
  <2>2. g.params \in Segments /\ g.params = Append(f.params, segment)
    BY <1>1, <1>2, <2>1, RunIs
  <2>3. Front(g.params) = f.params
    BY <1>2, <2>2, FrontIs
  <2> QED
    BY <1>3, <1>5, <2>3
<1> HIDE DEF k, p
<1>6. Between(f, k) = Between(p, g)
  BY <1>2, <1>4 DEF Between
<1>7. RanAsMatched(p, g, M, url, accepts)
  BY DEF p
<1>8. k \in Runs /\ ~k.over /\ Len(f.ran) <= Len(k.ran) /\ (k.handled => Len(f.ran) < Len(k.ran))
  BY <1>2, <1>4, <1>7, Zenon DEF RanAsMatched
<1>9. \A i \in 1..Len(f.ran) : k.ran[i] = f.ran[i]
  BY <1>2, <1>4, <1>7, ZenonT(40) DEF RanAsMatched
<1>10. /\ \A i \in Between(f, k) :
            /\ k.ran[i][1] \in M
            /\ k.ran[i][2] = ArgumentsOf(routes[k.ran[i][1]], url)
            /\ k.ran[i][1] \in accepts <=> k.handled /\ i = Len(k.ran)
       /\ \A i, j \in Between(f, k) : k.ran[i][1] = k.ran[j][1] => i = j
  BY <1>4, <1>6, <1>7, ZenonT(40) DEF RanAsMatched
<1>11. ~k.handled => k.params = f.params /\ \A h \in M : \E i \in Between(f, k) : k.ran[i][1] = h
  <2>1. ~g.handled => \A h \in M : \E i \in Between(p, g) : g.ran[i][1] = h
    BY <1>7, Zenon DEF RanAsMatched
  <2>2. k.handled = g.handled /\ k.ran = g.ran
    BY <1>4
  <2>3. ~k.handled => \A h \in M : \E i \in Between(f, k) : k.ran[i][1] = h
    BY <1>6, <2>1, <2>2, Zenon
  <2>4. ~k.handled => k.params = f.params
    BY <1>5, <2>2, Zenon
  <2> QED
    BY <2>3, <2>4, Zenon
<1>12. RanAsMatched(f, k, M, url, accepts)
  BY <1>8, <1>9, <1>10, <1>11, Zenon DEF RanAsMatched
<1> QED
  BY <1>12, Zenon DEF k

(* The URL goes through the node of path, and the handlers below it match.   *)
Fits(name, segment) == name = segment \/ (name \in Parameters /\ segment # "")
Way(path, url) ==
  /\ path \in Segments /\ Len(path) <= Len(url)
  /\ \A j \in 1..Len(path) : path[j] # Wild /\ Fits(path[j], url[j])
MatchingIn(path, url) ==
  {h \in Added : IsPrefix(path, routes[h]) /\ PatternMatches(routes[h], url)}
OwnHandler(path) == IF HandlerOf(path) = 0 THEN {} ELSE {HandlerOf(path)}

LEMMA SamePath ==
  ASSUME NEW s \in Segments, NEW t \in Segments, IsPrefix(s, t), Len(s) = Len(t)
  PROVE  s = t
<1>1. \A j \in 1..Len(s) : s[j] = t[j]
  BY UnderIs
<1> QED
  BY <1>1, SeqEqual DEF Segments

LEMMA ItsPrefix ==
  ASSUME NEW s \in Segments
  PROVE  IsPrefix(s, s)
<1>1. Len(s) \in Nat
  BY LenProperties DEF Segments
<1> QED
  BY <1>1, UnderIs

LEMMA MatchesIs ==
  ASSUME Routes, NEW url, NEW h \in Added
  PROVE  /\ routes[h] \in Segments /\ Len(routes[h]) \in Nat \ {0}
         /\ PatternMatches(routes[h], url) <=>
              /\ IF routes[h][Len(routes[h])] = Wild
                 THEN Len(url) >= Len(routes[h]) ELSE Len(url) = Len(routes[h])
              /\ \A j \in 1..Len(routes[h]) :
                   routes[h][j] = Wild \/ Fits(routes[h][j], url[j])
<1>1. h \in 1..Len(routes)
  BY AddedIs
<1> DEFINE r == routes[h]
<1>2. r \in Segments /\ Len(r) \in Nat \ {0} /\ DOMAIN r = 1..Len(r)
  BY <1>1, RouteIs
<1> HIDE DEF r
<1>3. \A j \in DOMAIN r : (r[j] \in {Wild, url[j]} \/ (r[j] \in Parameters /\ url[j] # ""))
                          <=> (r[j] = Wild \/ Fits(r[j], url[j]))
  BY DEF Fits
<1>4. PatternMatches(r, url) <=>
        /\ IF r[Len(r)] = Wild THEN Len(url) >= Len(r) ELSE Len(url) = Len(r)
        /\ \A j \in 1..Len(r) : r[j] = Wild \/ Fits(r[j], url[j])
  BY <1>2, <1>3, Zenon DEF PatternMatches, Last
<1> QED
  BY <1>2, <1>4, Zenon DEF r

(* Below a node without another segment of the URL there is its handler.     *)
LEMMA MatchingAtEnd ==
  ASSUME Routes, NEW url \in Urls, NEW path, Way(path, url), Len(path) = Len(url)
  PROVE  MatchingIn(path, url) = OwnHandler(path)
<1>1. /\ path \in Segments /\ Len(path) \in Nat \ {0}
      /\ \A j \in 1..Len(path) : path[j] # Wild /\ Fits(path[j], url[j])
  BY UrlIs DEF Way
<1>2. ASSUME NEW h \in MatchingIn(path, url) PROVE h \in OwnHandler(path)
  <2>1. h \in Added /\ IsPrefix(path, routes[h]) /\ PatternMatches(routes[h], url)
    BY <1>2 DEF MatchingIn
  <2>2. routes[h] \in Segments /\ Len(routes[h]) \in Nat /\ Len(url) >= Len(routes[h])
    BY <2>1, MatchesIs
  <2>3. Len(path) <= Len(routes[h])
    BY <1>1, <2>1, <2>2, UnderIs
  <2>4. path = routes[h]
    BY <1>1, <2>1, <2>2, <2>3, SamePath
  <2>5. HandlerOf(path) = h /\ h # 0
    BY <2>1, <2>4, AddedIs, RouteIs
  <2> QED
    BY <2>5 DEF OwnHandler
<1>3. ASSUME NEW h \in OwnHandler(path) PROVE h \in MatchingIn(path, url)
  <2>1. h = HandlerOf(path) /\ h # 0
    BY <1>3 DEF OwnHandler
  <2>2. h \in Added /\ routes[h] = path
    BY <2>1, HandlerIs
  <2>3. IsPrefix(path, routes[h])
    BY <1>1, <2>2, ItsPrefix
  <2>4. path[Len(path)] # Wild
    BY <1>1
  <2>5. PatternMatches(routes[h], url)
    BY <1>1, <2>2, <2>4, MatchesIs
  <2> QED
    BY <2>2, <2>3, <2>5 DEF MatchingIn
<1> QED
  BY <1>2, <1>3

(* So it is below a wildcard, for the rest of the URL.                       *)
LEMMA MatchingAll ==
  ASSUME Routes, NEW url \in Urls, NEW path, Way(path, url), Len(path) < Len(url),
         NEW name \in STRING, name = Wild
  PROVE  /\ MatchingIn(Append(path, name), url) = OwnHandler(Append(path, name))
         /\ ArgumentsOf(Append(path, name), url) = ArgumentsOf(path, url)
<1> DEFINE p == Append(path, name)
           n == Len(path) + 1
<1>1. /\ path \in Segments /\ Len(path) \in Nat /\ Len(url) \in Nat
      /\ \A j \in 1..Len(path) : path[j] # Wild /\ Fits(path[j], url[j])
  BY UrlIs, LenProperties DEF Way, Segments
<1>2. /\ p \in Segments /\ Len(p) = n /\ p[n] = Wild /\ n \in Nat \ {0} /\ n <= Len(url)
      /\ \A j \in 1..Len(path) : p[j] = path[j]
  <2>1. p \in Segments /\ Len(p) = n /\ p[n] = Wild /\ \A j \in 1..Len(path) : p[j] = path[j]
    BY <1>1, ChildPath
  <2>2. n \in Nat \ {0} /\ n <= Len(url)
    BY <1>1
  <2> QED
    BY <2>1, <2>2
<1>3. ArgumentsOf(p, url) = ArgumentsOf(path, url)
  <2>1. name \notin Parameters
    BY HttpRouterAssumption
  <2> QED
    BY <1>1, <2>1, ArgumentsOn
<1>4. \A j \in 1..n : j = n \/ j \in 1..Len(path)
  BY <1>1
<1> HIDE DEF p, n
<1>5. \A j \in 1..n : p[j] = Wild \/ Fits(p[j], url[j])
  BY <1>1, <1>2, <1>4
<1>6. ASSUME NEW h \in MatchingIn(p, url) PROVE h \in OwnHandler(p)
  <2>1. h \in Added /\ IsPrefix(p, routes[h])
    BY <1>6 DEF MatchingIn
  <2>2. h \in 1..Len(routes) /\ HandlerOf(routes[h]) = h
    BY <2>1, AddedIs
  <2>3. /\ routes[h] \in Segments /\ Len(routes[h]) \in Nat
        /\ \A j \in 1..Len(routes[h]) - 1 : routes[h][j] # Wild
    BY <2>2, RouteIs
  <2>4. n <= Len(routes[h]) /\ routes[h][n] = Wild
    <3>1. Len(p) <= Len(routes[h]) /\ \A j \in 1..Len(p) : p[j] = routes[h][j]
      BY <1>2, <2>1, <2>3, UnderIs
    <3>2. n \in 1..Len(p)
      BY <1>2
    <3> QED
      BY <1>2, <3>1, <3>2
  <2>5. n = Len(routes[h])
    <3>1. n \notin 1..Len(routes[h]) - 1
      BY <2>3, <2>4
    <3> QED
      BY <1>2, <2>3, <2>4, <3>1
  <2>6. p = routes[h]
    BY <1>2, <2>1, <2>3, <2>5, SamePath
  <2>7. HandlerOf(p) = h /\ h # 0
    BY <2>2, <2>6, RouteIs
  <2> QED
    BY <2>7 DEF OwnHandler
<1>7. ASSUME NEW h \in OwnHandler(p) PROVE h \in MatchingIn(p, url)
  <2>1. h = HandlerOf(p) /\ h # 0
    BY <1>7 DEF OwnHandler
  <2>2. h \in Added /\ routes[h] = p
    BY <2>1, HandlerIs
  <2>3. IsPrefix(p, routes[h])
    BY <1>2, <2>2, ItsPrefix
  <2>4. Len(url) >= n
    BY <1>1, <1>2
  <2>5. PatternMatches(routes[h], url)
    BY <1>2, <1>5, <2>2, <2>4, MatchesIs
  <2> QED
    BY <2>2, <2>3, <2>5 DEF MatchingIn
<1>8. MatchingIn(p, url) = OwnHandler(p)
  BY <1>6, <1>7
<1> QED
  BY <1>3, <1>8 DEF p

(* A child that the next segment fits is on the way, and none below another. *)
LEMMA WayOn ==
  ASSUME NEW url \in Urls, NEW path, Way(path, url), Len(path) < Len(url),
         NEW name \in STRING, name # Wild, Fits(name, url[Len(path) + 1])
  PROVE  Way(Append(path, name), url)
<1> DEFINE p == Append(path, name)
           n == Len(path) + 1
<1>1. /\ path \in Segments /\ Len(path) \in Nat /\ Len(url) \in Nat
      /\ \A j \in 1..Len(path) : path[j] # Wild /\ Fits(path[j], url[j])
  BY UrlIs, LenProperties DEF Way, Segments
<1>2. /\ p \in Segments /\ Len(p) = n /\ p[n] = name /\ n \in Nat \ {0} /\ n <= Len(url)
      /\ \A j \in 1..Len(path) : p[j] = path[j]
  <2>1. p \in Segments /\ Len(p) = n /\ p[n] = name /\ \A j \in 1..Len(path) : p[j] = path[j]
    BY <1>1, ChildPath
  <2>2. n \in Nat \ {0} /\ n <= Len(url)
    BY <1>1
  <2> QED
    BY <2>1, <2>2
<1>3. \A j \in 1..n : j = n \/ j \in 1..Len(path)
  BY <1>1
<1>4. name # Wild /\ Fits(name, url[n])
  OBVIOUS
<1> HIDE DEF p, n
<1>5. \A j \in 1..n : p[j] # Wild /\ Fits(p[j], url[j])
  BY <1>1, <1>2, <1>3, <1>4
<1>6. Way(p, url)
  BY <1>2, <1>5 DEF Way
<1> QED
  BY <1>6 DEF p

LEMMA WayOff ==
  ASSUME Routes, NEW url \in Urls, NEW path, Way(path, url), Len(path) < Len(url),
         NEW name \in STRING, name # Wild, ~Fits(name, url[Len(path) + 1])
  PROVE  MatchingIn(Append(path, name), url) = {}
<1> DEFINE p == Append(path, name)
           n == Len(path) + 1
<1>1. path \in Segments /\ Len(path) \in Nat
  BY LenProperties DEF Way, Segments
<1>2. p \in Segments /\ Len(p) = n /\ p[n] = name /\ n \in Nat \ {0}
  <2>1. p \in Segments /\ Len(p) = n /\ p[n] = name
    BY <1>1, ChildPath
  <2>2. n \in Nat \ {0}
    BY <1>1
  <2> QED
    BY <2>1, <2>2
<1>3. name # Wild /\ ~Fits(name, url[n])
  OBVIOUS
<1> HIDE DEF p, n
<1>4. ASSUME NEW h \in MatchingIn(p, url) PROVE FALSE
  <2>1. h \in Added /\ IsPrefix(p, routes[h]) /\ PatternMatches(routes[h], url)
    BY <1>4 DEF MatchingIn
  <2>2. /\ routes[h] \in Segments /\ Len(routes[h]) \in Nat
        /\ \A j \in 1..Len(routes[h]) : routes[h][j] = Wild \/ Fits(routes[h][j], url[j])
    BY <2>1, MatchesIs
  <2>3. n <= Len(routes[h]) /\ routes[h][n] = name
    <3>1. Len(p) <= Len(routes[h]) /\ \A j \in 1..Len(p) : p[j] = routes[h][j]
      BY <1>2, <2>1, <2>2, UnderIs
    <3>2. n \in 1..Len(p)
      BY <1>2
    <3> QED
      BY <1>2, <3>1, <3>2
  <2>4. n \in 1..Len(routes[h])
    BY <1>2, <2>2, <2>3
  <2> QED
    BY <1>3, <2>2, <2>3, <2>4
<1> QED
  BY <1>4 DEF p

(* Where nothing is left, or anything may be, the node's own handler runs.   *)
LEMMA OwnRan ==
  ASSUME Routes, NEW path, NEW f, Undecided(f), NEW url, NEW accepts,
         f.params = ArgumentsOf(path, url)
  PROVE  RanAsMatched(f, Stands(f, path, accepts), OwnHandler(path), url, accepts)
<1>1. CASE HandlerOf(path) = 0
  BY <1>1, NoneRan DEF Stands, OwnHandler
<1>2. CASE HandlerOf(path) # 0
  <2>1. HandlerOf(path) \in Nat /\ routes[HandlerOf(path)] = path
    BY <1>2, HandlerIs
  <2>2. RanAsMatched(f, Ran(f, HandlerOf(path), accepts), {HandlerOf(path)}, url, accepts)
    BY <2>1, OneRan
  <2> QED
    BY <1>2, <2>2 DEF Stands, OwnHandler
<1> QED
  BY <1>1, <1>2

(* What holds of the nodes n segments deep.                                  *)
RunsBelow(below, n, url, accepts) ==
  \A path, f :
    /\ Way(path, url) /\ Len(path) = n
    /\ Undecided(f) /\ f.params = ArgumentsOf(path, url)
    => RanAsMatched(f, below[path][f], MatchingIn(path, url), url, accepts)

LEMMA ChildRan ==
  ASSUME Routes, NEW url \in Urls, NEW accepts, NEW path, Way(path, url), Len(path) < Len(url),
         NEW name \in STRING, NEW p, p = Append(path, name), name = Wild => HandlerOf(p) # 0,
         NEW f, Undecided(f), f.params = ArgumentsOf(path, url),
         NEW below, RunsBelow(below, Len(path) + 1, url, accepts),
         NEW segment \in STRING, segment = url[Len(path) + 1]
  PROVE  RanAsMatched(f, Child(f, p, segment, accepts, below), MatchingIn(p, url), url, accepts)
<1>1. path \in Segments /\ Len(path) \in Nat
  BY LenProperties DEF Way, Segments
<1>2. p \in Segments /\ Len(p) = Len(path) + 1 /\ Last(p) = name
  BY <1>1, ChildPath
<1>3. f \in Runs /\ ~f.handled /\ ~f.over
  BY DEF Undecided
<1>4. CASE name = Wild
  <2>1. MatchingIn(p, url) = OwnHandler(p) /\ ArgumentsOf(p, url) = ArgumentsOf(path, url)
    BY <1>4, MatchingAll
  <2>2. RanAsMatched(f, Stands(f, p, accepts), OwnHandler(p), url, accepts)
    BY <2>1, OwnRan
  <2>3. Stands(f, p, accepts) = Ran(f, HandlerOf(p), accepts)
    BY <1>4 DEF Stands
  <2>4. HandlerOf(p) # 0
    BY <1>4
  <2>5. Child(f, p, segment, accepts, below) = Ran(f, HandlerOf(p), accepts)
    <3>1. Last(p) = Wild /\ ~(f.handled \/ f.over)
      BY <1>2, <1>3, <1>4
    <3>2. Child(f, p, segment, accepts, below) =
            IF HandlerOf(p) = 0 THEN [f EXCEPT !.over = TRUE] ELSE Ran(f, HandlerOf(p), accepts)
      BY <3>1, Zenon DEF Child
    <3> QED
      BY <2>4, <3>2, Zenon
  <2> QED
    BY <2>1, <2>2, <2>3, <2>5, Zenon
<1>5. CASE name # Wild /\ name \in Parameters /\ segment # ""
  <2> DEFINE q == Pushed(f, segment)
             g == below[p][q]
  <2>1. Fits(name, url[Len(path) + 1])
    BY <1>5 DEF Fits
  <2>2. Way(p, url)
    BY <1>5, <2>1, WayOn
  <2>3. Undecided(q) /\ q.params = Append(f.params, segment)
    BY <1>3, PushedIs, SMTT(40) DEF Undecided
  <2>4. ArgumentsOf(p, url) = Append(ArgumentsOf(path, url), url[Len(path) + 1])
    BY <1>1, <1>5, ArgumentsOn
  <2>5. RanAsMatched(q, g, MatchingIn(p, url), url, accepts)
    BY <1>2, <2>2, <2>3, <2>4, Zenon DEF RunsBelow
  <2>6. RanAsMatched(f, IF g.handled THEN g ELSE Popped(g), MatchingIn(p, url), url, accepts)
    BY <2>5, PushedRan
  <2>7. Child(f, p, segment, accepts, below) = IF g.handled THEN g ELSE Popped(g)
    BY <1>2, <1>3, <1>5, Zenon DEF Child
  <2> QED
    BY <2>6, <2>7, Zenon
<1>6. CASE name # Wild /\ ~(name \in Parameters /\ segment # "") /\ name = segment
  <2>1. Fits(name, url[Len(path) + 1]) /\ name \notin Parameters
    BY <1>6, HttpRouterAssumption DEF Fits
  <2>2. Way(p, url)
    BY <1>6, <2>1, WayOn
  <2>3. ArgumentsOf(p, url) = ArgumentsOf(path, url)
    BY <1>1, <2>1, ArgumentsOn
  <2>4. RanAsMatched(f, below[p][f], MatchingIn(p, url), url, accepts)
    BY <1>2, <2>2, <2>3, Zenon DEF RunsBelow
  <2>5. Child(f, p, segment, accepts, below) = below[p][f]
    BY <1>2, <1>3, <1>6, Zenon DEF Child
  <2> QED
    BY <2>4, <2>5, Zenon
<1>7. CASE name # Wild /\ ~(name \in Parameters /\ segment # "") /\ name # segment
  <2>1. ~Fits(name, url[Len(path) + 1])
    BY <1>7 DEF Fits
  <2>2. MatchingIn(p, url) = {}
    BY <1>7, <2>1, WayOff
  <2>3. Child(f, p, segment, accepts, below) = f
    BY <1>2, <1>3, <1>7, Zenon DEF Child
  <2>4. RanAsMatched(f, f, {}, url, accepts)
    BY NoneRan
  <2> QED
    BY <2>2, <2>3, <2>4, Zenon
<1> QED
  BY <1>4, <1>5, <1>6, <1>7

(* The handlers below the children that the first n routes made.             *)
BegunBelow(path, url, n) ==
  {h \in MatchingIn(path, url) :
     \E m \in 1..n : MakesChild(path, m) /\ IsPrefix(Through(path, m), routes[h])}

LEMMA ThroughIs ==
  ASSUME Routes, NEW path \in Segments, NEW n \in 1..Len(routes), MakesChild(path, n)
  PROVE  /\ Through(path, n) \in Segments /\ Len(Through(path, n)) = Len(path) + 1
         /\ Len(path) \in Nat /\ routes[n][Len(path) + 1] \in STRING
         /\ \A j \in 1..Len(path) : Through(path, n)[j] = path[j]
         /\ Through(path, n)[Len(path) + 1] = routes[n][Len(path) + 1]
         /\ IsPrefix(Through(path, n), routes[n])
<1> DEFINE p == Through(path, n)
           r == routes[n]
<1>1. /\ Len(path) \in Nat /\ Len(path) + 1 \in 1..Len(r) /\ r[Len(path) + 1] \in STRING
      /\ \A j \in 1..Len(path) : r[j] = path[j]
  BY MakesChildIs
<1>2. /\ p \in Segments /\ Len(p) = Len(path) + 1 /\ p[Len(path) + 1] = r[Len(path) + 1]
      /\ \A j \in 1..Len(path) : p[j] = path[j]
  BY <1>1, ChildPath DEF Through
<1>3. r \in Segments /\ Len(r) \in Nat
  BY RouteIs
<1> HIDE DEF p, r
<1>4. \A j \in 1..Len(path) + 1 : j = Len(path) + 1 \/ j \in 1..Len(path)
  BY <1>1
<1>5. \A j \in 1..Len(p) : p[j] = r[j]
  BY <1>1, <1>2, <1>4
<1>6. IsPrefix(p, r)
  BY <1>1, <1>2, <1>3, <1>5, UnderIs
<1> QED
  BY <1>1, <1>2, <1>6 DEF p, r

LEMMA PrefixOfPath ==
  ASSUME NEW s \in Segments, NEW t \in Segments, NEW r \in Segments,
         Len(t) = Len(s) + 1, \A j \in 1..Len(s) : t[j] = s[j], IsPrefix(t, r)
  PROVE  IsPrefix(s, r) /\ Len(s) + 1 <= Len(r) /\ r[Len(s) + 1] = t[Len(s) + 1]
<1>1. Len(s) \in Nat /\ Len(r) \in Nat
  BY LenProperties DEF Segments
<1>2. Len(t) <= Len(r) /\ \A j \in 1..Len(t) : t[j] = r[j]
  BY UnderIs
<1>3. Len(s) <= Len(r) /\ \A j \in 1..Len(s) : s[j] = r[j]
  BY <1>1, <1>2
<1>4. IsPrefix(s, r)
  BY <1>3, UnderIs
<1> QED
  BY <1>1, <1>2, <1>4

(* No two children are the same.                                             *)
LEMMA BegunApart ==
  ASSUME Routes, NEW url, NEW path \in Segments, NEW n \in 1..Len(routes), MakesChild(path, n)
  PROVE  BegunBelow(path, url, n - 1) \cap MatchingIn(Through(path, n), url) = {}
<1> SUFFICES ASSUME NEW h \in BegunBelow(path, url, n - 1), h \in MatchingIn(Through(path, n), url)
             PROVE  FALSE
  OBVIOUS
<1>1. Len(routes) \in Nat
  BY RouteIs
<1>2. PICK m \in 1..n - 1 : MakesChild(path, m) /\ IsPrefix(Through(path, m), routes[h])
  BY DEF BegunBelow
<1>3. m \in 1..Len(routes)
  BY <1>1, <1>2
<1> DEFINE p == Through(path, n)
           q == Through(path, m)
           k == Len(path) + 1
<1>4. p \in Segments /\ Len(p) = k /\ Len(path) \in Nat /\ \A j \in 1..Len(path) : p[j] = path[j]
  BY ThroughIs
<1>5. /\ q \in Segments /\ Len(q) = k /\ \A j \in 1..Len(path) : q[j] = path[j]
      /\ IsPrefix(q, routes[m])
  BY <1>2, <1>3, ThroughIs
<1>6. h \in Added /\ IsPrefix(p, routes[h]) /\ IsPrefix(q, routes[h])
  BY <1>2 DEF MatchingIn
<1>7. routes[h] \in Segments
  BY <1>6, AddedIs, RouteIs
<1>8. p[k] = routes[h][k] /\ q[k] = routes[h][k]
  <2> HIDE DEF p, q
  <2>1. p[k] = routes[h][k]
    BY <1>4, <1>6, <1>7, PrefixOfPath
  <2>2. q[k] = routes[h][k]
    BY <1>4, <1>5, <1>6, <1>7, PrefixOfPath
  <2> QED
    BY <2>1, <2>2
<1>9. ~IsPrefix(p, routes[m])
  BY <1>2 DEF MakesChild, Through
<1> HIDE DEF p, q
<1>10. \A j \in 1..k : j = k \/ j \in 1..Len(path)
  BY <1>4
<1> HIDE DEF k
<1>11. \A j \in 1..k : p[j] = q[j]
  BY <1>4, <1>5, <1>8, <1>10
<1>12. p = q
  BY <1>4, <1>5, <1>11, SeqEqual DEF Segments
<1> QED
  BY <1>5, <1>9, <1>12

LEMMA BegunNext ==
  ASSUME Routes, NEW url, NEW path \in Segments, NEW n \in 1..Len(routes)
  PROVE  BegunBelow(path, url, n) =
           IF MakesChild(path, n)
           THEN BegunBelow(path, url, n - 1) \cup MatchingIn(Through(path, n), url)
           ELSE BegunBelow(path, url, n - 1)
<1>1. \A m : m \in 1..n <=> m \in 1..n - 1 \/ m = n
  OBVIOUS
<1>2. ASSUME NEW h, MakesChild(path, n)
      PROVE  h \in MatchingIn(Through(path, n), url) <=>
               h \in MatchingIn(path, url) /\ IsPrefix(Through(path, n), routes[h])
  <2>1. ASSUME h \in Added, IsPrefix(Through(path, n), routes[h]) PROVE IsPrefix(path, routes[h])
    <3>1. routes[h] \in Segments
      BY <2>1, AddedIs, RouteIs
    <3>2. /\ Through(path, n) \in Segments /\ Len(Through(path, n)) = Len(path) + 1
          /\ \A j \in 1..Len(path) : Through(path, n)[j] = path[j]
      BY <1>2, ThroughIs
    <3> QED
      BY <2>1, <3>1, <3>2, PrefixOfPath
  <2> QED
    BY <2>1 DEF MatchingIn
<1>3. CASE MakesChild(path, n)
  BY <1>1, <1>2, <1>3 DEF BegunBelow
<1>4. CASE ~MakesChild(path, n)
  BY <1>1, <1>4 DEF BegunBelow
<1> QED
  BY <1>3, <1>4

(* In the end all are begun.                                                 *)
LEMMA BegunAll ==
  ASSUME Routes, NEW url \in Urls, NEW path, Way(path, url), Len(path) < Len(url)
  PROVE  BegunBelow(path, url, Len(routes)) = MatchingIn(path, url)
<1>1. /\ path \in Segments /\ Len(path) \in Nat /\ Len(url) \in Nat
      /\ \A j \in 1..Len(path) : path[j] # Wild
  BY UrlIs, LenProperties DEF Way, Segments
<1> DEFINE k == Len(path) + 1
<1>2. ASSUME NEW h \in MatchingIn(path, url) PROVE h \in BegunBelow(path, url, Len(routes))
  <2> DEFINE r == routes[h]
  <2>1. h \in Added /\ IsPrefix(path, r) /\ PatternMatches(r, url)
    BY <1>2 DEF MatchingIn
  <2>2. /\ r \in Segments /\ Len(r) \in Nat \ {0}
        /\ IF r[Len(r)] = Wild THEN Len(url) >= Len(r) ELSE Len(url) = Len(r)
    BY <2>1, MatchesIs
  <2>3. h \in 1..Len(routes) /\ Len(routes) \in Nat
    BY <2>1, AddedIs, RouteIs
  <2>4. \A j \in 1..Len(r) : r[j] \in STRING
    BY <2>3, RouteIs
  <2> HIDE DEF r
  <2>5. Len(path) <= Len(r) /\ \A j \in 1..Len(path) : path[j] = r[j]
    BY <1>1, <2>1, <2>2, UnderIs
  <2>6. Len(path) # Len(r)
    <3> SUFFICES ASSUME Len(path) = Len(r) PROVE FALSE
      OBVIOUS
    <3>1. Len(r) \in 1..Len(path)
      BY <1>1, <2>2
    <3>2. r[Len(r)] # Wild
      BY <1>1, <2>5, <3>1
    <3> QED
      BY <1>1, <2>2, <3>2
  <2>7. k \in 1..Len(r) /\ k <= Len(r)
    BY <1>1, <2>2, <2>5, <2>6
  <2> DEFINE p == Append(path, r[k])
             T == {m \in 1..Len(routes) : IsPrefix(p, routes[m])}
  <2>8. /\ r[k] \in STRING /\ p \in Segments /\ Len(p) = k /\ p[k] = r[k]
        /\ \A j \in 1..Len(path) : p[j] = path[j]
    BY <1>1, <2>4, <2>7, ChildPath
  <2>9. IsPrefix(p, r)
    <3> HIDE DEF p
    <3>1. \A j \in 1..k : j = k \/ j \in 1..Len(path)
      BY <1>1
    <3>2. \A j \in 1..k : p[j] = r[j]
      BY <2>5, <2>8, <3>1
    <3> QED
      BY <2>2, <2>7, <2>8, <3>2, UnderIs
  <2>10. h \in T /\ T \in SUBSET Nat
    BY <2>3, <2>9 DEF r
  <2> HIDE DEF p
  <2>11. PICK m \in T : \A x \in T : m <= x
    <3> HIDE DEF T
    <3> QED
      BY <2>10, LeastNat
  <2>12. m \in 1..Len(routes) /\ IsPrefix(p, routes[m])
    BY <2>11
  <2>13. routes[m] \in Segments
    BY <2>12, RouteIs
  <2>14. IsPrefix(path, routes[m]) /\ k <= Len(routes[m]) /\ routes[m][k] = p[k]
    BY <1>1, <2>8, <2>12, <2>13, PrefixOfPath
  <2>15. path # routes[m]
    BY <1>1, <2>14
  <2>16. Append(path, routes[m][k]) = p
    BY <2>8, <2>14 DEF p
  <2>17. ASSUME NEW x \in 1..m - 1 PROVE ~IsPrefix(p, routes[x])
    <3>1. x \in 1..Len(routes) /\ ~(m <= x)
      BY <2>3, <2>12
    <3> QED
      BY <2>11, <3>1
  <2>18. MakesChild(path, m) /\ Through(path, m) = p
    BY <2>14, <2>15, <2>16, <2>17, Zenon DEF MakesChild, IsStrictPrefix, Through
  <2> QED
    BY <1>2, <2>9, <2>12, <2>18 DEF BegunBelow, r
<1> QED
  BY <1>2 DEF BegunBelow

(* The loop over a node's children,                                          *)
LEMMA ChildrenRan ==
  ASSUME Routes, NEW url \in Urls, NEW accepts, NEW path, Way(path, url), Len(path) < Len(url),
         NEW f, Undecided(f), f.params = ArgumentsOf(path, url),
         NEW below \in Results, RunsBelow(below, Len(path) + 1, url, accepts),
         NEW segment \in STRING, segment = url[Len(path) + 1]
  PROVE  RanAsMatched(f, Descends(f, path, segment, accepts, below), MatchingIn(path, url),
                      url, accepts)
<1> DEFINE g == Children(f, path, segment, accepts, below)
           N == Len(routes)
           Told(n) == RanAsMatched(f, g[n], BegunBelow(path, url, n), url, accepts)
           Bad == {n \in 0..N : ~Told(n)}
<1>1. f \in Runs /\ ~f.handled /\ ~f.over /\ path \in Segments
  BY DEF Undecided, Way
<1>2. /\ g \in [0..N -> Runs] /\ g[0] = f
      /\ \A n \in 1..N : g[n] = IF MakesChild(path, n)
                                THEN Child(g[n - 1], Through(path, n), segment, accepts, below)
                                ELSE g[n - 1]
  BY <1>1, ChildrenDef
<1>3. N \in Nat
  BY RouteIs
<1>4. Told(0)
  <2>1. BegunBelow(path, url, 0) = {}
    BY DEF BegunBelow
  <2> QED
    BY <1>2, <2>1, NoneRan
<1>5. ASSUME NEW n \in 1..N, Told(n - 1) PROVE Told(n)
  <2> DEFINE a == g[n - 1]
             b == g[n]
             p == Through(path, n)
  <2>1. n - 1 \in 0..N
    BY <1>3
  <2>2. a \in Runs /\ ~a.over /\ (~a.handled => a.params = f.params)
    BY <1>2, <1>5, <2>1, Zenon DEF RanAsMatched
  <2>3. CASE ~MakesChild(path, n)
    <3>1. b = a /\ BegunBelow(path, url, n) = BegunBelow(path, url, n - 1)
      BY <1>1, <1>2, <2>3, BegunNext
    <3> QED
      BY <1>5, <3>1, Zenon
  <2>4. CASE MakesChild(path, n) /\ a.handled
    <3>1. b = Child(a, p, segment, accepts, below)
      BY <1>2, <2>4
    <3>2. b = a
      BY <2>4, <3>1, Zenon DEF Child
    <3>3. BegunBelow(path, url, n - 1) \subseteq BegunBelow(path, url, n)
      BY <1>1, <2>4, BegunNext
    <3>4. RanAsMatched(f, a, BegunBelow(path, url, n - 1), url, accepts)
      BY <1>5
    <3>5. RanAsMatched(f, a, BegunBelow(path, url, n), url, accepts)
      BY <2>4, <3>3, <3>4, AcceptedRan
    <3> QED
      BY <3>2, <3>5, Zenon
  <2>5. CASE MakesChild(path, n) /\ ~a.handled
    <3>1. b = Child(a, p, segment, accepts, below)
      BY <1>2, <2>5
    <3>2. /\ p \in Segments /\ Len(p) = Len(path) + 1 /\ Len(path) \in Nat
          /\ routes[n][Len(path) + 1] \in STRING /\ IsPrefix(p, routes[n])
      BY <1>1, <2>5, ThroughIs
    <3>3. p = Append(path, routes[n][Len(path) + 1])
      BY DEF Through
    <3>4. ASSUME routes[n][Len(path) + 1] = Wild PROVE HandlerOf(p) # 0
      <4>1. /\ Len(path) + 1 \in 1..Len(routes[n]) /\ routes[n] \in Segments
            /\ Len(routes[n]) \in Nat /\ \A j \in 1..Len(routes[n]) - 1 : routes[n][j] # Wild
        BY <1>1, <2>5, MakesChildIs, RouteIs
      <4>2. Len(path) + 1 \notin 1..Len(routes[n]) - 1
        BY <3>4, <4>1
      <4>3. Len(p) = Len(routes[n])
        BY <3>2, <4>1, <4>2
      <4>4. p = routes[n]
        BY <3>2, <4>1, <4>3, SamePath
      <4> QED
        BY <4>4, HandlerIs
    <3>5. Undecided(a) /\ a.params = ArgumentsOf(path, url)
      BY <2>2, <2>5 DEF Undecided
    <3> HIDE DEF a, b, p
    <3>6. RanAsMatched(a, b, MatchingIn(p, url), url, accepts)
      BY <3>1, <3>2, <3>3, <3>4, <3>5, ChildRan
    <3>7. RanAsMatched(f, a, BegunBelow(path, url, n - 1), url, accepts)
      BY <1>5 DEF a
    <3>8. /\ BegunBelow(path, url, n - 1) \cap MatchingIn(p, url) = {}
          /\ BegunBelow(path, url, n) = BegunBelow(path, url, n - 1) \cup MatchingIn(p, url)
      BY <1>1, <2>5, BegunApart, BegunNext DEF p
    <3>9. RanAsMatched(f, b, BegunBelow(path, url, n - 1) \cup MatchingIn(p, url), url, accepts)
      BY <2>5, <3>6, <3>7, <3>8, MoreRan
    <3> QED
      BY <3>8, <3>9, Zenon DEF b
  <2> QED
    BY <2>3, <2>4, <2>5
<1> HIDE DEF Told
<1>6. Bad = {}
  <2>1. SUFFICES ASSUME NEW x \in Bad PROVE FALSE
    OBVIOUS
  <2>2. Bad \in SUBSET Nat
    BY <1>3
  <2>3. PICK n \in Bad : \A y \in Bad : n <= y
    <3> HIDE DEF Bad
    <3> QED
      BY <2>1, <2>2, LeastNat
  <2>4. n # 0
    BY <1>4, <2>3
  <2>5. n \in 1..N /\ n - 1 \in 0..N /\ n - 1 \notin Bad
    BY <1>3, <2>3, <2>4
  <2> QED
    BY <1>5, <2>3, <2>5
<1>7. N \in 0..N
  BY <1>3
<1>8. RanAsMatched(f, g[N], MatchingIn(path, url), url, accepts)
  <2>1. Told(N)
    BY <1>6, <1>7
  <2>2. BegunBelow(path, url, N) = MatchingIn(path, url)
    BY BegunAll
  <2> QED
    BY <2>1, <2>2, Zenon DEF Told
<1>9. g[N] \in Runs /\ ~g[N].over
  BY <1>8, Zenon DEF RanAsMatched
<1> HIDE DEF g, N
<1>10. [g[N] EXCEPT !.over = f.over] = g[N]
  <2> DEFINE x == g[N]
  <2>1. x \in Runs /\ ~x.over
    BY <1>9
  <2> HIDE DEF x
  <2>2. x.over = FALSE /\ f.over = FALSE
    BY <1>1, <2>1 DEF Runs
  <2>3. [x EXCEPT !.over = FALSE] = x
    BY <2>1, <2>2 DEF Runs
  <2> QED
    BY <2>2, <2>3, Zenon DEF x
<1>11. Descends(f, path, segment, accepts, below) = g[N]
  BY <1>10, Zenon DEF Descends, g, N
<1> QED
  BY <1>8, <1>11, Zenon

(* and so for every node, by how many segments of the URL are left.          *)
LEMMA ExecuteRan ==
  ASSUME Routes, NEW url \in Urls, NEW accepts
  PROVE  \A left \in 0..Len(url) :
           RunsBelow(executeHandlers(url, accepts)[left], Len(url) - left, url, accepts)
<1> DEFINE e == executeHandlers(url, accepts)
           N == Len(url)
           Bad == {left \in 0..N : ~RunsBelow(e[left], N - left, url, accepts)}
<1>1. N \in Nat
  BY UrlIs
<1>2. /\ e \in [0..N -> Results] /\ e[0] = Standing(accepts)
      /\ \A left \in 1..N : e[left] = Descending(url, accepts, left)[e[left - 1]]
  BY ExecuteDef
<1> HIDE DEF e, N
<1>3. RunsBelow(e[0], N - 0, url, accepts)
  <2> SUFFICES ASSUME NEW path, NEW f, Way(path, url), Len(path) = N,
                      Undecided(f), f.params = ArgumentsOf(path, url)
               PROVE  RanAsMatched(f, e[0][path][f], MatchingIn(path, url), url, accepts)
    BY <1>1 DEF RunsBelow
  <2>1. path \in Segments /\ f \in Runs
    BY DEF Way, Undecided
  <2>2. e[0][path][f] = Stands(f, path, accepts)
    BY <1>2, <2>1 DEF Standing
  <2>3. MatchingIn(path, url) = OwnHandler(path)
    BY MatchingAtEnd DEF N
  <2>4. RanAsMatched(f, Stands(f, path, accepts), OwnHandler(path), url, accepts)
    BY OwnRan
  <2> QED
    BY <2>2, <2>3, <2>4, Zenon
<1>4. ASSUME NEW left \in 1..N, RunsBelow(e[left - 1], N - (left - 1), url, accepts)
      PROVE  RunsBelow(e[left], N - left, url, accepts)
  <2> SUFFICES ASSUME NEW path, NEW f, Way(path, url), Len(path) = N - left,
                      Undecided(f), f.params = ArgumentsOf(path, url)
               PROVE  RanAsMatched(f, e[left][path][f], MatchingIn(path, url), url, accepts)
    BY DEF RunsBelow
  <2> DEFINE segment == SegmentLeft(url, left)
             below == e[left - 1]
  <2>1. path \in Segments /\ f \in Runs
    BY DEF Way, Undecided
  <2>2. left - 1 \in 0..N /\ Len(path) < N /\ N - (left - 1) = Len(path) + 1
        /\ N - left + 1 = Len(path) + 1
    BY <1>1
  <2>3. below \in Results
    BY <1>2, <2>2
  <2>4. segment = url[N - left + 1] /\ segment \in STRING
    BY LeftIs DEF N
  <2>5. e[left][path][f] = Descends(f, path, segment, accepts, below)
    <3>1. e[left] = Descending(url, accepts, left)[below]
      BY <1>2
    <3> HIDE DEF below, segment
    <3>2. Descending(url, accepts, left)[below][path][f] =
            Descends(f, path, SegmentLeft(url, left), accepts, below)
      BY <2>1, <2>3 DEF Descending
    <3> QED
      BY <3>1, <3>2 DEF segment
  <2>6. RunsBelow(below, Len(path) + 1, url, accepts)
    BY <1>4, <2>2
  <2> HIDE DEF below, segment
  <2>7. segment = url[Len(path) + 1]
    BY <2>2, <2>4
  <2>8. Len(path) < Len(url)
    BY <2>2 DEF N
  <2>9. RanAsMatched(f, Descends(f, path, segment, accepts, below), MatchingIn(path, url),
                     url, accepts)
    BY <2>3, <2>4, <2>6, <2>7, <2>8, ChildrenRan
  <2> QED
    BY <2>5, <2>9, Zenon
<1>5. Bad = {}
  <2>1. SUFFICES ASSUME NEW x \in Bad PROVE FALSE
    OBVIOUS
  <2>2. Bad \in SUBSET Nat
    BY <1>1
  <2>3. PICK n \in Bad : \A y \in Bad : n <= y
    <3> HIDE DEF Bad
    <3> QED
      BY <2>1, <2>2, LeastNat
  <2>4. n # 0
    BY <1>3, <2>3
  <2>5. n \in 1..N /\ n - 1 \in 0..N /\ n - 1 \notin Bad
    BY <1>1, <2>3, <2>4
  <2> QED
    BY <1>4, <2>3, <2>5
<1> QED
  BY <1>5 DEF e, N

LEMMA CountOnce ==
  ASSUME NEW L \in Nat, NEW T, NEW s, \A i \in 1..L : s[i] \in T,
         \A x \in T : \E i \in 1..L : s[i] = x, \A i, j \in 1..L : s[i] = s[j] => i = j
  PROVE  Cardinality(T) = L
<1> DEFINE f == [i \in 1..L |-> s[i]]
<1>1. f \in [1..L -> T]
  OBVIOUS
<1>2. \A i, j \in 1..L : f[i] = f[j] => i = j
  OBVIOUS
<1>3. \A x \in T : \E i \in 1..L : f[i] = x
  OBVIOUS
<1> HIDE DEF f
<1>4. ExistsBijection(1..L, T)
  BY <1>1, <1>2, <1>3 DEF ExistsBijection, Bijection, Injection, IsInjective, Surjection
<1> QED
  BY <1>4, FS_CountingElements

(* What a route comes to, whatever the patterns and handlers.                *)
LEMMA RoutesMatch == Routes => RoutesAsMatched
<1> SUFFICES ASSUME Routes, NEW url \in Urls, NEW accepts \in SUBSET Added
             PROVE  LET r == route(url, accepts)
                        matching == {n \in Added : PatternMatches(routes[n], url)}
                    IN /\ \A k \in DOMAIN r.ran :
                            /\ r.ran[k][1] \in matching
                            /\ r.ran[k][2] = ArgumentsOf(routes[r.ran[k][1]], url)
                            /\ r.ran[k][1] \in accepts <=> r.handled /\ k = Len(r.ran)
                       /\ Cardinality({r.ran[k][1] : k \in DOMAIN r.ran}) = Len(r.ran)
                       /\ r.handled <=> matching \cap accepts # {}
                       /\ ~r.handled => Len(r.ran) = Cardinality(matching)
  BY DEF RoutesAsMatched, ArgumentsOf
<1> DEFINE r == route(url, accepts)
           matching == {n \in Added : PatternMatches(routes[n], url)}
           f == [ran |-> <<>>, params |-> <<>>, handled |-> FALSE, over |-> FALSE]
           N == Len(url)
           L == Len(r.ran)
<1>1. N \in Nat /\ N \in 0..N /\ N - N = 0
  <2>1. N \in Nat
    BY UrlIs
  <2> QED
    BY <2>1
<1>2. <<>> \in Segments /\ Len(<<>>) = 0
  BY EmptySeq DEF Segments
<1>3. Undecided(f) /\ f.params = <<>> /\ f.ran = <<>>
  BY EmptySeq DEF Undecided, Runs
<1>4. Way(<<>>, url)
  BY <1>1, <1>2 DEF Way
<1>5. ArgumentsOf(<<>>, url) = <<>>
  <2>1. Len(<<>>) <= Len(url)
    BY <1>1, <1>2
  <2>2. Steps(Segments, <<>>, TakesArguments(<<>>, url), Len(<<>>), Arguments(<<>>, url))
    BY <1>2, <2>1, ArgumentsDef
  <2> QED
    BY <1>2, <2>2 DEF Steps, ArgumentsOf
<1>6. MatchingIn(<<>>, url) = matching
  <2>1. ASSUME NEW h \in Added PROVE IsPrefix(<<>>, routes[h])
    <3>1. routes[h] \in Segments /\ Len(routes[h]) \in Nat
      BY AddedIs, RouteIs
    <3> QED
      BY <1>2, <3>1, UnderIs
  <2> QED
    BY <2>1 DEF MatchingIn
<1>7. r = executeHandlers(url, accepts)[N][<<>>][f]
  BY DEF route
<1>8. RunsBelow(executeHandlers(url, accepts)[N], 0, url, accepts)
  <2>1. RunsBelow(executeHandlers(url, accepts)[N], N - N, url, accepts)
    BY <1>1, ExecuteRan
  <2> QED
    BY <1>1, <2>1
<1> HIDE DEF r, matching, f
<1>9. RanAsMatched(f, r, matching, url, accepts)
  BY <1>2, <1>3, <1>4, <1>5, <1>6, <1>7, <1>8, Zenon DEF RunsBelow
<1>10. L \in Nat /\ DOMAIN r.ran = 1..L
  <2>1. r \in Runs
    BY <1>9 DEF RanAsMatched
  <2> QED
    BY <2>1, RunIs
<1>11. Between(f, r) = 1..L
  <2>1. Len(f.ran) = 0
    BY <1>2, <1>3
  <2> QED
    BY <2>1 DEF Between
<1>12. /\ \A i \in 1..L :
            /\ r.ran[i][1] \in matching
            /\ r.ran[i][2] = ArgumentsOf(routes[r.ran[i][1]], url)
            /\ r.ran[i][1] \in accepts <=> r.handled /\ i = L
       /\ \A i, j \in 1..L : r.ran[i][1] = r.ran[j][1] => i = j
       /\ ~r.handled => \A h \in matching : \E i \in 1..L : r.ran[i][1] = h
  BY <1>9, <1>11, Zenon DEF RanAsMatched
<1>13. r.handled => L \in 1..L
  <2>1. Len(f.ran) = 0
    BY <1>2, <1>3
  <2>2. r.handled => Len(f.ran) < L
    BY <1>9, Zenon DEF RanAsMatched
  <2> QED
    BY <1>10, <2>1, <2>2
<1> HIDE DEF L
<1>14. Cardinality({r.ran[k][1] : k \in DOMAIN r.ran}) = L
  <2> DEFINE T == {r.ran[k][1] : k \in DOMAIN r.ran}
             s == [i \in 1..L |-> r.ran[i][1]]
  <2>1. \A i \in 1..L : s[i] \in T
    BY <1>10
  <2>2. \A x \in T : \E i \in 1..L : s[i] = x
    BY <1>10
  <2>3. \A i, j \in 1..L : s[i] = s[j] => i = j
    BY <1>12
  <2> HIDE DEF T, s
  <2>4. Cardinality(T) = L
    BY <1>10, <2>1, <2>2, <2>3, CountOnce
  <2> QED
    BY <2>4 DEF T
<1>15. r.handled <=> matching \cap accepts # {}
  <2>1. ASSUME r.handled PROVE matching \cap accepts # {}
    <3>1. r.ran[L][1] \in matching /\ r.ran[L][1] \in accepts
      BY <1>12, <1>13, <2>1
    <3> QED
      BY <3>1
  <2>2. ASSUME ~r.handled, NEW h \in matching \cap accepts PROVE FALSE
    <3>1. PICK i \in 1..L : r.ran[i][1] = h
      BY <1>12, <2>2
    <3> QED
      BY <1>12, <2>2, <3>1
  <2> QED
    BY <2>1, <2>2
<1>16. ASSUME ~r.handled PROVE L = Cardinality(matching)
  <2> DEFINE s == [i \in 1..L |-> r.ran[i][1]]
  <2>1. \A i \in 1..L : s[i] \in matching
    BY <1>12
  <2>2. \A x \in matching : \E i \in 1..L : s[i] = x
    BY <1>12, <1>16
  <2>3. \A i, j \in 1..L : s[i] = s[j] => i = j
    BY <1>12
  <2> HIDE DEF s
  <2> QED
    BY <1>10, <2>1, <2>2, <2>3, CountOnce
<1> QED
  BY <1>10, <1>12, <1>14, <1>15, <1>16, Zenon DEF r, matching, L

(* A request runs the handlers of the patterns that its URL matches and no   *)
(* others, each once, with the arguments that stand for its parameters, up   *)
(* to the first that accepts (HttpRouter.h:118-163, 201-280): the parameter  *)
(* stack is what it was whenever a branch of the tree has been given up.     *)
THEOREM RoutesComeAsMatched == HttpRouterSpec => []RoutesAsMatched
<1>1. HttpRouterInit => Routes
  BY EmptySeq DEF HttpRouterInit, Routes
<1>2. Routes /\ [HttpRouterNext]_routes => Routes'
  <2> SUFFICES ASSUME Routes, [HttpRouterNext]_routes PROVE Routes'
    OBVIOUS
  <2>1. CASE UNCHANGED routes
    BY <2>1 DEF Routes
  <2>2. ASSUME NEW p \in Patterns, add(p) PROVE Routes'
    BY <2>2, AppendProperties DEF add, Routes
  <2> QED
    BY <2>1, <2>2 DEF HttpRouterNext
<1>3. Routes => RoutesAsMatched
  BY RoutesMatch
<1> QED
  BY <1>1, <1>2, <1>3, PTL DEF HttpRouterSpec
=============================================================================

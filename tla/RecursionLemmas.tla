-------------------------- MODULE RecursionLemmas ---------------------------
(***************************************************************************)
(* Lemmas for proofs by the least counterexample: a set of numbers has a   *)
(* least and, if it is finite, a greatest element, and a function that is  *)
(* defined by steps over 0..N exists and is the only one to make them.     *)
(***************************************************************************)
EXTENDS Integers, SequencesExt, SequenceTheorems, FiniteSetTheorems,
        WellFoundedInduction, TLAPS

-----------------------------------------------------------------------------
(* Functions defined by recursion over an initial piece of the naturals:     *)
(* from first, by a step for each number.                                    *)

LEMMA LeastNat ==
  ASSUME NEW T \in SUBSET Nat, T # {}
  PROVE  \E m \in T : \A k \in T : m <= k
<1>1. PICK m \in T : \A k \in T : ~(<<k, m>> \in OpToRel(<, Nat))
  BY NatLessThanWellFounded, WFMin, Zenon
<1>2. \A k \in T : ~(k < m)
  BY <1>1 DEF OpToRel
<1> QED
  BY <1>2

Steps(X, first, step, N, f) ==
  f \in [0..N -> X] /\ f[0] = first /\ \A n \in 1..N : f[n] = step[n][f[n - 1]]

LEMMA StepsOne ==
  ASSUME NEW X, NEW first \in X, NEW N \in Nat, NEW step \in [1..N -> [X -> X]],
         NEW m \in 1..N, NEW g, Steps(X, first, step, m - 1, g)
  PROVE  \E f : Steps(X, first, step, m, f)
<1> DEFINE h == [n \in 0..m |-> IF n = m THEN step[m][g[m - 1]] ELSE g[n]]
<1>1. g[m - 1] \in X /\ m - 1 \in 0..(m - 1) /\ m \in Nat
  BY DEF Steps
<1>2. h \in [0..m -> X]
  BY <1>1 DEF Steps
<1>3. h[0] = first
  BY DEF Steps
<1>4. ASSUME NEW n \in 1..m PROVE h[n] = step[n][h[n - 1]]
  BY <1>1, <1>4 DEF Steps
<1> QED
  BY <1>2, <1>3, <1>4 DEF Steps

(* There is such a function,                                                 *)
LEMMA StepsExist ==
  ASSUME NEW X, NEW first \in X, NEW N \in Nat, NEW step \in [1..N -> [X -> X]]
  PROVE  \E f : Steps(X, first, step, N, f)
<1> DEFINE Bad == {m \in 0..N : ~\E f : Steps(X, first, step, m, f)}
<1>1. Bad \in SUBSET Nat
  OBVIOUS
<1>2. Bad = {}
  <2>1. SUFFICES ASSUME NEW b \in Bad PROVE FALSE
    OBVIOUS
  <2>2. PICK m \in Bad : \A k \in Bad : m <= k
    <3> HIDE DEF Bad
    <3> QED
      BY <1>1, LeastNat
  <2>3. CASE m = 0
    <3>1. Steps(X, first, step, 0, [n \in 0..0 |-> first])
      BY DEF Steps
    <3> QED
      BY <2>2, <2>3, <3>1
  <2>4. CASE m # 0
    <3>1. m - 1 \in 0..N /\ m \in 1..N /\ m - 1 \notin Bad
      BY <2>2, <2>4
    <3>2. PICK g : Steps(X, first, step, m - 1, g)
      BY <3>1
    <3> QED
      BY <3>1, <3>2, StepsOne
  <2> QED
    BY <2>3, <2>4
<1> QED
  BY <1>2

(* and every function that makes these steps is it.                          *)
Makes(X, first, step, N, g) ==
  g[0] = first /\ \A n \in 1..N : g[n - 1] \in X => g[n] = step[n][g[n - 1]]

LEMMA StepsAre ==
  ASSUME NEW X, NEW first \in X, NEW N \in Nat, NEW step \in [1..N -> [X -> X]],
         NEW f, Steps(X, first, step, N, f), NEW g, Makes(X, first, step, N, g)
  PROVE  \A n \in 0..N : g[n] = f[n] /\ g[n] \in X
<1> DEFINE Bad == {m \in 0..N : g[m] # f[m]}
<1>1. Bad \in SUBSET Nat
  OBVIOUS
<1>2. Bad = {}
  <2>1. SUFFICES ASSUME NEW b \in Bad PROVE FALSE
    OBVIOUS
  <2>2. PICK m \in Bad : \A k \in Bad : m <= k
    <3> HIDE DEF Bad
    <3> QED
      BY <1>1, LeastNat
  <2>3. m # 0
    BY <2>2 DEF Steps, Makes
  <2>4. m - 1 \in 0..N /\ m \in 1..N /\ m - 1 \notin Bad
    BY <2>2, <2>3
  <2>5. g[m - 1] = f[m - 1] /\ f[m - 1] \in X
    BY <2>4 DEF Steps
  <2> QED
    BY <2>2, <2>4, <2>5 DEF Steps, Makes
<1> QED
  BY <1>2 DEF Steps

LEMMA Regrouped ==
  ASSUME NEW T
  PROVE  \A x, y, z \in Seq(T) : (x \o y) \o z = x \o (y \o z)
<1> SUFFICES ASSUME NEW x \in Seq(T), NEW y \in Seq(T), NEW z \in Seq(T)
             PROVE  (x \o y) \o z = x \o (y \o z)
  OBVIOUS
<1> QED
  BY ConcatAssociative

LEMMA Joined ==
  ASSUME NEW T
  PROVE  \A x, y \in Seq(T) : x \o y \in Seq(T) /\ IsPrefix(x, x \o y)
<1> SUFFICES ASSUME NEW x \in Seq(T), NEW y \in Seq(T)
             PROVE  x \o y \in Seq(T) /\ IsPrefix(x, x \o y)
  OBVIOUS
<1>1. x \o y \in Seq(T) /\ Len(x \o y) = Len(x) + Len(y)
  BY ConcatProperties
<1>2. SubSeq(x, 1, Len(x)) = SubSeq(x \o y, 1, Len(x))
  <2>1. SubSeq(x \o y, 1, Len(x)) = x
    BY ConcatProperties, SubSeqProperties, SeqEqual
  <2>2. SubSeq(x, 1, Len(x)) = x
    BY SubSeqProperties, SeqEqual
  <2> QED
    BY <2>1, <2>2
<1> QED
  BY <1>1, <1>2 DEF IsPrefix

(* Least and greatest.                                                       *)
LEMMA MinIs ==
  ASSUME NEW S \in SUBSET Nat, S # {}
  PROVE  Min(S) \in S /\ Min(S) \in Nat /\ \A x \in S : Min(S) <= x
<1>1. \E m \in S : \A k \in S : m <= k
  BY LeastNat
<1> QED
  BY <1>1 DEF Min

LEMMA MaxIs ==
  ASSUME NEW S \in SUBSET Nat, S # {}, IsFiniteSet(S)
  PROVE  Max(S) \in S /\ Max(S) \in Nat /\ \A x \in S : x <= Max(S)
<1> DEFINE HasMax(T) == \E m \in T : \A k \in T : m >= k
           Bad == {n \in Nat : \E T \in SUBSET Nat :
                     IsFiniteSet(T) /\ Cardinality(T) = n /\ T # {} /\ ~HasMax(T)}
<1>1. Bad = {}
  <2>1. SUFFICES ASSUME NEW b \in Bad PROVE FALSE
    OBVIOUS
  <2>2. Bad \in SUBSET Nat
    OBVIOUS
  <2>3. PICK n \in Bad : \A k \in Bad : n <= k
    <3> HIDE DEF Bad
    <3> QED
      BY <2>2, LeastNat
  <2>4. PICK T \in SUBSET Nat : IsFiniteSet(T) /\ Cardinality(T) = n /\ T # {} /\ ~HasMax(T)
    BY <2>3
  <2>5. PICK x \in T : TRUE
    BY <2>4
  <2>6. IsFiniteSet(T \ {x}) /\ Cardinality(T \ {x}) = n - 1 /\ n \in Nat
    BY <2>3, <2>4, <2>5, FS_RemoveElement
  <2>7. n - 1 \in Nat /\ n - 1 \notin Bad
    <3>1. n - 1 \in Nat
      BY <2>6, FS_CardinalityType
    <3> HIDE DEF Bad
    <3> QED
      BY <2>3, <2>6, <3>1
  <2>8. CASE T \ {x} = {}
    <3>1. x \in Nat /\ \A k \in T : x >= k
      BY <2>4, <2>5, <2>8
    <3> QED
      BY <2>4, <2>5, <3>1
  <2>9. CASE T \ {x} # {}
    <3>1. HasMax(T \ {x})
      <4>1. T \ {x} \in SUBSET Nat
        OBVIOUS
      <4> HIDE DEF HasMax
      <4> QED
        BY <2>6, <2>7, <2>9, <4>1
    <3>2. PICK m \in T \ {x} : \A k \in T \ {x} : m >= k
      BY <3>1
    <3>3. CASE m >= x
      BY <2>4, <3>2, <3>3
    <3>4. CASE ~(m >= x)
      <4>1. \A k \in T : x >= k
        BY <2>4, <2>5, <3>2, <3>4
      <4> QED
        BY <2>4, <2>5, <4>1
    <3> QED
      BY <3>3, <3>4
  <2> QED
    BY <2>8, <2>9
<1>2. HasMax(S)
  <2>1. Cardinality(S) \in Nat
    BY FS_CardinalityType
  <2> HIDE DEF HasMax
  <2> QED
    BY <1>1, <2>1
<1>3. PICK m \in S : \A k \in S : m >= k
  BY <1>2
<1>4. Max(S) \in S /\ \A k \in S : Max(S) >= k
  BY <1>3 DEF Max
<1> QED
  BY <1>4
=============================================================================

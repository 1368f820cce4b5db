----------------------------- MODULE LoopProofs -----------------------------
(***************************************************************************)
(* Proofs about the event loop: the sources of gcd.c, the ready polls of   *)
(* epoll_kqueue.c, the callbacks deferred to the loop, and the lists of    *)
(* sockets.                                                                *)
(***************************************************************************)
EXTENDS SocketLoop, Epoll, Gcd, Defer, FiniteSetTheorems, SequenceTheorems,
        WellFoundedInduction, TLAPS

-----------------------------------------------------------------------------
(* gcd.c *)

(* A poll's sources run exactly for the events it polls for once it is       *)
(* started, and are both suspended, once, before that and after it stopped.  *)
CountsInv ==
  \A p \in Polls :
    /\ stage[p] \in {"inited", "stopped"} => \A s \in Sources : suspended[p][s] = 1
    /\ stage[p] = "started" =>
         \A s \in Sources : suspended[p][s] = IF s \in polled[p] THEN 0 ELSE 1
    /\ stage[p] = "stopped" => polled[p] = {}

GcdInv == GcdTypeOK /\ ~misuse /\ CountsInv

LEMMA GcdInvInit == GcdInit => GcdInv
<1> SUFFICES ASSUME GcdInit PROVE GcdInv
  OBVIOUS
<1>1. suspended \in [Polls -> [Sources -> 0..2]]
  BY DEF GcdInit
<1> QED
  BY <1>1 DEF GcdInit, GcdInv, GcdTypeOK, CountsInv

(* What a resumption of R and a suspension of S do to counts of 0 and 1.     *)
LEMMA ResumedCounts ==
  ASSUME NEW count \in [Sources -> 0..2], \A s \in Sources : count[s] \in {0, 1},
         NEW R, NEW S
  PROVE  /\ \A s \in Sources : Resumed(count, R, S)[s] =
                IF s \in R /\ count[s] = 1 THEN 0 ELSE IF s \in S THEN count[s] + 1 ELSE count[s]
         /\ Resumed(count, R, S) \in [Sources -> 0..2]
BY DEF Resumed

(* A step of one poll leaves the others as they are.                         *)
LEMMA OnePoll ==
  ASSUME GcdInv, NEW p \in Polls,
         NEW st \in {"none", "inited", "started", "stopped"}, NEW E \in SUBSET Sources,
         NEW count \in [Sources -> 0..2],
         stage' = [stage EXCEPT ![p] = st], polled' = [polled EXCEPT ![p] = E],
         suspended' = [suspended EXCEPT ![p] = count], misuse' = FALSE,
         st \in {"inited", "stopped"} => \A s \in Sources : count[s] = 1,
         st = "started" => \A s \in Sources : count[s] = IF s \in E THEN 0 ELSE 1,
         st = "stopped" => E = {}
  PROVE  GcdInv'
<1> USE DEF GcdInv, GcdTypeOK
<1>1. stage' \in [Polls -> {"none", "inited", "started", "stopped"}]
  OBVIOUS
<1>2. polled' \in [Polls -> SUBSET Sources]
  OBVIOUS
<1>3. suspended' \in [Polls -> [Sources -> 0..2]]
  OBVIOUS
<1>4. CountsInv'
  <2> SUFFICES ASSUME NEW q \in Polls
               PROVE  /\ stage'[q] \in {"inited", "stopped"} => \A s \in Sources : suspended'[q][s] = 1
                      /\ stage'[q] = "started" =>
                           \A s \in Sources : suspended'[q][s] = IF s \in polled'[q] THEN 0 ELSE 1
                      /\ stage'[q] = "stopped" => polled'[q] = {}
    BY DEF CountsInv
  <2>1. CASE q = p
    BY <2>1
  <2>2. CASE q # p
    <3>1. stage'[q] = stage[q] /\ polled'[q] = polled[q] /\ suspended'[q] = suspended[q]
      BY <2>2
    <3> QED
      BY <3>1 DEF CountsInv
  <2> QED
    BY <2>1, <2>2
<1> QED
  BY <1>1, <1>2, <1>3, <1>4

LEMMA GcdInvStep == GcdInv /\ [GcdNext]_gcdVars => GcdInv'
<1> SUFFICES ASSUME GcdInv, [GcdNext]_gcdVars PROVE GcdInv'
  OBVIOUS
<1> USE DEF GcdInv, GcdTypeOK
<1>0. CASE UNCHANGED gcdVars
  BY <1>0 DEF gcdVars, CountsInv
<1>1. SUFFICES ASSUME NEW p \in Polls,
                      Init_(p) \/ Start(p) \/ Change(p) \/ Stop(p) \/ Free(p) \/ ResizeGcd(p)
               PROVE  GcdInv'
  BY <1>0 DEF GcdNext
<1>2. /\ stage[p] \in {"inited", "stopped"} => \A s \in Sources : suspended[p][s] = 1
      /\ stage[p] = "started" =>
           \A s \in Sources : suspended[p][s] = IF s \in polled[p] THEN 0 ELSE 1
      /\ stage[p] = "stopped" => polled[p] = {}
      /\ suspended[p] \in [Sources -> 0..2] /\ polled[p] \in SUBSET Sources
      /\ stage = [stage EXCEPT ![p] = stage[p]] /\ polled = [polled EXCEPT ![p] = polled[p]]
  BY DEF CountsInv
<1>3. Created \in [Sources -> 0..2] /\ \A s \in Sources : Created[s] = 1
  BY DEF Created
<1>4. CASE Init_(p)
  <2>1. /\ stage' = [stage EXCEPT ![p] = "inited"] /\ polled' = [polled EXCEPT ![p] = polled[p]]
        /\ suspended' = [suspended EXCEPT ![p] = Created] /\ misuse' = FALSE
    BY <1>2, <1>4 DEF Init_
  <2> QED
    BY <1>2, <1>3, <2>1, OnePoll
<1>5. CASE Start(p)
  <2>1. PICK E \in SUBSET Sources :
          /\ polled' = [polled EXCEPT ![p] = E]
          /\ suspended' = [suspended EXCEPT ![p] = Resumed(suspended[p], E, {})]
          /\ misuse' = (misuse \/ OverResumed(suspended[p], E))
          /\ stage' = [stage EXCEPT ![p] = "started"] /\ stage[p] = "inited"
    BY <1>5 DEF Start
  <2>2. ~OverResumed(suspended[p], E)
    BY <1>2, <2>1 DEF OverResumed
  <2> DEFINE count == Resumed(suspended[p], E, {})
  <2>3. count \in [Sources -> 0..2] /\ \A s \in Sources : count[s] = IF s \in E THEN 0 ELSE 1
    BY <1>2, <2>1, ResumedCounts
  <2> HIDE DEF count
  <2> QED
    BY <2>1, <2>2, <2>3, OnePoll DEF count
<1>6. CASE Change(p)
  <2>1. PICK E \in SUBSET Sources :
          /\ polled' = [polled EXCEPT ![p] = E]
          /\ suspended' = [suspended EXCEPT ![p] = Changed(suspended[p], polled[p], E)]
          /\ misuse' = (misuse \/ OverResumed(suspended[p], E \ polled[p]))
          /\ stage' = [stage EXCEPT ![p] = "started"] /\ stage[p] = "started"
    BY <1>2, <1>6 DEF Change
  <2>2. ~OverResumed(suspended[p], E \ polled[p])
    BY <1>2, <2>1 DEF OverResumed
  <2> DEFINE count == Changed(suspended[p], polled[p], E)
  <2>3. count \in [Sources -> 0..2] /\ \A s \in Sources : count[s] = IF s \in E THEN 0 ELSE 1
    BY <1>2, <2>1, ResumedCounts DEF Changed
  <2> HIDE DEF count
  <2> QED
    BY <2>1, <2>2, <2>3, OnePoll DEF count
<1>7. CASE Stop(p)
  <2> DEFINE count == Resumed(suspended[p], {}, polled[p])
  <2>1. /\ stage' = [stage EXCEPT ![p] = "stopped"] /\ polled' = [polled EXCEPT ![p] = {}]
        /\ suspended' = [suspended EXCEPT ![p] = count] /\ misuse' = FALSE /\ stage[p] = "started"
    BY <1>7 DEF Stop
  <2>2. count \in [Sources -> 0..2] /\ \A s \in Sources : count[s] = 1
    BY <1>2, <2>1, ResumedCounts
  <2> HIDE DEF count
  <2> QED
    BY <2>1, <2>2, OnePoll
<1>8. ASSUME stage[p] \in {"started", "stopped"}, Released(p) PROVE misuse' = FALSE
  <2> DEFINE count == Changed(suspended[p], polled[p], Sources)
  <2>1. \A s \in Sources : suspended[p][s] = IF s \in polled[p] THEN 0 ELSE 1
    BY <1>2, <1>8
  <2>2. ~OverResumed(suspended[p], Sources \ polled[p])
    BY <2>1 DEF OverResumed
  <2>3. \A s \in Sources : count[s] = 0
    BY <1>2, <2>1, ResumedCounts DEF Changed
  <2> HIDE DEF count
  <2> QED
    BY <1>8, <2>2, <2>3 DEF Released, count
<1>9. CASE Free(p)
  <2>1. /\ stage' = [stage EXCEPT ![p] = "none"] /\ polled' = [polled EXCEPT ![p] = {}]
        /\ suspended' = [suspended EXCEPT ![p] = [s \in Sources |-> 0]] /\ misuse' = FALSE
    BY <1>8, <1>9 DEF Free
  <2>2. [s \in Sources |-> 0] \in [Sources -> 0..2]
    OBVIOUS
  <2> QED
    BY <2>1, <2>2, OnePoll
<1>10. CASE ResizeGcd(p)
  <2> DEFINE count == Resumed(Created, polled[p], {})
  <2>1. /\ stage' = [stage EXCEPT ![p] = "started"] /\ polled' = [polled EXCEPT ![p] = polled[p]]
        /\ suspended' = [suspended EXCEPT ![p] = count] /\ misuse' = FALSE
    BY <1>2, <1>8, <1>10 DEF ResizeGcd
  <2>2. count \in [Sources -> 0..2] /\ \A s \in Sources : count[s] = IF s \in polled[p] THEN 0 ELSE 1
    BY <1>3, ResumedCounts
  <2> HIDE DEF count
  <2> QED
    BY <1>2, <2>1, <2>2, OnePoll
<1> QED
  BY <1>1, <1>4, <1>5, <1>6, <1>7, <1>9, <1>10

(* Whatever its changes and resizes, a source of a started poll runs exactly *)
(* when it is polled for, and dispatch is never called so that it crashes.   *)
THEOREM SourcesStayBalanced == GcdSpec => []SourcesBalanced
<1>1. GcdInv => SourcesBalanced
  BY DEF GcdInv, CountsInv, SourcesBalanced
<1> QED
  BY <1>1, GcdInvInit, GcdInvStep, PTL DEF GcdSpec

-----------------------------------------------------------------------------
(* epoll_kqueue.c *)

Ready == [at : Places \cup {NoPoll}, ev : SUBSET EpollFilters]
EpollTypes ==
  /\ kqueue \in BOOLEAN
  /\ running \in {"wait", "dispatch", "returned"}
  /\ poll \in [Places -> {"none", "open", "closed"}]
  /\ interest \in [Places -> SUBSET EpollFilters]
  /\ kernel \subseteq Places
  /\ num_polls \in Nat
  /\ ready_polls \in Seq(Ready)
  /\ current \in Nat \ {0} /\ current <= Len(ready_polls) + 1

(* What is left of the array, the current entry included, is of open polls.  *)
PendingLive ==
  \A i \in current..Len(ready_polls) :
    ready_polls[i].at # NoPoll => poll[ready_polls[i].at] = "open"

(* And no poll is in it more often than us_poll_stop and us_poll_resize look *)
(* for it: twice with kqueue, once with epoll.                               *)
SameAt(i, j) ==
  /\ i \in current..Len(ready_polls) /\ j \in current..Len(ready_polls) /\ i < j
  /\ ready_polls[i].at = ready_polls[j].at /\ ready_polls[i].at # NoPoll
PendingFew ==
  \A i, j, k \in Nat : ~(SameAt(i, j) /\ IF kqueue THEN SameAt(j, k) ELSE TRUE)

(* The kernel knows the open polls, and num_polls counts those not yet freed. *)
Used == {p \in Places : poll[p] # "none"}
KernelInv == kernel = {p \in Places : poll[p] = "open"}
CountInv ==
  /\ num_polls = Cardinality(Used)
  /\ running = "returned" => num_polls = 0

EpollInv == EpollTypes /\ PendingLive /\ PendingFew /\ KernelInv /\ CountInv

(* Sets of addresses are finite.                                             *)
LEMMA PlacesFinite == \A S : S \subseteq Places => IsFiniteSet(S) /\ Cardinality(S) \in Nat
BY EpollAssumption, FS_Subset, FS_CardinalityType

LEMMA EpollInvInit == EpollInit => EpollInv
<1> SUFFICES ASSUME EpollInit PROVE EpollInv
  OBVIOUS
<1>1. PICK q \in Places : poll = [p \in Places |-> IF p = q THEN "open" ELSE "none"]
  BY DEF EpollInit
<1>2. ready_polls \in Seq(Ready) /\ Len(ready_polls) = 0
  BY DEF EpollInit
<1>3. Used = {q} /\ Cardinality({q}) = 1
  BY <1>1, FS_Singleton DEF Used
<1>4. interest \in [Places -> SUBSET EpollFilters]
  BY DEF EpollInit, EpollFilters
<1>5. poll \in [Places -> {"none", "open", "closed"}]
  BY <1>1
<1>6. EpollTypes
  BY <1>2, <1>4, <1>5 DEF EpollInit, EpollTypes
<1>7. PendingLive /\ PendingFew
  BY <1>2 DEF EpollInit, PendingLive, PendingFew, SameAt
<1>8. KernelInv /\ CountInv
  BY <1>3 DEF EpollInit, KernelInv, CountInv
<1> QED
  BY <1>6, <1>7, <1>8 DEF EpollInv

(* What the kernel may report, and that it is finitely much.                 *)
LEMMA EntriesOf ==
  ASSUME EpollInv, NEW S \in SUBSET UNION {Entries(p) : p \in kernel}
  PROVE  /\ IsFiniteSet(S) /\ Cardinality(S) \in Nat
         /\ \A e \in S : /\ e \in Ready /\ e.at \in Places /\ poll[e.at] = "open"
                         /\ e = [at |-> e.at, ev |-> e.ev]
                         /\ kqueue => e.ev \in {{"in"}, {"out"}}
<1>1. ASSUME NEW e \in S
      PROVE  \E p \in Places, E \in SUBSET EpollFilters :
               /\ e = [at |-> p, ev |-> E] /\ poll[p] = "open"
               /\ kqueue => E \in {{"in"}, {"out"}}
  <2>1. PICK p \in kernel : e \in Entries(p)
    OBVIOUS
  <2>2. p \in Places /\ poll[p] = "open" /\ interest[p] \subseteq EpollFilters
    BY <2>1 DEF EpollInv, EpollTypes, KernelInv
  <2>3. CASE kqueue
    <3>1. PICK f \in interest[p] : e = [at |-> p, ev |-> {f}]
      BY <2>1, <2>3 DEF Entries
    <3>2. {f} \in SUBSET EpollFilters /\ {f} \in {{"in"}, {"out"}}
      BY <2>2 DEF EpollFilters
    <3> QED
      BY <2>2, <3>1, <3>2
  <2>4. CASE ~kqueue
    <3>1. PICK E \in SUBSET interest[p] : e = [at |-> p, ev |-> E]
      BY <2>1, <2>4 DEF Entries
    <3> QED
      BY <2>2, <2>4, <3>1
  <2> QED
    BY <2>3, <2>4
<1>2. \A e \in S : /\ e \in Ready /\ e.at \in Places /\ poll[e.at] = "open"
                   /\ e = [at |-> e.at, ev |-> e.ev]
                   /\ kqueue => e.ev \in {{"in"}, {"out"}}
  BY <1>1 DEF Ready
<1>3. IsFiniteSet(S)
  <2> DEFINE P == Places \X SUBSET EpollFilters
             f == [x \in P |-> [at |-> x[1], ev |-> x[2]]]
             R == {f[x] : x \in P}
  <2>1. IsFiniteSet(EpollFilters)
    <3>1. IsFiniteSet({"in"}) /\ EpollFilters = {"in"} \cup {"out"}
      BY FS_Singleton DEF EpollFilters
    <3> QED
      BY <3>1, FS_AddElement
  <2>2. IsFiniteSet(P)
    BY <2>1, EpollAssumption, FS_SUBSET, FS_Product
  <2>3. f \in Surjection(P, R)
    BY DEF Surjection
  <2>4. IsFiniteSet(R)
    BY <2>2, <2>3, FS_Surjection
  <2>5. S \subseteq R
    <3> SUFFICES ASSUME NEW e \in S PROVE e \in R
      OBVIOUS
    <3>1. PICK p \in Places, E \in SUBSET EpollFilters : e = [at |-> p, ev |-> E]
      BY <1>1
    <3>2. <<p, E>> \in P /\ f[<<p, E>>] = e
      BY <3>1
    <3> QED
      BY <3>2
  <2> QED
    BY <2>4, <2>5, FS_Subset
<1> QED
  BY <1>2, <1>3, FS_CardinalityType

(* A new array: every entry is of an open poll, and no poll has too many.    *)
LEMMA Reported ==
  ASSUME EpollInv, NEW S \in SUBSET UNION {Entries(p) : p \in kernel}, NEW rp \in SetToSeqs(S),
         kqueue \/ \A x, y \in S : x # y => x.at # y.at
  PROVE  /\ rp \in Seq(Ready)
         /\ \A i \in 1..Len(rp) : poll[rp[i].at] = "open"
         /\ \A i, j, k \in 1..Len(rp) :
              ~(i < j /\ rp[i].at = rp[j].at /\ IF kqueue THEN j < k /\ rp[j].at = rp[k].at ELSE TRUE)
<1> DEFINE n == Cardinality(S)
<1>1. n \in Nat
  BY EntriesOf
<1>2. rp \in [1..n -> S] /\ \A i, j \in 1..n : i # j => rp[i] # rp[j]
  BY DEF SetToSeqs
<1> HIDE DEF n
<1>3. \A e \in S : e \in Ready
  BY EntriesOf
<1>4. rp \in Seq(Ready) /\ Len(rp) = n
  BY <1>1, <1>2, <1>3
<1>5. \A i \in 1..n : /\ rp[i] \in S /\ poll[rp[i].at] = "open"
                      /\ rp[i] = [at |-> rp[i].at, ev |-> rp[i].ev]
                      /\ kqueue => rp[i].ev \in {{"in"}, {"out"}}
  BY <1>2, EntriesOf
<1>6. ASSUME NEW i \in 1..n, NEW j \in 1..n, NEW k \in 1..n, i < j, rp[i].at = rp[j].at,
             IF kqueue THEN j < k /\ rp[j].at = rp[k].at ELSE TRUE
      PROVE  FALSE
  <2>1. CASE ~kqueue
    BY <1>2, <1>5, <1>6, <2>1
  <2>2. CASE kqueue
    <3>1. i # j /\ j # k /\ i # k
      BY <1>1, <1>6, <2>2
    <3>2. rp[i].ev # rp[j].ev
      BY <1>2, <1>5, <1>6, <3>1
    <3>3. rp[j].ev # rp[k].ev
      BY <1>2, <1>5, <1>6, <2>2, <3>1
    <3>4. rp[i].ev # rp[k].ev
      BY <1>2, <1>5, <1>6, <2>2, <3>1
    <3> QED
      BY <1>5, <2>2, <3>2, <3>3, <3>4
  <2> QED
    BY <2>1, <2>2
<1> QED
  BY <1>4, <1>5, <1>6

(* us_internal_loop_update_pending_ready_polls leaves no entry out.          *)
LEMMA Updated ==
  ASSUME EpollInv, NEW old \in Places, NEW new \in Places \cup {NoPoll}, NEW i \in 1..Len(ready_polls)
  PROVE  UpdatePending(old, new)[i] =
           IF i >= current /\ ready_polls[i].at = old
           THEN [ready_polls[i] EXCEPT !.at = new] ELSE ready_polls[i]
<1> DEFINE T == {j \in current..(i - 1) : ready_polls[j].at = old}
           most == IF kqueue THEN 2 ELSE 1
<1>0. Len(ready_polls) \in Nat /\ current \in Nat \ {0} /\ old # NoPoll
  BY EpollAssumption DEF EpollInv, EpollTypes, NoPoll
<1>1. UpdatePending(old, new)[i] =
        IF i >= current /\ ready_polls[i].at = old /\ Cardinality(T) < most
        THEN [ready_polls[i] EXCEPT !.at = new] ELSE ready_polls[i]
  BY DEF UpdatePending
<1>2. ASSUME i >= current, ready_polls[i].at = old PROVE Cardinality(T) < most
  <2>0. \A j \in T : SameAt(j, i)
    BY <1>0, <1>2 DEF SameAt
  <2>1. CASE T = {}
    BY <2>1, FS_EmptySet
  <2>2. CASE T # {}
    <3>1. PICK x \in T : TRUE
      BY <2>2
    <3>2. kqueue
      <4>1. SameAt(x, i) /\ x \in Nat /\ i \in Nat
        BY <1>0, <2>0, <3>1
      <4>2. ~(SameAt(x, i) /\ IF kqueue THEN SameAt(i, i) ELSE TRUE)
        BY <4>1 DEF EpollInv, PendingFew
      <4> QED
        BY <4>1, <4>2
    <3>3. ASSUME NEW y \in T PROVE y = x
      <4>1. x \in Nat /\ y \in Nat /\ i \in Nat
        BY <1>0, <3>1
      <4>2. SameAt(x, i) /\ SameAt(y, i) /\ x < y => SameAt(x, y)
        BY <1>0, <4>1 DEF SameAt
      <4>3. SameAt(x, i) /\ SameAt(y, i) /\ y < x => SameAt(y, x)
        BY <1>0, <4>1 DEF SameAt
      <4> QED
        BY <2>0, <3>1, <3>2, <4>1, <4>2, <4>3 DEF EpollInv, PendingFew
    <3>4. T = {x}
      BY <3>1, <3>3
    <3>5. Cardinality(T) = 1
      BY <3>4, FS_Singleton
    <3> QED
      BY <3>2, <3>5
  <2> QED
    BY <2>1, <2>2
<1> HIDE DEF T
<1> QED
  BY <1>1, <1>2

(* Replacing a poll that is stopped or moved by none, or by one that had no  *)
(* entry, leaves its address nowhere in the rest of the array.               *)
LEMMA Replaced ==
  ASSUME EpollInv, NEW old \in Places, NEW new \in Places \cup {NoPoll}, new # old,
         new # NoPoll => poll[new] = "none",
         ready_polls' = UpdatePending(old, new), UNCHANGED <<current, kqueue>>
  PROVE  /\ ready_polls' \in Seq(Ready) /\ Len(ready_polls') = Len(ready_polls)
         /\ \A i \in current..Len(ready_polls) :
              /\ ready_polls'[i].at # old
              /\ ready_polls'[i].at \in {new, ready_polls[i].at}
         /\ PendingFew'
<1>0. /\ Len(ready_polls) \in Nat /\ current \in Nat \ {0} /\ old # NoPoll
      /\ \A i \in 1..Len(ready_polls) : ready_polls[i] \in Ready
  BY EpollAssumption DEF EpollInv, EpollTypes, NoPoll
<1>1. \A i \in 1..Len(ready_polls) :
        UpdatePending(old, new)[i] =
           IF i >= current /\ ready_polls[i].at = old
           THEN [ready_polls[i] EXCEPT !.at = new] ELSE ready_polls[i]
  BY Updated
<1>2. ready_polls' = [i \in 1..Len(ready_polls) |-> ready_polls'[i]]
  BY DEF UpdatePending
<1>3. ASSUME NEW i \in 1..Len(ready_polls)
      PROVE  /\ ready_polls'[i] \in Ready
             /\ ready_polls'[i].at = IF i >= current /\ ready_polls[i].at = old THEN new ELSE ready_polls[i].at
  BY <1>0, <1>1 DEF Ready
<1>4. ready_polls' \in [1..Len(ready_polls) -> Ready]
  BY <1>2, <1>3
<1>5. ready_polls' \in Seq(Ready) /\ Len(ready_polls') = Len(ready_polls)
  BY <1>0, <1>4
<1>6. \A i \in current..Len(ready_polls) : ready_polls[i].at # NoPoll => poll[ready_polls[i].at] = "open"
  BY DEF EpollInv, PendingLive
<1>7. \A i \in current..Len(ready_polls) :
              /\ ready_polls'[i].at # old
              /\ ready_polls'[i].at \in {new, ready_polls[i].at}
              /\ ready_polls'[i].at = new /\ new # NoPoll => ready_polls[i].at = old
  BY <1>0, <1>3, <1>6
<1>8. ASSUME NEW i \in Nat, NEW j \in Nat, SameAt(i, j)' PROVE SameAt(i, j)
  <2>1. /\ i \in current..Len(ready_polls) /\ j \in current..Len(ready_polls) /\ i < j
        /\ ready_polls'[i].at = ready_polls'[j].at /\ ready_polls'[i].at # NoPoll
    BY <1>5, <1>8 DEF SameAt
  <2> QED
    BY <1>0, <1>7, <2>1 DEF SameAt
<1> QED
  BY <1>5, <1>7, <1>8 DEF EpollInv, PendingFew

LEMMA EpollInvStep == EpollInv /\ [EpollNext]_epollVars => EpollInv'
<1> SUFFICES ASSUME EpollInv, [EpollNext]_epollVars PROVE EpollInv'
  OBVIOUS
<1>0. /\ Len(ready_polls) \in Nat /\ current \in Nat \ {0} /\ current <= Len(ready_polls) + 1
      /\ \A i \in 1..Len(ready_polls) : ready_polls[i] \in Ready
      /\ EpollTypes /\ PendingLive /\ PendingFew /\ KernelInv /\ CountInv
  BY DEF EpollInv, EpollTypes
<1>1. CASE UNCHANGED epollVars
  BY <1>0, <1>1 DEF epollVars, EpollInv, EpollTypes, PendingLive, PendingFew, SameAt, KernelInv,
    CountInv, Used
<1> SUFFICES ASSUME EpollNext PROVE EpollInv'
  BY <1>1
<1>2. kqueue' = kqueue
  BY DEF EpollNext
<1>3. CASE Wait
  <2>1. UNCHANGED <<poll, interest, kernel, num_polls>>
    BY <1>3 DEF Wait
  <2>2. KernelInv'
    BY <1>0, <2>1 DEF KernelInv
  <2>3. CASE num_polls = 0
    <3>1. running' = "returned" /\ UNCHANGED <<ready_polls, current>>
      BY <1>3, <2>3 DEF Wait
    <3>2. EpollTypes' /\ CountInv'
      BY <1>0, <1>2, <2>1, <2>3, <3>1 DEF EpollTypes, CountInv, Used
    <3>3. PendingLive' /\ PendingFew'
      BY <1>0, <1>2, <2>1, <3>1 DEF PendingLive, PendingFew, SameAt
    <3> QED
      BY <2>2, <3>2, <3>3 DEF EpollInv
  <2>4. CASE num_polls # 0
    <3>1. PICK S \in SUBSET UNION {Entries(p) : p \in kernel} :
            /\ kqueue \/ \A x, y \in S : x # y => x.at # y.at
            /\ ready_polls' \in SetToSeqs(S)
      BY <1>3, <2>4 DEF Wait
    <3>2. running' = "dispatch" /\ current' = 1
      BY <1>3, <2>4 DEF Wait
    <3>3. PICK rp \in SetToSeqs(S) : rp = ready_polls'
      BY <3>1
    <3>4. /\ rp \in Seq(Ready)
          /\ \A i \in 1..Len(rp) : poll[rp[i].at] = "open"
          /\ \A i, j, k \in 1..Len(rp) :
               ~(i < j /\ rp[i].at = rp[j].at /\ IF kqueue THEN j < k /\ rp[j].at = rp[k].at ELSE TRUE)
      BY <3>1, Reported
    <3>5. EpollTypes' /\ CountInv'
      BY <1>0, <1>2, <2>1, <3>2, <3>3, <3>4 DEF EpollTypes, CountInv, Used
    <3>6. PendingLive'
      BY <2>1, <3>2, <3>3, <3>4 DEF PendingLive
    <3>7. PendingFew'
      <4> SUFFICES ASSUME NEW i \in Nat, NEW j \in Nat, NEW k \in Nat, SameAt(i, j)',
                          IF kqueue THEN SameAt(j, k)' ELSE TRUE
                   PROVE  FALSE
        BY <1>2 DEF PendingFew
      <4>1. i \in 1..Len(rp) /\ j \in 1..Len(rp) /\ i < j /\ rp[i].at = rp[j].at
        BY <3>2, <3>3 DEF SameAt
      <4>2. kqueue => k \in 1..Len(rp) /\ j < k /\ rp[j].at = rp[k].at
        BY <3>2, <3>3 DEF SameAt
      <4> QED
        BY <3>4, <4>1, <4>2
    <3> QED
      BY <2>2, <3>5, <3>6, <3>7 DEF EpollInv
  <2> QED
    BY <2>3, <2>4
<1>4. CASE Skip \/ CallbackReturns
  <2>1. /\ UNCHANGED <<running, poll, interest, kernel, num_polls, ready_polls>>
        /\ current' = current + 1 /\ current <= Len(ready_polls)
    BY <1>4 DEF Skip, CallbackReturns, Dispatched, Remaining
  <2>2. EpollTypes' /\ KernelInv' /\ CountInv'
    BY <1>0, <1>2, <2>1 DEF EpollTypes, KernelInv, CountInv, Used
  <2>3. PendingLive'
    BY <1>0, <2>1 DEF PendingLive
  <2>4. \A i, j \in Nat : SameAt(i, j)' => SameAt(i, j)
    BY <1>0, <2>1 DEF SameAt
  <2>5. PendingFew'
    BY <1>0, <1>2, <2>4 DEF PendingFew
  <2> QED
    BY <2>2, <2>3, <2>5 DEF EpollInv
<1>5. CASE FreeClosed
  <2>1. /\ running' = "wait" /\ ready_polls' = <<>> /\ current' = 1 /\ kernel' = kernel
        /\ running = "dispatch"
        /\ poll' = [p \in Places |-> IF poll[p] = "closed" THEN "none" ELSE poll[p]]
        /\ interest' = [p \in Places |-> IF poll[p] = "closed" THEN {} ELSE interest[p]]
        /\ num_polls' = num_polls - Cardinality({p \in Places : poll[p] = "closed"})
    BY <1>5 DEF FreeClosed
  <2> DEFINE C == {p \in Places : poll[p] = "closed"}
  <2>2. Used' = Used \ C /\ Used \cap C = C
    BY <1>0, <2>1 DEF Used, EpollTypes
  <2>3. IsFiniteSet(Used) /\ IsFiniteSet(Used')
    BY PlacesFinite DEF Used
  <2>4. Cardinality(Used') = Cardinality(Used) - Cardinality(C) /\ Cardinality(Used') \in Nat
    <3> HIDE DEF C
    <3>1. Cardinality(Used \ C) = Cardinality(Used) - Cardinality(Used \cap C)
      BY <2>3, FS_Difference
    <3>2. Cardinality(Used') \in Nat
      BY <2>3, FS_CardinalityType
    <3> QED
      BY <2>2, <3>1, <3>2
  <2>5. CountInv' /\ num_polls' \in Nat
    BY <1>0, <2>1, <2>4 DEF CountInv
  <2>6. KernelInv'
    BY <1>0, <2>1 DEF KernelInv
  <2>7. PendingLive' /\ PendingFew'
    BY <2>1 DEF PendingLive, PendingFew, SameAt
  <2>8. poll' \in [Places -> {"none", "open", "closed"}]
    BY <1>0, <2>1 DEF EpollTypes
  <2>9. interest' \in [Places -> SUBSET EpollFilters]
    BY <1>0, <2>1 DEF EpollTypes
  <2>10. EpollTypes'
    BY <1>0, <1>2, <2>1, <2>5, <2>8, <2>9 DEF EpollTypes
  <2> QED
    BY <2>5, <2>6, <2>7, <2>10 DEF EpollInv
<1>6. ASSUME NEW p \in Places, StartPoll(p) PROVE EpollInv'
  <2>1. /\ UNCHANGED <<running, ready_polls, current>> /\ running = "dispatch"
        /\ poll[p] = "none" /\ poll' = [poll EXCEPT ![p] = "open"]
        /\ interest' = [interest EXCEPT ![p] = {"in"}]
        /\ kernel' = kernel \cup {p} /\ num_polls' = num_polls + 1
    BY <1>6 DEF StartPoll, Dispatched
  <2>2. Used' = Used \cup {p} /\ p \notin Used /\ IsFiniteSet(Used)
    BY <1>0, <2>1, PlacesFinite DEF Used, EpollTypes
  <2>3. Cardinality(Used') = Cardinality(Used) + 1
    BY <2>2, FS_AddElement
  <2>4. CountInv' /\ num_polls' \in Nat
    BY <1>0, <2>1, <2>3 DEF CountInv, EpollTypes
  <2>5. KernelInv'
    BY <1>0, <2>1 DEF KernelInv, EpollTypes
  <2>6. PendingLive'
    BY <1>0, <2>1 DEF PendingLive, EpollTypes, Ready
  <2>7. PendingFew'
    BY <1>0, <1>2, <2>1 DEF PendingFew, SameAt
  <2>8. poll' \in [Places -> {"none", "open", "closed"}]
    BY <1>0, <2>1 DEF EpollTypes
  <2>9. interest' \in [Places -> SUBSET EpollFilters]
    BY <1>0, <2>1 DEF EpollTypes, EpollFilters
  <2>10. EpollTypes'
    BY <1>0, <1>2, <2>1, <2>4, <2>8, <2>9 DEF EpollTypes
  <2> QED
    BY <2>4, <2>5, <2>6, <2>7, <2>10 DEF EpollInv
<1>7. ASSUME NEW p \in Places, ChangePoll(p) PROVE EpollInv'
  <2>1. /\ UNCHANGED <<running, poll, kernel, num_polls, ready_polls, current>>
        /\ \E E \in SUBSET EpollFilters : interest' = [interest EXCEPT ![p] = E]
    BY <1>7 DEF ChangePoll, EpollFilters
  <2>2. interest' \in [Places -> SUBSET EpollFilters]
    BY <1>0, <2>1 DEF EpollTypes
  <2>3. EpollTypes' /\ KernelInv' /\ CountInv' /\ PendingLive' /\ PendingFew'
    BY <1>0, <1>2, <2>1, <2>2 DEF EpollTypes, KernelInv, CountInv, Used, PendingLive, PendingFew,
      SameAt
  <2> QED
    BY <2>3 DEF EpollInv
<1>8. ASSUME NEW p \in Places, StopPollEpoll(p) PROVE EpollInv'
  <2>1. /\ UNCHANGED <<running, interest, num_polls, current>>
        /\ poll[p] = "open" /\ poll' = [poll EXCEPT ![p] = "closed"]
        /\ kernel' = kernel \ {p}
        /\ ready_polls' = UpdatePending(p, NoPoll)
    BY <1>8 DEF StopPollEpoll
  <2>2. NoPoll \in Places \cup {NoPoll} /\ NoPoll # p
    BY EpollAssumption DEF NoPoll
  <2>3. /\ ready_polls' \in Seq(Ready) /\ Len(ready_polls') = Len(ready_polls)
        /\ \A i \in current..Len(ready_polls) :
              /\ ready_polls'[i].at # p /\ ready_polls'[i].at \in {NoPoll, ready_polls[i].at}
        /\ PendingFew'
    BY <1>2, <2>1, <2>2, Replaced
  <2>4. PendingLive'
    BY <1>0, <2>1, <2>3 DEF PendingLive, EpollTypes, Ready
  <2>5. Used' = Used
    BY <1>0, <2>1 DEF Used, EpollTypes
  <2>6. KernelInv' /\ CountInv'
    BY <1>0, <2>1, <2>5 DEF KernelInv, CountInv, EpollTypes
  <2>7. poll' \in [Places -> {"none", "open", "closed"}]
    BY <1>0, <2>1 DEF EpollTypes
  <2>8. EpollTypes'
    BY <1>0, <1>2, <2>1, <2>3, <2>7 DEF EpollTypes
  <2> QED
    BY <2>3, <2>4, <2>6, <2>8 DEF EpollInv
<1>9. ASSUME NEW q \in Places, Resize(q) PROVE EpollInv'
  <2> DEFINE p == Entry.at
  <2>1. /\ UNCHANGED <<running, num_polls, current>>
        /\ current <= Len(ready_polls) /\ poll[p] = "open" /\ poll[q] = "none" /\ p # NoPoll
        /\ poll' = [poll EXCEPT ![p] = "none", ![q] = "open"]
        /\ interest' = [interest EXCEPT ![p] = {}, ![q] = interest[p]]
        /\ kernel' = (kernel \ {p}) \cup {q}
        /\ ready_polls' = UpdatePending(p, q)
    BY <1>9 DEF Resize, Dispatched, Remaining, Filtered
  <2>2. p \in Places /\ p # q
    BY <1>0, <2>1 DEF Entry, Ready
  <2> HIDE DEF p
  <2>3. /\ ready_polls' \in Seq(Ready) /\ Len(ready_polls') = Len(ready_polls)
        /\ \A i \in current..Len(ready_polls) :
              /\ ready_polls'[i].at # p /\ ready_polls'[i].at \in {q, ready_polls[i].at}
        /\ PendingFew'
    <3>1. PICK old \in Places : old = p
      BY <2>2
    <3> QED
      BY <1>2, <2>1, <2>2, <3>1, Replaced
  <2>4. PendingLive'
    BY <1>0, <2>1, <2>2, <2>3 DEF PendingLive, EpollTypes, Ready
  <2>5. Used' = (Used \ {p}) \cup {q} /\ p \in Used /\ q \notin Used \ {p} /\ IsFiniteSet(Used)
    BY <1>0, <2>1, <2>2, PlacesFinite DEF Used, EpollTypes
  <2>6. Cardinality(Used') = Cardinality(Used)
    <3>1. IsFiniteSet(Used \ {p}) /\ Cardinality(Used \ {p}) = Cardinality(Used) - 1
      BY <2>5, FS_RemoveElement
    <3>2. Cardinality(Used') = Cardinality(Used \ {p}) + 1
      BY <2>5, <3>1, FS_AddElement
    <3> QED
      BY <2>5, <3>1, <3>2, FS_CardinalityType
  <2>7. KernelInv' /\ CountInv'
    BY <1>0, <2>1, <2>2, <2>6 DEF KernelInv, CountInv, EpollTypes
  <2>8. poll' \in [Places -> {"none", "open", "closed"}]
    BY <1>0, <2>1 DEF EpollTypes
  <2>9. interest' \in [Places -> SUBSET EpollFilters]
    BY <1>0, <2>1, <2>2 DEF EpollTypes
  <2>10. EpollTypes'
    BY <1>0, <1>2, <2>1, <2>2, <2>3, <2>8, <2>9 DEF EpollTypes
  <2> QED
    BY <2>3, <2>4, <2>7, <2>10 DEF EpollInv
<1> QED
  BY <1>3, <1>4, <1>5, <1>6, <1>7, <1>8, <1>9 DEF EpollNext

(* No entry still to be dispatched and no address in the kernel is that of a *)
(* poll that is gone, and us_loop_run returns when none is left, for any     *)
(* number of polls and whatever callbacks close and move.                    *)
THEOREM ReadyPollsStayLive == EpollSpec => []ReadyPollsLive
<1>1. EpollInv => ReadyPollsLive
  <2> SUFFICES ASSUME EpollInv PROVE ReadyPollsLive
    OBVIOUS
  <2>1. \A i \in current + 1..Len(ready_polls) :
          ready_polls[i].at # NoPoll => poll[ready_polls[i].at] = "open"
    BY DEF EpollInv, EpollTypes, PendingLive
  <2>2. running = "returned" => \A p \in Places : poll[p] = "none"
    <3>1. IsFiniteSet(Used)
      BY PlacesFinite DEF Used
    <3>2. running = "returned" => Used = {}
      BY <3>1, FS_EmptySet DEF EpollInv, CountInv
    <3> QED
      BY <3>2 DEF Used
  <2> QED
    BY <2>1, <2>2 DEF EpollInv, KernelInv, ReadyPollsLive
<1> QED
  BY <1>1, EpollInvInit, EpollInvStep, PTL DEF EpollSpec

(* No more polls are counted than there are addresses, and every entry of    *)
(* the array is of one or struck out.                                        *)
THEOREM EpollTypesHold == EpollSpec => []EpollTypeOK
<1>1. EpollInv => EpollTypeOK
  <2> SUFFICES ASSUME EpollInv PROVE EpollTypeOK
    OBVIOUS
  <2>1. EpollTypes /\ num_polls = Cardinality(Used)
    BY DEF EpollInv, CountInv
  <2>2. num_polls \in 0..Cardinality(Places)
    <3>1. PICK U : U = Used
      OBVIOUS
    <3>2. U \in SUBSET Places /\ IsFiniteSet(Places)
      BY <3>1, EpollAssumption DEF Used
    <3>3. Cardinality(U) <= Cardinality(Places)
      BY <3>2, FS_Subset
    <3>4. Cardinality(U) \in Nat /\ Cardinality(Places) \in Nat
      BY <3>2, PlacesFinite
    <3> QED
      BY <2>1, <3>1, <3>3, <3>4
  <2>3. \A i \in 1..Len(ready_polls) : ready_polls[i].at \in Places \cup {NoPoll}
    <3>1. ready_polls \in Seq(Ready)
      BY <2>1 DEF EpollTypes
    <3>2. \A i \in 1..Len(ready_polls) : ready_polls[i] \in Ready
      BY <3>1, ElementOfSeq
    <3> QED
      BY <3>2 DEF Ready
  <2>4. current \in 1..(Len(ready_polls) + 1)
    <3> DEFINE n == Len(ready_polls)
    <3>1. n \in Nat
      BY <2>1, LenProperties DEF EpollTypes
    <3>2. current \in Nat \ {0} /\ current <= n + 1
      BY <2>1 DEF EpollTypes
    <3> HIDE DEF n
    <3>3. current \in 1..(n + 1)
      BY <3>1, <3>2
    <3> QED
      BY <3>3 DEF n
  <2> QED
    BY <2>1, <2>2, <2>3, <2>4 DEF EpollTypes, EpollTypeOK
<1> QED
  BY <1>1, EpollInvInit, EpollInvStep, PTL DEF EpollSpec

-----------------------------------------------------------------------------
(* Loop.h, LoopData.h *)

DeferredCalls == Deferring \X (1..MaxDefer)

(* While no queue is drained the old one is empty, so that a swap puts it    *)
(* behind nothing.                                                           *)
QueuesInv ==
  /\ DeferTypeOK /\ DOMAIN deferQueues = {0, 1}
  /\ loop # "drains" => deferQueues[Old] = <<>>
  /\ loop = "drains" => draining <= Len(deferQueues[Old])

DeferInv == QueuesInv /\ DeferredInOrder

LEMMA OldIsOther ==
  ASSUME currentDeferQueue \in {0, 1}
  PROVE  /\ Old \in {0, 1} /\ Old # currentDeferQueue
         /\ Swapped(Old) = currentDeferQueue
<1>1. CASE currentDeferQueue = 0
  BY <1>1 DEF Old, Swapped
<1>2. CASE currentDeferQueue = 1
  BY <1>2 DEF Old, Swapped
<1> QED
  BY <1>1, <1>2

LEMMA LineTypes ==
  ASSUME QueuesInv
  PROVE  /\ Left \in Seq(DeferredCalls) /\ deferQueues[Old] \in Seq(DeferredCalls)
         /\ deferQueues[currentDeferQueue] \in Seq(DeferredCalls) /\ ran \in Seq(DeferredCalls)
         /\ Line \in Seq(DeferredCalls)
<1>1. /\ deferQueues[Old] \in Seq(DeferredCalls) /\ ran \in Seq(DeferredCalls)
      /\ deferQueues[currentDeferQueue] \in Seq(DeferredCalls) /\ draining \in Nat
  BY OldIsOther DEF QueuesInv, DeferTypeOK, DeferredCalls
<1>2. Left \in Seq(DeferredCalls)
  <2>1. CASE loop = "drains"
    <3>1. \A i \in draining + 1 .. Len(deferQueues[Old]) : deferQueues[Old][i] \in DeferredCalls
      BY <1>1
    <3>2. SubSeq(deferQueues[Old], draining + 1, Len(deferQueues[Old])) \in Seq(DeferredCalls)
      BY <1>1, <3>1, SubSeqProperties
    <3> QED
      BY <2>1, <3>2 DEF Left
  <2>2. CASE loop # "drains"
    BY <2>2 DEF Left
  <2> QED
    BY <2>1, <2>2
<1>3. ran \o Left \in Seq(DeferredCalls)
  BY <1>1, <1>2
<1>4. Line \in Seq(DeferredCalls)
  BY <1>1, <1>3 DEF Line
<1> QED
  BY <1>1, <1>2, <1>4

(* A step that leaves the line and the counts as they are keeps the order.   *)
LEMMA SameLine ==
  ASSUME DeferredInOrder, Line' = Line, UNCHANGED deferred
  PROVE  DeferredInOrder'
BY DEF DeferredInOrder

(* The next callback of a thread may join the end of the line.               *)
LEMMA LineGrows ==
  ASSUME QueuesInv, DeferredInOrder, NEW t \in Deferring, deferred[t] < MaxDefer,
         deferred' = [deferred EXCEPT ![t] = @ + 1],
         Line' = Append(Line, <<t, deferred[t] + 1>>)
  PROVE  DeferredInOrder'
<1> DEFINE x == <<t, deferred[t] + 1>>
<1>1. /\ Line \in Seq(DeferredCalls) /\ deferred \in [Deferring -> 0..MaxDefer] /\ MaxDefer \in Nat
  BY LineTypes, DeferAssumption DEF QueuesInv, DeferTypeOK
<1>2. /\ Len(Line') = Len(Line) + 1 /\ Line'[Len(Line) + 1] = x
      /\ \A i \in 1..Len(Line) : Line'[i] = Line[i]
  BY <1>1
<1>3. ToSet(Line) = {y \in DeferredCalls : y[2] <= deferred[y[1]]}
  BY DEF DeferredInOrder, DeferredCalls
<1>4. \A i \in 1..Len(Line) : Line[i] \in DeferredCalls /\ Line[i][2] <= deferred[Line[i][1]]
  BY <1>1, <1>3 DEF ToSet
<1>5. \A i, j \in 1..Len(Line') :
        i < j /\ Line'[i][1] = Line'[j][1] => Line'[i][2] < Line'[j][2]
  <2> SUFFICES ASSUME NEW i \in 1..Len(Line'), NEW j \in 1..Len(Line'), i < j,
                      Line'[i][1] = Line'[j][1]
               PROVE  Line'[i][2] < Line'[j][2]
    OBVIOUS
  <2>0. \A a, b \in 1..Len(Line) : a < b /\ Line[a][1] = Line[b][1] => Line[a][2] < Line[b][2]
    BY DEF DeferredInOrder
  <2>1. CASE j <= Len(Line)
    <3>0. Len(Line) \in Nat
      BY <1>1
    <3>1. i \in 1..Len(Line) /\ j \in 1..Len(Line)
      BY <1>2, <2>1, <3>0
    <3>2. Line'[i] = Line[i] /\ Line'[j] = Line[j]
      BY <1>2, <3>1
    <3> QED
      BY <2>0, <3>1, <3>2
  <2>2. CASE j = Len(Line) + 1
    <3>0. Len(Line) \in Nat
      BY <1>1
    <3>1. i \in 1..Len(Line) /\ Line'[i] = Line[i] /\ Line'[j] = x
      BY <1>2, <2>2, <3>0
    <3>2. Line[i][1] = t /\ Line[i][2] <= deferred[t] /\ Line[i][2] \in Nat
      BY <1>4, <3>1 DEF DeferredCalls
    <3>3. deferred[t] \in Nat /\ x[2] = deferred[t] + 1
      BY <1>1
    <3>4. Line'[i][2] = Line[i][2] /\ Line'[j][2] = x[2]
      BY <3>1
    <3> HIDE DEF x
    <3> QED
      BY <3>2, <3>3, <3>4
  <2>3. j <= Len(Line) \/ j = Len(Line) + 1
    <3>1. Len(Line) \in Nat /\ j \in 1..(Len(Line) + 1)
      BY <1>1, <1>2
    <3> HIDE DEF x
    <3> QED
      BY ONLY <3>1
  <2> QED
    BY <2>1, <2>2, <2>3
<1>6. x \in DeferredCalls
  BY <1>1 DEF DeferredCalls
<1>7. ToSet(Line') = ToSet(Line) \cup {x}
  <2>1. DOMAIN Line' = 1..(Len(Line) + 1) /\ DOMAIN Line = 1..Len(Line)
    BY <1>1, <1>2
  <2> QED
    BY <1>1, <1>2, <2>1 DEF ToSet
<1>8. {y \in DeferredCalls : y[2] <= deferred'[y[1]]}
        = {y \in DeferredCalls : y[2] <= deferred[y[1]]} \cup {x}
  <2>1. ASSUME NEW y \in DeferredCalls
        PROVE  y[2] <= deferred'[y[1]] <=> (y[2] <= deferred[y[1]] \/ y = x)
    <3>1. /\ y[1] \in Deferring /\ y[2] \in 1..MaxDefer /\ y = <<y[1], y[2]>>
      BY <2>1 DEF DeferredCalls
    <3>2. CASE y[1] = t
      BY <1>1, <3>1, <3>2
    <3>3. CASE y[1] # t
      <4>1. deferred'[y[1]] = deferred[y[1]] /\ y # x
        BY <1>1, <3>1, <3>3
      <4> QED
        BY <4>1
    <3> QED
      BY <3>2, <3>3
  <2> QED
    BY <1>6, <2>1
<1>9. ToSet(Line') = {y \in DeferredCalls : y[2] <= deferred'[y[1]]}
  BY <1>3, <1>7, <1>8
<1> QED
  BY <1>5, <1>9 DEF DeferredInOrder, DeferredCalls

LEMMA DeferInvInit == DeferInit => DeferInv
<1> SUFFICES ASSUME DeferInit PROVE DeferInv
  OBVIOUS
<1>1. currentDeferQueue = 0 /\ Old = 1 /\ deferQueues[0] = <<>> /\ deferQueues[1] = <<>>
  BY DEF DeferInit, Old, Swapped
<1>2. DeferTypeOK
  BY <1>1, DeferAssumption, SMTT(40) DEF DeferInit, DeferTypeOK
<1>3. QueuesInv
  BY <1>1, <1>2 DEF QueuesInv, DeferInit
<1>4. Line = <<>>
  BY <1>1 DEF Line, Left, DeferInit
<1>5. ToSet(Line) = {} /\ Len(Line) = 0
  BY <1>4 DEF ToSet
<1>6. \A y \in Deferring \X (1..MaxDefer) : ~(y[2] <= deferred[y[1]])
  BY DeferAssumption DEF DeferInit
<1>7. DeferredInOrder
  BY <1>5, <1>6 DEF DeferredInOrder
<1> QED
  BY <1>3, <1>7 DEF DeferInv

LEMMA DeferInvStep == DeferInv /\ [DeferNext]_deferVars => DeferInv'
<1> SUFFICES ASSUME DeferInv, [DeferNext]_deferVars PROVE DeferInv'
  OBVIOUS
<1>0. /\ QueuesInv /\ DeferTypeOK /\ DOMAIN deferQueues = {0, 1} /\ DeferredInOrder
      /\ Old \in {0, 1} /\ Old # currentDeferQueue /\ Swapped(Old) = currentDeferQueue
      /\ MaxDefer \in Nat /\ draining \in Nat
  BY OldIsOther, DeferAssumption DEF DeferInv, QueuesInv, DeferTypeOK
<1>l. /\ Left \in Seq(DeferredCalls) /\ deferQueues[Old] \in Seq(DeferredCalls)
      /\ deferQueues[currentDeferQueue] \in Seq(DeferredCalls) /\ ran \in Seq(DeferredCalls)
      /\ Line \in Seq(DeferredCalls)
  BY <1>0, LineTypes
<1>1. CASE GetLoop \/ LoopFreed \/ (\E t \in Deferring : WakeupLoop(t)) \/ UNCHANGED deferVars
  <2>1. /\ UNCHANGED <<deferQueues, currentDeferQueue, draining, deferred, ran>>
        /\ loop' = loop \/ (loop # "drains" /\ loop' # "drains")
        /\ loop' \in {"none", "waits", "drains", "freed"} /\ woken' \in BOOLEAN
        /\ towake' \subseteq Deferring
    BY <1>0, <1>1 DEF GetLoop, LoopFreed, WakeupLoop, Woken, deferVars, DeferTypeOK
  <2>2. Old' = Old
    BY <2>1 DEF Old
  <2>3. Left' = Left /\ Line' = Line
    BY <2>1, <2>2 DEF Left, Line
  <2>4. DeferTypeOK'
    BY <1>0, <2>1 DEF DeferTypeOK
  <2>5. QueuesInv'
    BY <1>0, <2>1, <2>2, <2>4 DEF QueuesInv
  <2> QED
    BY <1>0, <2>1, <2>3, <2>5, SameLine DEF DeferInv
<1>2. ASSUME NEW t \in Deferring, DeferCb(t) PROVE DeferInv'
  <2> DEFINE q == deferQueues[currentDeferQueue]
             x == <<t, deferred[t] + 1>>
  <2>1. /\ deferred[t] < MaxDefer /\ deferred' = [deferred EXCEPT ![t] = @ + 1]
        /\ UNCHANGED <<loop, currentDeferQueue, draining, woken, ran>>
        /\ towake' = towake \cup {t}
        /\ deferQueues' = [deferQueues EXCEPT ![currentDeferQueue] = Append(@, <<t, deferred'[t]>>)]
    BY <1>2 DEF DeferCb
  <2>2. deferred'[t] = deferred[t] + 1 /\ deferred' \in [Deferring -> 0..MaxDefer]
    BY <1>0, <2>1 DEF DeferTypeOK
  <2>3. x \in DeferredCalls
    BY <1>0, <2>1 DEF DeferredCalls, DeferTypeOK
  <2>4. Old' = Old
    BY <2>1 DEF Old
  <2>5. /\ deferQueues'[currentDeferQueue] = Append(q, x) /\ deferQueues'[Old] = deferQueues[Old]
        /\ DOMAIN deferQueues' = {0, 1}
    BY <1>0, <2>1, <2>2 DEF DeferTypeOK
  <2>6. Append(q, x) \in Seq(DeferredCalls)
    BY <1>l, <2>3
  <2>7. \A i \in {0, 1} : i = Old \/ i = currentDeferQueue
    BY <1>0 DEF DeferTypeOK
  <2>8. \A i \in {0, 1} : deferQueues'[i] \in Seq(DeferredCalls)
    BY <1>l, <2>5, <2>6, <2>7
  <2>9. DeferTypeOK'
    BY <1>0, <2>1, <2>2, <2>8 DEF DeferTypeOK, DeferredCalls
  <2>10. QueuesInv'
    BY <1>0, <2>1, <2>4, <2>5, <2>9 DEF QueuesInv
  <2>11. Left' = Left
    <3>1. deferQueues'[Old'] = deferQueues[Old] /\ draining' = draining /\ loop' = loop
      BY <2>1, <2>4, <2>5
    <3> QED
      BY ONLY <3>1 DEF Left
  <2>12. Line' = (ran \o Left) \o Append(q, x)
    <3>1. deferQueues'[currentDeferQueue'] = Append(q, x) /\ ran' = ran
      BY <2>1, <2>5
    <3>2. Line' = (ran' \o Left') \o deferQueues'[currentDeferQueue']
      BY DEF Line
    <3> QED
      BY ONLY <2>11, <3>1, <3>2
  <2>13. ran \o Left \in Seq(DeferredCalls)
    BY <1>l
  <2>14. (ran \o Left) \o Append(q, x) = Append((ran \o Left) \o q, x)
    <3> HIDE DEF x, q
    <3> DEFINE r == ran \o Left
    <3>1. q \in Seq(DeferredCalls)
      BY <1>l DEF q
    <3>2. r \in Seq(DeferredCalls)
      BY <2>13
    <3> HIDE DEF r
    <3>3. r \o Append(q, x) = Append(r \o q, x)
      BY <2>3, <3>1, <3>2
    <3> QED
      BY <3>3 DEF r
  <2>15. Line' = Append(Line, x)
    BY <2>12, <2>14 DEF Line
  <2>16. DeferredInOrder'
    BY <1>0, <2>1, <2>15, LineGrows
  <2> QED
    BY <2>10, <2>16 DEF DeferInv
<1>3. CASE WakeupCb
  <2>1. /\ loop = "waits" /\ loop' = "drains" /\ woken' = FALSE /\ draining' = 0
        /\ currentDeferQueue' = Old
        /\ UNCHANGED <<deferQueues, towake, deferred, ran>>
    BY <1>3 DEF WakeupCb, Old
  <2>2. Old' = currentDeferQueue
    BY <1>0, <2>1 DEF Old
  <2>3. deferQueues[Old] = <<>>
    BY <1>0, <2>1 DEF QueuesInv
  <2>4. DeferTypeOK'
    BY <1>0, <2>1 DEF DeferTypeOK
  <2>5. QueuesInv'
    BY <1>0, <1>l, <2>1, <2>2, <2>4 DEF QueuesInv
  <2>6. Left = <<>>
    BY <2>1 DEF Left
  <2>7. Left' = SubSeq(deferQueues[currentDeferQueue], 1, Len(deferQueues[currentDeferQueue]))
    BY <2>1, <2>2 DEF Left
  <2>8. Left' = deferQueues[currentDeferQueue]
    BY <1>l, <2>7, SubSeqFull
  <2>9. Line' = (ran \o deferQueues[currentDeferQueue]) \o <<>>
    BY <2>1, <2>3, <2>8 DEF Line
  <2>10. ran \o deferQueues[currentDeferQueue] \in Seq(DeferredCalls)
    BY <1>l
  <2>11. Line' = ran \o deferQueues[currentDeferQueue]
    BY <2>9, <2>10, ConcatEmptySeq
  <2>12. ran \o <<>> = ran
    BY <1>l, ConcatEmptySeq
  <2>13. Line' = Line
    BY <2>6, <2>11, <2>12 DEF Line
  <2> QED
    BY <1>0, <2>1, <2>5, <2>13, SameLine DEF DeferInv
<1>4. CASE CallDeferred
  <2> DEFINE old == deferQueues[Old]
             x == old[draining + 1]
  <2>1. /\ loop = "drains" /\ draining < Len(old) /\ ran' = Append(ran, x)
        /\ draining' = draining + 1
        /\ UNCHANGED <<loop, deferQueues, currentDeferQueue, woken, towake, deferred>>
    BY <1>4 DEF CallDeferred
  <2>2. Old' = Old
    BY <2>1 DEF Old
  <2>3. x \in DeferredCalls
    BY <1>0, <1>l, <2>1
  <2>4. ran' \in Seq(DeferredCalls)
    BY <1>l, <2>1, <2>3
  <2>5. DeferTypeOK'
    BY <1>0, <2>1, <2>4, SMTT(40) DEF DeferTypeOK, DeferredCalls
  <2>6. QueuesInv'
    BY <1>0, <1>l, <2>1, <2>2, <2>5 DEF QueuesInv
  <2>7. Left = <<x>> \o Left'
    <3>1. Left = SubSeq(old, draining + 1, Len(old)) /\ Left' = SubSeq(old, draining + 2, Len(old))
      BY <1>0, <2>1, <2>2 DEF Left
    <3>2. /\ old \in Seq(DeferredCalls) /\ draining + 1 \in 1..Len(old) /\ Len(old) \in draining + 1..Len(old)
      BY <1>0, <1>l, <2>1
    <3>3. SubSeq(old, draining + 1, Len(old)) = <<x>> \o SubSeq(old, (draining + 1) + 1, Len(old))
      BY <3>2, SubSeqRecursiveFirst
    <3> QED
      BY <1>0, <3>1, <3>3
  <2>8. Left' \in Seq(DeferredCalls)
    <3>1. draining + 2 \in Int /\ Len(old) \in Int
      BY <1>0, <1>l
    <3>2. \A i \in draining + 2 .. Len(old) : old[i] \in DeferredCalls
      BY <1>0, <1>l
    <3>3. SubSeq(old, draining + 2, Len(old)) \in Seq(DeferredCalls)
      BY <3>1, <3>2, SubSeqProperties
    <3>4. (draining + 1) + 1 = draining + 2
      BY <1>0
    <3>5. Left' = SubSeq(old, (draining + 1) + 1, Len(old))
      BY <2>1, <2>2 DEF Left
    <3> QED
      BY <3>3, <3>4, <3>5
  <2>9. <<x>> \in Seq(DeferredCalls) /\ ran' = ran \o <<x>>
    <3> HIDE DEF x
    <3> QED
      BY <1>l, <2>1, <2>3
  <2>10. (ran \o <<x>>) \o Left' = ran \o (<<x>> \o Left')
    <3>1. PICK a \in Seq(DeferredCalls) : a = ran
      BY <1>l
    <3>2. PICK y \in Seq(DeferredCalls) : y = <<x>>
      BY <2>9
    <3>3. PICK l \in Seq(DeferredCalls) : l = Left'
      BY <2>8
    <3>4. (a \o y) \o l = a \o (y \o l)
      BY ConcatAssociative
    <3> QED
      BY ONLY <3>1, <3>2, <3>3, <3>4
  <2>11. Line' = Line
    BY <2>1, <2>7, <2>9, <2>10 DEF Line
  <2> QED
    BY <1>0, <2>1, <2>6, <2>11, SameLine DEF DeferInv
<1>5. CASE QueueDrained
  <2>1. /\ loop = "drains" /\ draining = Len(deferQueues[Old])
        /\ deferQueues' = [deferQueues EXCEPT ![Old] = <<>>] /\ loop' = "waits"
        /\ UNCHANGED <<currentDeferQueue, draining, woken, towake, deferred, ran>>
    BY <1>5 DEF QueueDrained, OldCleared
  <2>2. Old' = Old
    BY <2>1 DEF Old
  <2>3. /\ deferQueues'[Old] = <<>> /\ DOMAIN deferQueues' = {0, 1}
        /\ deferQueues'[currentDeferQueue] = deferQueues[currentDeferQueue]
    BY <1>0, <2>1
  <2>4. \A i \in {0, 1} : i = Old \/ i = currentDeferQueue
    BY <1>0 DEF DeferTypeOK
  <2>5. \A i \in {0, 1} : deferQueues'[i] \in Seq(DeferredCalls)
    <3>1. <<>> \in Seq(DeferredCalls)
      BY EmptySeq
    <3> QED
      BY <1>l, <2>3, <2>4, <3>1
  <2>6. DeferTypeOK'
    BY <1>0, <2>1, <2>5 DEF DeferTypeOK, DeferredCalls
  <2>7. QueuesInv'
    BY <1>0, <2>1, <2>2, <2>3, <2>6 DEF QueuesInv
  <2>8. Left = SubSeq(deferQueues[Old], draining + 1, draining)
    BY <2>1 DEF Left
  <2>9. Left = <<>> /\ Left' = <<>>
    BY <1>0, <2>1, <2>8, SubSeqEmpty DEF Left
  <2>10. Line' = Line
    BY <2>1, <2>3, <2>9 DEF Line
  <2> QED
    BY <1>0, <2>1, <2>7, <2>10, SameLine DEF DeferInv
<1> QED
  BY <1>1, <1>2, <1>3, <1>4, <1>5 DEF DeferNext, LoopRuns

(* Whatever threads defer while the loop's thread drains, each thread's      *)
(* callbacks run once and in the order they were deferred (Loop.h).          *)
THEOREM DeferredRunInOrder == DeferSpec => []DeferredInOrder
<1>1. DeferInv => DeferredInOrder
  BY DEF DeferInv
<1> QED
  BY <1>1, DeferInvInit, DeferInvStep, PTL DEF DeferSpec

-----------------------------------------------------------------------------
(* context.c, loop.c: the lists of sockets.                                  *)

(* The linked sockets L of the slots S, from the heads hd, both ways.        *)
TwoWay(S, L, hd) ==
  /\ L \subseteq Slots
  /\ \A s \in L :
       /\ S[s].context \in Contexts
       /\ S[s].prev \in L \cup {Null} /\ S[s].next \in L \cup {Null}
       /\ S[s].prev = Null => hd[S[s].context] = s
       /\ S[s].prev # Null => /\ S[S[s].prev].next = s
                              /\ S[S[s].prev].context = S[s].context
       /\ S[s].next # Null => /\ S[S[s].next].prev = s
                              /\ S[S[s].next].context = S[s].context
  /\ \A c \in Contexts :
       hd[c] # Null => hd[c] \in L /\ S[hd[c]].prev = Null /\ S[hd[c]].context = c

(* No list runs into itself.                                                 *)
Ordered(S, L) ==
  \E rank \in [Slots -> Nat] :
     \A s \in L : S[s].next # Null => rank[s] < rank[S[s].next]

Chain(S, L, hd) == TwoWay(S, L, hd) /\ Ordered(S, L)

LEMMA SlotsAreNotNull == Null \notin Slots /\ Null \notin Contexts /\ Slots \cap Contexts = {}
BY SocketLoopAssumption DEF Null, Contexts, Http, Ws

(* The least of a set of slots by a rank.                                    *)
LEMMA LeastRank ==
  ASSUME NEW rank \in [Slots -> Nat], NEW T \in SUBSET Slots, T # {}
  PROVE  \E t \in T : \A u \in T : rank[t] <= rank[u]
<1> DEFINE N == {rank[t] : t \in T}
<1>1. N \subseteq Nat /\ N # {}
  OBVIOUS
<1>2. \E n \in N : \A m \in N : ~(<<m, n>> \in OpToRel(<, Nat))
  <2> HIDE DEF N
  <2> QED
    BY <1>1, NatLessThanWellFounded, WFMin, Zenon
<1>3. PICK n \in N : \A m \in N : ~(<<m, n>> \in OpToRel(<, Nat))
  BY <1>2
<1>4. \A m \in N : ~(m < n)
  BY <1>1, <1>3 DEF OpToRel
<1>5. PICK t \in T : rank[t] = n
  BY DEF N
<1>6. \A u \in T : rank[u] \in N /\ rank[u] \in Nat /\ rank[t] \in Nat
  OBVIOUS
<1> HIDE DEF N
<1> QED
  BY <1>4, <1>5, <1>6

(* Neighbours are other sockets, and those of a socket differ.               *)
LEMMA Neighbours ==
  ASSUME NEW S, NEW L, NEW hd, Chain(S, L, hd), NEW s \in L
  PROVE  /\ S[s].prev # s /\ S[s].next # s
         /\ S[s].prev = S[s].next => S[s].prev = Null
<1>1. PICK rank \in [Slots -> Nat] :
        \A i \in L : S[i].next # Null => rank[i] < rank[S[i].next]
  BY DEF Chain, Ordered
<1>2. L \subseteq Slots /\ \A i \in L : rank[i] \in Nat
  BY DEF Chain, TwoWay
<1>3. S[s].next # s
  BY <1>1, <1>2, SlotsAreNotNull
<1>4. S[s].prev # s
  BY <1>2, <1>3, SlotsAreNotNull DEF Chain, TwoWay
<1>5. ASSUME S[s].prev = S[s].next, S[s].prev # Null PROVE FALSE
  <2>1. S[s].prev \in L /\ S[S[s].prev].next = s /\ s # Null
    BY <1>2, <1>5, SlotsAreNotNull DEF Chain, TwoWay
  <2>2. rank[S[s].prev] < rank[s] /\ rank[s] < rank[S[s].prev]
    BY <1>1, <1>5, <2>1
  <2> QED
    BY <1>2, <2>1, <2>2
<1> QED
  BY <1>3, <1>4, <1>5

(* T is S without s: its neighbours point past it.                           *)
Without(S, T, L, s) ==
  \A i \in L \ {s} :
     /\ T[i].context = S[i].context
     /\ T[i].next = IF S[i].next = s THEN S[s].next ELSE S[i].next
     /\ T[i].prev = IF S[i].prev = s THEN S[s].prev ELSE S[i].prev

HeadPast(S, hd, s) ==
  [hd EXCEPT ![S[s].context] = IF S[s].prev = Null THEN S[s].next ELSE @]

LEMMA ChainWithout ==
  ASSUME NEW S, NEW T, NEW L, NEW hd \in [Contexts -> Ptr], Chain(S, L, hd),
         NEW s \in L, Without(S, T, L, s)
  PROVE  Chain(T, L \ {s}, HeadPast(S, hd, s))
<1> DEFINE M == L \ {s}
           p == S[s].prev
           n == S[s].next
           k == S[s].context
           h == HeadPast(S, hd, s)
<1>0. /\ L \subseteq Slots /\ s # Null /\ Null \notin L /\ k \in Contexts
      /\ p # s /\ n # s /\ (p = n => p = Null)
  BY SlotsAreNotNull, Neighbours DEF Chain, TwoWay
<1>1. \A i \in L :
        /\ S[i].context \in Contexts
        /\ S[i].prev \in L \cup {Null} /\ S[i].next \in L \cup {Null}
        /\ S[i].prev = Null => hd[S[i].context] = i
        /\ S[i].prev # Null => S[S[i].prev].next = i /\ S[S[i].prev].context = S[i].context
        /\ S[i].next # Null => S[S[i].next].prev = i /\ S[S[i].next].context = S[i].context
  BY DEF Chain, TwoWay
<1>2. \A c \in Contexts :
        hd[c] # Null => hd[c] \in L /\ S[hd[c]].prev = Null /\ S[hd[c]].context = c
  BY DEF Chain, TwoWay
<1>3. \A c \in Contexts : h[c] = IF c = k /\ p = Null THEN n ELSE hd[c]
  BY <1>0 DEF HeadPast
<1>4. \A i \in M : /\ T[i].context = S[i].context
                   /\ T[i].next = IF S[i].next = s THEN n ELSE S[i].next
                   /\ T[i].prev = IF S[i].prev = s THEN p ELSE S[i].prev
  BY DEF Without
<1> HIDE DEF h, p, n, k
<1>5. \A i \in L : (S[i].next = s <=> i = p) /\ (S[i].prev = s <=> i = n)
  BY <1>0, <1>1 DEF p, n
<1>6. ASSUME NEW i \in M
      PROVE  /\ T[i].context \in Contexts
             /\ T[i].prev \in M \cup {Null} /\ T[i].next \in M \cup {Null}
  BY <1>0, <1>1, <1>4, <1>6 DEF p, n
<1>7. ASSUME NEW i \in M, T[i].prev = Null PROVE h[T[i].context] = i
  <2>1. CASE S[i].prev = s
    <3>1. i = n /\ p = Null /\ S[i].context = k
      BY <1>0, <1>1, <1>4, <1>5, <1>7, <2>1 DEF n, k
    <3> QED
      BY <1>0, <1>3, <1>4, <3>1
  <2>2. CASE S[i].prev # s
    <3>1. S[i].prev = Null /\ hd[S[i].context] = i
      BY <1>1, <1>4, <1>7, <2>2
    <3>2. ~(S[i].context = k /\ p = Null)
      BY <1>1, <3>1 DEF p, k
    <3> QED
      BY <1>1, <1>3, <1>4, <3>1, <3>2
  <2> QED
    BY <2>1, <2>2
<1>8. ASSUME NEW i \in M, T[i].prev # Null
      PROVE  T[T[i].prev].next = i /\ T[T[i].prev].context = T[i].context
  <2>1. CASE S[i].prev = s
    <3>1. i = n /\ p \in M /\ S[i].context = k /\ T[i].prev = p
      BY <1>0, <1>1, <1>4, <1>5, <1>8, <2>1 DEF p, n, k
    <3>2. S[p].next = s /\ S[p].context = k
      BY <1>0, <1>1, <3>1 DEF p, k
    <3> QED
      BY <1>4, <3>1, <3>2
  <2>2. CASE S[i].prev # s
    <3>1. T[i].prev = S[i].prev /\ S[i].prev \in M
      BY <1>1, <1>4, <1>8, <2>2
    <3>2. S[S[i].prev].next = i /\ S[S[i].prev].context = S[i].context /\ i # s
      BY <1>1, <1>8, <3>1
    <3> QED
      BY <1>4, <3>1, <3>2
  <2> QED
    BY <2>1, <2>2
<1>9. ASSUME NEW i \in M, T[i].next # Null
      PROVE  T[T[i].next].prev = i /\ T[T[i].next].context = T[i].context
  <2>1. CASE S[i].next = s
    <3>1. i = p /\ n \in M /\ S[i].context = k /\ T[i].next = n
      BY <1>0, <1>1, <1>4, <1>5, <1>9, <2>1 DEF p, n, k
    <3>2. S[n].prev = s /\ S[n].context = k
      BY <1>0, <1>1, <3>1 DEF n, k
    <3> QED
      BY <1>4, <3>1, <3>2
  <2>2. CASE S[i].next # s
    <3>1. T[i].next = S[i].next /\ S[i].next \in M
      BY <1>1, <1>4, <1>9, <2>2
    <3>2. S[S[i].next].prev = i /\ S[S[i].next].context = S[i].context /\ i # s
      BY <1>1, <1>9, <3>1
    <3> QED
      BY <1>4, <3>1, <3>2
  <2> QED
    BY <2>1, <2>2
<1>10. ASSUME NEW c \in Contexts, h[c] # Null
       PROVE  h[c] \in M /\ T[h[c]].prev = Null /\ T[h[c]].context = c
  <2>1. CASE c = k /\ p = Null
    <3>1. h[c] = n /\ n \in M /\ S[n].prev = s /\ S[n].context = k
      BY <1>0, <1>1, <1>3, <1>10, <2>1 DEF n, k
    <3> QED
      BY <1>4, <2>1, <3>1
  <2>2. CASE ~(c = k /\ p = Null)
    <3>1. h[c] = hd[c] /\ hd[c] \in L /\ S[hd[c]].prev = Null /\ S[hd[c]].context = c
      BY <1>2, <1>3, <1>10, <2>2
    <3>2. hd[c] # s
      BY <2>2, <3>1 DEF k, p
    <3> QED
      BY <1>0, <1>4, <3>1, <3>2
  <2> QED
    BY <2>1, <2>2
<1>11. TwoWay(T, M, h)
  BY <1>0, <1>6, <1>7, <1>8, <1>9, <1>10 DEF TwoWay
<1>12. Ordered(T, M)
  <2>1. PICK rank \in [Slots -> Nat] :
          \A i \in L : S[i].next # Null => rank[i] < rank[S[i].next]
    BY DEF Chain, Ordered
  <2>2. ASSUME NEW i \in M, T[i].next # Null PROVE rank[i] < rank[T[i].next]
    <3>1. CASE S[i].next = s
      <4>1. T[i].next = n /\ n # Null /\ n \in L /\ rank[i] < rank[s] /\ rank[s] < rank[n]
        BY <1>0, <1>1, <1>4, <2>1, <2>2, <3>1 DEF n
      <4>2. rank[i] \in Nat /\ rank[s] \in Nat /\ rank[n] \in Nat
        BY <1>0, <4>1
      <4> QED
        BY <4>1, <4>2
    <3>2. CASE S[i].next # s
      BY <1>4, <2>1, <2>2, <3>2
    <3> QED
      BY <3>1, <3>2
  <2> QED
    BY <2>2 DEF Ordered
<1> QED
  BY <1>11, <1>12 DEF Chain, h

(* T is S with s before the head of list c.                                  *)
WithSocket(S, T, L, hd, c, s) ==
  /\ T[s].context = c /\ T[s].prev = Null /\ T[s].next = hd[c]
  /\ \A i \in L : /\ T[i].context = S[i].context /\ T[i].next = S[i].next
                  /\ T[i].prev = IF i = hd[c] THEN s ELSE S[i].prev

LEMMA ChainWith ==
  ASSUME NEW S, NEW T, NEW L, NEW hd \in [Contexts -> Ptr], Chain(S, L, hd),
         NEW s \in Slots \ L, NEW c \in Contexts, WithSocket(S, T, L, hd, c, s)
  PROVE  Chain(T, L \cup {s}, [hd EXCEPT ![c] = s])
<1> DEFINE M == L \cup {s}
           h == [hd EXCEPT ![c] = s]
<1>0. L \subseteq Slots /\ s # Null /\ Null \notin L
  BY SlotsAreNotNull DEF Chain, TwoWay
<1>1. \A i \in L :
        /\ S[i].context \in Contexts
        /\ S[i].prev \in L \cup {Null} /\ S[i].next \in L \cup {Null}
        /\ S[i].prev = Null => hd[S[i].context] = i
        /\ S[i].prev # Null => S[S[i].prev].next = i /\ S[S[i].prev].context = S[i].context
        /\ S[i].next # Null => S[S[i].next].prev = i /\ S[S[i].next].context = S[i].context
  BY DEF Chain, TwoWay
<1>2. \A b \in Contexts :
        hd[b] # Null => hd[b] \in L /\ S[hd[b]].prev = Null /\ S[hd[b]].context = b
  BY DEF Chain, TwoWay
<1>3. h \in [Contexts -> Ptr] /\ \A b \in Contexts : h[b] = IF b = c THEN s ELSE hd[b]
  BY DEF Ptr
<1>4. /\ T[s].context = c /\ T[s].prev = Null /\ T[s].next = hd[c]
      /\ \A i \in L : /\ T[i].context = S[i].context /\ T[i].next = S[i].next
                      /\ T[i].prev = IF i = hd[c] THEN s ELSE S[i].prev
  BY DEF WithSocket
<1> HIDE DEF h
<1>5. ASSUME NEW i \in M
      PROVE  /\ T[i].context \in Contexts
             /\ T[i].prev \in M \cup {Null} /\ T[i].next \in M \cup {Null}
  <2>1. CASE i = s
    BY <1>2, <1>4, <2>1
  <2>2. CASE i \in L
    BY <1>1, <1>4, <2>2
  <2> QED
    BY <2>1, <2>2
<1>6. ASSUME NEW i \in M, T[i].prev = Null PROVE h[T[i].context] = i
  <2>1. CASE i = s
    BY <1>3, <1>4, <2>1
  <2>2. CASE i \in L
    <3>1. i # hd[c] /\ S[i].prev = Null
      BY <1>0, <1>4, <1>6, <2>2
    <3>2. S[i].context # c
      BY <1>1, <2>2, <3>1
    <3> QED
      BY <1>1, <1>3, <1>4, <2>2, <3>1, <3>2
  <2> QED
    BY <2>1, <2>2
<1>7. ASSUME NEW i \in M, T[i].prev # Null
      PROVE  T[T[i].prev].next = i /\ T[T[i].prev].context = T[i].context
  <2>1. i \in L
    BY <1>4, <1>7
  <2>2. CASE i = hd[c]
    BY <1>0, <1>2, <1>4, <2>1, <2>2
  <2>3. CASE i # hd[c]
    BY <1>1, <1>4, <1>7, <2>1, <2>3
  <2> QED
    BY <2>2, <2>3
<1>8. ASSUME NEW i \in M, T[i].next # Null
      PROVE  T[T[i].next].prev = i /\ T[T[i].next].context = T[i].context
  <2>1. CASE i = s
    BY <1>2, <1>4, <1>8, <2>1
  <2>2. CASE i \in L
    <3>1. T[i].next = S[i].next /\ S[i].next \in L /\ S[S[i].next].prev = i
      BY <1>1, <1>4, <1>8, <2>2
    <3>2. S[i].next # hd[c]
      BY <1>0, <1>2, <2>2, <3>1
    <3> QED
      BY <1>1, <1>4, <2>2, <3>1, <3>2
  <2> QED
    BY <2>1, <2>2
<1>9. ASSUME NEW b \in Contexts, h[b] # Null
      PROVE  h[b] \in M /\ T[h[b]].prev = Null /\ T[h[b]].context = b
  <2>1. CASE b = c
    BY <1>3, <1>4, <2>1
  <2>2. CASE b # c
    <3>1. h[b] = hd[b] /\ hd[b] \in L /\ S[hd[b]].prev = Null /\ S[hd[b]].context = b
      BY <1>2, <1>3, <1>9, <2>2
    <3>2. hd[b] # hd[c]
      BY <1>0, <1>2, <2>2, <3>1
    <3> QED
      BY <1>4, <3>1, <3>2
  <2> QED
    BY <2>1, <2>2
<1>10. TwoWay(T, M, h)
  BY <1>0, <1>5, <1>6, <1>7, <1>8, <1>9 DEF TwoWay
<1>11. Ordered(T, M)
  <2>1. PICK rank \in [Slots -> Nat] :
          \A i \in L : S[i].next # Null => rank[i] < rank[S[i].next]
    BY DEF Chain, Ordered
  <2> DEFINE r == [i \in Slots |-> IF i = s THEN 0 ELSE rank[i] + 1]
  <2>2. r \in [Slots -> Nat] /\ r[s] = 0 /\ \A i \in Slots : i # s => r[i] = rank[i] + 1
    OBVIOUS
  <2> HIDE DEF r
  <2>3. ASSUME NEW i \in M, T[i].next # Null PROVE r[i] < r[T[i].next]
    <3>1. CASE i = s
      <4>1. T[i].next \in L /\ T[i].next # s /\ rank[T[i].next] \in Nat
        BY <1>0, <1>2, <1>4, <2>3, <3>1
      <4> QED
        BY <1>0, <2>2, <3>1, <4>1
    <3>2. CASE i \in L
      <4>1. T[i].next = S[i].next /\ S[i].next \in L /\ rank[i] < rank[S[i].next]
        BY <1>1, <1>4, <2>1, <2>3, <3>2
      <4>2. rank[i] \in Nat /\ rank[S[i].next] \in Nat
        BY <1>0, <3>2, <4>1
      <4>3. r[i] = rank[i] + 1 /\ r[S[i].next] = rank[S[i].next] + 1
        BY <1>0, <2>2, <3>2, <4>1
      <4> QED
        BY <4>1, <4>2, <4>3
    <3> QED
      BY <3>1, <3>2
  <2> QED
    BY <2>2, <2>3 DEF Ordered
<1> QED
  BY <1>10, <1>11 DEF Chain, h

(* Slots with the same links hold the same lists.                            *)
LEMMA ChainSame ==
  ASSUME NEW S, NEW T, NEW L, NEW hd, Chain(S, L, hd),
         \A i \in L : /\ T[i].context = S[i].context
                      /\ T[i].next = S[i].next /\ T[i].prev = S[i].prev
  PROVE  Chain(T, L, hd)
<1>1. TwoWay(T, L, hd)
  BY DEF Chain, TwoWay
<1>2. Ordered(T, L)
  BY DEF Chain, Ordered
<1> QED
  BY <1>1, <1>2 DEF Chain

(* A list that holds a socket has a head.                                    *)
LEMMA HeadThere ==
  ASSUME NEW S, NEW L, NEW hd, Chain(S, L, hd), NEW s \in L
  PROVE  hd[S[s].context] # Null
<1> DEFINE T == {t \in L : S[t].context = S[s].context}
<1>1. PICK rank \in [Slots -> Nat] :
        \A i \in L : S[i].next # Null => rank[i] < rank[S[i].next]
  BY DEF Chain, Ordered
<1>2. T \subseteq Slots /\ s \in T
  BY DEF Chain, TwoWay
<1>3. PICK t \in T : \A u \in T : rank[t] <= rank[u]
  <2> HIDE DEF T
  <2> QED
    BY <1>2, LeastRank
<1>4. CASE S[t].prev = Null
  BY <1>2, <1>4, SlotsAreNotNull DEF Chain, TwoWay
<1>5. CASE S[t].prev # Null
  <2>1. S[t].prev \in T /\ S[S[t].prev].next = t /\ t # Null
    BY <1>2, <1>5, SlotsAreNotNull DEF Chain, TwoWay
  <2>2. rank[S[t].prev] < rank[t] /\ rank[t] <= rank[S[t].prev]
    BY <1>1, <1>3, <2>1
  <2>3. rank[t] \in Nat /\ rank[S[t].prev] \in Nat
    BY <1>2, <2>1
  <2> QED
    BY <2>2, <2>3
<1> QED
  BY <1>4, <1>5

(* The sweep of list c is at it; V are the sockets it has yet to visit, and  *)
(* x the one whose timeout's callback runs, if any.                          *)
Ahead(S, V, it, x, c) ==
  /\ it # Null /\ it # x => it \in V
  /\ \A t \in V \cup {it} : t # Null /\ S[t].context = c /\ S[t].next # Null => S[t].next \in V
  /\ \A t \in V : S[t].context = c /\ t # it => S[t].prev # Null /\ S[t].prev \in V \cup {it}

LEMMA AheadWithout ==
  ASSUME NEW S, NEW T, NEW L, NEW hd, Chain(S, L, hd), NEW s \in L, Without(S, T, L, s),
         NEW V \in SUBSET L, NEW it, NEW x, NEW c,
         it # Null => it \in L /\ S[it].context = c,
         Ahead(S, V, it, x, c)
  PROVE  Ahead(T, V \ {s}, IF it = s THEN S[s].next ELSE it, x, c)
<1> DEFINE p == S[s].prev
           n == S[s].next
           W == V \ {s}
           at == IF it = s THEN n ELSE it
<1>0. /\ L \subseteq Slots /\ s # Null /\ Null \notin L /\ p # s /\ n # s
  BY SlotsAreNotNull, Neighbours DEF Chain, TwoWay
<1>1. \A i \in L : /\ S[i].prev \in L \cup {Null} /\ S[i].next \in L \cup {Null}
                   /\ S[i].prev # Null => S[S[i].prev].next = i
                   /\ S[i].next # Null => /\ S[S[i].next].prev = i
                                          /\ S[S[i].next].context = S[i].context
  BY DEF Chain, TwoWay
<1>2. /\ it # Null /\ it # x => it \in V
      /\ \A t \in V \cup {it} : t # Null /\ S[t].context = c /\ S[t].next # Null => S[t].next \in V
      /\ \A t \in V : S[t].context = c /\ t # it => S[t].prev # Null /\ S[t].prev \in V \cup {it}
  BY DEF Ahead
<1>3. \A i \in L \ {s} : /\ T[i].context = S[i].context
                         /\ T[i].next = IF S[i].next = s THEN n ELSE S[i].next
                         /\ T[i].prev = IF S[i].prev = s THEN p ELSE S[i].prev
  BY DEF Without
<1>4. at = IF it = s THEN n ELSE it
  OBVIOUS
<1>5. it = s => S[s].context = c
  BY <1>0
<1>6. it = s /\ n # Null => n \in V
  BY <1>0, <1>2, <1>5
<1>7. at # Null => at \in L \ {s}
  BY <1>0, <1>1, <1>4
<1> HIDE DEF p, n, at
<1>8. at # Null /\ at # x => at \in W
  BY <1>0, <1>2, <1>4, <1>6
<1>9. ASSUME NEW t \in W \cup {at}, t # Null, T[t].context = c, T[t].next # Null
      PROVE  T[t].next \in W
  <2>1. t \in L \ {s} /\ S[t].context = c
    BY <1>3, <1>7, <1>9
  <2>2. t \in V \cup {it}
    BY <1>4, <1>6, <1>9
  <2>3. CASE S[t].next = s
    <3>1. s \in V /\ S[s].context = c /\ T[t].next = n
      BY <1>0, <1>1, <1>2, <1>3, <1>9, <2>1, <2>2, <2>3
    <3>2. n \in V
      BY <1>0, <1>2, <1>9, <3>1 DEF n
    <3> QED
      BY <1>0, <3>1, <3>2 DEF n
  <2>4. CASE S[t].next # s
    BY <1>2, <1>3, <1>9, <2>1, <2>2, <2>4
  <2> QED
    BY <2>3, <2>4
<1>10. ASSUME NEW t \in W, T[t].context = c, t # at
       PROVE  T[t].prev # Null /\ T[t].prev \in W \cup {at}
  <2>1. t \in L \ {s} /\ S[t].context = c /\ t \in V
    BY <1>3, <1>10
  <2>2. t # it
    BY <1>4, <1>10
  <2>3. S[t].prev # Null /\ S[t].prev \in V \cup {it}
    BY <1>2, <2>1, <2>2
  <2>4. CASE S[t].prev = s
    <3>1. n = t /\ S[s].context = c /\ T[t].prev = p
      BY <1>0, <1>1, <1>3, <2>1, <2>4 DEF n
    <3>2. s # it
      BY <1>4, <1>10, <3>1
    <3>3. at = it /\ s \in V
      BY <1>4, <2>3, <2>4, <3>2
    <3>4. p # Null /\ p \in V \cup {it}
      BY <1>2, <3>1, <3>2, <3>3 DEF p
    <3> QED
      BY <1>0, <3>1, <3>3, <3>4 DEF p
  <2>5. CASE S[t].prev # s
    BY <1>3, <1>4, <2>1, <2>3, <2>5
  <2> QED
    BY <2>4, <2>5
<1>11. Ahead(T, W, at, x, c)
  BY <1>8, <1>9, <1>10 DEF Ahead
<1> QED
  BY <1>11 DEF at, n

(* A socket put at the head of a list is not ahead of its sweep.             *)
LEMMA AheadWith ==
  ASSUME NEW S, NEW T, NEW L, NEW hd, Chain(S, L, hd), NEW s \in Slots \ L,
         NEW b \in Contexts, WithSocket(S, T, L, hd, b, s),
         NEW V \in SUBSET L, NEW it, NEW x, NEW c,
         it # Null => it \in L /\ S[it].context = c,
         Ahead(S, V, it, x, c)
  PROVE  Ahead(T, V, it, x, c)
<1>1. \A i \in L : /\ T[i].context = S[i].context /\ T[i].next = S[i].next
                   /\ T[i].prev = IF i = hd[b] THEN s ELSE S[i].prev
  BY DEF WithSocket
<1>2. /\ it # Null /\ it # x => it \in V
      /\ \A t \in V \cup {it} : t # Null /\ S[t].context = c /\ S[t].next # Null => S[t].next \in V
      /\ \A t \in V : S[t].context = c /\ t # it => S[t].prev # Null /\ S[t].prev \in V \cup {it}
  BY DEF Ahead
<1>3. hd[b] # Null => S[hd[b]].prev = Null
  BY DEF Chain, TwoWay
<1>4. Null \notin L
  BY SlotsAreNotNull DEF Chain, TwoWay
<1>5. ASSUME NEW t \in V \cup {it}, t # Null, T[t].context = c, T[t].next # Null
      PROVE  T[t].next \in V
  BY <1>1, <1>2, <1>5
<1>6. ASSUME NEW t \in V, T[t].context = c, t # it
      PROVE  T[t].prev # Null /\ T[t].prev \in V \cup {it}
  BY <1>1, <1>2, <1>3, <1>4, <1>6
<1> QED
  BY <1>2, <1>5, <1>6 DEF Ahead

LEMMA AheadSame ==
  ASSUME NEW S, NEW T, NEW L, Null \notin L, NEW V \in SUBSET L, NEW it, NEW x, NEW c,
         it # Null => it \in L, Ahead(S, V, it, x, c),
         \A i \in L : /\ T[i].context = S[i].context
                      /\ T[i].next = S[i].next /\ T[i].prev = S[i].prev
  PROVE  Ahead(T, V, it, x, c)
<1>1. ASSUME NEW t \in V \cup {it}, t # Null, T[t].context = c, T[t].next # Null
      PROVE  T[t].next \in V
  BY <1>1 DEF Ahead
<1>2. ASSUME NEW t \in V, T[t].context = c, t # it
      PROVE  T[t].prev # Null /\ T[t].prev \in V \cup {it}
  BY <1>2 DEF Ahead
<1> QED
  BY <1>1, <1>2 DEF Ahead

(* At the end of a list nothing of it is left to visit.                      *)
LEMMA AheadEnds ==
  ASSUME NEW S, NEW L, NEW hd, Chain(S, L, hd), NEW V \in SUBSET L, NEW x, NEW c,
         Ahead(S, V, Null, x, c)
  PROVE  \A t \in V : S[t].context # c
<1> SUFFICES ASSUME NEW s \in V, S[s].context = c PROVE FALSE
  OBVIOUS
<1> DEFINE M == {t \in V : S[t].context = c}
<1>1. PICK rank \in [Slots -> Nat] :
        \A i \in L : S[i].next # Null => rank[i] < rank[S[i].next]
  BY DEF Chain, Ordered
<1>2. L \subseteq Slots /\ M \subseteq Slots /\ s \in M /\ Null \notin L
  BY SlotsAreNotNull DEF Chain, TwoWay
<1>3. PICK t \in M : \A u \in M : rank[t] <= rank[u]
  <2> HIDE DEF M
  <2> QED
    BY <1>2, LeastRank
<1>4. S[t].prev # Null /\ S[t].prev \in V
  BY <1>2 DEF Ahead
<1>5. S[t].prev \in M /\ S[S[t].prev].next = t
  BY <1>2, <1>4 DEF Chain, TwoWay
<1>6. rank[S[t].prev] < rank[t] /\ rank[t] <= rank[S[t].prev]
  BY <1>1, <1>2, <1>3, <1>5
<1>7. rank[t] \in Nat /\ rank[S[t].prev] \in Nat
  BY <1>2, <1>5
<1> QED
  BY <1>6, <1>7

(* A sweep that begins has the whole list ahead.                             *)
LEMMA AheadBegins ==
  ASSUME NEW S, NEW L, NEW hd, Chain(S, L, hd), NEW V \in SUBSET L, NEW x, NEW c \in Contexts,
         \A t \in L : S[t].context = c => t \in V
  PROVE  Ahead(S, V, hd[c], x, c)
<1>1. hd[c] # Null => hd[c] \in V /\ S[hd[c]].context = c
  BY DEF Chain, TwoWay
<1>2. ASSUME NEW t \in V \cup {hd[c]}, t # Null, S[t].context = c, S[t].next # Null
      PROVE  S[t].next \in V
  BY <1>1, <1>2 DEF Chain, TwoWay
<1>3. ASSUME NEW t \in V, S[t].context = c, t # hd[c]
      PROVE  S[t].prev # Null /\ S[t].prev \in V \cup {hd[c]}
  BY <1>3 DEF Chain, TwoWay
<1> QED
  BY <1>1, <1>2, <1>3 DEF Ahead

(* The closed sockets D, from ch on: each is the first or follows another.   *)
Freeable(S, D, ch) ==
  /\ D \subseteq Slots /\ ch \in D \cup {Null}
  /\ \A s \in D : S[s].next \in D \cup {Null}
  /\ \E rank \in [Slots -> Nat] :
       \A s \in D : s # ch => \E t \in D : S[t].next = s /\ rank[t] < rank[s]

LEMMA FreeableGrows ==
  ASSUME NEW S, NEW T, NEW D, NEW ch, Freeable(S, D, ch), NEW s \in Slots \ D,
         T[s].next = ch, \A i \in D : T[i].next = S[i].next
  PROVE  Freeable(T, D \cup {s}, s)
<1>1. PICK rank \in [Slots -> Nat] :
        \A i \in D : i # ch => \E t \in D : S[t].next = i /\ rank[t] < rank[i]
  BY DEF Freeable
<1> DEFINE r == [i \in Slots |-> IF i = s THEN 0 ELSE rank[i] + 1]
<1>2. r \in [Slots -> Nat] /\ r[s] = 0 /\ \A i \in Slots : i # s => r[i] = rank[i] + 1
  OBVIOUS
<1>3. D \subseteq Slots
  BY DEF Freeable
<1> HIDE DEF r
<1>4. ASSUME NEW i \in D \cup {s}, i # s
      PROVE  \E t \in D \cup {s} : T[t].next = i /\ r[t] < r[i]
  <2>1. i \in D /\ r[i] = rank[i] + 1 /\ rank[i] \in Nat
    BY <1>2, <1>3, <1>4
  <2>2. CASE i = ch
    BY <1>2, <2>1, <2>2
  <2>3. CASE i # ch
    <3>1. PICK t \in D : S[t].next = i /\ rank[t] < rank[i]
      BY <1>1, <2>1, <2>3
    <3>2. r[t] = rank[t] + 1 /\ rank[t] \in Nat
      BY <1>2, <1>3
    <3> QED
      BY <2>1, <3>1, <3>2
  <2> QED
    BY <2>2, <2>3
<1>5. \A i \in D \cup {s} : T[i].next \in D \cup {s} \cup {Null}
  BY DEF Freeable
<1> QED
  BY <1>2, <1>3, <1>4, <1>5 DEF Freeable

LEMMA FreeableSame ==
  ASSUME NEW S, NEW T, NEW D, NEW ch, Freeable(S, D, ch),
         \A i \in D : T[i].next = S[i].next
  PROVE  Freeable(T, D, ch)
BY DEF Freeable

-----------------------------------------------------------------------------
(* What the operations on sockets do to the slots.                           *)

SockRecords ==
  [mem : {"none", "live"}, type : {"socket", "shut", "listen", "connect"},
   events : SUBSET {"R", "W"}, context : Contexts, prev : Ptr \cup Contexts, next : Ptr,
   timeout : 0..MaxTimeout, uv : {"none", "open", "closing", "closed"}, data : Ptr]

Live(S) == {s \in Slots : S[s].mem = "live" /\ S[s].prev # S[s].context}
Dead(S) == {s \in Slots : S[s].mem = "live" /\ S[s].prev = S[s].context}

LEMMA OpenIsLive == Open = Live(sock) /\ \A s \in Slots : sock[s].mem = "live" =>
                      (Closed(s) <=> s \in Dead(sock))
BY DEF Open, Live, Dead, Closed, Marked

LEMMA NoSockIs == /\ NoSock \in SockRecords /\ NoSock.mem = "none" /\ NoSock.uv = "none"
                  /\ NoSock.events = {} /\ NoSock.prev = Null /\ NoSock.data = Null
BY SocketLoopAssumption DEF NoSock, SockRecords, Contexts, Ptr

(* T is S with s linked at the head of list c.                               *)
LinkedIn(S, T, hd, c, s) ==
  /\ T \in [Slots -> SockRecords]
  /\ \A i \in Slots : /\ T[i].mem = S[i].mem /\ T[i].type = S[i].type
                      /\ T[i].events = S[i].events
                      /\ T[i].uv = S[i].uv /\ T[i].data = S[i].data
  /\ T[s].context = c /\ T[s].prev = Null /\ T[s].next = hd[c]
  /\ \A i \in Slots : i # s => /\ T[i].context = S[i].context /\ T[i].next = S[i].next
                               /\ T[i].prev = IF i = hd[c] THEN s ELSE S[i].prev
                               /\ (i # hd[c] => T[i] = S[i])

LEMMA LinkIs ==
  ASSUME NEW S \in [Slots -> SockRecords], NEW hd \in [Contexts -> Ptr], NEW s \in Slots,
         NEW c \in Contexts, hd[c] # s,
         NEW T, T = Link(S, hd, c, s)
  PROVE  LinkedIn(S, T, hd, c, s)
<1> DEFINE U == [S EXCEPT ![s].context = c, ![s].timeout = 0, ![s].next = hd[c], ![s].prev = Null]
<1>0. 0 \in 0..MaxTimeout /\ Null \in Ptr /\ hd[c] \in Ptr /\ s \in Ptr
  BY SocketLoopAssumption DEF Ptr
<1>1. U[s] = [S[s] EXCEPT !.context = c, !.timeout = 0, !.next = hd[c], !.prev = Null]
  OBVIOUS
<1>2. /\ U[s] \in SockRecords
      /\ U[s].mem = S[s].mem /\ U[s].type = S[s].type /\ U[s].events = S[s].events
      /\ U[s].uv = S[s].uv /\ U[s].data = S[s].data
      /\ U[s].context = c /\ U[s].prev = Null /\ U[s].next = hd[c]
  <2>1. S[s] \in SockRecords
    OBVIOUS
  <2> QED
    BY <1>0, <1>1, <2>1 DEF SockRecords
<1>3. U \in [Slots -> SockRecords] /\ \A i \in Slots : i # s => U[i] = S[i]
  BY <1>2
<1>4. CASE hd[c] = Null
  <2>1. T = [U EXCEPT ![s].prev = Null]
    BY <1>4 DEF Link
  <2> HIDE DEF U
  <2>2. T[s] = [U[s] EXCEPT !.prev = Null] /\ \A i \in Slots : i # s => T[i] = S[i]
    BY <1>3, <2>1
  <2>3. /\ T[s] \in SockRecords
        /\ T[s].mem = S[s].mem /\ T[s].type = S[s].type /\ T[s].events = S[s].events
        /\ T[s].uv = S[s].uv /\ T[s].data = S[s].data
        /\ T[s].context = c /\ T[s].prev = Null /\ T[s].next = hd[c]
    BY <1>0, <1>2, <2>2 DEF SockRecords
  <2>4. T \in [Slots -> SockRecords]
    BY <1>3, <2>1, <2>2, <2>3
  <2>5. hd[c] \notin Slots
    BY <1>4, SlotsAreNotNull
  <2> QED
    BY <2>2, <2>3, <2>4, <2>5 DEF LinkedIn
<1>5. CASE hd[c] # Null
  <2> DEFINE h == hd[c]
  <2>1. h \in Slots /\ h # s
    BY <1>0, <1>5 DEF Ptr
  <2>2. T = [U EXCEPT ![h].prev = s]
    BY <1>5 DEF Link
  <2> HIDE DEF U, h
  <2>3. T[h] = [S[h] EXCEPT !.prev = s] /\ \A i \in Slots : i # h => T[i] = U[i]
    BY <1>3, <2>1, <2>2
  <2>4. S[h] \in SockRecords
    BY <2>1
  <2>5. /\ T[h] \in SockRecords
        /\ T[h].mem = S[h].mem /\ T[h].type = S[h].type /\ T[h].events = S[h].events
        /\ T[h].uv = S[h].uv /\ T[h].data = S[h].data
        /\ T[h].context = S[h].context /\ T[h].next = S[h].next /\ T[h].prev = s
    BY <1>0, <2>3, <2>4 DEF SockRecords
  <2>6. T \in [Slots -> SockRecords]
    BY <1>3, <2>1, <2>2, <2>3, <2>5
  <2>7. /\ T[s].mem = S[s].mem /\ T[s].type = S[s].type /\ T[s].events = S[s].events
        /\ T[s].uv = S[s].uv /\ T[s].data = S[s].data
        /\ T[s].context = c /\ T[s].prev = Null /\ T[s].next = hd[c]
    BY <1>2, <2>1, <2>3
  <2>8. \A i \in Slots : i # s /\ i # h => T[i] = S[i]
    BY <1>3, <2>3
  <2> QED
    BY <2>1, <2>5, <2>6, <2>7, <2>8 DEF h, LinkedIn
<1> QED
  BY <1>4, <1>5

LEMMA UnlinkIs ==
  ASSUME NEW S \in [Slots -> SockRecords], NEW L, NEW hd, Chain(S, L, hd), NEW s \in L,
         NEW T, T = Unlink(S, s)
  PROVE  /\ T \in [Slots -> SockRecords]
         /\ \A i \in Slots : /\ T[i].mem = S[i].mem /\ T[i].type = S[i].type
                             /\ T[i].events = S[i].events
                             /\ T[i].uv = S[i].uv /\ T[i].data = S[i].data
                             /\ T[i].context = S[i].context
         /\ Without(S, T, L, s)
         /\ T[s] = S[s] /\ \A i \in Slots \ L : T[i] = S[i]
         /\ \A i \in L \ {s} : T[i].prev \in L \cup {Null}
<1> DEFINE p == S[s].prev
           n == S[s].next
<1>0. /\ L \subseteq Slots /\ s # Null /\ Null \notin L /\ p # s /\ n # s
      /\ p \in L \cup {Null} /\ n \in L \cup {Null} /\ (p = n => p = Null)
  BY SlotsAreNotNull, Neighbours DEF Chain, TwoWay
<1>1. \A i \in Slots : T[i] = CASE p # n /\ i = p -> [S[i] EXCEPT !.next = n]
                                [] p # n /\ i = n -> [S[i] EXCEPT !.prev = p]
                                [] OTHER -> S[i]
  BY DEF Unlink
<1>2. T = [i \in Slots |-> T[i]]
  BY DEF Unlink
<1>3. \A i \in L : /\ S[i].prev # Null => S[S[i].prev].next = i
                   /\ S[i].next # Null => S[S[i].next].prev = i
                   /\ S[i].prev \in L \cup {Null} /\ S[i].next \in L \cup {Null}
  BY DEF Chain, TwoWay
<1> HIDE DEF p, n
<1>4. \A i \in L : (S[i].next = s <=> i = p) /\ (S[i].prev = s <=> i = n)
  BY <1>0, <1>3 DEF p, n
<1>5. ASSUME NEW i \in Slots
      PROVE  /\ T[i] \in SockRecords
             /\ T[i].mem = S[i].mem /\ T[i].type = S[i].type /\ T[i].events = S[i].events
             /\ T[i].uv = S[i].uv /\ T[i].data = S[i].data /\ T[i].context = S[i].context
             /\ T[i].next = IF i = p THEN n ELSE S[i].next
             /\ T[i].prev = IF i = n THEN p ELSE S[i].prev
             /\ i # p /\ i # n => T[i] = S[i]
  <2>1. S[i] \in SockRecords /\ n \in Ptr /\ p \in Ptr
    BY <1>0 DEF Ptr
  <2>2. CASE i = p
    <3>1. p # n /\ T[i] = [S[i] EXCEPT !.next = n] /\ i # n
      BY <1>0, <1>1, <2>2, SlotsAreNotNull
    <3> QED
      BY <2>1, <2>2, <3>1 DEF SockRecords
  <2>3. CASE i = n
    <3>1. p # n /\ T[i] = [S[i] EXCEPT !.prev = p] /\ i # p
      BY <1>0, <1>1, <2>3, SlotsAreNotNull
    <3> QED
      BY <2>1, <2>3, <3>1 DEF SockRecords
  <2>4. CASE i # p /\ i # n
    <3>1. T[i] = S[i]
      BY <1>1, <2>4
    <3> QED
      BY <2>1, <2>4, <3>1
  <2> QED
    BY <2>2, <2>3, <2>4
<1>6. T \in [Slots -> SockRecords]
  BY <1>2, <1>5
<1>7. Without(S, T, L, s)
  BY <1>0, <1>4, <1>5 DEF Without, p, n
<1>8. T[s] = S[s] /\ \A i \in Slots \ L : T[i] = S[i]
  BY <1>0, <1>5, SlotsAreNotNull
<1>9. \A i \in L \ {s} : T[i].prev \in L \cup {Null}
  BY <1>0, <1>3, <1>5
<1> QED
  BY <1>5, <1>6, <1>7, <1>8, <1>9

-----------------------------------------------------------------------------
(* The lists hold the open sockets, and the pointers into them lead to       *)
(* members.                                                                  *)
StructInv ==
  /\ sock \in [Slots -> SockRecords]
  /\ head \in [Contexts -> Ptr] /\ iterator \in [Contexts -> Ptr]
  /\ Chain(sock, Live(sock), head)
  /\ \A c \in Contexts :
       iterator[c] # Null => iterator[c] \in Live(sock) /\ sock[iterator[c]].context = c
  /\ ready \subseteq Live(sock)
  /\ \A s \in Slots : /\ sock[s].mem = "none" => sock[s] = NoSock
                      /\ s \in Live(sock) => sock[s].uv = "open"
                      /\ s \in Dead(sock) => sock[s].uv = "closing"

(* T links its sockets as S does.                                            *)
SameLinks(S, T) ==
  \A i \in Slots :
    /\ T[i].mem = S[i].mem /\ T[i].context = S[i].context
    /\ T[i].prev = S[i].prev /\ T[i].next = S[i].next
    /\ T[i].uv = S[i].uv /\ T[i].data = S[i].data
    /\ S[i].mem = "none" => T[i] = S[i]

LEMMA LiveTypes ==
  ASSUME StructInv
  PROVE  /\ Live(sock) \subseteq Slots /\ Dead(sock) \subseteq Slots
         /\ Live(sock) \cap Dead(sock) = {} /\ Null \notin Live(sock)
         /\ \A s \in Live(sock) : sock[s].prev \in Live(sock) \cup {Null}
         /\ \A s \in Live(sock) : sock[s].context \in Contexts
BY SlotsAreNotNull DEF Live, Dead, StructInv, Chain, TwoWay

LEMMA LoopKeeps ==
  ASSUME StructInv, sock' \in [Slots -> SockRecords], SameLinks(sock, sock'), head' = head,
         iterator' \in [Contexts -> Ptr],
         \A c \in Contexts : iterator'[c] # Null =>
            iterator'[c] \in Live(sock) /\ sock[iterator'[c]].context = c,
         ready' \subseteq Live(sock)
  PROVE  /\ StructInv' /\ Live(sock') = Live(sock) /\ Dead(sock') = Dead(sock)
<1>1. Live(sock') = Live(sock) /\ Dead(sock') = Dead(sock)
  BY DEF SameLinks, Live, Dead
<1>2. Live(sock) \subseteq Slots
  BY DEF Live
<1>3. \A i \in Live(sock) : /\ sock'[i].context = sock[i].context
                            /\ sock'[i].next = sock[i].next /\ sock'[i].prev = sock[i].prev
  BY <1>2 DEF SameLinks
<1>4. Chain(sock, Live(sock), head)
  BY DEF StructInv
<1>5. PICK S, T, L, h : S = sock /\ T = sock' /\ L = Live(sock) /\ h = head
  OBVIOUS
<1>6. Chain(T, L, h)
  BY <1>3, <1>4, <1>5, ChainSame
<1>7. Chain(sock', Live(sock'), head')
  BY <1>1, <1>5, <1>6
<1>8. \A s \in Slots : /\ sock'[s].mem = "none" => sock'[s] = NoSock
                       /\ s \in Live(sock') => sock'[s].uv = "open"
                       /\ s \in Dead(sock') => sock'[s].uv = "closing"
  BY <1>1 DEF SameLinks, StructInv
<1>9. \A c \in Contexts : iterator'[c] # Null =>
            iterator'[c] \in Live(sock') /\ sock'[iterator'[c]].context = c
  BY <1>1, <1>3
<1> QED
  BY <1>1, <1>7, <1>8, <1>9 DEF StructInv

LEMMA HeadWithoutIs ==
  ASSUME StructInv, NEW s \in Live(sock)
  PROVE  HeadWithout(s) = HeadPast(sock, head, s)
<1>1. Chain(sock, Live(sock), head) /\ head \in [Contexts -> Ptr] /\ sock[s].context \in Contexts
  BY LiveTypes DEF StructInv
<1>2. sock[s].prev = sock[s].next => sock[s].prev = Null
  <2>1. PICK S, L, h : S = sock /\ L = Live(sock) /\ h = head
    OBVIOUS
  <2> QED
    BY <1>1, <2>1, Neighbours
<1>3. CASE sock[s].prev = Null
  BY <1>1, <1>3 DEF HeadWithout, HeadPast
<1>4. CASE sock[s].prev # Null
  <2>1. HeadWithout(s) = head
    BY <1>2, <1>4 DEF HeadWithout
  <2>2. HeadPast(sock, head, s) = head
    BY <1>1, <1>4 DEF HeadPast
  <2> QED
    BY <2>1, <2>2
<1> QED
  BY <1>3, <1>4

LEMMA MoveIteratorIs ==
  ASSUME StructInv, NEW s \in Live(sock)
  PROVE  /\ MoveIterator(iterator, s) \in [Contexts -> Ptr]
         /\ \A c \in Contexts : MoveIterator(iterator, s)[c] =
                IF iterator[c] = s THEN sock[s].next ELSE iterator[c]
         /\ \A c \in Contexts : MoveIterator(iterator, s)[c] # Null =>
                /\ MoveIterator(iterator, s)[c] \in Live(sock) \ {s}
                /\ sock[MoveIterator(iterator, s)[c]].context = c
<1>1. /\ iterator \in [Contexts -> Ptr] /\ sock[s].context \in Contexts /\ s # Null
      /\ sock[s].next \in Live(sock) \cup {Null} /\ Live(sock) \subseteq Slots
      /\ sock[s].next # Null => sock[sock[s].next].context = sock[s].context
      /\ \A c \in Contexts :
           iterator[c] # Null => iterator[c] \in Live(sock) /\ sock[iterator[c]].context = c
  BY LiveTypes DEF StructInv, Chain, TwoWay
<1>2. sock[s].next # s
  <2>1. PICK S, L, h : S = sock /\ L = Live(sock) /\ h = head
    OBVIOUS
  <2>2. Chain(S, L, h)
    BY <2>1 DEF StructInv
  <2> QED
    BY <2>1, <2>2, Neighbours
<1>3. sock[s].next \in Ptr
  BY <1>1 DEF Ptr
<1>4. /\ MoveIterator(iterator, s) \in [Contexts -> Ptr]
      /\ \A c \in Contexts : MoveIterator(iterator, s)[c] =
                IF iterator[c] = s THEN sock[s].next ELSE iterator[c]
  <2>1. CASE iterator[sock[s].context] = s
    <3>1. MoveIterator(iterator, s) = [iterator EXCEPT ![sock[s].context] = sock[s].next]
      BY <2>1 DEF MoveIterator
    <3> QED
      BY <1>1, <1>3, <2>1, <3>1
  <2>2. CASE iterator[sock[s].context] # s
    <3>1. MoveIterator(iterator, s) = iterator
      BY <2>2 DEF MoveIterator
    <3> QED
      BY <1>1, <2>2, <3>1
  <2> QED
    BY <2>1, <2>2
<1> QED
  BY <1>1, <1>2, <1>4

LEMMA Closes ==
  ASSUME StructInv, Freeable(sock, Dead(sock), closed_head), NEW s \in Live(sock), Close(s)
  PROVE  /\ StructInv'
         /\ Live(sock') = Live(sock) \ {s} /\ Dead(sock') = Dead(sock) \cup {s}
         /\ Freeable(sock', Dead(sock'), closed_head')
         /\ Without(sock, sock', Live(sock), s)
         /\ \A i \in Live(sock') : sock'[i].type = sock[i].type /\ sock'[i].events = sock[i].events
         /\ \A i \in Slots : sock'[i].mem = sock[i].mem
         /\ iterator' = MoveIterator(iterator, s)
         /\ ready' = ready \ {s} /\ toVisit' = toVisit \ {s} /\ owed' = owed \ {s}
<1> DEFINE U == Unlink(sock, s)
           L == Live(sock)
<1>0. /\ L \subseteq Slots /\ Dead(sock) \subseteq Slots /\ L \cap Dead(sock) = {}
      /\ s \in Slots /\ Null \notin L
      /\ sock \in [Slots -> SockRecords] /\ Chain(sock, L, head)
      /\ sock[s].context \in Contexts
      /\ head \in [Contexts -> Ptr] /\ sock[s].mem = "live"
  BY LiveTypes DEF StructInv, Live
<1>1. /\ sock' = [StopPoll(U, s) EXCEPT ![s].prev = sock[s].context, ![s].next = closed_head]
      /\ head' = HeadWithout(s) /\ iterator' = MoveIterator(iterator, s) /\ closed_head' = s
      /\ ready' = ready \ {s} /\ toVisit' = toVisit \ {s} /\ owed' = owed \ {s}
  <2>1. ~Closed(s)
    BY <1>0, OpenIsLive
  <2> QED
    BY <2>1 DEF Close, Marked
<1>2. /\ U \in [Slots -> SockRecords]
      /\ \A i \in Slots : /\ U[i].mem = sock[i].mem /\ U[i].type = sock[i].type
                          /\ U[i].events = sock[i].events
                          /\ U[i].uv = sock[i].uv /\ U[i].data = sock[i].data
                          /\ U[i].context = sock[i].context
      /\ Without(sock, U, L, s)
      /\ U[s] = sock[s] /\ \A i \in Slots \ L : U[i] = sock[i]
      /\ \A i \in L \ {s} : U[i].prev \in L \cup {Null}
  <2>1. PICK S, K, h, T : S = sock /\ K = L /\ h = head /\ T = Unlink(S, s)
    OBVIOUS
  <2> HIDE DEF L
  <2>2. S \in [Slots -> SockRecords] /\ Chain(S, K, h) /\ s \in K
    BY <1>0, <2>1 DEF L
  <2> QED
    BY <2>1, <2>2, UnlinkIs
<1> HIDE DEF U
<1>3. closed_head \in Ptr /\ Null \in Ptr
  BY DEF Freeable, Ptr, Dead
<1>4. sock'[s] = [U[s] EXCEPT !.uv = "closing", !.events = {}, !.data = Null,
                              !.prev = sock[s].context, !.next = closed_head]
  BY <1>0, <1>1, <1>2 DEF StopPoll
<1>5. /\ sock'[s] \in SockRecords
      /\ sock'[s].mem = "live" /\ sock'[s].uv = "closing"
      /\ sock'[s].prev = sock[s].context /\ sock'[s].context = sock[s].context
      /\ sock'[s].next = closed_head
  <2>1. U[s] \in SockRecords /\ U[s].mem = "live" /\ U[s].context = sock[s].context
    BY <1>0, <1>2
  <2> QED
    BY <1>0, <1>3, <1>4, <2>1, ZenonT(40) DEF SockRecords
<1>6. \A i \in Slots : i # s => sock'[i] = U[i]
  BY <1>0, <1>1, <1>2 DEF StopPoll
<1>7. sock' \in [Slots -> SockRecords]
  <2>1. DOMAIN sock' = Slots
    BY <1>1, <1>2 DEF StopPoll
  <2>2. sock' = [i \in Slots |-> sock'[i]]
    BY <1>1, <1>2, <2>1 DEF StopPoll
  <2> QED
    BY <1>2, <1>5, <1>6, <2>2
<1>8. Without(sock, sock', L, s)
  <2> HIDE DEF L
  <2> QED
    BY <1>0, <1>2, <1>6 DEF Without
<1>9. Live(sock') = L \ {s} /\ Dead(sock') = Dead(sock) \cup {s}
  <2>1. ASSUME NEW i \in Slots, i \notin L, i # s PROVE sock'[i] = sock[i]
    BY <1>2, <1>6, <2>1
  <2>2. ASSUME NEW i \in L, i # s
        PROVE  sock'[i].mem = "live" /\ sock'[i].prev # sock'[i].context
    <3>1. sock'[i] = U[i] /\ U[i].prev \in L \cup {Null} /\ U[i].mem = "live"
          /\ U[i].context \in Contexts
      BY <1>0, <1>2, <1>6, <2>2 DEF SockRecords, Live
    <3> QED
      BY <1>0, <3>1, SlotsAreNotNull
  <2> QED
    BY <1>0, <1>5, <2>1, <2>2 DEF Live, Dead
<1>10. Chain(sock', L \ {s}, head')
  <2>1. PICK S, T, K, h, g : S = sock /\ T = sock' /\ K = L /\ h = head /\ g = head'
    OBVIOUS
  <2>2. g = HeadPast(S, h, s)
    BY <1>1, <2>1, HeadWithoutIs
  <2> HIDE DEF L
  <2>3. Chain(S, K, h) /\ s \in K /\ Without(S, T, K, s) /\ h \in [Contexts -> Ptr]
    BY <1>0, <1>8, <2>1 DEF L
  <2>4. Chain(T, K \ {s}, HeadPast(S, h, s))
    BY <2>3, ChainWithout
  <2> QED
    BY <2>1, <2>2, <2>4
<1>11. head' \in [Contexts -> Ptr]
  <2>1. sock[s].next \in Ptr
    BY <1>0 DEF SockRecords
  <2> QED
    BY <1>0, <1>1, <2>1, HeadWithoutIs DEF HeadPast
<1>12. /\ iterator' \in [Contexts -> Ptr]
       /\ \A c \in Contexts : iterator'[c] # Null =>
             iterator'[c] \in L \ {s} /\ sock'[iterator'[c]].context = c
  <2>1. \A i \in L \ {s} : sock'[i].context = sock[i].context
    BY <1>0, <1>2, <1>6
  <2>2. iterator' = MoveIterator(iterator, s)
    BY <1>1
  <2>3. /\ MoveIterator(iterator, s) \in [Contexts -> Ptr]
        /\ \A c \in Contexts : MoveIterator(iterator, s)[c] # Null =>
                /\ MoveIterator(iterator, s)[c] \in L \ {s}
                /\ sock[MoveIterator(iterator, s)[c]].context = c
    BY MoveIteratorIs
  <2> HIDE DEF L
  <2> QED
    BY ONLY <2>1, <2>2, <2>3
<1>13. ready' \subseteq L \ {s}
  BY <1>1 DEF StructInv
<1>14. \A i \in Slots : /\ sock'[i].mem = "none" => sock'[i] = NoSock
                        /\ i \in Live(sock') => sock'[i].uv = "open"
                        /\ i \in Dead(sock') => sock'[i].uv = "closing"
  <2> SUFFICES ASSUME NEW i \in Slots
               PROVE  /\ sock'[i].mem = "none" => sock'[i] = NoSock
                      /\ i \in Live(sock') => sock'[i].uv = "open"
                      /\ i \in Dead(sock') => sock'[i].uv = "closing"
    OBVIOUS
  <2>1. CASE i = s
    BY <1>5, <1>9, <2>1
  <2>2. CASE i \in L \ {s}
    BY <1>0, <1>2, <1>6, <1>9, <2>2 DEF StructInv, Live
  <2>3. CASE i \notin L /\ i # s
    BY <1>2, <1>6, <1>9, <2>3 DEF StructInv
  <2> QED
    BY <2>1, <2>2, <2>3
<1>15. StructInv'
  BY <1>7, <1>9, <1>10, <1>11, <1>12, <1>13, <1>14 DEF StructInv
<1>16. Freeable(sock', Dead(sock'), closed_head')
  <2>1. \A i \in Dead(sock) : sock'[i].next = sock[i].next
    BY <1>0, <1>2, <1>6
  <2>2. PICK S, T, D, ch : S = sock /\ T = sock' /\ D = Dead(sock) /\ ch = closed_head
    OBVIOUS
  <2>3. Freeable(S, D, ch) /\ s \in Slots \ D /\ T[s].next = ch
        /\ \A i \in D : T[i].next = S[i].next
    BY <1>0, <1>5, <2>1, <2>2
  <2>4. Freeable(T, D \cup {s}, s)
    BY <2>3, FreeableGrows
  <2> QED
    BY <1>1, <1>9, <2>2, <2>4
<1>17. \A i \in Live(sock') : sock'[i].type = sock[i].type /\ sock'[i].events = sock[i].events
  BY <1>0, <1>2, <1>6, <1>9
<1>18. \A i \in Slots : sock'[i].mem = sock[i].mem
  BY <1>0, <1>2, <1>5, <1>6
<1> QED
  BY <1>1, <1>8, <1>9, <1>15, <1>16, <1>17, <1>18

LEMMA Creates ==
  ASSUME StructInv, Freeable(sock, Dead(sock), closed_head), NEW s \in Fresh,
         NEW c \in Contexts, NEW type \in {"socket", "listen", "connect"},
         NEW E \in SUBSET {"R", "W"}, Create(s, c, type, E),
         UNCHANGED <<iterator, closed_head>>, ready' \subseteq ready
  PROVE  /\ StructInv' /\ s \in Slots \ Live(sock)
         /\ Live(sock') = Live(sock) \cup {s} /\ Dead(sock') = Dead(sock)
         /\ Freeable(sock', Dead(sock'), closed_head')
         /\ WithSocket(sock, sock', Live(sock), head, c, s)
         /\ \A i \in Live(sock) : sock'[i].type = sock[i].type /\ sock'[i].events = sock[i].events
         /\ \A i \in Slots : sock[i].mem = "live" => sock'[i].mem = "live"
<1> DEFINE L == Live(sock)
           U == [sock EXCEPT ![s] = [NoSock EXCEPT !.mem = "live", !.type = type,
                                                   !.events = E, !.uv = "open"]]
<1>0. /\ L \subseteq Slots /\ Dead(sock) \subseteq Slots /\ L \cap Dead(sock) = {}
      /\ s \in Slots /\ Null \notin L
      /\ sock \in [Slots -> SockRecords] /\ Chain(sock, L, head)
      /\ head \in [Contexts -> Ptr] /\ sock[s].mem = "none"
      /\ s \notin L /\ s \notin Dead(sock)
  BY LiveTypes DEF StructInv, Live, Dead, Fresh
<1>1. /\ sock' = Link(U, head, c, s) /\ head' = [head EXCEPT ![c] = s]
  BY DEF Create
<1>2. head[c] # Null => head[c] \in L /\ head[c] # s
  BY <1>0 DEF Chain, TwoWay
<1>3. U[s] = [NoSock EXCEPT !.mem = "live", !.type = type, !.events = E, !.uv = "open"]
  BY <1>0
<1>4. U[s] \in SockRecords /\ U[s].mem = "live" /\ U[s].uv = "open"
  <2>1. Null \in Ptr /\ Http \in Contexts /\ 0 \in 0..MaxTimeout
    BY SocketLoopAssumption DEF Ptr, Contexts
  <2> HIDE DEF U
  <2>2. U[s] = [mem |-> "live", type |-> type, events |-> E, context |-> Http, prev |-> Null,
                next |-> Null, timeout |-> 0, uv |-> "open", data |-> Null]
    BY <1>3 DEF NoSock
  <2> QED
    BY <2>1, <2>2 DEF SockRecords
<1>5. U \in [Slots -> SockRecords] /\ \A i \in Slots : i # s => U[i] = sock[i]
  BY <1>0, <1>4
<1> HIDE DEF U
<1>6. LinkedIn(U, sock', head, c, s)
  <2>1. PICK S, h, T : S = U /\ h = head /\ T = sock'
    OBVIOUS
  <2>2. /\ S \in [Slots -> SockRecords] /\ h \in [Contexts -> Ptr]
        /\ T = Link(S, h, c, s) /\ h[c] # s
    BY <1>0, <1>1, <1>2, <1>5, <2>1, SlotsAreNotNull
  <2>3. LinkedIn(S, T, h, c, s)
    BY <1>0, <2>2, LinkIs
  <2> QED
    BY ONLY <2>1, <2>3
<1>7. WithSocket(sock, sock', L, head, c, s)
  <2>1. ASSUME NEW i \in L
        PROVE  /\ sock'[i].context = sock[i].context /\ sock'[i].next = sock[i].next
               /\ sock'[i].prev = IF i = head[c] THEN s ELSE sock[i].prev
    BY <1>0, <1>5, <1>6 DEF LinkedIn
  <2> QED
    BY <1>6, <2>1 DEF WithSocket, LinkedIn
<1>8. Live(sock') = L \cup {s} /\ Dead(sock') = Dead(sock)
  <2>1. ASSUME NEW i \in Slots, i \notin L, i # s PROVE sock'[i] = sock[i]
    BY <1>2, <1>5, <1>6, <2>1, SlotsAreNotNull DEF LinkedIn
  <2>2. ASSUME NEW i \in L
        PROVE  sock'[i].mem = "live" /\ sock'[i].prev # sock'[i].context
    <3>1. sock'[i].prev \in Slots \cup {Null} /\ sock'[i].context \in Contexts
          /\ sock'[i].mem = sock[i].mem
      BY <1>0, <1>5, <1>6, LiveTypes DEF LinkedIn
    <3> QED
      BY <3>1, SlotsAreNotNull DEF Live
  <2>3. sock'[s].mem = "live" /\ sock'[s].prev # sock'[s].context
    BY <1>0, <1>4, <1>6, SlotsAreNotNull DEF LinkedIn
  <2> QED
    BY <1>0, <2>1, <2>2, <2>3 DEF Live, Dead
<1>9. Chain(sock', Live(sock'), head')
  <2>1. PICK S, T, K, h : S = sock /\ T = sock' /\ K = L /\ h = head
    OBVIOUS
  <2>2. /\ Chain(S, K, h) /\ s \in Slots \ K /\ WithSocket(S, T, K, h, c, s)
        /\ h \in [Contexts -> Ptr]
    BY <1>0, <1>7, <2>1
  <2>3. Chain(T, K \cup {s}, [h EXCEPT ![c] = s])
    BY <2>2, ChainWith
  <2> QED
    BY <1>1, <1>8, <2>1, <2>3
<1>10. head' \in [Contexts -> Ptr]
  BY <1>0, <1>1 DEF Ptr
<1>11. /\ iterator' \in [Contexts -> Ptr]
       /\ \A b \in Contexts : iterator'[b] # Null =>
             iterator'[b] \in Live(sock') /\ sock'[iterator'[b]].context = b
  BY <1>0, <1>7, <1>8 DEF WithSocket, StructInv
<1>12. ready' \subseteq Live(sock')
  BY <1>8 DEF StructInv
<1>13. \A i \in Slots : /\ sock'[i].mem = "none" => sock'[i] = NoSock
                        /\ i \in Live(sock') => sock'[i].uv = "open"
                        /\ i \in Dead(sock') => sock'[i].uv = "closing"
  <2> SUFFICES ASSUME NEW i \in Slots
               PROVE  /\ sock'[i].mem = "none" => sock'[i] = NoSock
                      /\ i \in Live(sock') => sock'[i].uv = "open"
                      /\ i \in Dead(sock') => sock'[i].uv = "closing"
    OBVIOUS
  <2>1. CASE i = s
    BY <1>0, <1>4, <1>6, <1>8, <2>1 DEF LinkedIn
  <2>2. CASE i \in L
    <3>1. i # s /\ sock[i].mem = "live" /\ sock[i].uv = "open"
      BY <1>0, <2>2 DEF Live, StructInv
    <3> QED
      BY <1>0, <1>5, <1>6, <1>8, <2>2, <3>1 DEF LinkedIn
  <2>3. CASE i \notin L /\ i # s
    <3>1. sock'[i] = sock[i]
      BY <1>2, <1>5, <1>6, <2>3, SlotsAreNotNull DEF LinkedIn
    <3> QED
      BY <1>8, <2>3, <3>1 DEF StructInv
  <2> QED
    BY <2>1, <2>2, <2>3
<1>14. StructInv'
  BY <1>6, <1>9, <1>10, <1>11, <1>12, <1>13 DEF StructInv, LinkedIn
<1>15. Freeable(sock', Dead(sock'), closed_head')
  <2>1. \A i \in Dead(sock) : sock'[i].next = sock[i].next
    BY <1>0, <1>5, <1>6 DEF LinkedIn
  <2>2. PICK S, T, D, ch : S = sock /\ T = sock' /\ D = Dead(sock) /\ ch = closed_head
    OBVIOUS
  <2>3. Freeable(T, D, ch)
    BY <2>1, <2>2, FreeableSame
  <2> QED
    BY <1>8, <2>2, <2>3
<1>16. \A i \in Live(sock) : sock'[i].type = sock[i].type /\ sock'[i].events = sock[i].events
  BY <1>0, <1>5, <1>6 DEF LinkedIn
<1>17. \A i \in Slots : sock[i].mem = "live" => sock'[i].mem = "live"
  BY <1>0, <1>5, <1>6 DEF LinkedIn
<1> QED
  BY <1>0, <1>7, <1>8, <1>14, <1>15, <1>16, <1>17

(* us_socket_context_adopt_socket: from the list of Http to that of Ws.      *)
LEMMA Adopts ==
  ASSUME StructInv, Freeable(sock, Dead(sock), closed_head), NEW s \in Live(sock),
         sock[s].context = Http,
         sock' = Link(Unlink(sock, s), head, Ws, s),
         head' = [HeadWithout(s) EXCEPT ![Ws] = s], iterator' = MoveIterator(iterator, s),
         UNCHANGED <<closed_head, ready>>
  PROVE  /\ StructInv' /\ Live(sock') = Live(sock) /\ Dead(sock') = Dead(sock)
         /\ Freeable(sock', Dead(sock'), closed_head')
         /\ \A i \in Slots : /\ sock'[i].type = sock[i].type /\ sock'[i].mem = sock[i].mem
                             /\ sock'[i].events = sock[i].events
         /\ \E U, h : /\ Without(sock, U, Live(sock), s) /\ h \in [Contexts -> Ptr]
                      /\ Chain(U, Live(sock) \ {s}, h)
                      /\ WithSocket(U, sock', Live(sock) \ {s}, h, Ws, s)
<1> DEFINE L == Live(sock)
           U == Unlink(sock, s)
           h == HeadPast(sock, head, s)
<1>0. /\ L \subseteq Slots /\ Dead(sock) \subseteq Slots /\ L \cap Dead(sock) = {}
      /\ s \in Slots /\ Null \notin L /\ s # Null
      /\ sock \in [Slots -> SockRecords] /\ Chain(sock, L, head)
      /\ head \in [Contexts -> Ptr] /\ sock[s].mem = "live"
      /\ Ws \in Contexts /\ Http \in Contexts /\ Http # Ws
  BY LiveTypes, SlotsAreNotNull DEF StructInv, Live, Contexts, Http, Ws
<1>1. head' = [h EXCEPT ![Ws] = s]
  BY HeadWithoutIs
<1>2. h \in [Contexts -> Ptr] /\ h[Ws] = head[Ws]
  <2>1. sock[s].next \in Ptr
    BY <1>0 DEF SockRecords
  <2> QED
    BY <1>0, <2>1 DEF HeadPast
<1>3. /\ U \in [Slots -> SockRecords]
      /\ \A i \in Slots : /\ U[i].mem = sock[i].mem /\ U[i].type = sock[i].type
                          /\ U[i].events = sock[i].events
                          /\ U[i].uv = sock[i].uv /\ U[i].data = sock[i].data
                          /\ U[i].context = sock[i].context
      /\ Without(sock, U, L, s)
      /\ U[s] = sock[s] /\ \A i \in Slots \ L : U[i] = sock[i]
      /\ \A i \in L \ {s} : U[i].prev \in L \cup {Null}
  <2>1. PICK S, K, g, T : S = sock /\ K = L /\ g = head /\ T = Unlink(S, s)
    OBVIOUS
  <2> HIDE DEF L
  <2>2. S \in [Slots -> SockRecords] /\ Chain(S, K, g) /\ s \in K
    BY <1>0, <2>1 DEF L
  <2> QED
    BY <2>1, <2>2, UnlinkIs
<1>4. head[Ws] # s /\ (head[Ws] # Null => head[Ws] \in L)
  BY <1>0 DEF Chain, TwoWay
<1>5. Chain(U, L \ {s}, h)
  <2>1. PICK S, T, K, g : S = sock /\ T = U /\ K = L /\ g = head
    OBVIOUS
  <2> HIDE DEF L, U
  <2>3. Chain(S, K, g) /\ s \in K /\ Without(S, T, K, s) /\ g \in [Contexts -> Ptr]
    BY <1>0, <1>3, <2>1 DEF L
  <2>4. Chain(T, K \ {s}, HeadPast(S, g, s))
    BY <2>3, ChainWithout
  <2> QED
    BY <2>1, <2>4
<1>6. sock' = Link(U, head, Ws, s)
  OBVIOUS
<1> HIDE DEF U, h
<1>7. LinkedIn(U, sock', head, Ws, s)
  <2>1. PICK S, g, T : S = U /\ g = head /\ T = sock'
    OBVIOUS
  <2>2. /\ S \in [Slots -> SockRecords] /\ g \in [Contexts -> Ptr]
        /\ T = Link(S, g, Ws, s) /\ g[Ws] # s
    BY <1>0, <1>3, <1>4, <1>6, <2>1
  <2>3. LinkedIn(S, T, g, Ws, s)
    BY <1>0, <2>2, LinkIs
  <2> QED
    BY ONLY <2>1, <2>3
<1>8. WithSocket(U, sock', L \ {s}, h, Ws, s)
  <2>1. ASSUME NEW i \in L \ {s}
        PROVE  /\ sock'[i].context = U[i].context /\ sock'[i].next = U[i].next
               /\ sock'[i].prev = IF i = h[Ws] THEN s ELSE U[i].prev
    BY <1>0, <1>2, <1>7 DEF LinkedIn
  <2> QED
    BY <1>2, <1>7, <2>1 DEF WithSocket, LinkedIn
<1>9. Live(sock') = L /\ Dead(sock') = Dead(sock)
  <2>1. ASSUME NEW i \in Slots, i \notin L PROVE sock'[i] = sock[i]
    BY <1>0, <1>3, <1>4, <1>7, <2>1, SlotsAreNotNull DEF LinkedIn
  <2>2. ASSUME NEW i \in L
        PROVE  sock'[i].mem = "live" /\ sock'[i].prev # sock'[i].context
    <3>1. CASE i = s
      BY <1>0, <1>3, <1>7, <3>1, SlotsAreNotNull DEF LinkedIn
    <3>2. CASE i # s
      <4>1. sock'[i].prev \in Slots \cup {Null} /\ sock'[i].context \in Contexts
            /\ sock'[i].mem = sock[i].mem
        BY <1>0, <1>3, <1>7, <3>2, LiveTypes DEF LinkedIn
      <4> QED
        BY <4>1, SlotsAreNotNull DEF Live
    <3> QED
      BY <3>1, <3>2
  <2> QED
    BY <1>0, <2>1, <2>2 DEF Live, Dead
<1>10. Chain(sock', Live(sock'), head')
  <2>1. PICK S, T, K, g : S = U /\ T = sock' /\ K = L \ {s} /\ g = h
    OBVIOUS
  <2>2. /\ Chain(S, K, g) /\ s \in Slots \ K /\ WithSocket(S, T, K, g, Ws, s)
        /\ g \in [Contexts -> Ptr]
    BY <1>0, <1>2, <1>5, <1>8, <2>1
  <2>3. Chain(T, K \cup {s}, [g EXCEPT ![Ws] = s])
    BY <1>0, <2>2, ChainWith
  <2>4. (L \ {s}) \cup {s} = L
    OBVIOUS
  <2> QED
    BY <1>1, <1>9, <2>1, <2>3, <2>4
<1>11. head' \in [Contexts -> Ptr]
  BY <1>0, <1>1, <1>2 DEF Ptr
<1>12. /\ iterator' \in [Contexts -> Ptr]
       /\ \A b \in Contexts : iterator'[b] # Null =>
             iterator'[b] \in Live(sock') /\ sock'[iterator'[b]].context = b
  <2>1. \A i \in L \ {s} : sock'[i].context = sock[i].context
    BY <1>0, <1>3, <1>7 DEF LinkedIn
  <2> QED
    BY <1>9, <2>1, MoveIteratorIs
<1>13. ready' \subseteq Live(sock')
  BY <1>9 DEF StructInv
<1>14. \A i \in Slots : /\ sock'[i].mem = "none" => sock'[i] = NoSock
                        /\ i \in Live(sock') => sock'[i].uv = "open"
                        /\ i \in Dead(sock') => sock'[i].uv = "closing"
  <2> SUFFICES ASSUME NEW i \in Slots
               PROVE  /\ sock'[i].mem = "none" => sock'[i] = NoSock
                      /\ i \in Live(sock') => sock'[i].uv = "open"
                      /\ i \in Dead(sock') => sock'[i].uv = "closing"
    OBVIOUS
  <2>1. CASE i \in L
    <3>1. sock[i].mem = "live" /\ sock[i].uv = "open"
      BY <1>0, <2>1 DEF Live, StructInv
    <3> QED
      BY <1>0, <1>3, <1>7, <1>9, <2>1, <3>1 DEF LinkedIn
  <2>2. CASE i \notin L
    <3>1. sock'[i] = sock[i]
      BY <1>0, <1>3, <1>4, <1>7, <2>2, SlotsAreNotNull DEF LinkedIn
    <3> QED
      BY <1>9, <2>2, <3>1 DEF StructInv
  <2> QED
    BY <2>1, <2>2
<1>15. StructInv'
  BY <1>7, <1>10, <1>11, <1>12, <1>13, <1>14 DEF StructInv, LinkedIn
<1>16. Freeable(sock', Dead(sock'), closed_head')
  <2>1. \A i \in Dead(sock) : sock'[i].next = sock[i].next
    BY <1>0, <1>3, <1>4, <1>7, SlotsAreNotNull DEF LinkedIn
  <2>2. PICK S, T, D, ch : S = sock /\ T = sock' /\ D = Dead(sock) /\ ch = closed_head
    OBVIOUS
  <2>3. Freeable(T, D, ch)
    BY <2>1, <2>2, FreeableSame
  <2> QED
    BY <1>9, <2>2, <2>3
<1>17. \A i \in Slots : /\ sock'[i].type = sock[i].type /\ sock'[i].mem = sock[i].mem
                        /\ sock'[i].events = sock[i].events
  BY <1>3, <1>7 DEF LinkedIn
<1> QED
  BY <1>2, <1>3, <1>5, <1>8, <1>9, <1>15, <1>16, <1>17

-----------------------------------------------------------------------------
(* The inductive invariant of the loop.                                      *)

Rounds == {"none", "freed", "start", "timers", "sweep", "dispatch", "closing", "ended"}
CallRecords ==
  [of : Ptr, in : {"none", "open", "data", "writable", "end", "timeout", "recv"},
   listener : Ptr, readable : BOOLEAN, calls : 0..MaxCalls]

LoopTypes ==
  /\ round \in Rounds /\ cb \in CallRecords /\ last_write_failed \in BOOLEAN
  /\ sweeping \in {<<>>, <<Http>>, <<Ws, Http>>}

(* The closed list holds the closed sockets until they are handed to their   *)
(* close callbacks.                                                          *)
DeadInv ==
  IF round = "closing" THEN closed_head = Null /\ \A s \in Dead(sock) : sock[s].data = s
  ELSE Freeable(sock, Dead(sock), closed_head)

(* A callback runs of a socket whose memory is there, within the sweep or    *)
(* the dispatch that called it.                                              *)
CallInv ==
  \/ cb = NoCall
  \/ /\ cb.in # "none" /\ cb.of \in Slots /\ sock[cb.of].mem = "live"
     /\ round = IF cb.in = "timeout" THEN "sweep" ELSE "dispatch"
     /\ cb.in = "timeout" => sweeping # <<>>
     /\ cb.in = "recv" => cb.of \in Live(sock)

(* A socket that is owed a call polls for writable; if it is the one in its  *)
(* callback it has failed again, as the flag still tells.                    *)
OwedInv ==
  /\ owed \subseteq Live(sock)
  /\ \A s \in owed : sock[s].type = "socket" /\ "W" \in sock[s].events
  /\ cb.in = "writable" /\ cb.of \in owed => last_write_failed = TRUE

(* What a sweep has yet to visit is the rest of the list it is in and the    *)
(* whole of the list it comes to next.                                       *)
Visiting == IF cb.in = "timeout" THEN cb.of ELSE Null
SweepInv ==
  /\ round # "sweep" => sweeping = <<>>
  /\ round = "sweep" =>
       /\ toVisit \subseteq Live(sock) /\ Visiting \notin toVisit
       /\ sweeping = <<>> => toVisit = {}
       /\ sweeping = <<Http>> => \A t \in toVisit : sock[t].context = Http
       /\ sweeping = <<Ws, Http>> => \A t \in Live(sock) : sock[t].context = Http => t \in toVisit
       /\ sweeping # <<>> => Ahead(sock, toVisit, iterator[Sweep], Visiting, Sweep)

LoopInv == LoopTypes /\ StructInv /\ DeadInv /\ CallInv /\ OwedInv /\ SweepInv

LEMMA NoCallIs == /\ NoCall \in CallRecords /\ NoCall.in = "none" /\ NoCall.of = Null
                  /\ NoCall.calls = 0 /\ NoCall.listener = Null
BY SocketLoopAssumption DEF NoCall, CallRecords, Ptr

LEMMA SweepIs ==
  ASSUME sweeping \in {<<>>, <<Http>>, <<Ws, Http>>}
  PROVE  /\ sweeping # <<>> => Sweep \in Contexts
         /\ sweeping = <<Ws, Http>> => Sweep = Ws
         /\ sweeping = <<Http>> => Sweep = Http
         /\ <<Ws, Http>> # <<Http>> /\ <<Http>> # <<>> /\ <<Ws, Http>> # <<>>
         /\ Ws # Http /\ Contexts = {Http, Ws}
BY DEF Sweep, Contexts, Http, Ws

LEMMA CallBounds == 0 \in 0..MaxCalls /\ Slots \subseteq Ptr /\ Null \in Ptr
BY SocketLoopAssumption DEF Ptr

(* A step of the loop that keeps the lists.                                  *)
LEMMA StaysLinked ==
  ASSUME LoopInv, sock' \in [Slots -> SockRecords], SameLinks(sock, sock'),
         UNCHANGED <<head, iterator, closed_head>>, ready' \subseteq Live(sock),
         round # "closing", round' # "closing",
         round' # "sweep" => sweeping' = <<>>,
         round' = "sweep" => /\ round = "sweep" /\ Visiting' = Visiting
                             /\ UNCHANGED <<sweeping, toVisit>>
  PROVE  /\ StructInv' /\ DeadInv' /\ SweepInv'
         /\ Live(sock') = Live(sock) /\ Dead(sock') = Dead(sock)
<1>1. /\ StructInv' /\ Live(sock') = Live(sock) /\ Dead(sock') = Dead(sock)
  BY LoopKeeps DEF LoopInv, StructInv
<1>2. DeadInv'
  <2>1. PICK S, T, D, ch : S = sock /\ T = sock' /\ D = Dead(sock) /\ ch = closed_head
    OBVIOUS
  <2>2. Freeable(S, D, ch)
    BY <2>1 DEF LoopInv, DeadInv
  <2>3. \A i \in D : T[i].next = S[i].next
    BY <2>1 DEF SameLinks, Dead
  <2>4. Freeable(T, D, ch)
    BY <2>2, <2>3, FreeableSame
  <2> QED
    BY <1>1, <2>1, <2>4 DEF DeadInv
<1>3. CASE round' # "sweep"
  BY <1>1, <1>2, <1>3 DEF SweepInv
<1>4. CASE round' = "sweep"
  <2>1. \A i \in Live(sock) : /\ sock'[i].context = sock[i].context
                              /\ sock'[i].next = sock[i].next /\ sock'[i].prev = sock[i].prev
    BY DEF SameLinks, Live
  <2>2. ASSUME sweeping # <<>>
        PROVE  Ahead(sock', toVisit, iterator[Sweep], Visiting, Sweep)
    <3>1. PICK S, T, L, V, it, x, c : /\ S = sock /\ T = sock' /\ L = Live(sock) /\ V = toVisit
                                      /\ it = iterator[Sweep] /\ x = Visiting /\ c = Sweep
      OBVIOUS
    <3>2. Null \notin L /\ V \in SUBSET L /\ (it # Null => it \in L) /\ Ahead(S, V, it, x, c)
      BY <1>4, <2>2, <3>1, LiveTypes, SweepIs DEF LoopInv, LoopTypes, SweepInv, StructInv
    <3>3. Ahead(T, V, it, x, c)
      BY <2>1, <3>1, <3>2, AheadSame
    <3> QED
      BY <3>1, <3>3
  <2>3. Sweep' = Sweep
    BY <1>4 DEF Sweep
  <2>4. sweeping' # <<>> => Ahead(sock', toVisit', iterator'[Sweep'], Visiting', Sweep')
    BY <1>4, <2>2, <2>3
  <2>5. toVisit \subseteq Live(sock)
    BY <1>4 DEF LoopInv, SweepInv
  <2> QED
    BY <1>1, <1>2, <1>4, <2>1, <2>4, <2>5 DEF LoopInv, SweepInv
<1> QED
  BY <1>3, <1>4

(* A step that closes a socket and leaves the callback where it is.          *)
LEMMA ClosesOne ==
  ASSUME LoopInv, NEW s \in Live(sock), Close(s), round # "closing",
         UNCHANGED <<round, sweeping, last_write_failed>>,
         round = "sweep" => Visiting' = Visiting,
         cb'.in = "writable" => cb.in = "writable" /\ cb'.of = cb.of
  PROVE  /\ StructInv' /\ DeadInv' /\ SweepInv' /\ OwedInv'
         /\ Live(sock') = Live(sock) \ {s}
         /\ \A i \in Slots : sock'[i].mem = sock[i].mem
<1>1. /\ StructInv'
      /\ Live(sock') = Live(sock) \ {s} /\ Dead(sock') = Dead(sock) \cup {s}
      /\ Freeable(sock', Dead(sock'), closed_head')
      /\ Without(sock, sock', Live(sock), s)
      /\ \A i \in Live(sock') : sock'[i].type = sock[i].type /\ sock'[i].events = sock[i].events
      /\ \A i \in Slots : sock'[i].mem = sock[i].mem
      /\ iterator' = MoveIterator(iterator, s)
      /\ ready' = ready \ {s} /\ toVisit' = toVisit \ {s} /\ owed' = owed \ {s}
  <2>1. StructInv /\ Freeable(sock, Dead(sock), closed_head)
    BY DEF LoopInv, DeadInv
  <2> QED
    BY <2>1, Closes
<1>2. DeadInv'
  BY <1>1 DEF DeadInv
<1>3. OwedInv'
  BY <1>1 DEF LoopInv, OwedInv
<1>4. SweepInv'
  <2>1. CASE round # "sweep"
    BY <2>1 DEF LoopInv, SweepInv
  <2>2. CASE round = "sweep"
    <3>1. \A i \in Live(sock') : sock'[i].context = sock[i].context
      BY <1>1 DEF Without
    <3>2. Sweep' = Sweep
      BY DEF Sweep
    <3>3. ASSUME sweeping # <<>>
          PROVE  Ahead(sock', toVisit', iterator'[Sweep], Visiting, Sweep)
      <4>1. PICK S, T, L, h, V, it, x, c :
               /\ S = sock /\ T = sock' /\ L = Live(sock) /\ h = head /\ V = toVisit
               /\ it = iterator[Sweep] /\ x = Visiting /\ c = Sweep
        OBVIOUS
      <4>2. /\ Chain(S, L, h) /\ s \in L /\ Without(S, T, L, s) /\ V \in SUBSET L
            /\ (it # Null => it \in L /\ S[it].context = c) /\ Ahead(S, V, it, x, c)
        BY <1>1, <2>2, <3>3, <4>1, SweepIs DEF LoopInv, LoopTypes, SweepInv, StructInv
      <4>3. Ahead(T, V \ {s}, IF it = s THEN S[s].next ELSE it, x, c)
        BY <4>2, AheadWithout
      <4>4. iterator'[Sweep] = IF it = s THEN S[s].next ELSE it
        BY <1>1, <3>3, <4>1, MoveIteratorIs, SweepIs DEF LoopInv, LoopTypes
      <4> QED
        BY <1>1, <4>1, <4>3, <4>4
    <3>4. sweeping' # <<>> => Ahead(sock', toVisit', iterator'[Sweep'], Visiting', Sweep')
      BY <2>2, <3>2, <3>3
    <3> QED
      BY <1>1, <2>2, <3>1, <3>4 DEF LoopInv, SweepInv
  <2> QED
    BY <2>1, <2>2
<1> QED
  BY <1>1, <1>2, <1>3, <1>4

(* A step that creates a socket; none goes into the list of Http in a sweep. *)
LEMMA CreatesOne ==
  ASSUME LoopInv, NEW s \in Fresh, NEW c \in Contexts,
         NEW type \in {"socket", "listen", "connect"}, NEW E \in SUBSET {"R", "W"},
         Create(s, c, type, E), UNCHANGED <<iterator, closed_head, owed, last_write_failed>>,
         ready' \subseteq ready, round # "closing", round' # "closing",
         round' # "sweep" => sweeping' = <<>>,
         round' = "sweep" => /\ round = "sweep" /\ Visiting' = Visiting /\ c = Ws
                             /\ UNCHANGED <<sweeping, toVisit>>,
         cb'.in = "writable" => cb.in = "writable" /\ cb'.of = cb.of
  PROVE  /\ StructInv' /\ DeadInv' /\ SweepInv' /\ OwedInv'
         /\ Live(sock') = Live(sock) \cup {s} /\ s \in Slots
         /\ \A i \in Slots : sock[i].mem = "live" => sock'[i].mem = "live"
<1>1. /\ StructInv' /\ s \in Slots \ Live(sock)
      /\ Live(sock') = Live(sock) \cup {s} /\ Dead(sock') = Dead(sock)
      /\ Freeable(sock', Dead(sock'), closed_head')
      /\ WithSocket(sock, sock', Live(sock), head, c, s)
      /\ \A i \in Live(sock) : sock'[i].type = sock[i].type /\ sock'[i].events = sock[i].events
      /\ \A i \in Slots : sock[i].mem = "live" => sock'[i].mem = "live"
  <2>1. StructInv /\ Freeable(sock, Dead(sock), closed_head)
    BY DEF LoopInv, DeadInv
  <2> QED
    BY <2>1, Creates
<1>2. DeadInv'
  BY <1>1 DEF DeadInv
<1>3. OwedInv'
  BY <1>1 DEF LoopInv, OwedInv
<1>4. SweepInv'
  <2>1. CASE round' # "sweep"
    BY <2>1 DEF SweepInv
  <2>2. CASE round' = "sweep"
    <3>1. /\ \A i \in Live(sock) : sock'[i].context = sock[i].context
          /\ sock'[s].context = Ws
      BY <1>1, <2>2 DEF WithSocket
    <3>2. Sweep' = Sweep
      BY <2>2 DEF Sweep
    <3>3. ASSUME sweeping # <<>>
          PROVE  Ahead(sock', toVisit, iterator[Sweep], Visiting, Sweep)
      <4>1. PICK S, T, L, h, V, it, x, d :
               /\ S = sock /\ T = sock' /\ L = Live(sock) /\ h = head /\ V = toVisit
               /\ it = iterator[Sweep] /\ x = Visiting /\ d = Sweep
        OBVIOUS
      <4>2. /\ Chain(S, L, h) /\ s \in Slots \ L /\ WithSocket(S, T, L, h, c, s) /\ V \in SUBSET L
            /\ (it # Null => it \in L /\ S[it].context = d) /\ Ahead(S, V, it, x, d)
        BY <1>1, <2>2, <3>3, <4>1, SweepIs DEF LoopInv, LoopTypes, SweepInv, StructInv
      <4>3. Ahead(T, V, it, x, d)
        BY <4>2, AheadWith
      <4> QED
        BY <4>1, <4>3
    <3>4. sweeping' # <<>> => Ahead(sock', toVisit', iterator'[Sweep'], Visiting', Sweep')
      BY <2>2, <3>2, <3>3
    <3>5. Ws # Http
      BY DEF Ws, Http
    <3> QED
      BY <1>1, <2>2, <3>1, <3>4, <3>5 DEF LoopInv, SweepInv
  <2> QED
    BY <2>1, <2>2
<1> QED
  BY <1>1, <1>2, <1>3, <1>4

-----------------------------------------------------------------------------
(* The steps of the loop.                                                    *)

LEMMA PollingIs ==
  ASSUME NEW S \in [Slots -> SockRecords], NEW s \in Slots, S[s].mem = "live",
         NEW E \in SUBSET {"R", "W"}, NEW T, T = Polling(S, s, E)
  PROVE  /\ T \in [Slots -> SockRecords] /\ SameLinks(S, T)
         /\ \A i \in Slots : i # s => T[i] = S[i]
         /\ T[s].events = E /\ T[s].type = S[s].type
<1> DEFINE r == [S[s] EXCEPT !.events = E]
<1>1. T = [S EXCEPT ![s] = r]
  BY DEF Polling
<1>2. S[s] \in SockRecords
  OBVIOUS
<1>3. /\ r \in SockRecords
      /\ r.mem = S[s].mem /\ r.context = S[s].context /\ r.prev = S[s].prev
      /\ r.next = S[s].next /\ r.uv = S[s].uv /\ r.data = S[s].data
      /\ r.events = E /\ r.type = S[s].type
  BY <1>2 DEF SockRecords
<1> HIDE DEF r
<1>4. T \in [Slots -> SockRecords] /\ T[s] = r /\ \A i \in Slots : i # s => T[i] = S[i]
  BY <1>1, <1>3
<1> QED
  BY <1>3, <1>4 DEF SameLinks

Retyped(S, s, E, t) == [Polling(S, s, E) EXCEPT ![s].type = t]

LEMMA RetypedIs ==
  ASSUME NEW S \in [Slots -> SockRecords], NEW s \in Slots, S[s].mem = "live",
         NEW E \in SUBSET {"R", "W"}, NEW t \in {"socket", "shut"},
         NEW T, T = Retyped(S, s, E, t)
  PROVE  /\ T \in [Slots -> SockRecords] /\ SameLinks(S, T)
         /\ \A i \in Slots : i # s => T[i] = S[i]
         /\ T[s].events = E /\ T[s].type = t
<1> DEFINE r == [S[s] EXCEPT !.events = E, !.type = t]
<1>1. T = [S EXCEPT ![s] = r]
  BY DEF Polling, Retyped
<1>2. S[s] \in SockRecords
  OBVIOUS
<1>3. /\ r \in SockRecords
      /\ r.mem = S[s].mem /\ r.context = S[s].context /\ r.prev = S[s].prev
      /\ r.next = S[s].next /\ r.uv = S[s].uv /\ r.data = S[s].data
      /\ r.events = E /\ r.type = t
  BY <1>2 DEF SockRecords
<1> HIDE DEF r
<1>4. T \in [Slots -> SockRecords] /\ T[s] = r /\ \A i \in Slots : i # s => T[i] = S[i]
  BY <1>1, <1>3
<1> QED
  BY <1>3, <1>4 DEF SameLinks

LEMMA TimeoutIs ==
  ASSUME NEW S \in [Slots -> SockRecords], NEW s \in Slots, S[s].mem = "live",
         NEW n \in 0..MaxTimeout, NEW T, T = [S EXCEPT ![s].timeout = n]
  PROVE  /\ T \in [Slots -> SockRecords] /\ SameLinks(S, T)
         /\ \A i \in Slots : T[i].events = S[i].events /\ T[i].type = S[i].type
<1> DEFINE r == [S[s] EXCEPT !.timeout = n]
<1>1. T = [S EXCEPT ![s] = r]
  OBVIOUS
<1>2. S[s] \in SockRecords
  OBVIOUS
<1>3. /\ r \in SockRecords
      /\ r.mem = S[s].mem /\ r.context = S[s].context /\ r.prev = S[s].prev
      /\ r.next = S[s].next /\ r.uv = S[s].uv /\ r.data = S[s].data
      /\ r.events = S[s].events /\ r.type = S[s].type
  BY <1>2 DEF SockRecords
<1> HIDE DEF r
<1>4. T \in [Slots -> SockRecords] /\ T[s] = r /\ \A i \in Slots : i # s => T[i] = S[i]
  BY <1>1, <1>3
<1> QED
  BY <1>3, <1>4 DEF SameLinks

LEMMA SameIsSame == SameLinks(sock, sock)
BY DEF SameLinks

(* What the dispatch may read: a ready socket, outside a callback.           *)
LEMMA DispatchingIs ==
  ASSUME LoopInv, NEW s, Dispatching(s)
  PROVE  /\ s \in Live(sock) /\ s \in Slots /\ sock[s].mem = "live" /\ s # Null
         /\ round = "dispatch" /\ cb = NoCall /\ Visiting = Null /\ sweeping = <<>>
         /\ sock \in [Slots -> SockRecords] /\ sock[s].events \subseteq {"R", "W"}
<1>1. s \in ready /\ round = "dispatch" /\ cb = NoCall
  BY DEF Dispatching
<1>2. s \in Live(sock) /\ sock \in [Slots -> SockRecords]
  BY <1>1 DEF LoopInv, StructInv
<1>3. s \in Slots /\ sock[s].mem = "live"
  BY <1>2 DEF Live
<1>4. sock[s].events \subseteq {"R", "W"}
  BY <1>2, <1>3 DEF SockRecords
<1> QED
  BY <1>1, <1>2, <1>3, <1>4, NoCallIs, SlotsAreNotNull DEF Visiting, LoopInv, SweepInv

(* The rest of a reading: of a ready socket, or after its writable callback. *)
LEMMA ReceiveStep ==
  ASSUME LoopInv, NEW s \in Live(sock), round = "dispatch", cb = NoCall \/ cb.in = "recv",
         Receive(s), UNCHANGED <<round, sweeping, last_write_failed>>
  PROVE  LoopInv'
<1>0. /\ s \in Slots /\ sock[s].mem = "live" /\ s # Null
      /\ sock \in [Slots -> SockRecords] /\ sock[s].events \subseteq {"R", "W"}
      /\ cb.in # "writable" /\ cb.in # "timeout" /\ ready \subseteq Live(sock)
      /\ sweeping = <<>> /\ Null \in Ptr
  <2>1. s \in Slots /\ sock[s].mem = "live" /\ sock \in [Slots -> SockRecords]
    BY DEF Live, LoopInv, StructInv
  <2>2. sock[s].events \subseteq {"R", "W"}
    BY <2>1 DEF SockRecords
  <2> QED
    BY <2>1, <2>2, NoCallIs, SlotsAreNotNull DEF LoopInv, StructInv, SweepInv, Ptr
<1>1. ASSUME NEW what \in {"data", "end"}, Enter(s, what)
      PROVE  cb' \in CallRecords /\ cb'.in = what /\ cb'.of = s
  <2>1. cb' = [of |-> s, in |-> what, listener |-> Null, readable |-> FALSE, calls |-> 0]
    BY <1>1 DEF Enter, NoCall
  <2> QED
    BY <1>0, <1>1, <2>1, CallBounds DEF CallRecords
<1>2. CASE /\ sock' = sock \/ sock' = Polling(sock, s, sock[s].events \cap {"W"})
           /\ UNCHANGED <<listVars, toVisit, owed>> /\ ready' = ready \ {s}
           /\ \/ cb' = NoCall
              \/ Enter(s, "data") \/ Enter(s, "end")
  <2>1. /\ sock' \in [Slots -> SockRecords] /\ SameLinks(sock, sock')
        /\ \A i \in Slots : i # s => sock'[i] = sock[i]
        /\ sock'[s].type = sock[s].type
        /\ sock'[s].events = sock[s].events \/ sock'[s].events = sock[s].events \cap {"W"}
    <3>1. CASE sock' = sock
      BY <1>0, <3>1, SameIsSame
    <3>2. CASE sock' = Polling(sock, s, sock[s].events \cap {"W"})
      <4>1. PICK S, E, T : S = sock /\ E = sock[s].events \cap {"W"} /\ T = sock'
        OBVIOUS
      <4>2. /\ S \in [Slots -> SockRecords] /\ S[s].mem = "live" /\ E \in SUBSET {"R", "W"}
            /\ s \in Slots /\ T = Polling(S, s, E)
        BY <1>0, <3>2, <4>1
      <4>3. T \in [Slots -> SockRecords] /\ SameLinks(S, T)
        BY ONLY <4>2, PollingIs
      <4>4. /\ \A i \in Slots : i # s => T[i] = S[i]
            /\ T[s].events = E /\ T[s].type = S[s].type
        BY ONLY <4>2, PollingIs
      <4> QED
        BY <4>1, <4>3, <4>4
    <3> QED
      BY <1>2, <3>1, <3>2
  <2>2. /\ StructInv' /\ DeadInv' /\ SweepInv' /\ Live(sock') = Live(sock)
    BY <1>0, <1>2, <2>1, StaysLinked DEF listVars
  <2>3. /\ cb' \in CallRecords /\ cb'.in # "writable"
        /\ \/ cb' = NoCall
           \/ cb'.in \in {"data", "end"} /\ cb'.of = s
    BY <1>1, <1>2, NoCallIs
  <2>4. CallInv'
    BY <1>0, <2>1, <2>3 DEF CallInv, SameLinks
  <2>5. OwedInv'
    BY <1>2, <2>1, <2>2, <2>3 DEF LoopInv, OwedInv, Live
  <2>6. LoopTypes'
    BY <2>3 DEF LoopInv, LoopTypes
  <2> QED
    BY <2>2, <2>4, <2>5, <2>6 DEF LoopInv
<1>3. CASE Close(s) /\ cb' = NoCall
  <2>1. StructInv' /\ DeadInv' /\ SweepInv' /\ OwedInv'
    BY <1>0, <1>3, NoCallIs, ClosesOne
  <2>2. CallInv' /\ LoopTypes'
    BY <1>3, NoCallIs DEF CallInv, LoopInv, LoopTypes
  <2> QED
    BY <2>1, <2>2 DEF LoopInv
<1> QED
  BY <1>2, <1>3 DEF Receive

LEMMA DispatchStep ==
  ASSUME LoopInv, NEW s \in Slots,
         \/ DispatchError(s) \/ DispatchConnected(s) \/ DispatchWritable(s) \/ DispatchReadable(s)
  PROVE  LoopInv'
<1>0. Dispatching(s)
  BY DEF DispatchError, DispatchConnected, DispatchWritable, DispatchReadable
<1>1. /\ s \in Live(sock) /\ sock[s].mem = "live" /\ s # Null
      /\ round = "dispatch" /\ cb = NoCall /\ Visiting = Null /\ sweeping = <<>>
      /\ sock \in [Slots -> SockRecords] /\ sock[s].events \subseteq {"R", "W"}
      /\ ready \subseteq Live(sock)
  BY <1>0, DispatchingIs DEF LoopInv, StructInv
<1>2. CASE DispatchError(s)
  <2>1. Close(s) /\ UNCHANGED <<round, sweeping, cb, last_write_failed>>
    BY <1>2 DEF DispatchError
  <2>2. StructInv' /\ DeadInv' /\ SweepInv' /\ OwedInv'
    BY <1>1, <2>1, NoCallIs, ClosesOne
  <2>3. CallInv' /\ LoopTypes'
    BY <1>1, <2>1, NoCallIs DEF CallInv, LoopInv, LoopTypes
  <2> QED
    BY <2>2, <2>3 DEF LoopInv
<1>3. CASE DispatchConnected(s)
  <2>1. /\ sock[s].type = "connect" /\ ready' = ready \ {s} /\ Enter(s, "open")
        /\ sock' = [Polling(sock, s, {"R"}) EXCEPT ![s].type = "socket"]
        /\ UNCHANGED <<round, head, iterator, closed_head, sweeping, last_write_failed, toVisit,
                       owed>>
    BY <1>3 DEF DispatchConnected, listVars
  <2>2. /\ sock' \in [Slots -> SockRecords] /\ SameLinks(sock, sock')
        /\ \A i \in Slots : i # s => sock'[i] = sock[i]
    <3>1. PICK S, T, E, t : S = sock /\ T = sock' /\ E = {"R"} /\ t = "socket"
      OBVIOUS
    <3>2. /\ S \in [Slots -> SockRecords] /\ E \in SUBSET {"R", "W"} /\ S[s].mem = "live"
          /\ T = Retyped(S, s, E, t) /\ t \in {"socket", "shut"}
      BY <1>1, <2>1, <3>1 DEF Retyped
    <3>3. T \in [Slots -> SockRecords] /\ SameLinks(S, T)
      BY ONLY <3>2, s \in Slots, RetypedIs
    <3>4. \A i \in Slots : i # s => sock'[i] = sock[i]
      BY <1>1, <2>1 DEF Polling
    <3> QED
      BY <3>1, <3>3, <3>4
  <2>3. /\ StructInv' /\ DeadInv' /\ SweepInv' /\ Live(sock') = Live(sock)
    BY <1>1, <2>1, <2>2, StaysLinked
  <2>4. cb' \in CallRecords /\ cb'.in = "open" /\ cb'.of = s
    <3>1. cb' = [of |-> s, in |-> "open", listener |-> Null, readable |-> FALSE, calls |-> 0]
      BY <2>1 DEF Enter, NoCall
    <3> QED
      BY <1>1, <3>1, CallBounds DEF CallRecords
  <2>5. CallInv'
    BY <1>1, <2>1, <2>2, <2>4 DEF CallInv, SameLinks
  <2>6. OwedInv'
    BY <2>1, <2>2, <2>3, <2>4 DEF LoopInv, OwedInv, Live
  <2>7. LoopTypes'
    BY <2>1, <2>4 DEF LoopInv, LoopTypes
  <2> QED
    BY <2>3, <2>5, <2>6, <2>7 DEF LoopInv
<1>4. CASE DispatchWritable(s)
  <2>1. PICK too \in BOOLEAN : cb' = [NoCall EXCEPT !.of = s, !.in = "writable", !.readable = too]
    <3>1. {FALSE, "R" \in sock[s].events} \subseteq BOOLEAN
      OBVIOUS
    <3>2. \E too \in {FALSE, "R" \in sock[s].events} :
            cb' = [NoCall EXCEPT !.of = s, !.in = "writable", !.readable = too]
      BY <1>4 DEF DispatchWritable
    <3> QED
      BY ONLY <3>1, <3>2, Zenon
  <2>2. /\ ready' = ready \ {s} /\ last_write_failed' = FALSE /\ owed' = owed \ {s}
        /\ UNCHANGED <<round, sock, head, iterator, closed_head, sweeping, toVisit>>
    BY <1>4 DEF DispatchWritable, listVars
  <2>3. /\ StructInv' /\ DeadInv' /\ SweepInv' /\ Live(sock') = Live(sock)
    BY <1>1, <2>2, SameIsSame, StaysLinked
  <2>4. cb' \in CallRecords /\ cb'.in = "writable" /\ cb'.of = s
    <3>1. cb' = [of |-> s, in |-> "writable", listener |-> Null, readable |-> too, calls |-> 0]
      BY <2>1 DEF NoCall
    <3> QED
      BY <1>1, <3>1, CallBounds DEF CallRecords
  <2>5. CallInv'
    BY <1>1, <2>2, <2>4 DEF CallInv
  <2>6. OwedInv'
    BY <2>2, <2>3, <2>4 DEF LoopInv, OwedInv
  <2>7. LoopTypes'
    BY <2>2, <2>4 DEF LoopInv, LoopTypes
  <2> QED
    BY <2>3, <2>5, <2>6, <2>7 DEF LoopInv
<1>5. CASE DispatchReadable(s)
  <2>1. Receive(s) /\ UNCHANGED <<round, sweeping, last_write_failed>>
    BY <1>5 DEF DispatchReadable
  <2> QED
    BY <1>1, <2>1, ReceiveStep
<1> QED
  BY <1>2, <1>3, <1>4, <1>5

LEMMA AcceptStep ==
  ASSUME LoopInv, NEW ls \in Slots, NEW s \in Fresh, round = "dispatch", Accept(ls, s),
         ready' \subseteq ready
  PROVE  LoopInv'
<1>1. /\ Create(s, sock[ls].context, "socket", {"R"})
      /\ cb' = [NoCall EXCEPT !.of = s, !.in = "open", !.listener = ls]
      /\ UNCHANGED <<round, iterator, closed_head, sweeping, last_write_failed, toVisit, owed>>
  BY DEF Accept
<1>2. sock[ls].context \in Contexts /\ s \in Slots
  BY DEF LoopInv, StructInv, SockRecords, Fresh
<1>3. cb' \in CallRecords /\ cb'.in = "open" /\ cb'.of = s
  <2>1. cb' = [of |-> s, in |-> "open", listener |-> ls, readable |-> FALSE, calls |-> 0]
    BY <1>1 DEF NoCall
  <2> QED
    BY <1>2, <2>1, CallBounds DEF CallRecords
<1>4. sweeping = <<>>
  BY DEF LoopInv, SweepInv
<1>5. /\ StructInv' /\ DeadInv' /\ SweepInv' /\ OwedInv'
      /\ Live(sock') = Live(sock) \cup {s}
  <2>1. {"R"} \in SUBSET {"R", "W"}
    OBVIOUS
  <2> QED
    BY <1>1, <1>2, <1>3, <1>4, <2>1, CreatesOne
<1>6. CallInv'
  BY <1>1, <1>2, <1>3, <1>5 DEF CallInv, Live
<1>7. LoopTypes'
  BY <1>1, <1>3 DEF LoopInv, LoopTypes
<1> QED
  BY <1>5, <1>6, <1>7 DEF LoopInv

(* A call of the API counts, and leaves the callback where it is.            *)
LEMMA CallKeeps ==
  ASSUME LoopInv, cb # NoCall, cb.in # "recv", cb.calls < MaxCalls, Called,
         UNCHANGED <<round, sweeping>>,
         \A i \in Slots : sock[i].mem = "live" => sock'[i].mem = "live"
  PROVE  /\ CallInv' /\ cb' \in CallRecords
         /\ cb'.in = cb.in /\ cb'.of = cb.of /\ Visiting' = Visiting
         /\ round \in {"sweep", "dispatch"} /\ cb.of \in Slots /\ sock[cb.of].mem = "live"
<1>1. cb' = [cb EXCEPT !.calls = @ + 1] /\ cb \in CallRecords
  BY DEF Called, LoopInv, LoopTypes
<1>2. cb.calls + 1 \in 0..MaxCalls
  BY <1>1, SocketLoopAssumption DEF CallRecords
<1>3. cb' \in CallRecords /\ cb'.in = cb.in /\ cb'.of = cb.of
  BY <1>1, <1>2 DEF CallRecords
<1>4. /\ cb.in # "none" /\ cb.of \in Slots /\ sock[cb.of].mem = "live"
      /\ round = IF cb.in = "timeout" THEN "sweep" ELSE "dispatch"
      /\ cb.in = "timeout" => sweeping # <<>>
  BY DEF LoopInv, CallInv
<1>5. CallInv'
  BY <1>3, <1>4 DEF CallInv
<1>6. Visiting' = Visiting
  BY <1>3 DEF Visiting
<1> QED
  BY <1>3, <1>4, <1>5, <1>6

LEMMA CallingIs ==
  ASSUME NEW call, Calling(call)
  PROVE  cb # NoCall /\ cb.in # "recv" /\ cb.calls < MaxCalls
BY DEF Calling

(* Calls that change fields of a socket other than its links.                *)
LEMMA CallOnOneStep ==
  ASSUME LoopInv, NEW t \in Slots, CallShutdown(t) \/ CallTimeout(t) \/ CallWriteFails(t)
  PROVE  LoopInv'
<1>0. /\ t \in Live(sock) /\ sock[t].mem = "live" /\ Called
      /\ sock \in [Slots -> SockRecords] /\ sock[t].events \subseteq {"R", "W"}
      /\ cb # NoCall /\ cb.in # "recv" /\ cb.calls < MaxCalls
      /\ UNCHANGED <<round, head, iterator, closed_head, sweeping, ready, toVisit>>
      /\ ready \subseteq Live(sock)
  <2>1. t \in Open /\ Called /\ \E call \in API : Calling(call)
    BY DEF CallShutdown, CallTimeout, CallWriteFails, API
  <2>2. t \in Live(sock) /\ sock[t].mem = "live"
    BY <2>1, OpenIsLive DEF Live
  <2>3. sock \in [Slots -> SockRecords] /\ ready \subseteq Live(sock)
    BY DEF LoopInv, StructInv
  <2>4. sock[t].events \subseteq {"R", "W"}
    BY <2>3 DEF SockRecords
  <2>5. UNCHANGED <<round, head, iterator, closed_head, sweeping, ready, toVisit>>
    BY DEF CallShutdown, CallTimeout, CallWriteFails, listVars
  <2> QED
    BY <2>1, <2>2, <2>3, <2>4, <2>5, CallingIs
<1>1. /\ sock' \in [Slots -> SockRecords] /\ SameLinks(sock, sock')
      /\ OwedInv' \/ (\A i \in Slots : sock'[i].mem = sock[i].mem)
  <2>1. PICK S, T : S = sock /\ T = sock'
    OBVIOUS
  <2>2. CASE CallShutdown(t)
    <3>1. sock' = Retyped(sock, t, sock[t].events \cap {"R"}, "shut")
      BY <2>2 DEF CallShutdown, Retyped
    <3>2. PICK E, ty : E = sock[t].events \cap {"R"} /\ ty = "shut"
      OBVIOUS
    <3>3. /\ S \in [Slots -> SockRecords] /\ S[t].mem = "live" /\ E \in SUBSET {"R", "W"}
          /\ ty \in {"socket", "shut"} /\ T = Retyped(S, t, E, ty)
      BY <1>0, <2>1, <3>1, <3>2
    <3>4. T \in [Slots -> SockRecords] /\ SameLinks(S, T)
      BY ONLY <3>3, t \in Slots, RetypedIs
    <3> QED
      BY <2>1, <3>4 DEF SameLinks
  <2>3. CASE CallTimeout(t)
    <3>1. PICK n \in 0..MaxTimeout : sock' = [sock EXCEPT ![t].timeout = n]
      BY <2>3 DEF CallTimeout
    <3>2. /\ S \in [Slots -> SockRecords] /\ S[t].mem = "live" /\ T = [S EXCEPT ![t].timeout = n]
      BY <1>0, <2>1, <3>1
    <3>3. T \in [Slots -> SockRecords] /\ SameLinks(S, T)
      BY ONLY <3>2, t \in Slots, n \in 0..MaxTimeout, TimeoutIs
    <3> QED
      BY <2>1, <3>3 DEF SameLinks
  <2>4. CASE CallWriteFails(t)
    <3>1. sock' = Polling(sock, t, {"R", "W"})
      BY <2>4 DEF CallWriteFails
    <3>2. PICK E : E = {"R", "W"}
      OBVIOUS
    <3>3. /\ S \in [Slots -> SockRecords] /\ S[t].mem = "live" /\ E \in SUBSET {"R", "W"}
          /\ T = Polling(S, t, E)
      BY <1>0, <2>1, <3>1, <3>2
    <3>4. T \in [Slots -> SockRecords] /\ SameLinks(S, T)
      BY ONLY <3>3, t \in Slots, PollingIs
    <3> QED
      BY <2>1, <3>4 DEF SameLinks
  <2> QED
    BY <2>2, <2>3, <2>4
<1>2. /\ CallInv' /\ cb' \in CallRecords
      /\ cb'.in = cb.in /\ cb'.of = cb.of /\ Visiting' = Visiting
      /\ round \in {"sweep", "dispatch"}
  <2>1. \A i \in Slots : sock[i].mem = "live" => sock'[i].mem = "live"
    BY <1>1 DEF SameLinks
  <2> QED
    BY <1>0, <2>1, CallKeeps
<1>3. StructInv' /\ DeadInv' /\ SweepInv' /\ Live(sock') = Live(sock)
  <2>1. round # "sweep" => sweeping = <<>>
    BY DEF LoopInv, SweepInv
  <2> QED
    BY <1>0, <1>1, <1>2, <2>1, StaysLinked
<1>4. OwedInv'
  <2>0. /\ owed \subseteq Live(sock)
        /\ \A i \in owed : i \in Slots /\ sock[i].type = "socket" /\ "W" \in sock[i].events
        /\ cb.in = "writable" /\ cb.of \in owed => last_write_failed = TRUE
    BY DEF LoopInv, OwedInv, Live
  <2>1. CASE CallShutdown(t)
    <3>1. owed' = owed \ {t} /\ last_write_failed' = last_write_failed
      BY <2>1 DEF CallShutdown
    <3>2. \A i \in Slots : i # t => sock'[i] = sock[i]
      BY <1>0, <2>1 DEF CallShutdown, Polling
    <3> QED
      BY <1>2, <1>3, <2>0, <3>1, <3>2 DEF OwedInv
  <2>2. CASE CallTimeout(t)
    <3>1. owed' = owed /\ last_write_failed' = last_write_failed
      BY <2>2 DEF CallTimeout
    <3>2. PICK n \in 0..MaxTimeout : sock' = [sock EXCEPT ![t].timeout = n]
      BY <2>2 DEF CallTimeout
    <3>3. sock[t] \in SockRecords
      BY <1>0
    <3>4. \A i \in Slots : sock'[i].events = sock[i].events /\ sock'[i].type = sock[i].type
      BY <1>0, <3>2, <3>3 DEF SockRecords
    <3> QED
      BY <1>2, <1>3, <2>0, <3>1, <3>4 DEF OwedInv
  <2>3. CASE CallWriteFails(t)
    <3>1. owed' = owed \cup {t} /\ last_write_failed' = TRUE /\ sock[t].type = "socket"
      BY <2>3 DEF CallWriteFails
    <3>2. sock[t] \in SockRecords
      BY <1>0
    <3>3. /\ \A i \in Slots : i # t => sock'[i] = sock[i]
          /\ sock'[t].type = "socket" /\ sock'[t].events = {"R", "W"}
      BY <1>0, <2>3, <3>1, <3>2 DEF CallWriteFails, Polling, SockRecords
    <3> QED
      BY <1>0, <1>2, <1>3, <2>0, <3>1, <3>3 DEF OwedInv
  <2> QED
    BY <2>1, <2>2, <2>3
<1>5. last_write_failed' \in BOOLEAN
  BY DEF CallShutdown, CallTimeout, CallWriteFails, LoopInv, LoopTypes
<1>6. LoopTypes'
  BY <1>0, <1>2, <1>5 DEF LoopInv, LoopTypes
<1> QED
  BY <1>2, <1>3, <1>4, <1>6 DEF LoopInv

LEMMA CallCloseStep ==
  ASSUME LoopInv, NEW t \in Slots, CallClose(t)
  PROVE  LoopInv'
<1>0. /\ t \in Live(sock) /\ Close(t) /\ Called
      /\ cb # NoCall /\ cb.in # "recv" /\ cb.calls < MaxCalls
      /\ UNCHANGED <<round, sweeping, last_write_failed>>
  BY CallingIs, OpenIsLive DEF CallClose
<1>1. round \in {"sweep", "dispatch"}
  BY <1>0 DEF LoopInv, CallInv
<1>2. Visiting' = Visiting /\ cb'.in = cb.in /\ cb'.of = cb.of
  <2>1. cb' = [cb EXCEPT !.calls = @ + 1] /\ cb \in CallRecords
    BY <1>0 DEF Called, LoopInv, LoopTypes
  <2>2. cb'.in = cb.in /\ cb'.of = cb.of
    BY <2>1 DEF CallRecords
  <2> QED
    BY <2>2 DEF Visiting
<1>3. /\ StructInv' /\ DeadInv' /\ SweepInv' /\ OwedInv'
      /\ \A i \in Slots : sock'[i].mem = sock[i].mem
  BY <1>0, <1>1, <1>2, ClosesOne
<1>4. CallInv' /\ cb' \in CallRecords
  BY <1>0, <1>3, CallKeeps
<1>5. LoopTypes'
  BY <1>0, <1>4 DEF LoopInv, LoopTypes
<1> QED
  BY <1>3, <1>4, <1>5 DEF LoopInv

LEMMA CallConnectStep ==
  ASSUME LoopInv, CallConnect
  PROVE  LoopInv'
<1>1. PICK s \in Fresh :
        /\ Calling("connect") /\ Called
        /\ Create(s, Ws, "connect", {"W"}) \/ UNCHANGED <<sock, head>>
        /\ UNCHANGED <<round, iterator, closed_head, sweeping, ready, last_write_failed, toVisit,
                       owed>>
  BY DEF CallConnect
<1>0. /\ cb # NoCall /\ cb.in # "recv" /\ cb.calls < MaxCalls /\ s \in Slots
      /\ ready \subseteq Live(sock)
  BY <1>1, CallingIs DEF Fresh, LoopInv, StructInv
<1>2. round \in {"sweep", "dispatch"} /\ (round # "sweep" => sweeping = <<>>)
  BY <1>0 DEF LoopInv, CallInv, SweepInv
<1>3. Visiting' = Visiting /\ cb'.in = cb.in /\ cb'.of = cb.of
  <2>1. cb' = [cb EXCEPT !.calls = @ + 1] /\ cb \in CallRecords
    BY <1>1 DEF Called, LoopInv, LoopTypes
  <2>2. cb'.in = cb.in /\ cb'.of = cb.of
    BY <2>1 DEF CallRecords
  <2> QED
    BY <2>2 DEF Visiting
<1>4. CASE Create(s, Ws, "connect", {"W"})
  <2>0. Ws \in Contexts /\ {"W"} \in SUBSET {"R", "W"}
    BY DEF Contexts
  <2>1. /\ StructInv' /\ DeadInv' /\ SweepInv' /\ OwedInv'
        /\ \A i \in Slots : sock[i].mem = "live" => sock'[i].mem = "live"
    BY <1>0, <1>1, <1>2, <1>3, <1>4, <2>0, CreatesOne
  <2>2. CallInv' /\ cb' \in CallRecords
    BY <1>0, <1>1, <2>1, CallKeeps
  <2>3. LoopTypes'
    BY <1>1, <2>2 DEF LoopInv, LoopTypes
  <2> QED
    BY <2>1, <2>2, <2>3 DEF LoopInv
<1>5. CASE UNCHANGED <<sock, head>>
  <2>0. sock' \in [Slots -> SockRecords] /\ SameLinks(sock, sock')
    BY <1>5, SameIsSame DEF LoopInv, StructInv
  <2>1. StructInv' /\ DeadInv' /\ SweepInv'
    BY <1>0, <1>1, <1>2, <1>3, <1>5, <2>0, StaysLinked
  <2>2. CallInv' /\ cb' \in CallRecords
    BY <1>0, <1>1, <1>5, CallKeeps
  <2>3. LoopTypes' /\ OwedInv'
    BY <1>1, <1>3, <1>5, <2>2 DEF LoopInv, LoopTypes, OwedInv
  <2> QED
    BY <2>1, <2>2, <2>3 DEF LoopInv
<1> QED
  BY <1>1, <1>4, <1>5

LEMMA CallAdoptStep ==
  ASSUME LoopInv, CallAdopt
  PROVE  LoopInv'
<1> DEFINE s == cb.of
<1>0. /\ Calling("adopt") /\ s \in Open /\ sock[s].context = Http /\ Called
      /\ sock' = Link(Unlink(sock, s), head, Ws, s)
      /\ head' = [HeadWithout(s) EXCEPT ![Ws] = s]
      /\ iterator' = MoveIterator(iterator, s) /\ toVisit' = toVisit \ {s}
      /\ UNCHANGED <<round, closed_head, sweeping, ready, last_write_failed, owed>>
  BY DEF CallAdopt
<1>1. s \in Live(sock) /\ cb # NoCall /\ cb.in # "recv" /\ cb.calls < MaxCalls
  BY <1>0, CallingIs, OpenIsLive
<1>2. round \in {"sweep", "dispatch"} /\ (round # "sweep" => sweeping = <<>>)
  BY <1>1 DEF LoopInv, CallInv, SweepInv
<1>3. StructInv /\ Freeable(sock, Dead(sock), closed_head)
  BY <1>2 DEF LoopInv, DeadInv
<1>4. PICK at : at = s
  OBVIOUS
<1>5. /\ StructInv' /\ Live(sock') = Live(sock) /\ Dead(sock') = Dead(sock)
      /\ Freeable(sock', Dead(sock'), closed_head')
      /\ \A i \in Slots : /\ sock'[i].type = sock[i].type /\ sock'[i].mem = sock[i].mem
                          /\ sock'[i].events = sock[i].events
      /\ \E U, h : /\ Without(sock, U, Live(sock), at) /\ h \in [Contexts -> Ptr]
                   /\ Chain(U, Live(sock) \ {at}, h)
                   /\ WithSocket(U, sock', Live(sock) \ {at}, h, Ws, at)
  BY <1>0, <1>1, <1>3, <1>4, Adopts
<1>6. PICK U, h : /\ Without(sock, U, Live(sock), at) /\ h \in [Contexts -> Ptr]
                  /\ Chain(U, Live(sock) \ {at}, h)
                  /\ WithSocket(U, sock', Live(sock) \ {at}, h, Ws, at)
  BY <1>5
<1>7. Visiting' = Visiting /\ cb'.in = cb.in /\ cb'.of = cb.of /\ CallInv' /\ cb' \in CallRecords
  BY <1>0, <1>1, <1>5, CallKeeps
<1>8. DeadInv'
  BY <1>0, <1>2, <1>5 DEF DeadInv
<1>9. OwedInv'
  BY <1>0, <1>5, <1>7 DEF LoopInv, OwedInv, Live
<1>10. LoopTypes'
  BY <1>0, <1>7 DEF LoopInv, LoopTypes
<1>11. SweepInv'
  <2>1. CASE round # "sweep"
    BY <1>0, <1>2, <2>1 DEF SweepInv
  <2>2. CASE round = "sweep"
    <3>0. /\ Live(sock) \subseteq Slots /\ at \in Live(sock) /\ Ws \in Contexts /\ Ws # Http
          /\ sock[at].context = Http
      BY <1>0, <1>1, <1>4, SlotsAreNotNull DEF Live, Contexts, Ws, Http
    <3>1. /\ \A i \in Live(sock) \ {at} : sock'[i].context = sock[i].context
          /\ sock'[at].context = Ws
      BY <1>6 DEF Without, WithSocket
    <3>2. Sweep' = Sweep
      BY <1>0 DEF Sweep
    <3>3. ASSUME sweeping # <<>>
          PROVE  Ahead(sock', toVisit', iterator'[Sweep], Visiting, Sweep)
      <4>1. PICK S, T, L, g, V, it, x, c :
               /\ S = sock /\ T = sock' /\ L = Live(sock) /\ g = head /\ V = toVisit
               /\ it = iterator[Sweep] /\ x = Visiting /\ c = Sweep
        OBVIOUS
      <4>2. /\ Chain(S, L, g) /\ at \in L /\ Without(S, U, L, at) /\ V \in SUBSET L
            /\ (it # Null => it \in L /\ S[it].context = c) /\ Ahead(S, V, it, x, c)
        BY <1>6, <2>2, <3>0, <3>3, <4>1, SweepIs DEF LoopInv, LoopTypes, SweepInv, StructInv
      <4> DEFINE to == IF it = at THEN S[at].next ELSE it
      <4>3. Ahead(U, V \ {at}, to, x, c)
        BY <4>2, AheadWithout
      <4>4. iterator'[Sweep] = to /\ (to # Null => to \in L \ {at} /\ S[to].context = c)
        <5>1. iterator' = MoveIterator(iterator, at) /\ Sweep \in Contexts
          BY <1>0, <1>4, <3>3, SweepIs DEF LoopInv, LoopTypes
        <5> QED
          BY <1>3, <3>0, <4>1, <5>1, MoveIteratorIs
      <4>5. U[to].context = S[to].context \/ to = Null
        BY <4>2, <4>4 DEF Without
      <4> HIDE DEF to
      <4>6. /\ Chain(U, L \ {at}, h) /\ at \in Slots \ (L \ {at}) /\ WithSocket(U, T, L \ {at}, h, Ws, at)
            /\ V \ {at} \in SUBSET (L \ {at})
            /\ (to # Null => to \in L \ {at} /\ U[to].context = c)
            /\ Ahead(U, V \ {at}, to, x, c)
        BY <1>6, <3>0, <4>1, <4>2, <4>3, <4>4, <4>5
      <4>7. Ahead(T, V \ {at}, to, x, c)
        BY <3>0, <4>6, AheadWith
      <4> QED
        BY <1>0, <1>4, <4>1, <4>4, <4>7
    <3>4. sweeping' # <<>> => Ahead(sock', toVisit', iterator'[Sweep'], Visiting', Sweep')
      BY <1>0, <1>7, <3>2, <3>3
    <3>5. toVisit' = toVisit \ {at} /\ round' = round /\ sweeping' = sweeping
      BY <1>0, <1>4
    <3>6. Visiting' \notin toVisit'
      BY <1>7, <2>2, <3>5 DEF LoopInv, SweepInv
    <3> QED
      BY <1>5, <2>2, <3>0, <3>1, <3>4, <3>5, <3>6 DEF LoopInv, SweepInv
  <2> QED
    BY <2>1, <2>2
<1> QED
  BY <1>5, <1>7, <1>8, <1>9, <1>10, <1>11 DEF LoopInv

(* What next leads to from the head of the closed list are the closed        *)
(* sockets.                                                                  *)
LEMMA ClosedListIs ==
  ASSUME Freeable(sock, Dead(sock), closed_head)
  PROVE  ClosedList = Dead(sock)
<1> DEFINE D == Dead(sock)
           Leads(C) == {closed_head} \cup {sock[t].next : t \in C} \subseteq C \cup {Null}
<1>0. ClosedList = {s \in Slots : \A C \in SUBSET Slots : Leads(C) => s \in C}
  BY DEF ClosedList
<1>1. /\ D \subseteq Slots /\ closed_head \in D \cup {Null}
      /\ \A s \in D : sock[s].next \in D \cup {Null}
  BY DEF Freeable
<1>2. Leads(D)
  BY <1>1
<1>3. ClosedList \subseteq D
  BY <1>0, <1>1, <1>2
<1>4. ASSUME NEW C \in SUBSET Slots, Leads(C) PROVE D \subseteq C
  <2> DEFINE T == D \ C
  <2>1. PICK rank \in [Slots -> Nat] :
          \A s \in D : s # closed_head => \E t \in D : sock[t].next = s /\ rank[t] < rank[s]
    BY DEF Freeable
  <2>2. closed_head \in C \cup {Null} /\ \A t \in C : sock[t].next \in C \cup {Null}
    BY <1>4
  <2> HIDE DEF Leads
  <2>3. ASSUME T # {} PROVE FALSE
    <3>1. PICK s \in T : \A u \in T : rank[s] <= rank[u]
      <4>1. T \in SUBSET Slots
        BY <1>1
      <4> HIDE DEF T
      <4> QED
        BY <2>3, <4>1, LeastRank
    <3>2. s \in D /\ s \notin C /\ s # Null /\ s # closed_head
      BY <1>1, <2>2, <3>1, SlotsAreNotNull
    <3>3. PICK t \in D : sock[t].next = s /\ rank[t] < rank[s]
      BY <2>1, <3>2
    <3>4. t \in T /\ rank[t] \in Nat /\ rank[s] \in Nat
      BY <1>1, <2>2, <3>2, <3>3
    <3> QED
      BY <3>1, <3>3, <3>4
  <2> QED
    BY <2>3
<1> HIDE DEF D, Leads
<1>5. D \subseteq ClosedList
  BY <1>0, <1>1, <1>4
<1> QED
  BY <1>3, <1>5 DEF D

-----------------------------------------------------------------------------
(* The sweep.                                                                *)

LEMMA SweepBeginsStep ==
  ASSUME LoopInv, SweepBegins
  PROVE  LoopInv'
<1>0. /\ round = "timers" /\ sweeping = <<>> /\ cb = NoCall
      /\ sweeping' = <<Ws, Http>> /\ iterator' = [iterator EXCEPT ![Ws] = head[Ws]]
      /\ toVisit' = Live(sock) /\ round' = "sweep"
      /\ UNCHANGED <<sock, head, closed_head, ready, cb, last_write_failed, owed>>
  BY OpenIsLive DEF SweepBegins, SweepOrder
<1>1. /\ StructInv /\ sock \in [Slots -> SockRecords] /\ ready \subseteq Live(sock)
      /\ head \in [Contexts -> Ptr] /\ iterator \in [Contexts -> Ptr] /\ Ws \in Contexts
      /\ Chain(sock, Live(sock), head)
  BY DEF LoopInv, StructInv, Contexts
<1>2. /\ iterator' \in [Contexts -> Ptr]
      /\ iterator'[Ws] = head[Ws]
      /\ \A c \in Contexts : c # Ws => iterator'[c] = iterator[c]
  BY <1>0, <1>1
<1>3. \A c \in Contexts : iterator'[c] # Null =>
         iterator'[c] \in Live(sock) /\ sock[iterator'[c]].context = c
  BY <1>1, <1>2 DEF StructInv, Chain, TwoWay
<1>4. StructInv' /\ Live(sock') = Live(sock) /\ Dead(sock') = Dead(sock)
  BY <1>0, <1>1, <1>2, <1>3, SameIsSame, LoopKeeps
<1>5. DeadInv'
  BY <1>0, <1>4 DEF LoopInv, DeadInv
<1>6. CallInv' /\ OwedInv' /\ LoopTypes'
  BY <1>0, <1>4 DEF LoopInv, CallInv, OwedInv, LoopTypes, Rounds
<1>7. SweepInv'
  <2>1. Sweep' = Ws /\ sweeping' # <<>> /\ sweeping' # <<Http>>
    BY <1>0, SweepIs DEF Sweep
  <2>2. PICK S, L, hd : S = sock /\ L = Live(sock) /\ hd = head
    OBVIOUS
  <2>3. Ahead(S, L, hd[Ws], Visiting', Ws)
    BY <1>1, <2>2, AheadBegins
  <2>4. Ahead(sock', toVisit', iterator'[Sweep'], Visiting', Sweep')
    BY <1>0, <1>2, <2>1, <2>2, <2>3
  <2>5. Visiting' \notin toVisit'
    BY <1>0, <1>1, LiveTypes, NoCallIs DEF Visiting
  <2> QED
    BY <1>0, <1>4, <2>1, <2>4, <2>5 DEF SweepInv
<1> QED
  BY <1>4, <1>5, <1>6, <1>7 DEF LoopInv

(* The callback of a socket's timeout returns with the iterator still there. *)
LEMMA AheadReturns ==
  ASSUME NEW S, NEW L, NEW hd, Chain(S, L, hd), NEW V \in SUBSET L, NEW s \in L \ V, NEW c,
         S[s].context = c, Ahead(S, V, s, s, c)
  PROVE  Ahead(S, V, S[s].next, Null, c)
<1>1. /\ \A t \in V \cup {s} : t # Null /\ S[t].context = c /\ S[t].next # Null => S[t].next \in V
      /\ \A t \in V : S[t].context = c /\ t # s => S[t].prev # Null /\ S[t].prev \in V \cup {s}
  BY DEF Ahead
<1>2. L \subseteq Slots /\ s # Null /\ Null \notin L
  BY SlotsAreNotNull DEF Chain, TwoWay
<1>3. \A i \in L : S[i].prev # Null => S[S[i].prev].next = i
  BY DEF Chain, TwoWay
<1>4. S[s].next # Null => S[s].next \in V
  BY <1>1, <1>2
<1>5. ASSUME NEW t \in V \cup {S[s].next}, t # Null, S[t].context = c, S[t].next # Null
      PROVE  S[t].next \in V
  BY <1>1, <1>4, <1>5
<1>6. ASSUME NEW t \in V, S[t].context = c, t # S[s].next
      PROVE  S[t].prev # Null /\ S[t].prev \in V \cup {S[s].next}
  BY <1>1, <1>3, <1>6
<1> QED
  BY <1>4, <1>5, <1>6 DEF Ahead

(* What is visited is left behind.                                           *)
LEMMA AheadVisits ==
  ASSUME NEW S, NEW L, NEW hd, Chain(S, L, hd), NEW V \in SUBSET L, NEW s \in L, NEW c,
         S[s].context = c, Ahead(S, V, s, Null, c)
  PROVE  /\ Ahead(S, V \ {s}, s, s, c)
         /\ Ahead(S, V \ {s}, S[s].next, Null, c)
<1>0. L \subseteq Slots /\ s # Null /\ Null \notin L /\ S[s].next # s
  BY SlotsAreNotNull, Neighbours DEF Chain, TwoWay
<1>1. /\ \A t \in V \cup {s} : t # Null /\ S[t].context = c /\ S[t].next # Null => S[t].next \in V
      /\ \A t \in V : S[t].context = c /\ t # s => S[t].prev # Null /\ S[t].prev \in V \cup {s}
      /\ s \in V
  BY <1>0 DEF Ahead
<1>2. \A i \in L : /\ S[i].prev # Null => S[S[i].prev].next = i
                   /\ S[i].next # Null => S[S[i].next].prev = i
                   /\ S[i].next # Null => S[S[i].next].context = S[i].context
  BY DEF Chain, TwoWay
<1>3. S[s].prev \notin V
  <2> DEFINE M == {t \in V : S[t].context = c /\ t # s}
  <2>1. PICK rank \in [Slots -> Nat] :
          \A i \in L : S[i].next # Null => rank[i] < rank[S[i].next]
    BY DEF Chain, Ordered
  <2> DEFINE B == {t \in M : rank[t] < rank[s]}
  <2>2. M \subseteq Slots /\ \A t \in M : rank[t] \in Nat
    BY <1>0
  <2>3. rank[s] \in Nat
    BY <1>0
  <2>4. ASSUME NEW t \in B PROVE S[t].prev \in B /\ rank[S[t].prev] < rank[t]
    <3>1. t \in L /\ t \in V /\ S[t].context = c /\ t # s /\ t # Null
      BY <1>0, <2>4
    <3>2. S[t].prev # Null /\ S[t].prev \in V \cup {s} /\ S[t].prev \in L
      BY <1>0, <1>1, <3>1
    <3>3. S[S[t].prev].next = t /\ S[S[t].prev].context = c
      BY <1>2, <3>1, <3>2
    <3>4. rank[S[t].prev] < rank[t] /\ rank[t] < rank[s]
      BY <2>1, <2>4, <3>1, <3>2, <3>3
    <3>5. rank[S[t].prev] \in Nat /\ rank[t] \in Nat
      BY <1>0, <3>1, <3>2
    <3>6. S[t].prev # s /\ rank[S[t].prev] < rank[s]
      BY <2>3, <3>4, <3>5
    <3> QED
      BY <3>2, <3>3, <3>4, <3>6
  <2>5. ASSUME B # {} PROVE FALSE
    <3>1. PICK t \in B : \A u \in B : rank[t] <= rank[u]
      <4>1. B \in SUBSET Slots
        BY <2>2
      <4> HIDE DEF B
      <4> QED
        BY <2>5, <4>1, LeastRank
    <3>2. S[t].prev \in B /\ rank[S[t].prev] < rank[t] /\ rank[t] <= rank[S[t].prev]
      BY <2>4, <3>1
    <3>3. rank[t] \in Nat /\ rank[S[t].prev] \in Nat
      BY <2>2, <3>2
    <3> QED
      BY <3>2, <3>3
  <2>6. ASSUME S[s].prev \in V PROVE S[s].prev \in B
    <3>1. S[s].prev # Null /\ S[s].prev \in L
      BY <1>0, <2>6
    <3>2. S[S[s].prev].next = s /\ S[S[s].prev].context = c
      BY <1>2, <3>1, s \in L, S[s].context = c DEF Chain, TwoWay
    <3>3. rank[S[s].prev] < rank[s] /\ S[s].prev # s
      BY <1>0, <2>1, <3>1, <3>2, Neighbours
    <3> QED
      BY <2>6, <3>2, <3>3
  <2> QED
    BY <2>5, <2>6
<1>4. Ahead(S, V \ {s}, s, s, c)
  <2>1. ASSUME NEW t \in (V \ {s}) \cup {s}, t # Null, S[t].context = c, S[t].next # Null
        PROVE  S[t].next \in V \ {s}
    BY <1>0, <1>1, <1>2, <1>3, <2>1
  <2> QED
    BY <1>1, <2>1 DEF Ahead
<1>5. S[s].next # Null => S[s].next \in V \ {s}
  BY <1>0, <1>1
<1>6. Ahead(S, V \ {s}, S[s].next, Null, c)
  BY <1>0, <1>2, <1>4, <1>5, AheadReturns
<1> QED
  BY <1>4, <1>6

LEMMA SweepVisitsStep ==
  ASSUME LoopInv, SweepVisits
  PROVE  LoopInv'
<1> DEFINE s == iterator[Sweep]
<1>0. /\ round = "sweep" /\ cb = NoCall /\ sweeping # <<>> /\ s # Null
      /\ toVisit' = toVisit \ {s}
      /\ UNCHANGED <<round, head, closed_head, sweeping, ready, last_write_failed, owed>>
  BY DEF SweepVisits
<1>1. /\ StructInv /\ sock \in [Slots -> SockRecords] /\ ready \subseteq Live(sock)
      /\ iterator \in [Contexts -> Ptr] /\ Sweep \in Contexts /\ Chain(sock, Live(sock), head)
      /\ \A c \in Contexts : iterator[c] # Null =>
           iterator[c] \in Live(sock) /\ sock[iterator[c]].context = c
  BY <1>0, SweepIs DEF LoopInv, LoopTypes, StructInv
<1>2. /\ s \in Live(sock) /\ sock[s].context = Sweep /\ s \in Slots /\ sock[s].mem = "live"
      /\ Visiting = Null /\ toVisit \subseteq Live(sock) /\ s \in Ptr
  BY <1>0, <1>1, NoCallIs, CallBounds DEF Live, Visiting, LoopInv, SweepInv
<1>3. /\ sock[s].next \in Live(sock) \cup {Null} /\ sock[s].next \in Ptr
      /\ sock[s].next # Null => sock[sock[s].next].context = Sweep
  BY <1>1, <1>2 DEF Chain, TwoWay, Live, Ptr
<1>4. Ahead(sock, toVisit, s, Null, Sweep)
  BY <1>0, <1>2 DEF LoopInv, SweepInv
<1>5. /\ Ahead(sock, toVisit \ {s}, s, s, Sweep)
      /\ Ahead(sock, toVisit \ {s}, sock[s].next, Null, Sweep)
  <2>1. PICK S, L, hd, V, i, c : /\ S = sock /\ L = Live(sock) /\ hd = head /\ V = toVisit
                                 /\ i = s /\ c = Sweep
    OBVIOUS
  <2>2. /\ Chain(S, L, hd) /\ V \in SUBSET L /\ i \in L /\ S[i].context = c
        /\ Ahead(S, V, i, Null, c)
    BY <1>1, <1>2, <1>4, <2>1
  <2>3. Ahead(S, V \ {i}, i, i, c) /\ Ahead(S, V \ {i}, S[i].next, Null, c)
    BY <2>2, AheadVisits
  <2> QED
    BY <2>1, <2>3
<1> HIDE DEF s
<1>6. /\ sock' \in [Slots -> SockRecords] /\ SameLinks(sock, sock')
      /\ \A i \in Slots : sock'[i].events = sock[i].events /\ sock'[i].type = sock[i].type
  <2>1. CASE sock' = sock
    BY <1>1, <2>1, SameIsSame
  <2>2. CASE sock' # sock
    <3>1. sock' = [sock EXCEPT ![s].timeout = @ - 1] /\ sock[s].timeout # 0
      BY <2>2 DEF SweepVisits, s
    <3>2. sock[s].timeout - 1 \in 0..MaxTimeout
      BY <1>1, <1>2, <3>1, SocketLoopAssumption DEF SockRecords
    <3>3. PICK S, T, n : S = sock /\ T = sock' /\ n = sock[s].timeout - 1
      OBVIOUS
    <3>4. /\ S \in [Slots -> SockRecords] /\ S[s].mem = "live" /\ n \in 0..MaxTimeout
          /\ T = [S EXCEPT ![s].timeout = n] /\ s \in Slots
      BY <1>1, <1>2, <3>1, <3>2, <3>3
    <3>5. T \in [Slots -> SockRecords] /\ SameLinks(S, T)
      BY ONLY <3>4, TimeoutIs
    <3>6. sock[s] \in SockRecords
      BY <1>1, <1>2
    <3>7. \A i \in Slots : sock'[i].events = sock[i].events /\ sock'[i].type = sock[i].type
      BY <1>1, <3>1, <3>6 DEF SockRecords
    <3> QED
      BY <3>3, <3>5, <3>7
  <2> QED
    BY <2>1, <2>2
<1>7. \/ cb' = cb /\ iterator' = [iterator EXCEPT ![Sweep] = sock[s].next]
      \/ Enter(s, "timeout") /\ iterator' = iterator
  BY DEF SweepVisits, s
<1>8. \/ /\ cb' = NoCall /\ Visiting' = Null /\ iterator'[Sweep] = sock[s].next
      \/ /\ cb'.in = "timeout" /\ cb'.of = s /\ Visiting' = s /\ iterator'[Sweep] = s
         /\ cb' \in CallRecords
  <2>1. CASE cb' = cb /\ iterator' = [iterator EXCEPT ![Sweep] = sock[s].next]
    BY <1>0, <1>1, <2>1, NoCallIs DEF Visiting
  <2>2. CASE Enter(s, "timeout") /\ iterator' = iterator
    <3>1. cb' = [of |-> s, in |-> "timeout", listener |-> Null, readable |-> FALSE, calls |-> 0]
      BY <2>2 DEF Enter, NoCall
    <3>2. cb' \in CallRecords /\ cb'.in = "timeout" /\ cb'.of = s
      BY <1>2, <3>1, CallBounds DEF CallRecords
    <3> QED
      BY <2>2, <3>2 DEF Visiting, s
  <2> QED
    BY <1>7, <2>1, <2>2
<1>9. /\ iterator' \in [Contexts -> Ptr]
      /\ \A c \in Contexts : c # Sweep => iterator'[c] = iterator[c]
      /\ iterator'[Sweep] = sock[s].next \/ iterator'[Sweep] = s
  BY <1>1, <1>3, <1>7, <1>8
<1>10. \A c \in Contexts : iterator'[c] # Null =>
         iterator'[c] \in Live(sock) /\ sock[iterator'[c]].context = c
  BY <1>1, <1>2, <1>3, <1>9
<1>11. StructInv' /\ Live(sock') = Live(sock) /\ Dead(sock') = Dead(sock)
  BY <1>0, <1>1, <1>6, <1>9, <1>10, LoopKeeps
<1>12. DeadInv'
  <2>1. PICK S, T, D, ch : S = sock /\ T = sock' /\ D = Dead(sock) /\ ch = closed_head
    OBVIOUS
  <2>2. Freeable(S, D, ch)
    BY <1>0, <2>1 DEF LoopInv, DeadInv
  <2>3. \A i \in D : T[i].next = S[i].next
    BY <1>6, <2>1 DEF SameLinks, Dead
  <2>4. Freeable(T, D, ch)
    BY <2>2, <2>3, FreeableSame
  <2> QED
    BY <1>0, <1>11, <2>1, <2>4 DEF DeadInv
<1>13. CallInv'
  <2>1. sock'[s].mem = "live"
    BY <1>2, <1>6 DEF SameLinks
  <2> QED
    BY <1>0, <1>2, <1>8, <2>1 DEF CallInv
<1>14. OwedInv'
  <2>1. cb'.in # "writable"
    BY <1>8, NoCallIs
  <2>2. owed \subseteq Live(sock) /\ Live(sock) \subseteq Slots
        /\ \A i \in owed : sock[i].type = "socket" /\ "W" \in sock[i].events
    BY DEF LoopInv, OwedInv, Live
  <2> QED
    BY <1>0, <1>6, <1>11, <2>1, <2>2 DEF OwedInv
<1>15. LoopTypes'
  BY <1>0, <1>8, NoCallIs DEF LoopInv, LoopTypes
<1>16. SweepInv'
  <2>1. Ahead(sock, toVisit', iterator'[Sweep], Visiting', Sweep)
    BY <1>0, <1>5, <1>8 DEF s
  <2>2. Sweep' = Sweep
    BY <1>0 DEF Sweep
  <2>3. Ahead(sock', toVisit', iterator'[Sweep], Visiting', Sweep)
    <3>1. PICK S, T, L, V, it, x, c : /\ S = sock /\ T = sock' /\ L = Live(sock) /\ V = toVisit'
                                      /\ it = iterator'[Sweep] /\ x = Visiting' /\ c = Sweep
      OBVIOUS
    <3>2. /\ Null \notin L /\ V \in SUBSET L /\ (it # Null => it \in L) /\ Ahead(S, V, it, x, c)
          /\ \A i \in L : /\ T[i].context = S[i].context
                          /\ T[i].next = S[i].next /\ T[i].prev = S[i].prev
      BY <1>0, <1>1, <1>2, <1>6, <1>10, <2>1, <3>1, LiveTypes DEF SameLinks
    <3>3. Ahead(T, V, it, x, c)
      BY <3>2, AheadSame
    <3> QED
      BY <3>1, <3>3
  <2>4. /\ toVisit' \subseteq Live(sock') /\ Visiting' \notin toVisit'
        /\ sweeping # <<>>
    BY <1>0, <1>1, <1>2, <1>8, <1>11, LiveTypes DEF s
  <2>5. \A t \in Live(sock) : sock'[t].context = sock[t].context /\ t \in Slots
    BY <1>6 DEF SameLinks, Live
  <2>6. sweeping = <<Http>> => \A t \in toVisit' : sock'[t].context = Http
    BY <1>0, <1>2, <2>5 DEF LoopInv, SweepInv
  <2>7. sweeping = <<Ws, Http>> =>
          \A t \in Live(sock') : sock'[t].context = Http => t \in toVisit'
    <3>1. sweeping = <<Ws, Http>> => sock[s].context = Ws /\ Ws # Http
      BY <1>0, <1>2, SweepIs DEF LoopInv, LoopTypes
    <3> QED
      BY <1>0, <1>11, <2>5, <3>1 DEF LoopInv, SweepInv, s
  <2> QED
    BY <1>0, <2>2, <2>3, <2>4, <2>6, <2>7 DEF SweepInv
<1> QED
  BY <1>11, <1>12, <1>13, <1>14, <1>15, <1>16 DEF LoopInv

LEMMA SweepNextContextStep ==
  ASSUME LoopInv, SweepNextContext
  PROVE  LoopInv'
<1>0. /\ round = "sweep" /\ cb = NoCall /\ sweeping \in {<<Http>>, <<Ws, Http>>}
      /\ iterator[Sweep] = Null /\ sweeping' = Tail(sweeping)
      /\ iterator' = IF sweeping' = <<>> THEN iterator
                     ELSE [iterator EXCEPT ![Head(sweeping')] = head[Head(sweeping')]]
      /\ UNCHANGED <<round, sock, head, closed_head, ready, cb, last_write_failed, toVisit, owed>>
  BY DEF SweepNextContext, LoopInv, LoopTypes
<1>1. /\ StructInv /\ sock \in [Slots -> SockRecords] /\ ready \subseteq Live(sock)
      /\ head \in [Contexts -> Ptr] /\ iterator \in [Contexts -> Ptr]
      /\ Chain(sock, Live(sock), head) /\ toVisit \subseteq Live(sock)
      /\ Http \in Contexts /\ Ws \in Contexts /\ Visiting = Null /\ Visiting' = Null
      /\ Ahead(sock, toVisit, Null, Null, Sweep)
  BY <1>0, NoCallIs, SweepIs DEF LoopInv, LoopTypes, StructInv, SweepInv, Contexts, Visiting
<1>2. \A t \in toVisit : sock[t].context # Sweep
  <2>1. PICK S, L, hd, V, c : S = sock /\ L = Live(sock) /\ hd = head /\ V = toVisit /\ c = Sweep
    OBVIOUS
  <2>2. Chain(S, L, hd) /\ V \in SUBSET L /\ Ahead(S, V, Null, Null, c)
    BY <1>1, <2>1
  <2>3. \A t \in V : S[t].context # c
    BY <2>2, AheadEnds
  <2> QED
    BY <2>1, <2>3
<1>3. CASE sweeping = <<Http>>
  <2>1. sweeping' = <<>> /\ iterator' = iterator /\ Sweep = Http
    BY <1>0, <1>3, SweepIs
  <2>2. toVisit = {}
    BY <1>0, <1>2, <1>3, <2>1 DEF LoopInv, SweepInv
  <2>3. StructInv' /\ Live(sock') = Live(sock) /\ Dead(sock') = Dead(sock)
    BY <1>0, <1>1, <2>1 DEF StructInv
  <2>4. DeadInv' /\ CallInv' /\ OwedInv'
    BY <1>0, <2>3 DEF LoopInv, DeadInv, CallInv, OwedInv
  <2>5. LoopTypes' /\ SweepInv'
    BY <1>0, <1>1, <2>1, <2>2, SweepIs DEF LoopInv, LoopTypes, SweepInv
  <2> QED
    BY <2>3, <2>4, <2>5 DEF LoopInv
<1>4. CASE sweeping = <<Ws, Http>>
  <2>1. sweeping' = <<Http>> /\ Sweep = Ws /\ Sweep' = Http /\ Ws # Http /\ sweeping' # <<>>
        /\ sweeping' # <<Ws, Http>> /\ Head(sweeping') = Http
    <3>1. sweeping' = <<Http>>
      BY <1>0, <1>4
    <3> QED
      BY <1>0, <1>4, <3>1, SweepIs DEF Sweep
  <2>2. iterator' = [iterator EXCEPT ![Http] = head[Http]]
    BY <1>0, <2>1
  <2>3. /\ iterator' \in [Contexts -> Ptr]
        /\ iterator'[Http] = head[Http]
        /\ \A c \in Contexts : c # Http => iterator'[c] = iterator[c]
    BY <1>1, <2>2
  <2>4. \A c \in Contexts : iterator'[c] # Null =>
           iterator'[c] \in Live(sock) /\ sock[iterator'[c]].context = c
    BY <1>1, <2>3 DEF StructInv, Chain, TwoWay
  <2>5. StructInv' /\ Live(sock') = Live(sock) /\ Dead(sock') = Dead(sock)
    BY <1>0, <1>1, <2>3, <2>4, SameIsSame, LoopKeeps
  <2>6. DeadInv' /\ CallInv' /\ OwedInv'
    BY <1>0, <2>1, <2>5, NoCallIs DEF LoopInv, DeadInv, CallInv, OwedInv
  <2>7. \A t \in toVisit : sock[t].context = Http
    BY <1>1, <1>2, <2>1, LiveTypes DEF Contexts
  <2>8. Ahead(sock, toVisit, head[Http], Null, Http)
    <3>1. PICK S, L, hd, V : S = sock /\ L = Live(sock) /\ hd = head /\ V = toVisit
      OBVIOUS
    <3>2. /\ Chain(S, L, hd) /\ V \in SUBSET L /\ \A t \in L : S[t].context = Http => t \in V
      BY <1>0, <1>1, <1>4, <3>1 DEF LoopInv, SweepInv
    <3>3. Ahead(S, V, hd[Http], Null, Http)
      BY <1>1, <3>2, AheadBegins
    <3> QED
      BY <3>1, <3>3
  <2>9. LoopTypes'
    BY <1>0, <2>1 DEF LoopInv, LoopTypes
  <2>10. SweepInv'
    <3>1. Null \notin toVisit
      BY <1>1, LiveTypes
    <3>2. Ahead(sock', toVisit', iterator'[Sweep'], Visiting', Sweep')
      BY <1>0, <1>1, <2>1, <2>3, <2>8
    <3> QED
      BY <1>0, <1>1, <2>1, <2>5, <2>7, <3>1, <3>2 DEF SweepInv
  <2> QED
    BY <2>5, <2>6, <2>9, <2>10 DEF LoopInv
<1> QED
  BY <1>0, <1>3, <1>4

LEMMA ReturnFromTimeoutStep ==
  ASSUME LoopInv, ReturnFromTimeout
  PROVE  LoopInv'
<1>0. /\ cb.in = "timeout" /\ cb' = NoCall
      /\ iterator' = IF iterator[Sweep] = cb.of
                     THEN [iterator EXCEPT ![Sweep] = sock[cb.of].next] ELSE iterator
      /\ UNCHANGED <<round, sock, head, closed_head, sweeping, ready, last_write_failed, toVisit,
                     owed>>
  BY DEF ReturnFromTimeout
<1>1. round = "sweep" /\ sweeping # <<>> /\ cb.of \in Slots /\ Visiting = cb.of
  BY <1>0, NoCallIs DEF LoopInv, CallInv, Visiting
<1>2. /\ StructInv /\ sock \in [Slots -> SockRecords] /\ ready \subseteq Live(sock)
      /\ iterator \in [Contexts -> Ptr] /\ Sweep \in Contexts /\ Chain(sock, Live(sock), head)
      /\ \A c \in Contexts : iterator[c] # Null =>
           iterator[c] \in Live(sock) /\ sock[iterator[c]].context = c
      /\ toVisit \subseteq Live(sock) /\ cb.of \notin toVisit
      /\ Ahead(sock, toVisit, iterator[Sweep], cb.of, Sweep)
      /\ Visiting' = Null /\ cb.of # Null /\ Null \notin toVisit
  BY <1>0, <1>1, SweepIs, NoCallIs, SlotsAreNotNull, LiveTypes
  DEF LoopInv, LoopTypes, StructInv, SweepInv, Visiting
<1>3. /\ iterator' \in [Contexts -> Ptr]
      /\ \A c \in Contexts : iterator'[c] # Null =>
           iterator'[c] \in Live(sock) /\ sock[iterator'[c]].context = c
      /\ Ahead(sock, toVisit, iterator'[Sweep], Null, Sweep)
  <2>1. CASE iterator[Sweep] = cb.of
    <3>1. cb.of \in Live(sock) /\ sock[cb.of].context = Sweep
      BY <1>2, <2>1
    <3>2. /\ sock[cb.of].next \in Live(sock) \cup {Null} /\ sock[cb.of].next \in Ptr
          /\ sock[cb.of].next # Null => sock[sock[cb.of].next].context = Sweep
      BY <1>2, <3>1 DEF Chain, TwoWay, Live, Ptr
    <3>3. iterator' = [iterator EXCEPT ![Sweep] = sock[cb.of].next]
      BY <1>0, <2>1
    <3>4. /\ iterator' \in [Contexts -> Ptr] /\ iterator'[Sweep] = sock[cb.of].next
          /\ \A c \in Contexts : c # Sweep => iterator'[c] = iterator[c]
      BY <1>2, <3>2, <3>3
    <3>5. Ahead(sock, toVisit, sock[cb.of].next, Null, Sweep)
      <4>1. PICK S, L, hd, V, i, c : /\ S = sock /\ L = Live(sock) /\ hd = head /\ V = toVisit
                                     /\ i = cb.of /\ c = Sweep
        OBVIOUS
      <4>2. /\ Chain(S, L, hd) /\ V \in SUBSET L /\ i \in L \ V /\ S[i].context = c
            /\ Ahead(S, V, i, i, c)
        BY <1>2, <2>1, <3>1, <4>1
      <4>3. Ahead(S, V, S[i].next, Null, c)
        BY <4>2, AheadReturns
      <4> QED
        BY <4>1, <4>3
    <3> QED
      BY <1>2, <3>2, <3>4, <3>5
  <2>2. CASE iterator[Sweep] # cb.of
    BY <1>0, <1>2, <2>2 DEF Ahead
  <2> QED
    BY <2>1, <2>2
<1>4. StructInv' /\ Live(sock') = Live(sock) /\ Dead(sock') = Dead(sock)
  BY <1>0, <1>2, <1>3, SameIsSame, LoopKeeps
<1>5. DeadInv' /\ CallInv'
  BY <1>0, <1>1, <1>4 DEF LoopInv, DeadInv, CallInv
<1>6. OwedInv' /\ LoopTypes'
  BY <1>0, <1>4, NoCallIs DEF LoopInv, OwedInv, LoopTypes
<1>7. SweepInv'
  <2>1. Sweep' = Sweep
    BY <1>0 DEF Sweep
  <2>2. Ahead(sock', toVisit', iterator'[Sweep'], Visiting', Sweep')
    BY <1>0, <1>2, <1>3, <2>1
  <2> QED
    BY <1>0, <1>1, <1>2, <1>4, <2>2 DEF LoopInv, SweepInv
<1> QED
  BY <1>4, <1>5, <1>6, <1>7 DEF LoopInv

-----------------------------------------------------------------------------
(* The dispatch.                                                             *)

(* A step that but ends the callback, or takes a poll off the batch.         *)
LEMMA QuietStep ==
  ASSUME LoopInv, round \in {"timers", "sweep", "dispatch"}, round' = "dispatch",
         round = "dispatch" \/ sweeping = <<>>, cb' = NoCall, ready' \subseteq Live(sock),
         UNCHANGED <<sock, listVars, sweeping, last_write_failed, toVisit, owed>>
  PROVE  LoopInv'
<1>1. /\ sock' \in [Slots -> SockRecords] /\ SameLinks(sock, sock') /\ sweeping' = <<>>
      /\ UNCHANGED <<head, iterator, closed_head>>
  BY SameIsSame DEF LoopInv, StructInv, SweepInv, listVars
<1>2. StructInv' /\ DeadInv' /\ SweepInv' /\ Live(sock') = Live(sock)
  BY <1>1, StaysLinked
<1>3. CallInv' /\ OwedInv' /\ LoopTypes'
  BY <1>2, NoCallIs DEF LoopInv, CallInv, OwedInv, LoopTypes, Rounds
<1> QED
  BY <1>2, <1>3 DEF LoopInv

LEMMA PollStep ==
  ASSUME LoopInv, Poll
  PROVE  LoopInv'
<1>1. /\ round \in {"timers", "sweep"} /\ sweeping = <<>> /\ cb = NoCall /\ cb' = NoCall
      /\ round' = "dispatch" /\ ready' \subseteq Live(sock)
      /\ UNCHANGED <<sock, listVars, sweeping, last_write_failed, toVisit, owed>>
  BY OpenIsLive DEF Poll
<1> QED
  BY <1>1, QuietStep

LEMMA DispatchListenStep ==
  ASSUME LoopInv, NEW ls \in Slots, DispatchListen(ls)
  PROVE  LoopInv'
<1>1. /\ round = "dispatch" /\ cb = NoCall /\ ready' = ready \ {ls} /\ ready \subseteq Live(sock)
  BY DEF DispatchListen, Dispatching, LoopInv, StructInv
<1>2. ASSUME NEW s \in Fresh, Accept(ls, s) PROVE LoopInv'
  BY <1>1, <1>2, AcceptStep
<1>3. CASE UNCHANGED <<round, sock, listVars, sweeping, cb, last_write_failed, toVisit, owed>>
  BY <1>1, <1>3, QuietStep
<1> QED
  BY <1>2, <1>3 DEF DispatchListen

LEMMA ReturnFromWritableStep ==
  ASSUME LoopInv, ReturnFromWritable
  PROVE  LoopInv'
<1>0. /\ cb.in = "writable"
      /\ sock' = IF Closed(cb.of) THEN sock ELSE StopPollingWritable(cb.of)
      /\ cb' = IF Closed(cb.of) \/ ~cb.readable THEN NoCall ELSE [cb EXCEPT !.in = "recv"]
      /\ UNCHANGED <<round, head, iterator, closed_head, sweeping, ready, last_write_failed,
                     toVisit, owed>>
  BY DEF ReturnFromWritable, listVars
<1>1. /\ round = "dispatch" /\ cb.of \in Slots /\ sock[cb.of].mem = "live"
      /\ sock \in [Slots -> SockRecords] /\ cb \in CallRecords
      /\ ready \subseteq Live(sock) /\ sweeping = <<>>
  BY <1>0, NoCallIs DEF LoopInv, CallInv, LoopTypes, StructInv, SweepInv
<1>2. ~Closed(cb.of) => cb.of \in Live(sock)
  BY <1>1 DEF Closed, Marked, Live
<1>3. \/ sock' = sock
      \/ /\ sock' = Polling(sock, cb.of, sock[cb.of].events \cap {"R"})
         /\ ~last_write_failed \/ sock[cb.of].type = "shut"
  BY <1>0 DEF StopPollingWritable, IsShutDown
<1>4. /\ sock' \in [Slots -> SockRecords] /\ SameLinks(sock, sock')
      /\ \A i \in owed : sock'[i].type = "socket" /\ "W" \in sock'[i].events
  <2>1. \A i \in owed : i \in Slots /\ sock[i].type = "socket" /\ "W" \in sock[i].events
    BY DEF LoopInv, OwedInv, Live
  <2>2. CASE sock' = sock
    BY <1>1, <2>1, <2>2, SameIsSame
  <2>3. CASE /\ sock' = Polling(sock, cb.of, sock[cb.of].events \cap {"R"})
             /\ ~last_write_failed \/ sock[cb.of].type = "shut"
    <3>1. PICK S, T, s, E : /\ S = sock /\ T = sock' /\ s = cb.of
                            /\ E = sock[cb.of].events \cap {"R"}
      OBVIOUS
    <3>2. /\ S \in [Slots -> SockRecords] /\ S[s].mem = "live" /\ s \in Slots
          /\ E \in SUBSET {"R", "W"} /\ T = Polling(S, s, E)
      BY <1>1, <2>3, <3>1
    <3>3. T \in [Slots -> SockRecords] /\ SameLinks(S, T)
      BY ONLY <3>2, PollingIs
    <3>4. \A i \in Slots : i # cb.of => sock'[i] = sock[i]
      BY <1>1, <2>3 DEF Polling
    <3>5. cb.of \notin owed
      BY <1>0, <2>1, <2>3 DEF LoopInv, OwedInv
    <3> QED
      BY <2>1, <3>1, <3>3, <3>4, <3>5
  <2> QED
    BY <1>3, <2>2, <2>3
<1>5. StructInv' /\ DeadInv' /\ SweepInv' /\ Live(sock') = Live(sock)
  BY <1>0, <1>1, <1>4, StaysLinked
<1>6. /\ cb' \in CallRecords
      /\ cb' = NoCall \/ (cb'.in = "recv" /\ cb'.of = cb.of /\ ~Closed(cb.of))
  <2>1. CASE Closed(cb.of) \/ ~cb.readable
    BY <1>0, <2>1, NoCallIs
  <2>2. CASE ~(Closed(cb.of) \/ ~cb.readable)
    <3>1. cb' = [cb EXCEPT !.in = "recv"]
      BY <1>0, <2>2
    <3>2. cb' \in CallRecords /\ cb'.in = "recv" /\ cb'.of = cb.of
      BY <1>1, <3>1 DEF CallRecords
    <3> QED
      BY <2>2, <3>2
  <2> QED
    BY <2>1, <2>2
<1>7. CallInv'
  <2>1. sock'[cb.of].mem = "live"
    BY <1>1, <1>4 DEF SameLinks
  <2> QED
    BY <1>0, <1>1, <1>2, <1>5, <1>6, <2>1 DEF CallInv
<1>8. OwedInv'
  <2>1. cb'.in # "writable"
    BY <1>6, NoCallIs
  <2> QED
    BY <1>0, <1>4, <1>5, <2>1 DEF LoopInv, OwedInv
<1>9. LoopTypes'
  BY <1>0, <1>6 DEF LoopInv, LoopTypes
<1> QED
  BY <1>5, <1>7, <1>8, <1>9 DEF LoopInv

LEMMA ReturnStep ==
  ASSUME LoopInv, Return
  PROVE  LoopInv'
<1>0. cb.in \in {"open", "recv", "data", "end"} =>
        /\ round = "dispatch" /\ ready \subseteq Live(sock)
        /\ cb.in = "recv" => cb.of \in Live(sock)
        /\ cb.listener \in Ptr
  BY NoCallIs DEF LoopInv, CallInv, StructInv, LoopTypes, CallRecords
<1>1. CASE ReturnFromTimeout
  BY <1>1, ReturnFromTimeoutStep
<1>2. CASE ReturnFromOpen
  <2>1. round = "dispatch" /\ ready \subseteq Live(sock) /\ cb.listener \in Ptr
    BY <1>0, <1>2 DEF ReturnFromOpen
  <2>2. CASE cb' = NoCall /\ UNCHANGED <<round, sock, listVars, sweeping, ready,
                                         last_write_failed, toVisit, owed>>
    BY <2>1, <2>2, QuietStep
  <2>3. ASSUME NEW s \in Fresh, cb.listener # Null, Accept(cb.listener, s), UNCHANGED ready
        PROVE  LoopInv'
    <3>1. cb.listener \in Slots /\ ready' \subseteq ready
      BY <2>1, <2>3 DEF Ptr
    <3> QED
      BY <2>1, <2>3, <3>1, AcceptStep
  <2> QED
    BY <1>2, <2>2, <2>3 DEF ReturnFromOpen
<1>3. CASE ReturnFromWritable
  BY <1>3, ReturnFromWritableStep
<1>4. CASE ReceiveAfterWritable
  <2>1. /\ cb.in = "recv" /\ Receive(cb.of) /\ UNCHANGED <<round, sweeping, last_write_failed>>
    BY <1>4 DEF ReceiveAfterWritable
  <2> QED
    BY <1>0, <2>1, ReceiveStep
<1>5. CASE ReturnPlainly
  <2>1. /\ cb.in \in {"data", "end"} /\ cb' = NoCall
        /\ UNCHANGED <<round, sock, listVars, sweeping, ready, last_write_failed, toVisit, owed>>
    BY <1>5 DEF ReturnPlainly
  <2> QED
    BY <1>0, <2>1, QuietStep
<1> QED
  BY <1>1, <1>2, <1>3, <1>4, <1>5 DEF Return

-----------------------------------------------------------------------------
(* The rest of a round, and the loop's beginning and end.                    *)

(* A step of the loop that leaves its sockets alone.                         *)
LEMMA RoundStep ==
  ASSUME LoopInv, round \in {"none", "start", "ended"}, round' \in {"start", "timers", "freed"},
         UNCHANGED <<sock, listVars, sweeping, ready, cb, last_write_failed, toVisit, owed>>
  PROVE  LoopInv'
<1>1. /\ sock' \in [Slots -> SockRecords] /\ SameLinks(sock, sock') /\ sweeping' = <<>>
      /\ UNCHANGED <<head, iterator, closed_head>> /\ ready' \subseteq Live(sock)
      /\ cb' = NoCall
  BY SameIsSame DEF LoopInv, StructInv, SweepInv, CallInv, listVars
<1>2. StructInv' /\ DeadInv' /\ SweepInv' /\ Live(sock') = Live(sock)
  BY <1>1, StaysLinked
<1>3. CallInv' /\ OwedInv' /\ LoopTypes'
  BY <1>1, <1>2, NoCallIs DEF LoopInv, CallInv, OwedInv, LoopTypes, Rounds
<1> QED
  BY <1>2, <1>3 DEF LoopInv

LEMMA ListenStep ==
  ASSUME LoopInv, Listen
  PROVE  LoopInv'
<1>1. /\ round = "start" /\ round' = "timers"
      /\ (\E s \in Fresh : Create(s, Http, "listen", {"R"})) \/ UNCHANGED <<sock, head>>
      /\ UNCHANGED <<iterator, closed_head, sweeping, ready, cb, last_write_failed, toVisit, owed>>
  BY DEF Listen
<1>2. cb = NoCall /\ sweeping = <<>>
  BY <1>1 DEF LoopInv, CallInv, SweepInv
<1>3. ASSUME NEW s \in Fresh, Create(s, Http, "listen", {"R"}) PROVE LoopInv'
  <2>1. Http \in Contexts /\ {"R"} \in SUBSET {"R", "W"} /\ ready' \subseteq ready
    BY <1>1 DEF Contexts
  <2>2. StructInv' /\ DeadInv' /\ SweepInv' /\ OwedInv'
    BY <1>1, <1>2, <1>3, <2>1, CreatesOne
  <2>3. CallInv' /\ LoopTypes'
    BY <1>1, <1>2 DEF LoopInv, CallInv, LoopTypes, Rounds
  <2> QED
    BY <2>2, <2>3 DEF LoopInv
<1>4. CASE UNCHANGED <<sock, head>>
  BY <1>1, <1>4, RoundStep DEF listVars
<1> QED
  BY <1>1, <1>3, <1>4

LEMMA MainClosesStep ==
  ASSUME LoopInv, MainClosesListener
  PROVE  LoopInv'
<1>1. PICK s \in Live(sock) : Close(s)
  BY OpenIsLive DEF MainClosesListener
<1>2. /\ round = "timers" /\ cb = NoCall /\ UNCHANGED <<round, sweeping, cb, last_write_failed>>
  BY DEF MainClosesListener
<1>3. StructInv' /\ DeadInv' /\ SweepInv' /\ OwedInv'
  BY <1>1, <1>2, NoCallIs, ClosesOne
<1>4. CallInv' /\ LoopTypes'
  BY <1>2 DEF LoopInv, CallInv, LoopTypes
<1> QED
  BY <1>3, <1>4 DEF LoopInv

LEMMA CheckStep ==
  ASSUME LoopInv, Check
  PROVE  LoopInv'
<1>0. /\ round = "dispatch" /\ ready = {} /\ cb = NoCall /\ closed_head' = Null
      /\ sock' = [s \in Slots |-> IF s \in Dead(sock) THEN PollFree(s) ELSE sock[s]]
      /\ round' = "closing"
      /\ UNCHANGED <<head, iterator, sweeping, ready, cb, last_write_failed, toVisit, owed>>
  <2>1. round = "dispatch"
    BY DEF Check
  <2>2. ClosedList = Dead(sock)
    BY <2>1, ClosedListIs DEF LoopInv, DeadInv
  <2> QED
    BY <2>2 DEF Check
<1>1. /\ StructInv /\ sock \in [Slots -> SockRecords] /\ sweeping = <<>>
      /\ Chain(sock, Live(sock), head) /\ ready \subseteq Live(sock)
      /\ Live(sock) \subseteq Slots /\ Dead(sock) \subseteq Slots
      /\ Live(sock) \cap Dead(sock) = {}
      /\ \A s \in Dead(sock) : sock[s].uv = "closing"
  BY <1>0, LiveTypes DEF LoopInv, StructInv, SweepInv
<1>2. ASSUME NEW s \in Dead(sock)
      PROVE  /\ sock'[s] \in SockRecords /\ sock'[s].data = s
             /\ sock'[s].mem = sock[s].mem /\ sock'[s].prev = sock[s].prev
             /\ sock'[s].context = sock[s].context /\ sock'[s].uv = sock[s].uv
  <2>1. sock'[s] = [sock[s] EXCEPT !.data = s]
    BY <1>0, <1>1 DEF PollFree
  <2>2. sock[s] \in SockRecords /\ s \in Ptr
    BY <1>1, CallBounds
  <2> QED
    BY <2>1, <2>2 DEF SockRecords
<1>3. \A s \in Slots \ Dead(sock) : sock'[s] = sock[s]
  BY <1>0
<1>4. sock' \in [Slots -> SockRecords]
  <2>1. \A s \in Slots : sock'[s] \in SockRecords
    BY <1>1, <1>2, <1>3
  <2>2. sock' = [s \in Slots |-> sock'[s]]
    BY <1>0
  <2> QED
    BY <2>1, <2>2
<1>5. Live(sock') = Live(sock) /\ Dead(sock') = Dead(sock)
  BY <1>2, <1>3 DEF Live, Dead
<1>6. Chain(sock', Live(sock'), head')
  <2>1. PICK S, T, L, h : S = sock /\ T = sock' /\ L = Live(sock) /\ h = head
    OBVIOUS
  <2>2. /\ Chain(S, L, h)
        /\ \A i \in L : /\ T[i].context = S[i].context
                        /\ T[i].next = S[i].next /\ T[i].prev = S[i].prev
    BY <1>1, <1>3, <2>1
  <2>3. Chain(T, L, h)
    BY <2>2, ChainSame
  <2> QED
    BY <1>0, <1>5, <2>1, <2>3
<1>7. StructInv'
  <2>1. \A s \in Slots : /\ sock'[s].mem = "none" => sock'[s] = NoSock
                         /\ s \in Live(sock') => sock'[s].uv = "open"
                         /\ s \in Dead(sock') => sock'[s].uv = "closing"
    BY <1>1, <1>2, <1>3, <1>5 DEF StructInv, Dead
  <2>2. \A c \in Contexts : iterator'[c] # Null =>
          iterator'[c] \in Live(sock') /\ sock'[iterator'[c]].context = c
    BY <1>0, <1>1, <1>3, <1>5 DEF StructInv
  <2> QED
    BY <1>0, <1>1, <1>4, <1>5, <1>6, <2>1, <2>2 DEF StructInv
<1>8. DeadInv'
  BY <1>0, <1>2, <1>5 DEF DeadInv
<1>9. CallInv' /\ LoopTypes' /\ SweepInv'
  BY <1>0, <1>1 DEF LoopInv, CallInv, LoopTypes, SweepInv, Rounds
<1>10. OwedInv'
  BY <1>0, <1>1, <1>3, <1>5, NoCallIs DEF LoopInv, OwedInv
<1> QED
  BY <1>7, <1>8, <1>9, <1>10 DEF LoopInv

LEMMA CloseCallbacksStep ==
  ASSUME LoopInv, CloseCallbacks
  PROVE  LoopInv'
<1>0. /\ round = "closing" /\ round' \in {"timers", "ended"}
      /\ sock' = [s \in Slots |->
                    IF sock[s].uv # "closing" THEN sock[s]
                    ELSE IF sock[s].data = s THEN NoSock ELSE [sock[s] EXCEPT !.uv = "closed"]]
      /\ UNCHANGED <<head, iterator, closed_head, sweeping, ready, cb, last_write_failed, toVisit,
                     owed>>
  BY DEF CloseCallbacks, listVars
<1>1. /\ StructInv /\ sock \in [Slots -> SockRecords] /\ sweeping = <<>> /\ cb = NoCall
      /\ Chain(sock, Live(sock), head) /\ ready \subseteq Live(sock)
      /\ Live(sock) \subseteq Slots /\ Dead(sock) \subseteq Slots
      /\ Live(sock) \cap Dead(sock) = {} /\ closed_head = Null
  BY <1>0, LiveTypes DEF LoopInv, StructInv, SweepInv, CallInv, DeadInv
<1>2. \A s \in Slots : sock'[s] = IF s \in Dead(sock) THEN NoSock ELSE sock[s]
  <2> SUFFICES ASSUME NEW s \in Slots
               PROVE  sock'[s] = IF s \in Dead(sock) THEN NoSock ELSE sock[s]
    OBVIOUS
  <2>1. CASE s \in Dead(sock)
    <3>1. sock[s].uv = "closing" /\ sock[s].data = s
      BY <1>0, <2>1 DEF LoopInv, StructInv, DeadInv
    <3> QED
      BY <1>0, <2>1, <3>1
  <2>2. CASE s \in Live(sock)
    <3>1. sock[s].uv = "open"
      BY <2>2 DEF LoopInv, StructInv
    <3> QED
      BY <1>0, <1>1, <2>2, <3>1
  <2>3. CASE s \notin Live(sock) /\ s \notin Dead(sock)
    <3>1. sock[s].mem = "none"
      <4>1. sock[s] \in SockRecords /\ sock[s].mem # "live"
        BY <1>1, <2>3 DEF Live, Dead
      <4> QED
        BY <4>1 DEF SockRecords
    <3>2. sock[s].uv = "none"
      BY <3>1, NoSockIs DEF LoopInv, StructInv
    <3> QED
      BY <1>0, <2>3, <3>2
  <2> QED
    BY <2>1, <2>2, <2>3
<1>3. sock' \in [Slots -> SockRecords]
  <2>1. \A s \in Slots : sock'[s] \in SockRecords
    BY <1>1, <1>2, NoSockIs
  <2>2. sock' = [s \in Slots |-> sock'[s]]
    BY <1>0
  <2> QED
    BY <2>1, <2>2
<1>4. Live(sock') = Live(sock) /\ Dead(sock') = {}
  BY <1>1, <1>2, NoSockIs DEF Live, Dead
<1>5. Chain(sock', Live(sock'), head')
  <2>1. PICK S, T, L, h : S = sock /\ T = sock' /\ L = Live(sock) /\ h = head
    OBVIOUS
  <2>2. /\ Chain(S, L, h)
        /\ \A i \in L : /\ T[i].context = S[i].context
                        /\ T[i].next = S[i].next /\ T[i].prev = S[i].prev
    BY <1>1, <1>2, <2>1
  <2>3. Chain(T, L, h)
    BY <2>2, ChainSame
  <2> QED
    BY <1>0, <1>4, <2>1, <2>3
<1>6. StructInv'
  <2>1. \A s \in Slots : /\ sock'[s].mem = "none" => sock'[s] = NoSock
                         /\ s \in Live(sock') => sock'[s].uv = "open"
                         /\ s \in Dead(sock') => sock'[s].uv = "closing"
    BY <1>1, <1>2, <1>4 DEF StructInv
  <2>2. \A c \in Contexts : iterator'[c] # Null =>
          iterator'[c] \in Live(sock') /\ sock'[iterator'[c]].context = c
    <3>1. \A c \in Contexts : iterator[c] # Null =>
            /\ iterator[c] \in Live(sock) /\ sock[iterator[c]].context = c
            /\ iterator[c] \in Slots /\ iterator[c] \notin Dead(sock)
      BY <1>1 DEF StructInv
    <3> QED
      BY <1>0, <1>2, <1>4, <3>1
  <2> QED
    BY <1>0, <1>1, <1>3, <1>4, <1>5, <2>1, <2>2 DEF StructInv
<1>7. DeadInv'
  <2>1. round' # "closing" /\ closed_head' = Null
    BY <1>0, <1>1
  <2>2. \E rank \in [Slots -> Nat] : TRUE
    <3>1. [s \in Slots |-> 0] \in [Slots -> Nat]
      OBVIOUS
    <3> QED
      BY <3>1
  <2>3. Freeable(sock', Dead(sock'), closed_head')
    BY <1>4, <2>1, <2>2 DEF Freeable
  <2> QED
    BY <2>1, <2>3 DEF DeadInv
<1>8. CallInv' /\ LoopTypes' /\ SweepInv'
  BY <1>0, <1>1 DEF LoopInv, CallInv, LoopTypes, SweepInv, Rounds
<1>9. OwedInv'
  BY <1>0, <1>1, <1>2, <1>4, NoCallIs DEF LoopInv, OwedInv
<1> QED
  BY <1>6, <1>7, <1>8, <1>9 DEF LoopInv

-----------------------------------------------------------------------------
(* The invariant holds at the start, and every step keeps it.                *)
LEMMA LoopInvInit == SocketLoopInit => LoopInv
<1> SUFFICES ASSUME SocketLoopInit PROVE LoopInv
  OBVIOUS
<1>1. /\ round = "none" /\ sock = [s \in Slots |-> NoSock]
      /\ head = [c \in Contexts |-> Null] /\ iterator = [c \in Contexts |-> Null]
      /\ sweeping = <<>> /\ closed_head = Null /\ ready = {}
      /\ cb = NoCall /\ last_write_failed = FALSE /\ toVisit = {} /\ owed = {}
  BY DEF SocketLoopInit
<1>2. Live(sock) = {} /\ Dead(sock) = {} /\ sock \in [Slots -> SockRecords]
  BY <1>1, NoSockIs DEF Live, Dead
<1>3. \E rank \in [Slots -> Nat] : TRUE
  <2>1. [s \in Slots |-> 0] \in [Slots -> Nat]
    OBVIOUS
  <2> QED
    BY <2>1
<1>4. Chain(sock, Live(sock), head)
  <2>1. TwoWay(sock, {}, head) /\ Ordered(sock, {})
    BY <1>1, <1>3 DEF TwoWay, Ordered
  <2> QED
    BY <1>2, <2>1 DEF Chain
<1>5. StructInv
  BY <1>1, <1>2, <1>4, CallBounds DEF StructInv
<1>6. DeadInv
  BY <1>1, <1>2, <1>3 DEF DeadInv, Freeable
<1>7. CallInv /\ OwedInv /\ SweepInv
  BY <1>1, <1>2 DEF CallInv, OwedInv, SweepInv
<1>8. LoopTypes
  BY <1>1, NoCallIs DEF LoopTypes, Rounds
<1> QED
  BY <1>5, <1>6, <1>7, <1>8 DEF LoopInv

LEMMA LoopInvStep == LoopInv /\ [SocketLoopNext]_loopVars => LoopInv'
<1> SUFFICES ASSUME LoopInv, [SocketLoopNext]_loopVars PROVE LoopInv'
  OBVIOUS
<1>1. CASE CreateLoop \/ LoopFree
  BY <1>1, RoundStep DEF CreateLoop, LoopFree
<1>2. CASE Listen
  BY <1>2, ListenStep
<1>3. CASE LoopThread
  <2>1. CASE SweepBegins \/ SweepVisits \/ SweepNextContext
    BY <2>1, SweepBeginsStep, SweepVisitsStep, SweepNextContextStep
  <2>2. CASE Poll \/ Return \/ Check \/ CloseCallbacks
    BY <2>2, PollStep, ReturnStep, CheckStep, CloseCallbacksStep
  <2>3. CASE \E s \in Slots : DispatchError(s) \/ DispatchConnected(s) \/ DispatchListen(s)
                              \/ DispatchWritable(s) \/ DispatchReadable(s)
    BY <2>3, DispatchStep, DispatchListenStep
  <2> QED
    BY <1>3, <2>1, <2>2, <2>3 DEF LoopThread
<1>4. CASE Call
  BY <1>4, CallCloseStep, CallOnOneStep, CallAdoptStep, CallConnectStep DEF Call
<1>5. CASE MainClosesListener
  BY <1>5, MainClosesStep
<1>6. CASE UNCHANGED loopVars
  <2>1. UNCHANGED <<round, sock, head, iterator, closed_head, sweeping, ready, cb,
                    last_write_failed, toVisit, owed>>
    BY <1>6 DEF loopVars, listVars
  <2>2. Visiting' = Visiting /\ Sweep' = Sweep
    BY <2>1 DEF Visiting, Sweep
  <2>3. StructInv' /\ DeadInv' /\ CallInv' /\ OwedInv' /\ LoopTypes'
    BY <2>1 DEF LoopInv, StructInv, DeadInv, CallInv, OwedInv, LoopTypes
  <2>4. SweepInv'
    BY <2>1, <2>2 DEF LoopInv, SweepInv
  <2> QED
    BY <2>3, <2>4 DEF LoopInv
<1> QED
  BY <1>1, <1>2, <1>3, <1>4, <1>5, <1>6 DEF SocketLoopNext

(* The lists, the closed list, the callback under way, the owed calls and    *)
(* the sweep agree in every reachable state, for any number of sockets.      *)
THEOREM LoopInvariant == SocketLoopSpec => []LoopInv
<1> QED
  BY LoopInvInit, LoopInvStep, PTL DEF SocketLoopSpec

(* Whatever callbacks close, adopt or open in the middle of it: every        *)
(* pointer of the lists leads to a live socket, each list links its sockets  *)
(* both ways and holds the open ones, a ready poll is open, and what the     *)
(* closed list leads to is what is closed (context.c, loop.c).               *)
THEOREM SocketListsSound == SocketLoopSpec => []ListsSound
<1>1. LoopInv => ListsSound
  <2> SUFFICES ASSUME LoopInv PROVE ListsSound
    OBVIOUS
  <2>1. /\ StructInv /\ Chain(sock, Live(sock), head) /\ sock \in [Slots -> SockRecords]
        /\ Open = Live(sock)
    BY OpenIsLive DEF LoopInv, StructInv
  <2>2. ASSUME NEW s \in Live(sock)
        PROVE  /\ head[sock[s].context] # Null
               /\ IF sock[s].prev = Null THEN head[sock[s].context] = s
                  ELSE sock[s].prev \in Live(sock) /\ sock[sock[s].prev].next = s
               /\ sock[s].next # Null =>
                    /\ sock[s].next \in Live(sock)
                    /\ sock[sock[s].next].prev = s
                    /\ sock[sock[s].next].context = sock[s].context
    <3>1. head[sock[s].context] # Null
      <4>1. PICK S, L, hd : S = sock /\ L = Live(sock) /\ hd = head
        OBVIOUS
      <4> QED
        BY <2>1, <4>1, HeadThere
    <3> QED
      BY <2>1, <3>1 DEF Chain, TwoWay
  <2>3. \A c \in Contexts : (head[c] # Null => head[c] \in Live(sock))
                            /\ (iterator[c] # Null => iterator[c] \in Live(sock))
    BY <2>1 DEF StructInv, Chain, TwoWay
  <2>4. round # "closing" => ClosedList = {s \in Slots : sock[s].mem = "live" /\ Closed(s)}
    BY ClosedListIs DEF LoopInv, DeadInv, Dead, Closed, Marked
  <2>5. ASSUME NEW s \in Slots PROVE sock[s].uv # "closed"
    <3>1. CASE s \in Live(sock) \/ s \in Dead(sock)
      BY <2>1, <3>1 DEF StructInv
    <3>2. CASE s \notin Live(sock) /\ s \notin Dead(sock)
      <4>1. sock[s] \in SockRecords /\ sock[s].mem # "live"
        BY <2>1, <3>2 DEF Live, Dead
      <4>2. sock[s].mem = "none"
        BY <4>1 DEF SockRecords
      <4> QED
        BY <2>1, <4>2, NoSockIs DEF StructInv
    <3> QED
      BY <3>1, <3>2
  <2>6. ready \subseteq Live(sock)
    BY <2>1 DEF StructInv
  <2> QED
    BY <2>1, <2>2, <2>3, <2>4, <2>5, <2>6 DEF ListsSound
<1> QED
  BY <1>1, LoopInvariant, PTL

(* A sweep visits every socket that stays linked while it goes on, and none  *)
(* twice, although a timeout's callback may unlink any of them               *)
(* (us_internal_timer_sweep).                                                *)
THEOREM SweepVisitsEachOnce == SocketLoopSpec => []SweepVisitsOnce
<1>1. LoopInv => SweepVisitsOnce
  BY NoCallIs DEF LoopInv, SweepInv, SweepVisitsOnce, Ahead, Visiting
<1> QED
  BY <1>1, LoopInvariant, PTL

(* After a write that could not send everything a socket is polled for       *)
(* writable until it has been told, although the flag that says so belongs   *)
(* to the loop and other sockets clear it (us_socket_write).                 *)
THEOREM FailedWriteTold == SocketLoopSpec => []FailedWriteIsTold
<1>1. LoopInv => FailedWriteIsTold
  BY DEF LoopInv, OwedInv, FailedWriteIsTold
<1> QED
  BY <1>1, LoopInvariant, PTL

(* What the steps of the loop leave alone or only narrow.                    *)
MarksInv ==
  /\ makes \in Applications /\ internal \subseteq {"prepare", "check", "timer", "async"}
  /\ toVisit \subseteq Slots

LEMMA MarksInvInit == SocketLoopInit => MarksInv
BY DEF SocketLoopInit, MarksInv

LEMMA CloseNarrows == ASSUME NEW s, Close(s) PROVE toVisit' \subseteq toVisit
BY DEF Close

LEMMA ReceiveNarrows == ASSUME NEW s, Receive(s) PROVE toVisit' \subseteq toVisit
BY CloseNarrows DEF Receive

LEMMA MarksInvStep == MarksInv /\ [SocketLoopNext]_loopVars => MarksInv'
<1> SUFFICES ASSUME MarksInv, [SocketLoopNext]_loopVars PROVE MarksInv'
  OBVIOUS
<1>1. makes' = makes
  BY DEF SocketLoopNext, loopVars
<1>2. internal' \in {internal, {}, {"prepare", "check", "timer", "async"}}
  BY DEF SocketLoopNext, loopVars, CreateLoop, Listen, LoopFree
<1>3. toVisit' \subseteq toVisit \/ toVisit' = Open
  <2>1. CASE UNCHANGED loopVars
    BY <2>1 DEF loopVars
  <2>2. CASE CreateLoop \/ Listen \/ LoopFree
    BY <2>2 DEF CreateLoop, Listen, LoopFree
  <2>3. CASE SweepBegins \/ SweepVisits \/ SweepNextContext \/ Poll \/ Check \/ CloseCallbacks
    BY <2>3 DEF SweepBegins, SweepVisits, SweepNextContext, Poll, Check, CloseCallbacks
  <2>4. ASSUME NEW s \in Slots,
               DispatchError(s) \/ DispatchConnected(s) \/ DispatchListen(s)
               \/ DispatchWritable(s) \/ DispatchReadable(s)
        PROVE  toVisit' \subseteq toVisit
    BY <2>4, CloseNarrows, ReceiveNarrows DEF DispatchError, DispatchConnected, DispatchListen,
       Accept, DispatchWritable, DispatchReadable
  <2>5. CASE Return
    BY <2>5, ReceiveNarrows DEF Return, ReturnFromTimeout, ReturnFromOpen, Accept,
       ReturnFromWritable, ReceiveAfterWritable, ReturnPlainly
  <2>6. CASE Call
    BY <2>6, CloseNarrows DEF Call, CallClose, CallShutdown, CallTimeout, CallWriteFails,
       CallAdopt, CallConnect
  <2>7. CASE MainClosesListener
    BY <2>7, CloseNarrows DEF MainClosesListener
  <2> QED
    BY <2>1, <2>2, <2>3, <2>4, <2>5, <2>6, <2>7 DEF SocketLoopNext, LoopThread
<1>4. Open \subseteq Slots
  BY DEF Open
<1> QED
  BY <1>1, <1>2, <1>3, <1>4 DEF MarksInv

(* What is left of a sweep is an end of its order.                           *)
LEMMA SweepsAreSuffixes ==
  ASSUME sweeping \in {<<>>, <<Http>>, <<Ws, Http>>}
  PROVE  IsSuffix(sweeping, SweepOrder)
<1>1. Reverse(SweepOrder) = <<Http, Ws>>
  BY DEF Reverse, SweepOrder
<1>2. Reverse(<<>>) = <<>> /\ Reverse(<<Http>>) = <<Http>>
  BY DEF Reverse
<1>3. /\ IsPrefix(<<>>, <<Http, Ws>>) /\ IsPrefix(<<Http>>, <<Http, Ws>>)
      /\ IsPrefix(<<Http, Ws>>, <<Http, Ws>>)
  BY DEF IsPrefix
<1> QED
  BY <1>1, <1>2, <1>3 DEF IsSuffix, SweepOrder

(* The loop and its sockets hold what their types say: no pointer leaves the *)
(* memory for sockets, and a sweep is at an end of its order.                *)
THEOREM SocketLoopTypes == SocketLoopSpec => []SocketLoopTypeOK
<1>1. LoopInv /\ MarksInv => SocketLoopTypeOK
  <2> SUFFICES ASSUME LoopInv, MarksInv PROVE SocketLoopTypeOK
    OBVIOUS
  <2>1. /\ sock \in [Slots -> SockRecords] /\ head \in [Contexts -> Ptr]
        /\ iterator \in [Contexts -> Ptr] /\ ready \subseteq Slots /\ owed \subseteq Slots
    BY DEF LoopInv, StructInv, OwedInv, Live
  <2>2. closed_head \in Ptr
    BY DEF LoopInv, DeadInv, Freeable, Ptr, Dead
  <2>3. IsSuffix(sweeping, SweepOrder)
    BY SweepsAreSuffixes DEF LoopInv, LoopTypes
  <2>4. round \in Rounds /\ cb \in CallRecords /\ last_write_failed \in BOOLEAN
    BY DEF LoopInv, LoopTypes
  <2>5. makes \in Applications /\ toVisit \subseteq Slots
        /\ internal \subseteq {"prepare", "check", "timer", "async"}
    BY DEF MarksInv
  <2> QED
    BY <2>1, <2>2, <2>3, <2>4, <2>5 DEF SockRecords, Rounds, CallRecords, SocketLoopTypeOK
<1> QED
  BY <1>1, LoopInvInit, LoopInvStep, MarksInvInit, MarksInvStep, PTL DEF SocketLoopSpec
=============================================================================

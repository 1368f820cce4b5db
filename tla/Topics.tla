------------------------------- MODULE Topics -------------------------------
(***************************************************************************)
(* uWS::TopicTree: topics as nodes of a tree, published messages kept at   *)
(* the topics they trigger, and the drain that gives every subscriber, the *)
(* lowest pointer first, one batch.  A topic is its path, a subscriber its *)
(* address; a message is its messageId.                                    *)
(*                                                                         *)
(* A publish looks at its array before the first node of its walk and at   *)
(* every '+', and drains it there when it is full, in the middle of the    *)
(* message it publishes.                                                   *)
(*                                                                         *)
(* Five sequences of calls end in undefined behaviour or an endless loop,  *)
(* and the model with them (undefined).                                    *)
(***************************************************************************)
EXTENDS Naturals, Sequences, FiniteSets, SequencesExt, FiniteSetsExt

CONSTANTS
    Subscribers,  \* numbers from 1 on
    Filters,      \* topics that are subscribed to, sequences of segments
    Names,        \* topics that are published to
    MaxTriggered, \* 64
    IntBits,      \* 32, of the int that is shifted by a triggered topic's number
    MaxMessages,  \* messages (bound)
    MaxTopicCalls \* subscriptions and unsubscriptions (bound)

ASSUME TopicsAssumption ==
    /\ Subscribers \subseteq Nat \ {0} /\ IsFiniteSet(Subscribers) /\ Subscribers # {}
    /\ \A f \in Filters : f \in Seq(ToSet(f)) /\ f # <<>>
    /\ \A t \in Names : t # <<>> /\ \A i \in DOMAIN t : t[i] \notin {"+", "#"}
    /\ MaxTriggered \in Nat \ {0} /\ IntBits \in Nat /\ MaxMessages \in Nat /\ MaxTopicCalls \in Nat

Nodes == UNION {{SubSeq(f, 1, n) : n \in 1..Len(f)} : f \in Filters}
UINTPTR_MAX == Max(Subscribers) + 1

VARIABLES
    tree,         \* the nodes there are
    subs,         \* subscribers of each
    subscriptions,\* how often each topic is in each subscriber's list
    messages,
    messageId,
    triggered,
    drain,        \* subscribers the running drain has still to serve at each topic
    min,          \* and the next one, 0 when none runs
    publishing,   \* the topic that is being published to, or <<>>
    walkedTo,     \* and the '+' its walk has come to, or <<>> at the start
    toTrigger,    \* topics that the walk has still to trigger
    wildcards,    \* every '+' that it has still to come to
    calls,
    undefined,
    got,          \* messages each subscriber was sent
    due,          \* messages published while it was subscribed to a topic that matches
    split         \* history: messages that were drained in the middle of their publish

walkVars == <<publishing, walkedTo, toTrigger, wildcards>>
drainVars == <<drain, min, split>>
topicVars == <<tree, subs, subscriptions, messages, messageId, triggered, drainVars, walkVars,
               calls, undefined, got, due>>

TopicsInit ==
    /\ tree = {} /\ subs = [p \in Nodes |-> {}]
    /\ subscriptions = [s \in Subscribers |-> [p \in Nodes |-> 0]]
    /\ messages = [p \in Nodes |-> {}] /\ messageId = 1 /\ triggered = {}
    /\ drain = [p \in Nodes |-> {}] /\ min = 0 /\ split = {}
    /\ publishing = <<>> /\ walkedTo = <<>> /\ toTrigger = {} /\ wildcards = {}
    /\ calls = 0 /\ undefined = "no"
    /\ got = [s \in Subscribers |-> <<>>] /\ due = [s \in Subscribers |-> {}]

Idle == min = 0 /\ publishing = <<>> /\ undefined = "no"

-----------------------------------------------------------------------------
\* The walk of publish: a '#' below the nodes passed, and the nodes reached at the end,
\* where '+' stands for any one segment. Of two children '#' comes before '+', and that
\* before the one with the name of the segment.
Passes(p, t, n) == \A i \in 1..n : p[i] \in {t[i], "+"}
Reached(t) ==
    {p \in tree : \/ Len(p) = Len(t) /\ Passes(p, t, Len(t))
                  \/ Len(p) <= Len(t) /\ Last(p) = "#" /\ Passes(p, t, Len(p) - 1)}
Pluses(t) == {p \in tree : Len(p) <= Len(t) /\ Last(p) = "+" /\ Passes(p, t, Len(p))}
Rank(segment) == CASE segment = "#" -> 0 [] segment = "+" -> 1 [] OTHER -> 2
Earlier(p, q) ==
    \E i \in 1..Len(p) \cap 1..Len(q) :
        SubSeq(p, 1, i - 1) = SubSeq(q, 1, i - 1) /\ Rank(p[i]) < Rank(q[i])

Subscribe(s, f) ==
    /\ Idle /\ calls < MaxTopicCalls /\ subscriptions[s][f] < 2
    /\ tree' = tree \cup {SubSeq(f, 1, n) : n \in 1..Len(f)}
    /\ subs' = [subs EXCEPT ![f] = @ \cup {s}]
    /\ subscriptions' = [subscriptions EXCEPT ![s][f] = @ + 1]
    /\ calls' = calls + 1
    /\ UNCHANGED <<messages, messageId, triggered, drainVars, walkVars, undefined, got, due>>

\* trimTree of the topics P: they and the nodes above, as far as nothing is subscribed
\* to there and below.
Trimmed(S, P) ==
    {q \in tree : /\ \E p \in P : IsPrefix(q, p)
                  /\ \A r \in tree : IsPrefix(q, r) => S[r] = {}}
Untriggered(gone) == triggered \ gone
Trim(gone) ==
    /\ tree' = tree \ gone
    /\ triggered' = Untriggered(gone)
    /\ messages' = [p \in Nodes |-> IF p \in gone THEN {} ELSE messages[p]]

\* What s is to get and has got, or gets at the topics P.
StillDue(s, P) == due[s] \cap (ToSet(got[s]) \cup UNION {messages[p] : p \in P})

\* A topic twice in a list may be freed and still be in it.
Dangling(gone) == \E p \in gone, s \in Subscribers :
    subscriptions[s][p] > (IF s \in subs[p] THEN 1 ELSE 0)
Unsubscribe(s, f) ==
    LET S == [subs EXCEPT ![f] = @ \ {s}]
        gone == Trimmed(S, {f})
    IN /\ Idle /\ calls < MaxTopicCalls /\ f \in tree /\ subscriptions[s][f] > 0
       /\ subs' = S /\ Trim(gone)
       /\ subscriptions' = [subscriptions EXCEPT ![s][f] = @ - 1]
       /\ undefined' = IF Dangling(gone) THEN "dangling" ELSE "no"
       /\ due' = [due EXCEPT ![s] = StillDue(s, {p \in Nodes : s \in S[p]})]
       /\ calls' = calls + 1
       /\ UNCHANGED <<messageId, drainVars, walkVars, got>>

\* unsubscribeAll, when the socket of s closes: by itself, or in a drain because of
\* its backpressure. A topic freed in a drain shifts the triggered topics but not the
\* iterators of the drain.
Forgotten(s) == [p \in Nodes |-> subs[p] \ {s}]
AllTrimmed(s) == Trimmed(Forgotten(s), {p \in Nodes : subscriptions[s][p] > 0})
UnsubscribeAll(s) ==
    /\ subs' = Forgotten(s) /\ Trim(AllTrimmed(s))
    /\ subscriptions' = [subscriptions EXCEPT ![s] = [p \in Nodes |-> 0]]
    /\ undefined' = IF Dangling(AllTrimmed(s)) THEN "dangling"
                    ELSE IF min # 0 /\ AllTrimmed(s) \cap triggered # {} THEN "shifted"
                    ELSE "no"

SubscriberCloses(s) ==
    /\ Idle /\ subscriptions[s] # [p \in Nodes |-> 0]
    /\ UnsubscribeAll(s)
    /\ due' = [due EXCEPT ![s] = {}]
    /\ UNCHANGED <<messageId, drainVars, walkVars, calls, got>>

-----------------------------------------------------------------------------
\* Filter f as MQTT defines it, without the parent level for '#'.
Matches(f, t) ==
    IF f = <<>> \/ t = <<>> THEN f = t
    ELSE \/ Last(f) = "#" /\ Len(f) <= Len(t) /\ \A i \in 1..(Len(f) - 1) : f[i] \in {t[i], "+"}
         \/ Len(f) = Len(t) /\ \A i \in DOMAIN f : f[i] \in {t[i], "+"}

Publish(t) ==
    /\ Idle /\ messageId <= MaxMessages
    /\ publishing' = t /\ walkedTo' = <<>> /\ toTrigger' = Reached(t) /\ wildcards' = Pluses(t)
    /\ due' = [s \in Subscribers |->
                 IF \E f \in Filters : s \in subs[f] /\ Matches(f, t)
                 THEN due[s] \cup {messageId} ELSE due[s]]
    /\ UNCHANGED <<tree, subs, subscriptions, messages, messageId, triggered, drainVars, calls,
                   undefined, got>>

\* drain begins. Its rounds end when as many topics became empty as are triggered:
\* never, if one has no subscriber, and then the callback is called for none. The
\* topics of a round are marked in an integer, by shifting an int.
Served == UNION {subs[p] : p \in triggered}
DrainBegins ==
    /\ drain' = [p \in Nodes |-> IF p \in triggered THEN subs[p] ELSE {}]
    /\ min' = Min(Served)
    /\ split' = split \cup ({messageId} \cap UNION {messages[p] : p \in Nodes})
    /\ undefined' = IF \E p \in triggered : subs[p] = {} THEN "endless"
                    ELSE IF Cardinality(triggered) > IntBits THEN "shift" ELSE "no"

Cleared ==
    /\ triggered' = {}
    /\ messages' = [p \in Nodes |-> {}]

\* The walk has come to its start, or to a '+', which a subscriber that closed in a drain
\* may have freed.
Walks == publishing # <<>> /\ min = 0 /\ undefined = "no"
There == walkedTo \in tree \cup {<<>>}

WalksOnFreed ==
    /\ Walks /\ ~There
    /\ undefined' = "dangling"
    /\ UNCHANGED <<tree, subs, subscriptions, messages, messageId, triggered, drainVars, walkVars,
                   calls, got, due>>

\* An array that is full is drained, which only clears it if nobody is subscribed there.
DrainsAt(n) == n = MaxTriggered
PublishDrains ==
    /\ Walks /\ There /\ DrainsAt(Cardinality(triggered)) /\ Served # {}
    /\ DrainBegins
    /\ UNCHANGED <<tree, subs, subscriptions, messages, messageId, triggered, walkVars, calls,
                   got, due>>

\* Then the walk triggers the topics on its way to the next '+', or to its end.
BeforeNextPlus == {p \in toTrigger \cap tree : \A q \in wildcards \cap tree : Earlier(p, q)}
NextPlus(q) ==
    /\ \A r \in (wildcards \cap tree) \ {q} : Earlier(q, r) \/ IsPrefix(q, r)
    /\ walkedTo' = q /\ wildcards' = wildcards \ {q} /\ toTrigger' = toTrigger \ BeforeNextPlus
    /\ UNCHANGED <<publishing, messageId>>
WalkEnds ==
    /\ wildcards \cap tree = {}
    /\ publishing' = <<>> /\ walkedTo' = <<>> /\ toTrigger' = {} /\ wildcards' = {}
    /\ messageId' = messageId + 1

PublishTriggers ==
    LET full == DrainsAt(Cardinality(triggered))
        before == IF full THEN {} ELSE triggered
    IN /\ Walks /\ There /\ (full => Served = {})
       /\ messages' = [p \in Nodes |-> (IF full THEN {} ELSE messages[p])
                                        \cup (IF p \in BeforeNextPlus THEN {messageId} ELSE {})]
       /\ triggered' = before \cup BeforeNextPlus
       /\ undefined' =
            IF Cardinality(before \cup BeforeNextPlus) > MaxTriggered THEN "overflow" ELSE "no"
       /\ WalkEnds \/ \E q \in wildcards \cap tree : NextPlus(q)
       /\ UNCHANGED <<tree, subs, subscriptions, drainVars, calls, got, due>>

\* preCb and postCb of the loop, the drain of an iteration.
Commit ==
    /\ Idle /\ triggered # {}
    /\ IF Served # {} THEN DrainBegins /\ UNCHANGED <<triggered, messages>>
       ELSE Cleared /\ UNCHANGED <<drainVars, undefined>>
    /\ UNCHANGED <<tree, subs, subscriptions, messageId, walkVars, calls, got, due>>

\* One round of drain: the batch for min is the union of the messages of the topics
\* where min is next, in the order of their ids; then the least that is next anywhere.
AtMin == {p \in Nodes : drain[p] # {} /\ Min(drain[p]) = min}
NextMinOfServed(D) == Min({UINTPTR_MAX} \cup {Min(D[p]) : p \in {q \in AtMin : D[q] # {}}})
NextMin(D) == Min({UINTPTR_MAX} \cup {Min(D[p]) : p \in {q \in Nodes : D[q] # {}}})
InOrderOfIds(M) ==
    CHOOSE b \in [1..Cardinality(M) -> M] : \A i, j \in DOMAIN b : i < j => b[i] < b[j]
Batch == InOrderOfIds(UNION {messages[p] : p \in AtMin})
DrainNext ==
    LET D == [p \in Nodes |-> IF p \in AtMin THEN drain[p] \ {min} ELSE drain[p]]
    IN /\ min # 0 /\ min < UINTPTR_MAX /\ undefined = "no"
       /\ drain' = D /\ min' = NextMin(D)
       /\ got' = [got EXCEPT ![min] = @ \o Batch]
       /\ \/ /\ UNCHANGED <<tree, subs, subscriptions, messages, triggered, undefined, due>>
          \/ UnsubscribeAll(min) /\ due' = [due EXCEPT ![min] = {}]
       /\ UNCHANGED <<messageId, walkVars, split, calls>>

DrainEnds ==
    /\ min = UINTPTR_MAX /\ undefined = "no"
    /\ min' = 0 /\ Cleared
    /\ UNCHANGED <<tree, subs, subscriptions, messageId, drain, split, walkVars, calls, undefined,
                   got, due>>

TopicsNext ==
    \/ \E s \in Subscribers :
         \/ \E f \in Filters : Subscribe(s, f) \/ Unsubscribe(s, f)
         \/ SubscriberCloses(s)
    \/ \E t \in Names : Publish(t)
    \/ WalksOnFreed \/ PublishDrains \/ PublishTriggers \/ Commit \/ DrainNext \/ DrainEnds

TopicsSpec == TopicsInit /\ [][TopicsNext]_topicVars

-----------------------------------------------------------------------------
\* The tree holds the topics of its subscribers and what is above them, the lists of
\* the subscribers say the same, and only topics of the tree are triggered.
TopicsTypeOK ==
    undefined = "no" =>
        /\ tree = UNION {{SubSeq(f, 1, n) : n \in 1..Len(f)} : f \in {p \in Nodes : subs[p] # {}}}
        /\ \A p \in Nodes : subs[p] \subseteq {s \in Subscribers : subscriptions[s][p] > 0}
        /\ triggered \subseteq tree /\ Cardinality(triggered) <= MaxTriggered
        /\ {p \in Nodes : messages[p] # {}} \subseteq triggered
        /\ toTrigger \subseteq Nodes /\ wildcards \subseteq Nodes
        /\ messageId \in 1..(MaxMessages + 1) /\ min \in 0..UINTPTR_MAX
        /\ \A s \in Subscribers : got[s] \in Seq(1..MaxMessages)

\* A subscriber gets the messages in the order of the publishes, however its topics overlap,
\* and none twice but one whose publish was interrupted by a drain, which may have sent it
\* for the topics before a '+' when it is triggered for those behind (124-126, 151); and
\* between drains none that matched is missing that no topic it subscribes to holds
\* (publish, drain), as long as nothing undefined was done.
MessagesOnceInOrder ==
    undefined = "no" =>
        \A s \in Subscribers :
            /\ \A i, j \in DOMAIN got[s] : i < j =>
                 got[s][i] < got[s][j] \/ (got[s][i] = got[s][j] /\ got[s][i] \in split)
            /\ Idle => due[s] = StillDue(s, {p \in triggered : s \in subs[p]})

\* Up to MaxTriggered topics make a batch: an int marks each of those that a round serves
\* (TopicTreeDraft.h:309, 335).
MarksEveryTopic == undefined # "shift"
=============================================================================

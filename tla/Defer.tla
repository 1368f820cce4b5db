-------------------------------- MODULE Defer --------------------------------
(***************************************************************************)
(* uWS::Loop and what it shares with other threads: callbacks that threads *)
(* defer to the thread of the loop, the two queues they go to and the      *)
(* wakeup, which libuv coalesces.  The loop is made when its thread first  *)
(* asks for it and freed when the thread ends.                             *)
(***************************************************************************)
EXTENDS Naturals, Sequences, FiniteSets, SequencesExt

CONSTANTS
    Deferrers,  \* threads other than the loop's that defer callbacks
    MaxDefer    \* callbacks each defers, and the loop's own callbacks (bound)

ASSUME DeferAssumption == "loop" \notin Deferrers /\ MaxDefer \in Nat

Deferring == Deferrers \cup {"loop"}

VARIABLES
    loop,              \* none, waits, drains or freed
    deferQueues,       \* of callbacks <<thread, number>>
    currentDeferQueue,
    draining,          \* how many of the other queue have been called
    woken,             \* uv_async_send, seen by the next round
    towake,            \* threads between the unlock and us_wakeup_loop
    deferred,          \* callbacks deferred so far, of each thread
    ran                \* and those called, in the order they were

deferVars == <<loop, deferQueues, currentDeferQueue, draining, woken, towake, deferred, ran>>

DeferInit ==
    /\ loop = "none"
    /\ deferQueues = [q \in {0, 1} |-> <<>>] /\ currentDeferQueue = 0
    /\ draining = 0 /\ woken = FALSE /\ towake = {}
    /\ deferred = [t \in Deferring |-> 0] /\ ran = <<>>

\* Loop::get of the loop's thread; other threads know the loop from then on.
GetLoop ==
    /\ loop = "none"
    /\ loop' = "waits"
    /\ UNCHANGED <<deferQueues, currentDeferQueue, draining, woken, towake, deferred, ran>>

\* defer, up to the unlock. The loop's thread does so in a callback.
DeferCb(t) ==
    /\ loop \in (IF t = "loop" THEN {"drains"} ELSE {"waits", "drains"})
    /\ t \notin towake /\ deferred[t] < MaxDefer
    /\ deferred' = [deferred EXCEPT ![t] = @ + 1]
    /\ deferQueues' = [deferQueues EXCEPT ![currentDeferQueue] = Append(@, <<t, deferred'[t]>>)]
    /\ towake' = towake \cup {t}
    /\ UNCHANGED <<loop, currentDeferQueue, draining, woken, ran>>

WokenIfWaiting == woken \/ loop = "waits"
Woken == TRUE
WakeupLoop(t) ==
    /\ t \in towake
    /\ towake' = towake \ {t}
    /\ woken' = Woken
    /\ UNCHANGED <<loop, deferQueues, currentDeferQueue, draining, deferred, ran>>

\* wakeupCb: the queues are swapped, and the old one is drained without the mutex.
NoSwap(q) == q
Swapped(q) == (q + 1) % 2
WakeupCb ==
    /\ loop = "waits" /\ woken
    /\ loop' = "drains"
    /\ woken' = FALSE
    /\ currentDeferQueue' = Swapped(currentDeferQueue)
    /\ draining' = 0
    /\ UNCHANGED <<deferQueues, towake, deferred, ran>>

Old == Swapped(currentDeferQueue)
CallDeferred ==
    /\ loop = "drains" /\ draining < Len(deferQueues[Old]) /\ "loop" \notin towake
    /\ ran' = Append(ran, deferQueues[Old][draining + 1])
    /\ draining' = draining + 1
    /\ UNCHANGED <<loop, deferQueues, currentDeferQueue, woken, towake, deferred>>

OldKept(Q) == Q
OldCleared(Q) == [Q EXCEPT ![Old] = <<>>]
QueueDrained ==
    /\ loop = "drains" /\ draining = Len(deferQueues[Old]) /\ "loop" \notin towake
    /\ deferQueues' = OldCleared(deferQueues)
    /\ loop' = "waits"
    /\ UNCHANGED <<currentDeferQueue, draining, woken, towake, deferred, ran>>

\* LoopCleaner, when the thread of the loop ends: nothing polls any more. A thread that
\* still wakes the loop then uses freed memory, which callers have to rule out.
LoopFreed ==
    /\ loop = "waits" /\ towake = {}
    /\ loop' = "freed"
    /\ UNCHANGED <<deferQueues, currentDeferQueue, draining, woken, towake, deferred, ran>>

LoopRuns == GetLoop \/ WakeupCb \/ CallDeferred \/ QueueDrained
DeferNext ==
    \/ LoopRuns \/ LoopFreed
    \/ \E t \in Deferring : DeferCb(t) \/ WakeupLoop(t)

DeferFairness == WF_deferVars(LoopRuns) /\ \A t \in Deferring : WF_deferVars(WakeupLoop(t))

DeferSpec == DeferInit /\ [][DeferNext]_deferVars /\ DeferFairness

-----------------------------------------------------------------------------
DeferTypeOK ==
    /\ loop \in {"none", "waits", "drains", "freed"}
    /\ currentDeferQueue \in {0, 1} /\ woken \in BOOLEAN /\ towake \subseteq Deferring
    /\ \A q \in {0, 1} : deferQueues[q] \in Seq(Deferring \X (1..MaxDefer))
    /\ deferred \in [Deferring -> 0..MaxDefer]
    /\ ran \in Seq(Deferring \X (1..MaxDefer)) /\ draining \in Nat

\* What waits of the queue that is drained, and all callbacks in the order they are taken.
Left == IF loop # "drains" THEN <<>>
        ELSE SubSeq(deferQueues[Old], draining + 1, Len(deferQueues[Old]))
Line == (ran \o Left) \o deferQueues[currentDeferQueue]

\* The callbacks a thread defers are called in the order it deferred them, each once:
\* those called, with what is left of the old queue and with the other queue, are all
\* that were deferred, each thread's in order (Loop.h:29-43, 143-152).
DeferredInOrder ==
    /\ \A i, j \in 1..Len(Line) :
         i < j /\ Line[i][1] = Line[j][1] => Line[i][2] < Line[j][2]
    /\ ToSet(Line) = {x \in Deferring \X (1..MaxDefer) : x[2] <= deferred[x[1]]}

\* A callback was deferred and not called, and the loop's thread has not ended.
Uncalled ==
    /\ loop # "freed"
    /\ \E t \in Deferring : \E n \in 1..deferred[t] : <<t, n>> \notin ToSet(ran)
=============================================================================

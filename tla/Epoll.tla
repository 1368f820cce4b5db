------------------------------- MODULE Epoll -------------------------------
(***************************************************************************)
(* The other event loop of uSockets, on epoll or kqueue: the array of      *)
(* ready polls of a round, which callbacks invalidate by closing polls and *)
(* by resizing them, which may move them; and the count of polls that      *)
(* keeps the loop going.  (auto_expo is built with libuv: SocketLoop.)     *)
(***************************************************************************)
EXTENDS Naturals, Sequences, FiniteSets, SequencesExt

CONSTANT Places     \* addresses a poll may have, numbers from 1 on

ASSUME EpollAssumption == Places \subseteq Nat \ {0} /\ IsFiniteSet(Places)

EpollFilters == {"in", "out"}
NoPoll == 0

VARIABLES
    kqueue,      \* LIBUS_USE_KQUEUE: one ready entry per filter
    running,     \* us_loop_run: "wait", "dispatch", "returned"
    poll,        \* at each address: "none", "open", or "closed" and not yet freed
    interest,      \* what the poll at an address polls for
    kernel,      \* the address the kernel reports for each descriptor, the polls it has
    num_polls,
    ready_polls, \* the array: address and events of each entry
    current      \* current_ready_poll, from 1 on

epollVars == <<kqueue, running, poll, interest, kernel, num_polls, ready_polls, current>>

\* us_socket_context_listen has opened the first poll.
EpollInit ==
    /\ kqueue \in BOOLEAN
    /\ running = "wait"
    /\ poll \in {[p \in Places |-> IF p = q THEN "open" ELSE "none"] : q \in Places}
    /\ interest = [p \in Places |-> IF poll[p] = "open" THEN {"in"} ELSE {}]
    /\ kernel = {p \in Places : poll[p] = "open"}
    /\ num_polls = 1
    /\ ready_polls = <<>> /\ current = 1

\* What the kernel reports of a poll: one entry, or one per filter.
Entries(p) ==
    IF kqueue THEN {[at |-> p, ev |-> {f}] : f \in interest[p]}
    ELSE {[at |-> p, ev |-> E] : E \in SUBSET interest[p] \ {{}}}

Wait ==
    /\ running = "wait"
    /\ IF num_polls = 0
       THEN running' = "returned" /\ UNCHANGED <<ready_polls, current>>
       ELSE /\ running' = "dispatch"
            /\ \E S \in SUBSET UNION {Entries(p) : p \in kernel} :
                 /\ kqueue \/ \A x, y \in S : x # y => x.at # y.at
                 /\ ready_polls' \in SetToSeqs(S)
            /\ current' = 1
    /\ UNCHANGED <<poll, interest, kernel, num_polls>>

Entry == ready_polls[current]
Remaining == current <= Len(ready_polls)

\* us_internal_loop_update_pending_ready_polls: from the current entry on, as many as
\* the kernel may have given for one poll.
UpdateFirst(old, new) ==
    [i \in 1..Len(ready_polls) |->
        IF i >= current /\ ready_polls[i].at = old
           /\ ~\E j \in current..(i - 1) : ready_polls[j].at = old
        THEN [ready_polls[i] EXCEPT !.at = new] ELSE ready_polls[i]]
UpdatePending(old, new) ==
    LET most == IF kqueue THEN 2 ELSE 1
    IN [i \in 1..Len(ready_polls) |->
          IF i >= current /\ ready_polls[i].at = old
             /\ Cardinality({j \in current..(i - 1) : ready_polls[j].at = old}) < most
          THEN [ready_polls[i] EXCEPT !.at = new] ELSE ready_polls[i]]

\* An entry is passed over when its poll was stopped, or polls for none of it any more.
Filtered == Entry.ev \cap (IF Entry.at = NoPoll THEN {} ELSE interest[Entry.at])

Skip ==
    /\ running = "dispatch" /\ Remaining
    /\ Filtered = {}
    /\ current' = current + 1
    /\ UNCHANGED <<running, poll, interest, kernel, num_polls, ready_polls>>

\* A callback. What it does to the polls, once or more before the next entry:
Dispatched == running = "dispatch" /\ Remaining /\ Filtered # {}

CallbackReturns ==
    /\ Dispatched
    /\ current' = current + 1
    /\ UNCHANGED <<running, poll, interest, kernel, num_polls, ready_polls>>

\* us_create_poll, us_poll_start
StartPoll(p) ==
    /\ Dispatched /\ poll[p] = "none"
    /\ poll' = [poll EXCEPT ![p] = "open"]
    /\ interest' = [interest EXCEPT ![p] = {"in"}]
    /\ kernel' = kernel \cup {p}
    /\ num_polls' = num_polls + 1
    /\ UNCHANGED <<running, ready_polls, current>>

\* us_poll_change
ChangePoll(p) ==
    /\ Dispatched /\ poll[p] = "open"
    /\ \E E \in {{"in"}, {"in", "out"}} : interest' = [interest EXCEPT ![p] = E]
    /\ UNCHANGED <<running, poll, kernel, num_polls, ready_polls, current>>

\* us_poll_stop in us_socket_close
StopPollEpoll(p) ==
    /\ Dispatched /\ poll[p] = "open"
    /\ poll' = [poll EXCEPT ![p] = "closed"]
    /\ kernel' = kernel \ {p}
    /\ ready_polls' = UpdatePending(p, NoPoll)
    /\ UNCHANGED <<running, interest, num_polls, current>>

\* us_poll_resize of the callback's poll, when realloc moves it. A poll that polls for
\* nothing would keep its old address in the kernel; none is adopted in that state.
Resize(q) ==
    LET p == Entry.at IN
    /\ Dispatched /\ poll[p] = "open" /\ interest[p] # {} /\ poll[q] = "none"
    /\ poll' = [poll EXCEPT ![p] = "none", ![q] = "open"]
    /\ interest' = [interest EXCEPT ![p] = {}, ![q] = interest[p]]
    /\ kernel' = (kernel \ {p}) \cup {q}
    /\ ready_polls' = UpdatePending(p, q)
    /\ UNCHANGED <<running, num_polls, current>>

\* us_internal_loop_post: the closed sockets are freed, and counted off.
FreeNotCounted ==
    /\ running = "dispatch" /\ ~Remaining
    /\ poll' = [p \in Places |-> IF poll[p] = "closed" THEN "none" ELSE poll[p]]
    /\ interest' = [p \in Places |-> IF poll[p] = "closed" THEN {} ELSE interest[p]]
    /\ running' = "wait" /\ ready_polls' = <<>> /\ current' = 1
    /\ UNCHANGED <<kernel, num_polls>>
FreeClosed ==
    /\ running = "dispatch" /\ ~Remaining
    /\ poll' = [p \in Places |-> IF poll[p] = "closed" THEN "none" ELSE poll[p]]
    /\ interest' = [p \in Places |-> IF poll[p] = "closed" THEN {} ELSE interest[p]]
    /\ num_polls' = num_polls - Cardinality({p \in Places : poll[p] = "closed"})
    /\ running' = "wait" /\ ready_polls' = <<>> /\ current' = 1
    /\ UNCHANGED kernel

EpollNext ==
    /\ UNCHANGED kqueue
    /\ \/ Wait \/ Skip \/ CallbackReturns \/ FreeClosed
       \/ \E p \in Places : StartPoll(p) \/ ChangePoll(p) \/ StopPollEpoll(p) \/ Resize(p)

EpollSpec == EpollInit /\ [][EpollNext]_epollVars

-----------------------------------------------------------------------------
EpollTypeOK ==
    /\ kqueue \in BOOLEAN
    /\ running \in {"wait", "dispatch", "returned"}
    /\ poll \in [Places -> {"none", "open", "closed"}]
    /\ interest \in [Places -> SUBSET EpollFilters]
    /\ kernel \subseteq Places
    /\ num_polls \in 0..Cardinality(Places)
    /\ \A i \in 1..Len(ready_polls) : ready_polls[i].at \in Places \cup {NoPoll}
    /\ current \in 1..(Len(ready_polls) + 1)

\* No ready entry that is still to be dispatched, and no address the kernel holds, is
\* that of a poll that was closed or moved in the same round, and the loop runs as
\* long as a poll is left (us_poll_stop, us_poll_resize, us_loop_run).
ReadyPollsLive ==
    /\ \A i \in current + 1..Len(ready_polls) :
         ready_polls[i].at # NoPoll => poll[ready_polls[i].at] = "open"
    /\ kernel = {p \in Places : poll[p] = "open"}
    /\ running = "returned" => \A p \in Places : poll[p] = "none"
=============================================================================

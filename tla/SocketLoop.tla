----------------------------- MODULE SocketLoop -----------------------------
(***************************************************************************)
(* uSockets over libuv, as auto_expo is built: the sockets of a loop, kept *)
(* in one doubly linked list per context, the rounds of uv_run, and what a *)
(* callback may do to its own or any other socket while the loop is in the *)
(* middle of a sweep, of a dispatch or of a batch of ready polls.          *)
(*                                                                         *)
(* A callback is a state of its own: while cb is not Idle the application  *)
(* makes up to MaxCalls calls of the API and returns.  on_close makes no   *)
(* call.  Pointers are numbers: of slots, of contexts; 0 is null.          *)
(***************************************************************************)
EXTENDS Naturals, Sequences, FiniteSets, SequencesExt

CONSTANTS
    Slots,      \* memory for sockets, numbers from 1 on
    MaxTimeout, \* sweeps a timeout lasts at most (bound)
    MaxCalls,   \* API calls a callback makes (bound)
    Applications \* sets of API calls, one for each application considered

API == {"close", "shutdown", "timeout", "write", "adopt", "connect"}

Null == 0
Http == 101                         \* the two contexts
Ws == 102
Contexts == {Http, Ws}

ASSUME SocketLoopAssumption ==
    /\ Slots \subseteq Nat \ {Null} /\ Slots \cap Contexts = {}
    /\ MaxTimeout \in Nat \ {0} /\ MaxCalls \in Nat
    /\ Applications \subseteq SUBSET API

SweepOrder == <<Ws, Http>>          \* us_internal_loop_link adds at the head
Marked(c) == c                      \* prev of a closed socket is its context

VARIABLES
    makes,      \* the calls this application makes
    round,      \* where uv_run is: timers, poll, dispatch, check, closing, ended
    sock,       \* the slots
    internal,   \* the loop's own handles that exist
    head,       \* first socket of each context
    iterator,   \* and the one its sweep is at
    sweeping,   \* contexts the sweep has yet to finish
    closed_head,
    ready,      \* polls of this round yet to be dispatched
    cb,         \* the callback that runs
    last_write_failed,
    toVisit,    \* sockets linked since the sweep began that it has not visited
    owed        \* sockets whose last write failed and that were not called since

listVars == <<head, iterator, closed_head>>
loopVars == <<makes, round, internal, sock, listVars, sweeping, ready, cb, last_write_failed,
              toVisit, owed>>

NoSock == [mem |-> "none", type |-> "socket", events |-> {}, context |-> Http,
           prev |-> Null, next |-> Null, timeout |-> 0, uv |-> "none", data |-> Null]
NoCall == [of |-> Null, in |-> "none", listener |-> Null, readable |-> FALSE, calls |-> 0]

-----------------------------------------------------------------------------
(* The lists; S is the slots as they are in the middle of a step *)

Closed(s) == sock[s].prev = Marked(sock[s].context)
IsShutDown(s) == sock[s].type = "shut"
Open == {s \in Slots : sock[s].mem = "live" /\ ~Closed(s)}

\* us_internal_socket_context_link
Link(S, hd, c, s) ==
    [S EXCEPT ![s].context = c, ![s].timeout = 0, ![s].next = hd[c], ![s].prev = Null,
              ![IF hd[c] = Null THEN s ELSE hd[c]].prev = IF hd[c] = Null THEN Null ELSE s]

\* us_internal_socket_context_unlink
KeepIterator(it, s) == it
MoveIterator(it, s) ==
    LET c == sock[s].context IN IF it[c] = s THEN [it EXCEPT ![c] = sock[s].next] ELSE it
HeadWithout(s) ==
    LET c == sock[s].context
    IN IF sock[s].prev = sock[s].next THEN [head EXCEPT ![c] = Null]
       ELSE IF sock[s].prev = Null THEN [head EXCEPT ![c] = sock[s].next] ELSE head
UnlinkKeepsPrev(S, s) ==
    LET p == S[s].prev n == S[s].next
    IN [i \in Slots |-> IF p # n /\ i = p THEN [S[i] EXCEPT !.next = n] ELSE S[i]]
Unlink(S, s) ==
    LET p == S[s].prev n == S[s].next
    IN [i \in Slots |-> CASE p # n /\ i = p -> [S[i] EXCEPT !.next = n]
                          [] p # n /\ i = n -> [S[i] EXCEPT !.prev = p]
                          [] OTHER -> S[i]]

\* us_poll_start and us_poll_change; uv_poll_start with no event deactivates.
Polling(S, s, E) == [S EXCEPT ![s].events = E]

\* us_poll_stop: the handle closes, and is not freed by its close callback as yet.
StopPoll(S, s) == [S EXCEPT ![s].uv = "closing", ![s].events = {}, ![s].data = Null]

\* us_socket_close, us_listen_socket_close. libuv drops the poll from the batch that is
\* being dispatched.
Close(s) ==
    IF Closed(s) THEN UNCHANGED <<sock, listVars, ready, toVisit, owed>>
    ELSE /\ sock' = [StopPoll(Unlink(sock, s), s) EXCEPT
                        ![s].prev = Marked(sock[s].context), ![s].next = closed_head]
         /\ head' = HeadWithout(s)
         /\ iterator' = MoveIterator(iterator, s)
         /\ closed_head' = s
         /\ ready' = ready \ {s}
         /\ toVisit' = toVisit \ {s} /\ owed' = owed \ {s}

\* A new poll goes into the first free slot, as slots are interchangeable; into none
\* when they are used up (bound).
Fresh == {s \in Slots : /\ sock[s].mem = "none"
                        /\ \A t \in Slots : sock[t].mem = "none" => s <= t}
Create(s, c, type, E) ==
    LET S == [sock EXCEPT ![s] = [NoSock EXCEPT !.mem = "live", !.type = type,
                                                !.events = E, !.uv = "open"]]
    IN /\ sock' = Link(S, head, c, s)
       /\ head' = [head EXCEPT ![c] = s]

Enter(s, what) == cb' = [NoCall EXCEPT !.of = s, !.in = what]

-----------------------------------------------------------------------------
SocketLoopInit ==
    /\ makes \in Applications
    /\ round = "none"
    /\ internal = {}
    /\ sock = [s \in Slots |-> NoSock]
    /\ head = [c \in Contexts |-> Null] /\ iterator = [c \in Contexts |-> Null]
    /\ sweeping = <<>> /\ closed_head = Null /\ ready = {}
    /\ cb = NoCall /\ last_write_failed = FALSE
    /\ toVisit = {} /\ owed = {}

\* us_create_loop, and the contexts put into it.
CreateLoop ==
    /\ round = "none"
    /\ round' = "start"
    /\ internal' = {"prepare", "check", "timer", "async"}
    /\ UNCHANGED <<sock, listVars, sweeping, ready, cb, last_write_failed, toVisit, owed>>

\* bsd_create_listen_socket: the first IPv6 address a socket can be made for, else the
\* first IPv4 one; no second try when that one cannot be bound.
ListenSocketMade(v6, v4, bound) == (v6 \/ v4) /\ bound

\* us_socket_context_listen, then us_loop_run, which ends at once if that failed.
Listen ==
    /\ round = "start"
    /\ \E v6, v4, bound \in BOOLEAN :
         IF ListenSocketMade(v6, v4, bound)
         THEN \E s \in Fresh : Create(s, Http, "listen", {"R"})
         ELSE UNCHANGED <<sock, head>>
    /\ round' = "timers"
    /\ UNCHANGED <<internal, iterator, closed_head, sweeping, ready, cb, last_write_failed,
                   toVisit, owed>>

-----------------------------------------------------------------------------
(* us_internal_timer_sweep *)

Sweep == Head(sweeping)

SweepBegins ==
    /\ round = "timers" /\ sweeping = <<>> /\ cb = NoCall
    /\ sweeping' = SweepOrder
    /\ iterator' = [iterator EXCEPT ![SweepOrder[1]] = head[SweepOrder[1]]]
    /\ toVisit' = Open
    /\ round' = "sweep"
    /\ UNCHANGED <<sock, head, closed_head, ready, cb, last_write_failed, owed>>

SweepVisits ==
    /\ round = "sweep" /\ cb = NoCall /\ sweeping # <<>>
    /\ iterator[Sweep] # Null
    /\ LET s == iterator[Sweep] IN
         /\ toVisit' = toVisit \ {s}
         /\ IF sock[s].timeout = 0
            THEN UNCHANGED <<sock, cb>> /\ iterator' = [iterator EXCEPT ![Sweep] = sock[s].next]
            ELSE /\ sock' = [sock EXCEPT ![s].timeout = @ - 1]
                 /\ IF sock[s].timeout = 1
                    THEN Enter(s, "timeout") /\ UNCHANGED iterator
                    ELSE UNCHANGED cb /\ iterator' = [iterator EXCEPT ![Sweep] = sock[s].next]
    /\ UNCHANGED <<round, head, closed_head, sweeping, ready, last_write_failed, owed>>

SweepNextContext ==
    /\ round = "sweep" /\ cb = NoCall /\ sweeping # <<>>
    /\ iterator[Sweep] = Null
    /\ sweeping' = Tail(sweeping)
    /\ iterator' = IF sweeping' = <<>> THEN iterator
                   ELSE [iterator EXCEPT ![Head(sweeping')] = head[Head(sweeping')]]
    /\ UNCHANGED <<round, sock, head, closed_head, ready, cb, last_write_failed, toVisit, owed>>

-----------------------------------------------------------------------------
(* us_internal_dispatch_ready_poll *)

\* The batch epoll_wait returns. Any polled socket may be in it.
Poll ==
    /\ round \in {"timers", "sweep"} /\ sweeping = <<>> /\ cb = NoCall
    /\ round' = "dispatch"
    /\ ready' \in SUBSET {s \in Open : sock[s].events # {}}
    /\ UNCHANGED <<sock, listVars, sweeping, cb, last_write_failed, toVisit, owed>>

Dispatching(s) == round = "dispatch" /\ cb = NoCall /\ s \in ready

\* An error or hangup.
DispatchError(s) ==
    /\ Dispatching(s) /\ sock[s].type \in {"socket", "shut"}
    /\ Close(s)
    /\ UNCHANGED <<round, sweeping, cb, last_write_failed>>

DispatchConnected(s) ==
    /\ Dispatching(s) /\ sock[s].type = "connect"
    /\ sock' = [Polling(sock, s, {"R"}) EXCEPT ![s].type = "socket"]
    /\ ready' = ready \ {s}
    /\ Enter(s, "open")
    /\ UNCHANGED <<round, listVars, sweeping, last_write_failed, toVisit, owed>>

\* One turn of the accept loop; the callback's return goes on with it.
Accept(ls, s) ==
    /\ Create(s, sock[ls].context, "socket", {"R"})
    /\ cb' = [NoCall EXCEPT !.of = s, !.in = "open", !.listener = ls]
    /\ UNCHANGED <<round, iterator, closed_head, sweeping, last_write_failed, toVisit, owed>>

DispatchListen(ls) ==
    /\ Dispatching(ls) /\ sock[ls].type = "listen"
    /\ ready' = ready \ {ls}
    /\ \/ \E s \in Fresh : Accept(ls, s)
       \/ UNCHANGED <<round, sock, listVars, sweeping, cb, last_write_failed, toVisit, owed>>

DispatchWritable(s) ==
    /\ Dispatching(s) /\ sock[s].type \in {"socket", "shut"} /\ "W" \in sock[s].events
    /\ ready' = ready \ {s}
    /\ last_write_failed' = FALSE
    /\ owed' = owed \ {s}
    /\ \E too \in {FALSE, "R" \in sock[s].events} :
         cb' = [NoCall EXCEPT !.of = s, !.in = "writable", !.readable = too]
    /\ UNCHANGED <<round, sock, listVars, sweeping, toVisit>>

\* What recv returned: data, the end, an error; nothing if the call would block.
Receive(s) ==
    \/ Enter(s, "data") /\ UNCHANGED <<sock, listVars, toVisit, owed>> /\ ready' = ready \ {s}
    \/ cb' = NoCall /\ UNCHANGED <<sock, listVars, toVisit, owed>> /\ ready' = ready \ {s}
    \/ Close(s) /\ cb' = NoCall
    \/ /\ ~IsShutDown(s)
       /\ sock' = Polling(sock, s, sock[s].events \cap {"W"})
       /\ Enter(s, "end")
       /\ ready' = ready \ {s}
       /\ UNCHANGED <<listVars, toVisit, owed>>

DispatchReadable(s) ==
    /\ Dispatching(s) /\ sock[s].type \in {"socket", "shut"} /\ "R" \in sock[s].events
    /\ Receive(s)
    /\ UNCHANGED <<round, sweeping, last_write_failed>>

\* How a callback's return goes on, by what called it.
ReturnFromTimeout ==
    /\ cb.in = "timeout"
    /\ iterator' = IF iterator[Sweep] = cb.of
                   THEN [iterator EXCEPT ![Sweep] = sock[cb.of].next] ELSE iterator
    /\ cb' = NoCall
    /\ UNCHANGED <<round, sock, head, closed_head, sweeping, ready, last_write_failed, toVisit,
                   owed>>

ReturnFromOpen ==
    /\ cb.in = "open"
    /\ \/ cb' = NoCall /\ UNCHANGED <<round, sock, listVars, sweeping, ready,
                                      last_write_failed, toVisit, owed>>
       \/ \E s \in Fresh : /\ cb.listener # Null /\ ~Closed(cb.listener)
                          /\ Accept(cb.listener, s)
                          /\ UNCHANGED ready

StopPollingAlways(s) == Polling(sock, s, sock[s].events \cap {"R"})
StopPollingWritable(s) ==
    IF ~last_write_failed \/ IsShutDown(s)
    THEN Polling(sock, s, sock[s].events \cap {"R"}) ELSE sock

ReturnFromWritable ==
    /\ cb.in = "writable"
    /\ sock' = IF Closed(cb.of) THEN sock ELSE StopPollingWritable(cb.of)
    /\ cb' = IF Closed(cb.of) \/ ~cb.readable THEN NoCall ELSE [cb EXCEPT !.in = "recv"]
    /\ UNCHANGED <<round, listVars, sweeping, ready, last_write_failed, toVisit, owed>>

ReceiveAfterWritable ==
    /\ cb.in = "recv"
    /\ Receive(cb.of)
    /\ UNCHANGED <<round, sweeping, last_write_failed>>

ReturnPlainly ==
    /\ cb.in \in {"data", "end"}
    /\ cb' = NoCall
    /\ UNCHANGED <<round, sock, listVars, sweeping, ready, last_write_failed, toVisit, owed>>

Return == ReturnFromTimeout \/ ReturnFromOpen \/ ReturnFromWritable
          \/ ReceiveAfterWritable \/ ReturnPlainly

-----------------------------------------------------------------------------
(* What the application calls *)

Calling(call) == call \in makes /\ cb # NoCall /\ cb.in # "recv" /\ cb.calls < MaxCalls
Called == cb' = [cb EXCEPT !.calls = @ + 1]

CallClose(t) ==
    /\ Calling("close") /\ t \in Open /\ Called
    /\ Close(t)
    /\ UNCHANGED <<round, sweeping, last_write_failed>>

\* us_socket_shutdown
CallShutdown(t) ==
    /\ Calling("shutdown") /\ t \in Open /\ sock[t].type = "socket" /\ Called
    /\ sock' = [Polling(sock, t, sock[t].events \cap {"R"}) EXCEPT ![t].type = "shut"]
    /\ owed' = owed \ {t}
    /\ UNCHANGED <<round, listVars, sweeping, ready, last_write_failed, toVisit>>

\* us_socket_timeout; zero seconds disarm it, and no other number of seconds does.
CallTimeout(t) ==
    /\ Calling("timeout") /\ t \in Open /\ Called
    /\ \E sweeps \in 0..MaxTimeout : sock' = [sock EXCEPT ![t].timeout = sweeps]
    /\ UNCHANGED <<round, listVars, sweeping, ready, last_write_failed, toVisit, owed>>

\* us_socket_write when not all could be sent; else nothing changes here.
CallWriteFails(t) ==
    /\ Calling("write") /\ t \in Open /\ sock[t].type = "socket" /\ Called
    /\ last_write_failed' = TRUE
    /\ sock' = Polling(sock, t, {"R", "W"})
    /\ owed' = owed \cup {t}
    /\ UNCHANGED <<round, listVars, sweeping, ready, toVisit>>

\* us_socket_context_adopt_socket, of the callback's socket; with libuv the poll keeps
\* its memory.
CallAdopt ==
    LET s == cb.of IN
    /\ Calling("adopt") /\ cb.in # "open" /\ s \in Open /\ sock[s].context = Http /\ Called
    /\ sock' = Link(Unlink(sock, s), head, Ws, s)
    /\ head' = [HeadWithout(s) EXCEPT ![Ws] = s]
    /\ iterator' = MoveIterator(iterator, s)
    /\ toVisit' = toVisit \ {s}
    /\ UNCHANGED <<round, closed_head, sweeping, ready, last_write_failed, owed>>

\* us_socket_context_connect. bsd_create_connect_socket leaves it to the poll to tell
\* what became of the connection.
ConnectSocketMade(resolved, made) == resolved /\ made
CallConnect == \E s \in Fresh, resolved \in BOOLEAN, made \in BOOLEAN :
    /\ Calling("connect") /\ Called
    /\ IF ConnectSocketMade(resolved, made)
       THEN Create(s, Ws, "connect", {"W"}) ELSE UNCHANGED <<sock, head>>
    /\ UNCHANGED <<round, iterator, closed_head, sweeping, ready, last_write_failed, toVisit,
                   owed>>

Call == (\E t \in Slots : CallClose(t) \/ CallShutdown(t) \/ CallTimeout(t) \/ CallWriteFails(t))
        \/ CallAdopt \/ CallConnect

-----------------------------------------------------------------------------
(* The end of a round, and of the loop *)

\* main's us_listen_socket_close. Only while the loop's thread is blocked is this
\* anything but a data race.
MainClosesListener ==
    /\ round = "timers" /\ cb = NoCall
    /\ \E s \in Open : sock[s].type = "listen" /\ Close(s)
    /\ UNCHANGED <<round, sweeping, cb, last_write_failed>>

\* us_poll_free: a poll that libuv still closes is handed to the close callback.
PollFree(s) == IF sock[s].uv = "closing" THEN [sock[s] EXCEPT !.data = s] ELSE NoSock

\* check_cb: us_internal_free_closed_sockets. The list is all that next leads to from its
\* head, the least set that holds closed_head and the next of its members.
ClosedList ==
    {s \in Slots : \A C \in SUBSET Slots :
        {closed_head} \cup {sock[t].next : t \in C} \subseteq C \cup {Null} => s \in C}

Check ==
    /\ round = "dispatch" /\ ready = {} /\ cb = NoCall
    /\ sock' = [s \in Slots |->
                  IF s \in ClosedList THEN PollFree(s) ELSE sock[s]]
    /\ closed_head' = Null
    /\ round' = "closing"
    /\ UNCHANGED <<head, iterator, sweeping, ready, cb, last_write_failed, toVisit, owed>>

\* close_cb_free, then the next round if a poll is active.
CloseCallbacks ==
    /\ round = "closing"
    /\ sock' = [s \in Slots |->
                  IF sock[s].uv # "closing" THEN sock[s]
                  ELSE IF sock[s].data = s THEN NoSock ELSE [sock[s] EXCEPT !.uv = "closed"]]
    /\ round' = IF \E s \in Slots : sock[s].events # {} THEN "timers" ELSE "ended"
    /\ UNCHANGED <<listVars, sweeping, ready, cb, last_write_failed, toVisit, owed>>

\* us_loop_free at the end of the thread.
LoopFree ==
    /\ round = "ended"
    /\ round' = "freed"
    /\ internal' = {}
    /\ UNCHANGED <<sock, listVars, sweeping, ready, cb, last_write_failed, toVisit, owed>>

LoopThread ==
    \/ SweepBegins \/ SweepVisits \/ SweepNextContext
    \/ Poll
    \/ \E s \in Slots : DispatchError(s) \/ DispatchConnected(s) \/ DispatchListen(s)
                        \/ DispatchWritable(s) \/ DispatchReadable(s)
    \/ Return \/ Check \/ CloseCallbacks

SocketLoopNext ==
    /\ UNCHANGED makes
    /\ \/ CreateLoop \/ Listen \/ LoopFree
       \/ UNCHANGED internal /\ (LoopThread \/ Call \/ MainClosesListener)

SocketLoopSpec == SocketLoopInit /\ [][SocketLoopNext]_loopVars

-----------------------------------------------------------------------------
Ptr == Slots \cup {Null}

SocketLoopTypeOK ==
    /\ makes \in Applications
    /\ internal \subseteq {"prepare", "check", "timer", "async"}
    /\ round \in {"none", "freed", "start", "timers", "sweep", "dispatch", "closing", "ended"}
    /\ sock \in [Slots -> [mem : {"none", "live"}, type : {"socket", "shut", "listen", "connect"},
                           events : SUBSET {"R", "W"}, context : Contexts,
                           prev : Ptr \cup Contexts, next : Ptr, timeout : 0..MaxTimeout,
                           uv : {"none", "open", "closing", "closed"}, data : Ptr]]
    /\ head \in [Contexts -> Ptr] /\ iterator \in [Contexts -> Ptr] /\ closed_head \in Ptr
    /\ IsSuffix(sweeping, SweepOrder)
    /\ ready \subseteq Slots /\ toVisit \subseteq Slots /\ owed \subseteq Slots
    /\ cb \in [of : Ptr, in : {"none", "open", "data", "writable", "end", "timeout", "recv"},
               listener : Ptr, readable : BOOLEAN, calls : 0..MaxCalls]
    /\ last_write_failed \in BOOLEAN

\* Whatever callbacks close, adopt or open in the middle of it: every pointer of the
\* lists leads to a live socket, each list links its sockets both ways and holds
\* exactly the open ones, a ready poll is open, and the closed list holds the closed
\* sockets, so that each is freed once (context.c, loop.c).
ListsSound ==
    /\ \A s \in Open :
         /\ head[sock[s].context] # Null
         /\ IF sock[s].prev = Null THEN head[sock[s].context] = s
            ELSE sock[s].prev \in Open /\ sock[sock[s].prev].next = s
         /\ sock[s].next # Null =>
              /\ sock[s].next \in Open
              /\ sock[sock[s].next].prev = s
              /\ sock[sock[s].next].context = sock[s].context
    /\ \A c \in Contexts : (head[c] # Null => head[c] \in Open)
                           /\ (iterator[c] # Null => iterator[c] \in Open)
    /\ ready \subseteq Open
    /\ round # "closing" =>
         ClosedList = {s \in Slots : sock[s].mem = "live" /\ Closed(s)}
    /\ \A s \in Slots : sock[s].uv # "closed"

\* A sweep visits every socket that stays linked while it goes on, and none twice,
\* although a timeout's callback may unlink any of them (us_internal_timer_sweep).
SweepVisitsOnce ==
    /\ round = "sweep" /\ sweeping # <<>> /\ iterator[Sweep] # Null /\ cb = NoCall =>
         iterator[Sweep] \in toVisit
    /\ round = "sweep" /\ sweeping = <<>> => toVisit = {}

\* After a write that could not send everything the socket is polled for writable
\* until it has been told, although the flag that says so belongs to the loop and
\* other sockets clear it (us_socket_write, on_writable's dispatch).
FailedWriteIsTold == \A s \in owed \cap Open : "W" \in sock[s].events
=============================================================================

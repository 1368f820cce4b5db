----------------------------- MODULE WebSockets -----------------------------
(***************************************************************************)
(* The life of a WebSocket: App::ws upgrades a request, WebSocketContext   *)
(* handles what the loop tells of the socket, and the application sends,   *)
(* ends, closes and publishes from its handlers or in between.  A token is *)
(* <<socket, frame, part>>; a "big" frame has two parts, any other one.    *)
(***************************************************************************)
EXTENDS AsyncSocket

CONSTANTS
    Sockets,        \* numbers from 1 on
    MaxSends,       \* frames a socket sends (bound)
    MaxBackpressure \* behavior.maxBackpressure

ASSUME WebSocketsAssumption ==
    /\ Sockets \subseteq Nat \ {NoConn} /\ MaxSends \in Nat /\ MaxBackpressure \in Nat

VARIABLES
    behavior, \* the application gave an open handler
    ws,       \* the sockets, the cork, and what is torn
    does,     \* the callback that runs: what it has still to parse, and calls of its handler
    told      \* frames sent and close events of each socket, and a message after one

wsVars == <<ws, does, told>>
webSocketVars == <<behavior, wsVars>>

Nothing == [of |-> NoConn, in |-> "none", rest |-> <<>>, calls |-> <<>>]
WebSocketsInit ==
    /\ behavior \in BOOLEAN /\ does = Nothing
    /\ ws = [socket |-> [c \in Sockets |-> NewSocket], corked |-> NoConn, cork |-> <<>>,
             torn |-> {}]
    /\ told = [c \in Sockets |-> [sends |-> 0, closes |-> 0, late |-> FALSE]]

AtRest == does = Nothing
Is(S, c, flag) == flag \in S.socket[c].state
With(S, c, flag) == [S EXCEPT !.socket[c].state = @ \cup {flag}]

\* What a handler does: legal applications do not use a socket after its close event.
Scripts == {<<>>, <<"send">>, <<"send", "big">>, <<"send", "end">>, <<"end">>, <<"close">>}
-----------------------------------------------------------------------------
\* send: into the cork buffer if there is room, else written, and a frame that is written
\* while the socket has backpressure overtakes those in the cork buffer.
Overtakes(S, c) == S.corked = c /\ S.cork # <<>> /\ Drained(S, c).socket[c].buffer # <<>>
NotArmed(S, c) == S
Armed(S, c) == Arm(S, c, TRUE)
send(S, c, src) ==
    LET A == Armed(S, c)
        w == Write(A, c, src, FALSE)
    IN IF A.corked = c /\ Len(A.cork) + Len(src) < CorkMax
       THEN Result([A EXCEPT !.cork = @ \o src], Len(src), FALSE)
       ELSE IF Overtakes(A, c)
       THEN Result([w.net EXCEPT !.torn = @ \cup {c}], w.written, w.failed)
       ELSE w

Parts(c, kind) ==
    [i \in 1..IF kind = "big" THEN 2 ELSE 1 |-> <<c, told[c].sends + 1, i>>]
Sent(c, kind) == Wrote(send(ws, c, Parts(c, kind)), c, Parts(c, kind), FALSE)

\* The TCP FIN.
Shutdown(S, c) ==
    IF IsOpen(S, c) THEN [With(S, c, "shutdown") EXCEPT !.socket[c].polls = FALSE] ELSE S

\* end: the close frame, FIN if everything is out, the close event, once.
EndNow(S, c, failed) == IF S.corked # c /\ ~failed THEN Shutdown(S, c) ELSE S
End(c) ==
    IF Is(ws, c, "isShuttingDown") THEN UNCHANGED <<ws, told>>
    ELSE LET src == Parts(c, "close")
             r == send(With(ws, c, "isShuttingDown"), c, src)
         IN /\ ws' = EndNow(Wrote(r, c, src, FALSE), c, r.failed)
            /\ told' = [told EXCEPT ![c].sends = @ + 1, ![c].closes = @ + 1]

\* us_socket_close, and on_close: the close event unless end has emitted it.
OnCloseTold(c) == 1
OnClose(c) == IF Is(ws, c, "isShuttingDown") THEN 0 ELSE 1
CloseWs(c) ==
    /\ ws' = CloseConn(ws, c)
    /\ told' = [told EXCEPT ![c].closes = @ + OnClose(c)]
-----------------------------------------------------------------------------
\* App::ws: 101 and the marks are written corked; the socket is adopted, and the timeout, which
\* the request has taken off, is set again for an open handler only.
Upgrade(c) ==
    /\ AtRest /\ ws.socket[c].at = "none"
    /\ \E script \in IF behavior THEN Scripts ELSE {<<>>} :
         does' = [of |-> c, in |-> "upgrade", rest |-> <<>>, calls |-> script]
    /\ LET src == Parts(c, "101")
           S == [ws EXCEPT !.socket[c].at = "open", !.socket[c].timeout = behavior,
                           !.corked = c]
       IN ws' = Wrote(Write(S, c, src, FALSE), c, src, FALSE)
    /\ told' = [told EXCEPT ![c].sends = @ + 1]
    /\ UNCHANGED behavior

\* on_data of a websocket that does not shut down.
OnFrames(c) ==
    /\ AtRest /\ IsOpen(ws, c) /\ ~Is(ws, c, "isShuttingDown") /\ told[c].sends < MaxSends
    /\ \E data \in {<<"message">>, <<"message", "message">>, <<"ping">>, <<"close">>} :
         does' = [of |-> c, in |-> "data", rest |-> data, calls |-> <<>>]
    /\ ws' = [Arm(ws, c, TRUE) EXCEPT !.corked = c]
    /\ UNCHANGED <<behavior, told>>

\* Nothing is parsed of a socket that is closed or shuts down.
StopsOnlyClosed(c) == IsOpen(ws, c)
ParsesOn(c) == IsOpen(ws, c) /\ ~Is(ws, c, "isShuttingDown")
Parsed == does.in = "data" /\ does.calls = <<>> /\ does.rest # <<>> /\ ParsesOn(does.of)

MessageHandler ==
    /\ Parsed /\ Head(does.rest) = "message"
    /\ \E script \in Scripts : does' = [does EXCEPT !.rest = Tail(@), !.calls = script]
    /\ told' = [told EXCEPT ![does.of].late = @ \/ told[does.of].closes > 0]
    /\ UNCHANGED <<behavior, ws>>

Pong ==
    /\ Parsed /\ Head(does.rest) = "ping"
    /\ ws' = Sent(does.of, "pong") /\ told' = [told EXCEPT ![does.of].sends = @ + 1]
    /\ does' = [does EXCEPT !.rest = Tail(@)] /\ UNCHANGED behavior

CloseFrame ==
    /\ Parsed /\ Head(does.rest) = "close"
    /\ End(does.of) /\ does' = [does EXCEPT !.rest = Tail(@)] /\ UNCHANGED behavior

HandlerCalls ==
    /\ does.calls # <<>> /\ does' = [does EXCEPT !.calls = Tail(@)]
    /\ LET c == does.of IN
       CASE Head(does.calls) = "end"   -> End(c)
         [] Head(does.calls) = "close" -> CloseWs(c)
         [] OTHER -> /\ ws' = Sent(c, Head(does.calls))
                     /\ told' = [told EXCEPT ![c].sends = @ + 1]
    /\ UNCHANGED behavior

\* on_data ends: uncork, also of a closed socket, and the FIN that end has put off.
UncorkClosed(S) == [S EXCEPT !.corked = NoConn, !.cork = <<>>]
UncorkNow(c) == IF IsOpen(ws, c) THEN Uncork(ws, c, <<>>, FALSE).net ELSE UncorkClosed(ws)
FinWithBacklog(S, c) == Is(S, c, "isShuttingDown")
FinDue(S, c) == Is(S, c, "isShuttingDown") /\ S.socket[c].buffer = <<>>
DataDone ==
    LET c == does.of IN
    /\ does.in = "data" /\ does.calls = <<>> /\ (does.rest = <<>> \/ ~ParsesOn(c))
    /\ ws' = IF FinDue(UncorkNow(c), c) THEN Shutdown(UncorkNow(c), c) ELSE UncorkNow(c)
    /\ does' = Nothing /\ UNCHANGED <<behavior, told>>

\* The on_data of HTTP uncorks the new websocket; a FIN that is due is not sent.
UpgradeDone ==
    /\ does.in = "upgrade" /\ does.calls = <<>>
    /\ ws' = UncorkNow(does.of) /\ does' = Nothing /\ UNCHANGED <<behavior, told>>

\* on_writable.  The timeout is to be set anew when backpressure was drained, but the
\* comparison is the wrong way round: nothing sets it.
OnWritableWs(c) ==
    LET S == Drained([ws EXCEPT !.socket[c].polls = FALSE], c)
        drained == Len(S.socket[c].buffer) < Len(ws.socket[c].buffer)
    IN /\ AtRest /\ IsOpen(ws, c) /\ ws.socket[c].polls /\ Room(ws, c) > 0
       /\ ws' = IF FinDue(S, c) THEN Shutdown(S, c) ELSE S
       /\ IF drained /\ ~Is(ws, c, "isShuttingDown") /\ told[c].sends < MaxSends
          THEN \E script \in Scripts :
                   does' = [of |-> c, in |-> "drain", rest |-> <<>>, calls |-> script]
          ELSE UNCHANGED does
       /\ UNCHANGED <<behavior, told>>

\* The application acts between the callbacks.
Acts(c) ==
    /\ AtRest /\ ParsesOn(c) /\ told[c].sends < MaxSends
    /\ \E script \in Scripts \ {<<>>} :
           does' = [of |-> c, in |-> "app", rest |-> <<>>, calls |-> script]
    /\ UNCHANGED <<behavior, ws, told>>
CallsDone ==
    /\ does.in \in {"drain", "app"} /\ does.calls = <<>>
    /\ does' = Nothing /\ UNCHANGED <<behavior, ws, told>>

\* The drain of the topic tree writes a publication to a subscriber, which end has
\* unsubscribed, and closes one with too much backpressure.
PublishWs(c) ==
    LET src == Parts(c, "topic")
        r == Write(ws, c, src, FALSE)
        S == Wrote(r, c, src, FALSE)
    IN /\ AtRest /\ ParsesOn(c) /\ told[c].sends < MaxSends
       /\ IF r.failed /\ Len(S.socket[c].buffer) > MaxBackpressure
          THEN CloseWs(c)
          ELSE /\ ws' = IF r.failed THEN S ELSE Arm(S, c, TRUE)
               /\ told' = [told EXCEPT ![c].sends = @ + 1]
       /\ UNCHANGED <<behavior, does>>

\* on_end, when the client sends FIN, and on_timeout.
OnEndWs(c) == AtRest /\ IsOpen(ws, c) /\ CloseWs(c) /\ UNCHANGED <<behavior, does>>
OnTimeoutWs(c) ==
    AtRest /\ IsOpen(ws, c) /\ ws.socket[c].timeout /\ CloseWs(c) /\ UNCHANGED <<behavior, does>>

ReadsWs(c) ==
    /\ ws.socket[c].kernel # <<>> /\ ws' = Read(ws, c) /\ UNCHANGED <<behavior, does, told>>

HandlerRuns ==
    \/ MessageHandler \/ Pong \/ CloseFrame
    \/ HandlerCalls \/ DataDone \/ UpgradeDone \/ CallsDone
WebSocketsNext ==
    \/ HandlerRuns
    \/ \E c \in Sockets : \/ Upgrade(c) \/ OnFrames(c) \/ OnWritableWs(c) \/ Acts(c)
                          \/ PublishWs(c) \/ OnEndWs(c) \/ OnTimeoutWs(c) \/ ReadsWs(c)

\* Handlers return.  The sweep of the loop comes around whatever else the loop does, and
\* closes a socket that shuts down, as nothing sets its timeout anew.
Expires(c) == Is(ws, c, "isShuttingDown") /\ OnTimeoutWs(c)
WebSocketsFairness ==
    WF_wsVars(HandlerRuns) /\ \A c \in Sockets : SF_wsVars(Expires(c))
WebSocketsSpec == WebSocketsInit /\ [][WebSocketsNext]_webSocketVars /\ WebSocketsFairness
-----------------------------------------------------------------------------
\* The variables' values; a socket that shuts down has its timeout.
WebSocketsTypeOK ==
    /\ does.of \in Sockets \cup {NoConn} /\ ws.corked \in Sockets \cup {NoConn}
    /\ Len(ws.cork) <= CorkMax /\ ws.torn \subseteq Sockets
    /\ \A c \in Sockets :
         LET s == ws.socket[c] IN
         /\ s.at \in {"none", "open", "closed"} /\ s.state \subseteq {"isShuttingDown", "shutdown"}
         /\ Len(s.kernel) <= RoomMax /\ told[c].sends \in 0..MaxSends + 4
         /\ Is(ws, c, "isShuttingDown") => s.timeout

\* Whoever ends a websocket first, the application, the client's close frame or FIN, a timeout
\* or too much backpressure: the application gets one close event, none is missed and no
\* message follows it (WebSocket.h:101-140, WebSocketContext.h:227-251).
CloseToldOnce ==
    \A c \in Sockets :
        /\ told[c].closes = IF ws.socket[c].at = "closed" \/ Is(ws, c, "isShuttingDown")
                            THEN 1 ELSE 0
        /\ ~told[c].late

\* The FIN does not overtake what was written, the close frame being the last of it, and the
\* frames come to the client as they were sent (WebSocket.h:116-126, WebSocketContext.h:275-284,
\* 313-320).  Frames that overtook others in the cork buffer and chunks that were dropped are
\* in torn.
FinComesLast ==
    \A c \in Sockets \ ws.torn : IsOpen(ws, c) =>
        /\ StreamRight(ws, c)
        /\ Is(ws, c, "shutdown") =>
               Is(ws, c, "isShuttingDown") /\ ws.socket[c].wrote = ws.socket[c].kernel

\* A websocket was ended, and is not closed yet.
Ending == \E c \in Sockets : Is(ws, c, "isShuttingDown")
=============================================================================

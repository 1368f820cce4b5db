------------------------------- MODULE Server -------------------------------
(***************************************************************************)
(* uWebSockets and uSockets in one state space.  The specifications share  *)
(* no variables; a behaviour follows the one that part names and leaves    *)
(* the others in an initial state.  The inputs of this instance that are   *)
(* not numbers are defined here.                                           *)
(***************************************************************************)
EXTENDS SocketLoop, Epoll, Gcd, HttpServer, Defer, Topics, Frames, WebSockets,
        HttpParser, HttpRouter

\* Frames of every length of head, of one and of several parts, compressed and not.
Frame(op, fin, size) == [op |-> op, fin |-> fin, rsv1 |-> FALSE, wide |-> FALSE, size |-> size]
SomeFrames ==
    {Frame(TEXT, TRUE, 1), Frame(TEXT, FALSE, 3), Frame(CONTINUATION, TRUE, 2),
     Frame(PING, TRUE, 1), Frame(CLOSE, TRUE, 0),
     [Frame(BINARY, TRUE, 2) EXCEPT !.wide = TRUE],
     [Frame(TEXT, TRUE, 3) EXCEPT !.wide = TRUE, !.rsv1 = TRUE],
     [Frame(BINARY, FALSE, 0) EXCEPT !.rsv1 = TRUE]}

\* Topics that overlap, and names that one, two, or all of them match.
SomeFilters == {<<"a", "b">>, <<"a", "+">>, <<"#">>}
SomeNames == {<<"a", "b">>, <<"a">>, <<"c", "d">>}

\* Heads shorter than, as long as, and longer than the fallback buffer.
SomeRequests ==
    {[head |-> 2, sized |-> FALSE, body |-> 0], [head |-> 3, sized |-> TRUE, body |-> 2],
     [head |-> 2, sized |-> TRUE, body |-> 0], [head |-> 5, sized |-> TRUE, body |-> 1]}

\* Patterns that share segments, and the URLs that tell them apart.
SomePatterns ==
    {<<"">>, <<"a">>, <<":x">>, <<"a", ":y">>, <<":x", "b">>, <<"a", "*">>, <<"*">>,
     <<":x", ":y">>}
SomeUrls ==
    {<<"">>, <<"a">>, <<"b">>, <<"a", "b">>, <<"a", "c">>, <<"c", "b">>, <<"a", "b", "c">>}

\* Applications that make a few of the calls each, and servers of a few kinds of requests.
SomeApplications ==
    {{"close", "timeout", "adopt"}, {"close", "write", "shutdown"}, {"close", "connect"}}
SomeServers ==
    {{"end", "none"}, {"tryEnd"}, {"chunked"}, {"later"}, {"stream", "garbage"}}

VARIABLE part

vars == <<part, loopVars, epollVars, gcdVars, serverVars, deferVars, topicVars, framesVars,
          webSocketVars, parserVars, routes>>

\* A part that does not run has one initial state.
IdleAt(p, state) == part = p \/ state

Init ==
    /\ part \in {"loop", "epoll", "gcd", "http", "defer", "topics", "frames", "websockets",
                 "parser", "router"}
    /\ SocketLoopInit /\ IdleAt("loop", makes = CHOOSE a \in Applications : TRUE)
    /\ EpollInit /\ IdleAt("epoll", ~kqueue /\ poll[1] = "open")
    /\ HttpServerInit /\ IdleAt("http", serves = CHOOSE s \in Servers : TRUE)
    /\ FramesInit /\ IdleAt("frames", stream = <<>> /\ compression = "DISABLED")
    /\ WebSocketsInit /\ IdleAt("websockets", behavior)
    /\ HttpParserInit /\ IdleAt("parser", requests = <<>>)
    /\ GcdInit /\ DeferInit /\ TopicsInit /\ HttpRouterInit

Next ==
    /\ UNCHANGED part
    /\ part # "loop" => UNCHANGED loopVars
    /\ part # "epoll" => UNCHANGED epollVars
    /\ part # "gcd" => UNCHANGED gcdVars
    /\ part # "http" => UNCHANGED serverVars
    /\ part # "defer" => UNCHANGED deferVars
    /\ part # "topics" => UNCHANGED topicVars
    /\ part # "frames" => UNCHANGED framesVars
    /\ part # "websockets" => UNCHANGED webSocketVars
    /\ part # "parser" => UNCHANGED parserVars
    /\ part # "router" => UNCHANGED routes
    /\ \/ part = "loop" /\ SocketLoopNext
       \/ part = "epoll" /\ EpollNext
       \/ part = "gcd" /\ GcdNext
       \/ part = "http" /\ HttpServerNext
       \/ part = "defer" /\ DeferNext
       \/ part = "topics" /\ TopicsNext
       \/ part = "frames" /\ FramesNext
       \/ part = "websockets" /\ WebSocketsNext
       \/ part = "parser" /\ HttpParserNext
       \/ part = "router" /\ HttpRouterNext

\* The fairness of the part that runs; the others make no step.
Fairness ==
    /\ WF_ioVars(part = "http" /\ Callback)
    /\ \A c \in Conns : /\ WF_ioVars(part = "http" /\ OnWritable(c))
                        /\ WF_ioVars(part = "http" /\ ClientReads(c))
    /\ WF_deferVars(part = "defer" /\ LoopRuns)
    /\ \A t \in Deferring : WF_deferVars(part = "defer" /\ WakeupLoop(t))
    /\ WF_wsVars(part = "websockets" /\ HandlerRuns)
    /\ \A c \in Sockets : SF_wsVars(part = "websockets" /\ Expires(c))

Spec == Init /\ [][Next]_vars /\ Fairness
-----------------------------------------------------------------------------
\* The state of every part has the types its variables stand for.
ServerTypeOK ==
    /\ SocketLoopTypeOK /\ EpollTypeOK /\ GcdTypeOK /\ HttpServerTypeOK /\ DeferTypeOK
    /\ TopicsTypeOK /\ FramesTypeOK /\ WebSocketsTypeOK /\ HttpParserTypeOK

\* What the library has taken up gets done: the backlog of a connection drains when its client
\* reads on (AsyncSocket.h, HttpContext.h:251-283), an ended WebSocket is closed whether or not
\* its client answers, reads or sends FIN (WebSocket.h:101-140), and a deferred callback is
\* called (Loop.h:29-43, 143-152).
Waiting == Backlog \/ Ending \/ Uncalled
ServerProgress == Waiting ~> ~Waiting
=============================================================================

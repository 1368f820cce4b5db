----------------------------- MODULE HttpServer -----------------------------
(***************************************************************************)
(* HTTP over one event loop: uWS::HttpContext and HttpResponse, which is   *)
(* an AsyncSocket.  A token is <<connection, request, piece>>.             *)
(*                                                                         *)
(* A request is named for what its handler does.  auto_expo has handlers   *)
(* that answer at once, "end"; the others are those the library is made    *)
(* for.  "none" has no route, "garbage" is what the parser refuses.        *)
(***************************************************************************)
EXTENDS AsyncSocket

CONSTANTS
    Conns,       \* connections
    Servers,     \* sets of kinds of requests, one for each server considered
    MaxRequests  \* requests of a connection (bound)

RequestKinds == {"end", "chunked", "tryEnd", "later", "stream", "none", "garbage"}

ASSUME HttpServerAssumption ==
    /\ Servers \subseteq SUBSET RequestKinds /\ Conns \subseteq Nat \ {NoConn}
    /\ MaxRequests \in Nat

VARIABLES
    serves, \* the requests of this server
    net,    \* the connections' sockets, the cork, and what is torn
    handling, \* the callback that runs: what it has still to parse and to call
    sent,   \* requests made, and whether a body is owed, of each client
    fate    \* of the process

ioVars == <<net, handling, sent, fate>>
serverVars == <<serves, ioVars>>

NoData == [of |-> NoConn, in |-> "none", rest |-> <<>>, calls |-> <<>>]

-----------------------------------------------------------------------------
HttpServerInit ==
    /\ serves \in Servers
    /\ net = [socket |-> [c \in Conns |-> NewSocket], corked |-> NoConn, cork |-> <<>>,
              torn |-> {}]
    /\ handling = NoData
    /\ sent = [c \in Conns |-> [n |-> 0, owes |-> FALSE]]
    /\ fate = "runs"

Quiet == handling = NoData /\ fate = "runs"
Has(c, flag) == flag \in net.socket[c].state
Flagged(S, c, flag) == [S EXCEPT !.socket[c].state = @ \cup {flag}]
HasResponded(S, c) == "PENDING" \notin S.socket[c].state
Piece(c, name) == <<c, net.socket[c].request, name>>

\* markDone
MarkDone(S, c) ==
    [S EXCEPT !.socket[c].on = @ \ {"onAborted", "onWritable"},
              !.socket[c].state = @ \ {"PENDING"}]

(* HttpResponse: the calls a handler makes are in handling.calls, each one write. *)

EndCalls == <<"status", "length", "body">>
TryEndCalls == <<"status", "length", "try">>
ChunkedCalls == <<"status", "chunked", "chunk", "chunk", "0">>

CallMade == handling' = [handling EXCEPT !.calls = Tail(@)]

\* writeStatus, writeMark and the length, once for a response.
FlagOf == [status |-> "STATUS_CALLED", length |-> "END_CALLED", chunked |-> "WRITE_CALLED"]
WriteHead ==
    LET c == handling.of name == Head(handling.calls) src == <<Piece(c, name)>>
    IN /\ handling.calls # <<>> /\ name \in DOMAIN FlagOf
       /\ net' = IF Has(c, FlagOf[name]) THEN net
                 ELSE Wrote(Write(Flagged(net, c, FlagOf[name]), c, src, FALSE), c, src, FALSE)
       /\ CallMade
       /\ UNCHANGED <<sent, fate>>

\* write
WriteChunk ==
    LET c == handling.of src == <<Piece(c, "chunk")>> r == Write(net, c, src, FALSE)
        S == Wrote(r, c, src, FALSE)
    IN /\ handling.calls # <<>> /\ Head(handling.calls) = "chunk"
       /\ net' = IF r.failed THEN Arm(S, c, TRUE) ELSE S
       /\ CallMade
       /\ UNCHANGED <<sent, fate>>

\* internalEnd after write: the terminating chunk.
EndChunks ==
    LET c == handling.of src == <<Piece(c, "0")>>
    IN /\ handling.calls # <<>> /\ Head(handling.calls) = "0"
       /\ net' = Arm(MarkDone(Wrote(Write(net, c, src, FALSE), c, src, FALSE), c), c, TRUE)
       /\ CallMade
       /\ UNCHANGED <<sent, fate>>

\* internalEnd without write: all of the body, or for tryEnd what is left of it.
TimeoutIfFailed(S, c, done, failed) == IF done /\ ~failed THEN S ELSE Arm(S, c, TRUE)
TimeoutAtEnd(S, c, done, failed) ==
    IF done \/ failed THEN Arm(S, c, TRUE) ELSE S
EndBody ==
    LET c == handling.of
        try == Head(handling.calls) = "try"
        all == IF try THEN <<Piece(c, "body1"), Piece(c, "body2")>> ELSE <<Piece(c, "body")>>
        src == Drop(all, net.socket[c].offset)
        r == Write(net, c, src, try)
        O == [Wrote(r, c, src, try) EXCEPT !.socket[c].offset = @ + r.written]
        done == O.socket[c].offset = Len(all)
        A == TimeoutAtEnd(O, c, done, r.failed \/ r.written < Len(src))
    IN /\ handling.calls # <<>> /\ Head(handling.calls) \in {"body", "try"}
       /\ net' = IF done THEN MarkDone(A, c)
                 ELSE IF try THEN [A EXCEPT !.socket[c].on = {"onAborted", "onWritable"}]
                 ELSE A
       /\ CallMade
       /\ UNCHANGED <<sent, fate>>

-----------------------------------------------------------------------------
(* HttpContext *)

\* on_open
OnOpen(c) ==
    /\ Quiet /\ net.socket[c].at = "none"
    /\ net' = [net EXCEPT !.socket[c].at = "open", !.socket[c].timeout = TRUE]
    /\ UNCHANGED <<handling, sent, fate>>

\* A client sends "fin" after "stream", and nowhere else.
Legal(data, owes) ==
    \A i \in DOMAIN data :
        (data[i] = "fin") <=> (IF i = 1 THEN owes ELSE data[i - 1] = "stream")

\* on_data begins: the socket is corked, whatever the cork buffer holds.
OnData(c) ==
    /\ Quiet /\ IsOpen(net, c)
    /\ \E data \in BoundedSeq(serves \cup {"fin"}, 2) \ {<<>>} :
         LET n == Cardinality({i \in DOMAIN data : data[i] # "fin"})
         IN /\ Legal(data, sent[c].owes) /\ sent[c].n + n <= MaxRequests
            /\ sent' = [sent EXCEPT ![c] = [n |-> @.n + n, owes |-> Last(data) = "stream"]]
            /\ handling' = [of |-> c, in |-> "data", rest |-> data, calls |-> <<>>]
    /\ net' = [net EXCEPT !.corked = c, !.torn = IF net.cork = <<>> THEN @ ELSE @ \cup {c}]
    /\ UNCHANGED fate

Parses == handling.in = "data" /\ handling.calls = <<>> /\ handling.rest # <<>>

\* A socket closed in its own on_data: nothing more is parsed, and nothing uncorked.
CloseInData ==
    /\ net' = CloseConn(net, handling.of)
    /\ handling' = NoData
    /\ UNCHANGED <<sent, fate>>

\* on_data's request handler, up to what the route's handler does.
Busy == ~HasResponded(net, handling.of)
OnRequest ==
    LET c == handling.of
        R == [Arm(net, c, FALSE) EXCEPT !.socket[c].offset = 0]
        P == [R EXCEPT !.socket[c].state = {"PENDING"}, !.socket[c].request = @ + 1]
        Handle(kind, on, calls) ==
            /\ Head(handling.rest) = kind
            /\ net' = [P EXCEPT !.socket[c].on = @ \cup on]
            /\ handling' = [handling EXCEPT !.in = "handler", !.rest = Tail(@), !.calls = calls]
    IN /\ Parses /\ ~Busy
       /\ \/ Handle("end", {}, EndCalls)
          \/ Handle("tryEnd", {}, TryEndCalls)
          \/ Handle("chunked", {}, ChunkedCalls)
          \/ Handle("later", {"onAborted"}, <<>>)
          \/ Handle("stream", {"onAborted", "inStream"}, <<>>)
       /\ UNCHANGED <<sent, fate>>

OnRefused ==
    /\ Parses
    /\ Head(handling.rest) \in {"none", "garbage"} \/ (Head(handling.rest) # "fin" /\ Busy)
    /\ CloseInData

\* on_data's request handler, from where the route's handler has returned.
HandlerReturns ==
    LET c == handling.of
    IN /\ handling.in = "handler" /\ handling.calls = <<>>
       /\ IF Busy /\ "onAborted" \notin net.socket[c].on
          THEN fate' = "terminated" /\ handling' = NoData /\ net' = net
          ELSE /\ handling' = [handling EXCEPT !.in = "data"]
               /\ net' = IF Busy /\ "inStream" \in net.socket[c].on
                         THEN Arm(net, c, TRUE) ELSE net
               /\ fate' = fate
       /\ UNCHANGED sent

\* on_data's data handler, for the last data of a body: the application answers.
OnBody ==
    LET c == handling.of
    IN /\ Parses /\ Head(handling.rest) = "fin"
       /\ net' = [Arm(net, c, TRUE) EXCEPT !.socket[c].on = @ \ {"inStream"}]
       /\ handling' = [handling EXCEPT !.rest = Tail(@), !.calls = EndCalls]
       /\ UNCHANGED <<sent, fate>>

\* on_data ends, and so does HttpResponse::cork: both uncork.
Uncorked ==
    LET c == handling.of r == Uncork(net, c, <<>>, FALSE)
    IN /\ handling.in \in {"data", "cork"} /\ handling.rest = <<>> /\ handling.calls = <<>>
       /\ net' = IF r.failed THEN Arm(r.net, c, TRUE) ELSE r.net
       /\ handling' = NoData
       /\ UNCHANGED <<sent, fate>>

\* Another callback of the application answers a request, corked or not.
Answer(c) ==
    /\ Quiet /\ IsOpen(net, c) /\ net.socket[c].on = {"onAborted"}
    /\ \/ /\ handling' = [NoData EXCEPT !.of = c, !.in = "answer", !.calls = EndCalls]
          /\ UNCHANGED net
       \/ /\ net.corked = NoConn
          /\ handling' = [NoData EXCEPT !.of = c, !.in = "cork", !.calls = EndCalls]
          /\ net' = [net EXCEPT !.corked = c]
    /\ UNCHANGED <<sent, fate>>

Answered ==
    /\ handling.in \in {"answer", "writable"} /\ handling.calls = <<>>
    /\ handling' = NoData
    /\ UNCHANGED <<net, sent, fate>>

\* on_writable: the loop stops polling for it unless a write fails again.
OnWritable(c) ==
    LET S == [net EXCEPT !.socket[c].polls = FALSE]
    IN /\ Quiet /\ IsOpen(net, c) /\ net.socket[c].polls /\ Room(net, c) > 0
       /\ IF "onWritable" \in net.socket[c].on
          THEN /\ net' = Arm(S, c, FALSE)
               /\ handling' = [NoData EXCEPT !.of = c, !.in = "writable", !.calls = TryEndCalls]
          ELSE net' = Arm(Write(S, c, <<>>, TRUE).net, c, TRUE) /\ UNCHANGED handling
       /\ UNCHANGED <<sent, fate>>

\* on_end and on_timeout.
OnEnd(c) ==
    /\ Quiet /\ IsOpen(net, c)
    /\ net' = CloseConn(net, c)
    /\ UNCHANGED <<handling, sent, fate>>

ClientReads(c) ==
    /\ net.socket[c].kernel # <<>> /\ fate = "runs"
    /\ net' = Read(net, c)
    /\ UNCHANGED <<handling, sent, fate>>

Callback ==
    \/ WriteHead \/ WriteChunk \/ EndChunks \/ EndBody
    \/ OnRequest \/ OnRefused \/ HandlerReturns \/ OnBody \/ Uncorked \/ Answered

HttpServerNext ==
    /\ UNCHANGED serves
    /\ \/ Callback
       \/ \E c \in Conns : \/ OnOpen(c) \/ OnData(c) \/ Answer(c)
                           \/ OnWritable(c) \/ OnEnd(c) \/ ClientReads(c)

HttpServerFairness ==
    /\ WF_ioVars(Callback)
    /\ \A c \in Conns : WF_ioVars(OnWritable(c)) /\ WF_ioVars(ClientReads(c))

HttpServerSpec ==
    HttpServerInit /\ [][HttpServerNext]_serverVars /\ HttpServerFairness

-----------------------------------------------------------------------------
Tokens == Conns \X (1..MaxRequests) \X
          {"status", "length", "chunked", "chunk", "0", "body", "body1", "body2"}

HttpServerTypeOK ==
    /\ \A c \in Conns :
         LET s == net.socket[c]
         IN /\ s.at \in {"none", "open", "closed"}
            /\ s.state \subseteq {"STATUS_CALLED", "WRITE_CALLED", "END_CALLED", "PENDING"}
            /\ s.on \subseteq {"onAborted", "onWritable", "inStream"}
            /\ s.offset \in 0..2 /\ s.request \in 0..MaxRequests
            /\ {s.buffer, s.kernel, s.wrote} \subseteq Seq(Tokens) /\ Len(s.kernel) <= RoomMax
    /\ net.corked \in Conns \cup {NoConn} /\ net.cork \in Seq(Tokens) /\ Len(net.cork) <= CorkMax
    /\ net.torn \subseteq Conns /\ fate \in {"runs", "terminated"}
    /\ handling.of \in Conns \cup {NoConn} /\ handling.rest \in Seq(serves \cup {"fin"})

\* Nothing of an open connection is lost, doubled, reordered or another's: its client
\* gets what was written to it (AsyncSocket write and uncork).  The two exceptions of
\* the code are in torn: a chunk dropped when the cork buffer it does not fit into
\* cannot be flushed, and what an on_data that closed its socket left in there.
StreamIsWhatWasWritten ==
    \A c \in Conns \ net.torn : IsOpen(net, c) => StreamRight(net, c)

\* Whatever handlers of these kinds do, between callbacks an open connection has its timeout
\* armed, unless its request waits for an answer of the application alone: no idle
\* or silent client keeps the HTTP thread from its end (internalEnd, on_data,
\* on_writable).
IdleTimesOut ==
    \A c \in Conns :
        (Quiet /\ IsOpen(net, c) /\ (HasResponded(net, c) \/ net.socket[c].on # {"onAborted"}))
            => net.socket[c].timeout

\* A connection has what the kernel did not take at once.
Backlog == fate = "runs" /\ \E c \in Conns : net.socket[c].buffer # <<>>
=============================================================================

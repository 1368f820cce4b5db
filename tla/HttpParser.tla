----------------------------- MODULE HttpParser -----------------------------
(***************************************************************************)
(* uWS::HttpParser: requests one after the other in a stream that TCP cuts *)
(* into reads anywhere.  A head that is cut is kept in the fallback buffer *)
(* until it is whole; a body is passed on as it comes.  Lengths are in     *)
(* units.                                                                  *)
(***************************************************************************)
EXTENDS Naturals, Sequences, SequencesExt

CONSTANTS
    Requests,          \* kinds: length of the head, Content-Length given, length of the body
    MaxPipelined,      \* requests in a stream (bound)
    MAX_FALLBACK_SIZE

RequestType == [head : Nat \ {0}, sized : BOOLEAN, body : Nat]
ASSUME HttpParserAssumption ==
    /\ Requests \subseteq RequestType /\ MaxPipelined \in Nat /\ MAX_FALLBACK_SIZE \in Nat \ {0}
    /\ \A r \in Requests : ~r.sized => r.body = 0

VARIABLES
    requests,   \* what the client sends
    received,   \* units of it that were read
    parser,     \* the part of consumePostPadded that runs
    nth,        \* the request at data
    unread,     \* length: units from data on
    fallback,
    remainingStreamingBytes,
    events,     \* requestHandler and dataHandler calls: a request, units of bodies, the last data
    cut,        \* the head of a request with Content-Length: 0 was
    refused

parserVars == <<requests, received, parser, nth, unread, fallback, remainingStreamingBytes,
                events, cut, refused>>

\* Where the n-th of the requests rs ends in the stream.
Units(r) == r.head + r.body
Ends(rs) ==
    LET end[n \in 0..Len(rs)] == IF n = 0 THEN 0 ELSE end[n - 1] + Units(rs[n])
    IN end
All == Ends(requests)[Len(requests)]
Body(r, from, n) == [j \in 1..n |-> <<r, from + j>>]
LastData(r) == <<<<r, "last">>>>

HttpParserInit ==
    /\ requests \in SeqOf(Requests, MaxPipelined) /\ received = 0
    /\ parser = "idle" /\ nth = 1 /\ unread = 0 /\ fallback = 0 /\ remainingStreamingBytes = 0
    /\ events = <<>> /\ cut = FALSE /\ refused = FALSE

Current == requests[nth]
HeadWhole == unread > 0 /\ unread >= Current.head
Shorter(a, b) == IF a < b THEN a ELSE b

\* consumePostPadded
Consume(k) ==
    /\ parser = "idle" /\ ~refused /\ k \in 1..All - received
    /\ received' = received + k /\ unread' = k
    /\ parser' = IF remainingStreamingBytes > 0 THEN "body"
                 ELSE IF fallback > 0 THEN "fallback" ELSE "fence"
    /\ UNCHANGED <<requests, nth, fallback, remainingStreamingBytes, events, cut, refused>>

\* More of a body: all that was read, or its end.
LastIfReadAlone(n) == n = remainingStreamingBytes /\ n = unread
BodyEnds(n) == n = remainingStreamingBytes
StreamBody ==
    LET n == Shorter(remainingStreamingBytes, unread) IN
    /\ parser = "body"
    /\ events' = events \o Body(nth, Current.body - remainingStreamingBytes, n)
                        \o IF BodyEnds(n) THEN LastData(nth) ELSE <<>>
    /\ remainingStreamingBytes' = remainingStreamingBytes - n
    /\ unread' = unread - n /\ nth' = IF BodyEnds(n) THEN nth + 1 ELSE nth
    /\ parser' = IF remainingStreamingBytes >= unread THEN "idle" ELSE "fence"
    /\ UNCHANGED <<requests, received, fallback, cut, refused>>

\* The head that was cut, minimally: no more than its request and what has no length is passed
\* on here.
CompleteHead ==
    LET n == Shorter(MAX_FALLBACK_SIZE - fallback, unread) IN
    /\ parser = "fallback" /\ fallback + n >= Current.head
    /\ events' = events \o <<<<nth, "request">>>> \o IF Current.sized THEN <<>> ELSE LastData(nth)
    /\ remainingStreamingBytes' = Current.body
    /\ unread' = unread - (Current.head - fallback) /\ fallback' = 0
    /\ parser' = IF Current.body > 0 THEN "body" ELSE "fence"
    /\ nth' = IF Current.body > 0 THEN nth ELSE nth + 1
    /\ cut' = (cut \/ (Current.sized /\ Current.body = 0))
    /\ UNCHANGED <<requests, received, refused>>
HeadStillCut ==
    LET n == Shorter(MAX_FALLBACK_SIZE - fallback, unread) IN
    /\ parser = "fallback" /\ fallback + n < Current.head
    /\ fallback' = fallback + n /\ refused' = (fallback' = MAX_FALLBACK_SIZE)
    /\ unread' = 0 /\ parser' = "idle"
    /\ UNCHANGED <<requests, received, nth, remainingStreamingBytes, events, cut>>

\* fenceAndConsumePostPadded: a request whose head was read whole, and what there is of its body.
ConsumeRequest ==
    LET n == Shorter(Current.body, unread - Current.head) IN
    /\ parser = "fence" /\ HeadWhole
    /\ events' = events \o <<<<nth, "request">>>> \o Body(nth, 0, n)
                        \o IF n = Current.body THEN LastData(nth) ELSE <<>>
    /\ remainingStreamingBytes' = Current.body - n
    /\ unread' = unread - Current.head - n
    /\ nth' = IF n = Current.body THEN nth + 1 ELSE nth
    /\ UNCHANGED <<requests, received, parser, fallback, cut, refused>>

\* The rest is a head that is cut.
KeepRest ==
    /\ parser = "fence" /\ ~HeadWhole
    /\ parser' = "idle" /\ unread' = 0
    /\ refused' = (unread >= MAX_FALLBACK_SIZE)
    /\ fallback' = IF refused' THEN fallback ELSE fallback + unread
    /\ UNCHANGED <<requests, received, nth, remainingStreamingBytes, events, cut>>

ParserEnd == parser = "idle" /\ (refused \/ received = All) /\ UNCHANGED parserVars

HttpParserNext ==
    \/ \E k \in 1..All - received : Consume(k)
    \/ StreamBody \/ CompleteHead \/ HeadStillCut \/ ConsumeRequest \/ KeepRest \/ ParserEnd

HttpParserSpec == HttpParserInit /\ [][HttpParserNext]_parserVars
-----------------------------------------------------------------------------
\* The variables' values; the fallback buffer holds a part of one head only.
HttpParserTypeOK ==
    /\ received \in 0..All /\ unread \in 0..All /\ nth \in 1..MaxPipelined + 1
    /\ parser \in {"idle", "body", "fallback", "fence"} /\ fallback \in 0..MAX_FALLBACK_SIZE
    /\ cut \in BOOLEAN /\ refused \in BOOLEAN
    /\ remainingStreamingBytes > 0 => fallback = 0

\* What the handlers are called for when the stream is read at once, up to the n-th request.
CallsOf(n, r) == <<<<n, "request">>>> \o Body(n, 0, r.body) \o LastData(n)
Calls(rs) ==
    LET calls[n \in 0..Len(rs)] == IF n = 0 THEN <<>> ELSE calls[n - 1] \o CallsOf(n, rs[n])
    IN calls
AtOnce == Calls(requests)[Len(requests)]

\* However the reads cut the stream, each request, each unit of its body and its last data come
\* to the handlers once and in order, and nothing with heads that fit into the fallback buffer
\* is refused (HttpParser.h:176-329).  The exception: with "Content-Length: 0" and a head that
\* was cut the last data never comes (HttpParser.h:203-214, 281).
RequestsAsSent ==
    ~cut => /\ IsPrefix(events, AtOnce)
            /\ parser = "idle" /\ received = All /\ ~refused => events = AtOnce
            /\ refused => Current.head > MAX_FALLBACK_SIZE
=============================================================================

---------------------------- MODULE AsyncSocket ----------------------------
(***************************************************************************)
(* uWS::AsyncSocket, which HttpResponse and WebSocket are: writes that go  *)
(* to the kernel, to the cork buffer that all sockets of the loop share,   *)
(* or to the buffer of the socket.  The lengths are counted in tokens; the *)
(* kernel holds RoomMax of them for a socket until its client reads.       *)
(*                                                                         *)
(* S is the state of the sockets in the middle of a callback:              *)
(* [socket, corked, cork, torn]; an operator that writes gives             *)
(* [net, written, failed].                                                 *)
(***************************************************************************)
EXTENDS Naturals, Sequences, FiniteSets, SequencesExt

CONSTANTS
    CorkMax,  \* CORK_BUFFER_SIZE
    RoomMax   \* the kernel's send buffer

ASSUME AsyncSocketAssumption == CorkMax \in Nat \ {0} /\ RoomMax \in Nat \ {0}

NoConn == 0

\* state, offset, on and request are HttpResponseData's; wrote is what was written and
\* not read by the client yet, right whether the client has read what was written.
NewSocket == [at |-> "none", state |-> {}, offset |-> 0, timeout |-> FALSE, on |-> {},
              request |-> 0, buffer |-> <<>>, kernel |-> <<>>, polls |-> FALSE,
              wrote |-> <<>>, right |-> TRUE]

IsOpen(S, c) == S.socket[c].at = "open"
Arm(S, c, on) == [S EXCEPT !.socket[c].timeout = on]
CloseConn(S, c) == [S EXCEPT !.socket[c] = [NewSocket EXCEPT !.at = "closed"]]

Drop(seq, n) == SubSeq(seq, n + 1, Len(seq))
Least(a, b) == IF a < b THEN a ELSE b
Room(S, c) == RoomMax - Len(S.socket[c].kernel)
Result(S, written, failed) == [net |-> S, written |-> written, failed |-> failed]

\* us_socket_write: what the kernel takes, and the poll for writable if that is not all.
SendNoPoll(S, c, src) ==
    [S EXCEPT !.socket[c].kernel = @ \o SubSeq(src, 1, Least(Len(src), Room(S, c)))]
Send(S, c, src) ==
    [S EXCEPT !.socket[c].kernel = @ \o SubSeq(src, 1, Least(Len(src), Room(S, c))),
              !.socket[c].polls = @ \/ Len(src) > Room(S, c)]

\* The first part of write: the socket's own buffer goes first.
Drained(S, c) ==
    [Send(S, c, S.socket[c].buffer) EXCEPT
        !.socket[c].buffer = Drop(@, Least(Len(@), Room(S, c)))]

\* The rest of write for a socket that is not corked, or whose buffer is not empty yet.
WriteOut(D, c, src, optionally) ==
    LET n == Least(Len(src), Room(D, c))
    IN IF D.socket[c].buffer # <<>>
       THEN IF optionally THEN Result(D, 0, TRUE)
            ELSE Result([D EXCEPT !.socket[c].buffer = @ \o src], Len(src), TRUE)
       ELSE IF n = Len(src) \/ optionally THEN Result(Send(D, c, src), n, n < Len(src))
       ELSE Result([Send(D, c, src) EXCEPT !.socket[c].buffer = Drop(src, n)], Len(src), TRUE)

\* uncork: the chunk passed is dropped if the cork buffer does not go out whole.
FlushOffsetKept(S, c) ==
    WriteOut(Drained([S EXCEPT !.corked = NoConn], c), c, S.cork, FALSE)
Flush(S, c) ==
    WriteOut(Drained([S EXCEPT !.corked = NoConn, !.cork = <<>>], c), c, S.cork, FALSE)
Uncork(S, c, src, optionally) ==
    LET f == Flush(S, c)
    IN IF S.corked # c THEN Result(S, 0, FALSE)
       ELSE IF S.cork = <<>>
       THEN WriteOut(Drained([S EXCEPT !.corked = NoConn], c), c, src, optionally)
       ELSE IF ~f.failed THEN WriteOut(f.net, c, src, optionally)
       ELSE Result(IF src = <<>> \/ optionally THEN f.net
                   ELSE [f.net EXCEPT !.torn = @ \cup {c}], 0, TRUE)

Write(S, c, src, optionally) ==
    LET D == Drained(S, c)
    IN IF D.corked # c \/ src = <<>> \/ D.socket[c].buffer # <<>>
       THEN WriteOut(D, c, src, optionally)
       ELSE IF Len(D.cork) + Len(src) <= CorkMax
       THEN Result([D EXCEPT !.cork = @ \o src], Len(src), FALSE)
       ELSE Uncork(D, c, src, optionally)

\* What the caller takes for written goes to the history.
Wrote(r, c, src, optionally) ==
    [r.net EXCEPT !.socket[c].wrote =
        @ \o IF optionally THEN SubSeq(src, 1, r.written) ELSE src]

\* The client reads, also while a callback runs.
Read(S, c) ==
    LET k == S.socket[c].kernel w == S.socket[c].wrote
    IN [S EXCEPT !.socket[c].kernel = <<>>,
                 !.socket[c].wrote = Drop(w, Least(Len(k), Len(w))),
                 !.socket[c].right = @ /\ IsPrefix(k, w)]

\* What was written to c and not read by its client yet is what will come to it.
StreamRight(S, c) ==
    LET s == S.socket[c]
    IN /\ s.right
       /\ s.wrote = s.kernel \o s.buffer \o IF S.corked = c THEN S.cork ELSE <<>>
=============================================================================

------------------------------- MODULE Frames -------------------------------
(***************************************************************************)
(* WebSocketProtocol::consume and WebSocketContext::handleFragment on the  *)
(* server's side: a stream of frames that TCP cuts into reads anywhere.  A *)
(* short head is 2 units long, that of a frame with a longer size ("wide") *)
(* 3, and the mask repeats after MaskSize units of payload.  The text is   *)
(* UTF-8, a compressed message inflates to one that is not empty.          *)
(***************************************************************************)
EXTENDS Integers, Sequences, SequencesExt

CONSTANTS
    FrameKinds,     \* the frames peers send
    MaxFrames, \* frames in a stream (bound)
    MaxPayload,\* maxPayloadLength
    MaskSize   \* 4

CONTINUATION == 0  TEXT == 1  BINARY == 2  CLOSE == 8  PING == 9  PONG == 10
SHORT_MESSAGE_HEADER == 2
MEDIUM_MESSAGE_HEADER == 3

FrameType == [op : {CONTINUATION, TEXT, BINARY, CLOSE, PING, PONG}, fin : BOOLEAN,
              rsv1 : BOOLEAN, wide : BOOLEAN, size : Nat]
ASSUME FramesAssumption ==
    /\ FrameKinds \subseteq FrameType /\ MaxFrames \in Nat /\ MaxPayload \in Nat
    /\ MaskSize \in Nat \ {0}

VARIABLES
    stream,      \* what the peer sends
    came,        \* units of it that were read
    at, length,  \* the frame at src, and units from there on
    spill,       \* units of a head kept for the next read
    parsing,     \* consume runs
    wantsHead, ops, lastFin, remainingBytes, mask,
    fragmentBuffer, controlTip, compression,
    given,    \* given to the message handler
    pongs,       \* payloads sent back
    ended        \* "no", or who ended it: "handler", "close frame", "protocol"

headVars == <<at, length, spill, wantsHead, ops, lastFin, remainingBytes, mask>>
bodyVars == <<fragmentBuffer, controlTip, given, pongs, ended>>
framesVars == <<stream, came, headVars, parsing, bodyVars, compression>>

HeadSize(f) == IF f.wide THEN MEDIUM_MESSAGE_HEADER ELSE SHORT_MESSAGE_HEADER

\* Where the frames of a stream end, and its units.
FrameUnits(f) == HeadSize(f) + f.size
FrameEnds(fs) ==
    LET ends[n \in 0..Len(fs)] == IF n = 0 THEN 0 ELSE ends[n - 1] + FrameUnits(fs[n])
    IN ends
Total == FrameEnds(stream)[Len(stream)]

\* Payload units from offset p on, n of them, with the mask as it has been turned:
\* <<frame, unit>>, or unit 0 when it is taken off at the wrong place.
Unmasked(p, n, m) ==
    LET Right(i) == (i - 1 + m) % MaskSize = (p + i - 1) % MaskSize
    IN [i \in 1..n |-> <<at, IF Right(i) THEN p + i ELSE 0>>]

FramesInit ==
    /\ stream \in SeqOf(FrameKinds, MaxFrames) /\ came = 0
    /\ at = 1 /\ length = 0 /\ spill = 0 /\ parsing = FALSE
    /\ wantsHead = TRUE /\ ops = <<>> /\ lastFin = TRUE /\ remainingBytes = 0 /\ mask = 0
    /\ fragmentBuffer = <<>> /\ controlTip = 0 /\ compression \in {"ENABLED", "DISABLED"}
    /\ given = <<>> /\ pongs = <<>> /\ ended = "no"
-----------------------------------------------------------------------------
\* handleFragment: a message is whole with the last unit of its last frame.
answerControl(op, data) ==
    /\ ended' = IF op = CLOSE THEN "close frame" ELSE ended
    /\ pongs' = IF op = PING THEN Append(pongs, data) ELSE pongs
    /\ UNCHANGED given

\* The message handler may close or end the websocket.
Emit(op, data) ==
    /\ given' = Append(given, [op |-> op, data |-> data])
    /\ ended' \in {ended, "handler"}
    /\ fragmentBuffer' = <<>> /\ UNCHANGED <<pongs, controlTip>>

handleFragment(data, left, op, fin) ==
    LET whole == fragmentBuffer \o data
        tip == controlTip + Len(data)
    IN IF op < 3
       THEN IF left = 0 /\ fin THEN Emit(op, whole)
            ELSE fragmentBuffer' = whole /\ UNCHANGED <<controlTip, given, pongs, ended>>
       ELSE IF left = 0 /\ fin
            THEN /\ answerControl(op, SubSeq(whole, Len(whole) - tip + 1, Len(whole)))
                 /\ fragmentBuffer' = SubSeq(whole, 1, Len(whole) - tip) /\ controlTip' = 0
            ELSE /\ fragmentBuffer' = whole /\ controlTip' = tip
                 /\ UNCHANGED <<given, pongs, ended>>

\* A compressed message is inflated with its last unit.
Inflated(c, op, left, fin) ==
    IF op < 3 /\ left = 0 /\ fin /\ c = "COMPRESSED" THEN "ENABLED" ELSE c

forceClose ==
    /\ ended' = "protocol" /\ parsing' = FALSE
    /\ UNCHANGED <<stream, came, headVars, compression, fragmentBuffer, controlTip, given,
                   pongs>>
-----------------------------------------------------------------------------
\* on_data: what was spilled is put before what was read.  Nothing is read of a websocket
\* that shuts down.
OnRead(k) ==
    /\ ~parsing /\ ended = "no" /\ k \in 1..Total - came
    /\ came' = came + k /\ length' = k + spill /\ parsing' = TRUE
    /\ UNCHANGED <<stream, at, spill, wantsHead, ops, lastFin, remainingBytes, mask, bodyVars,
                   compression>>

frame == stream[at]
Opcode == ops[Len(ops)]
Parsing == parsing /\ wantsHead /\ length >= SHORT_MESSAGE_HEADER

\* setCompressed: a frame is marked compressed once.
CompressedTwice == frame.rsv1 /\ compression # "ENABLED"
NowCompressed == IF frame.rsv1 THEN "COMPRESSED" ELSE compression
BadControl == frame.op > 2 /\ (~frame.fin \/ frame.wide)
BadStart ==
    IF frame.op = CONTINUATION THEN ops = <<>>
    ELSE Len(ops) = 2 \/ (~lastFin /\ frame.op < 2)
Refused == CompressedTwice \/ BadControl
FrameHeadWhole == length >= HeadSize(frame)

RefuseHead == Parsing /\ Refused /\ forceClose
RefuseMessage ==
    /\ Parsing /\ ~Refused /\ FrameHeadWhole /\ (BadStart \/ frame.size > MaxPayload)
    /\ forceClose

OpsWith == IF frame.op = CONTINUATION THEN ops ELSE Append(ops, frame.op)
OpsLeft(s, fin) == IF fin THEN SubSeq(s, 1, Len(s) - 1) ELSE s

\* What is left is shorter than a head: it is spilled, and the frame stays marked compressed.
SpillKept == spill
Spilled == length
SpillHead ==
    /\ parsing /\ wantsHead
    /\ IF length < SHORT_MESSAGE_HEADER THEN UNCHANGED compression
       ELSE ~Refused /\ ~FrameHeadWhole /\ compression' = NowCompressed
    /\ spill' = IF length > 0 THEN Spilled ELSE spill
    /\ length' = 0 /\ parsing' = FALSE
    /\ UNCHANGED <<stream, came, at, wantsHead, ops, lastFin, remainingBytes, mask, bodyVars>>

Accepted ==
    /\ Parsing /\ ~Refused /\ FrameHeadWhole /\ ~BadStart /\ frame.size <= MaxPayload
    /\ lastFin' = frame.fin /\ spill' = 0 /\ UNCHANGED <<stream, came>>

consumeMessage ==
    LET op == Last(OpsWith) IN
    /\ Accepted /\ length >= HeadSize(frame) + frame.size
    /\ handleFragment(Unmasked(0, frame.size, 0), 0, op, frame.fin)
    /\ compression' = Inflated(NowCompressed, op, 0, frame.fin)
    /\ ops' = OpsLeft(OpsWith, frame.fin) /\ at' = at + 1
    /\ length' = length - HeadSize(frame) - frame.size /\ parsing' = (ended' = "no")
    /\ UNCHANGED <<wantsHead, remainingBytes, mask>>

consumeStart ==
    LET n == length - HeadSize(frame) IN
    /\ Accepted /\ n < frame.size
    /\ wantsHead' = FALSE /\ remainingBytes' = frame.size - n
    /\ mask' = n % MaskSize
    /\ handleFragment(Unmasked(0, n, 0), frame.size - n, Last(OpsWith), frame.fin)
    /\ compression' = NowCompressed
    /\ ops' = OpsWith /\ length' = 0 /\ parsing' = FALSE /\ UNCHANGED at

\* consumeContinuation
MaskKept(n) == mask
Turned(n) == (mask + n) % MaskSize
ContinueFrame ==
    /\ parsing /\ ~wantsHead /\ length < remainingBytes
    /\ handleFragment(Unmasked(frame.size - remainingBytes, length, mask),
                      remainingBytes - length, Opcode, lastFin)
    /\ remainingBytes' = remainingBytes - length /\ mask' = Turned(length)
    /\ length' = 0 /\ parsing' = FALSE
    /\ UNCHANGED <<stream, came, at, spill, wantsHead, ops, lastFin, compression>>

EndFrame ==
    /\ parsing /\ ~wantsHead /\ remainingBytes <= length
    /\ handleFragment(Unmasked(frame.size - remainingBytes, remainingBytes, mask), 0,
                      Opcode, lastFin)
    /\ compression' = Inflated(compression, Opcode, 0, lastFin)
    /\ ops' = OpsLeft(ops, lastFin) /\ at' = at + 1
    /\ length' = length - remainingBytes /\ wantsHead' = TRUE /\ parsing' = (ended' = "no")
    /\ UNCHANGED <<stream, came, spill, lastFin, remainingBytes, mask>>

FramesEnd == ~parsing /\ (ended # "no" \/ came = Total) /\ UNCHANGED framesVars

FramesNext ==
    \/ \E k \in 1..Total - came : OnRead(k)
    \/ RefuseHead \/ RefuseMessage \/ SpillHead \/ consumeMessage \/ consumeStart
    \/ ContinueFrame \/ EndFrame \/ FramesEnd

FramesSpec == FramesInit /\ [][FramesNext]_framesVars
-----------------------------------------------------------------------------
\* The variables' values; no more of a head is spilled than a head has.
FramesTypeOK ==
    /\ came \in 0..Total /\ at \in 1..MaxFrames + 1 /\ length \in 0..Total
    /\ spill \in 0..MEDIUM_MESSAGE_HEADER - 1 /\ parsing \in BOOLEAN /\ wantsHead \in BOOLEAN
    /\ Len(ops) <= 2 /\ lastFin \in BOOLEAN /\ remainingBytes \in 0..MaxPayload
    /\ mask \in 0..MaskSize - 1 /\ compression \in {"DISABLED", "ENABLED", "COMPRESSED"}
    /\ ended \in {"no", "handler", "close frame", "protocol"}

\* What RFC 6455 makes of a stream that is read at once: its messages and pings, up to the first
\* frame that is not allowed or closes.  Control frames may come between those of a message.
Payload(i, n) == [j \in 1..n |-> <<i, j>>]
NothingYet == [op |-> 0, data |-> <<>>, messages |-> <<>>, pings |-> <<>>,
               over |-> FALSE, legal |-> TRUE]

Starts(f) == f.op \in {TEXT, BINARY}
Allowed(m, f, takes) ==
    /\ f.size <= MaxPayload
    /\ IF f.op > 2 THEN f.fin /\ ~f.wide /\ ~f.rsv1
       ELSE Starts(f) = (m.op = 0) /\ (f.rsv1 => Starts(f) /\ takes)

MeaningWith(m, i, f, takes) ==
    LET data == m.data \o Payload(i, f.size)
        op == IF Starts(f) THEN f.op ELSE m.op
    IN IF m.over THEN m
       ELSE IF ~Allowed(m, f, takes) THEN [m EXCEPT !.over = TRUE, !.legal = FALSE]
       ELSE IF f.op = CLOSE THEN [m EXCEPT !.over = TRUE]
       ELSE IF f.op = PING THEN [m EXCEPT !.pings = Append(@, Payload(i, f.size))]
       ELSE IF f.op = PONG THEN m
       ELSE IF ~f.fin THEN [m EXCEPT !.op = op, !.data = data]
       ELSE [m EXCEPT !.op = 0, !.data = <<>>,
                      !.messages = Append(@, [op |-> op, data |-> data])]

Meanings(fs, takes) ==
    LET meanings[n \in 0..Len(fs)] ==
            IF n = 0 THEN NothingYet ELSE MeaningWith(meanings[n - 1], n, fs[n], takes)
    IN meanings
Takes == compression # "DISABLED"
Meaning == Meanings(stream, Takes)[Len(stream)]

\* A legal stream gives the messages and pongs it has when it is read at once, however the
\* reads cut heads, payloads and control frames inside messages (WebSocketProtocol.h:288-427,
\* WebSocketContext.h:60-212), and is not refused.  The exception is a compressed frame with a
\* wide head: a read that ends in that head marks it compressed twice
\* (WebSocketProtocol.h:398, 408-411).
CutCompressed == at <= Len(stream) /\ frame.rsv1 /\ frame.wide
DeliveredAsSent ==
    Meaning.legal =>
        /\ IsPrefix(given, Meaning.messages) /\ IsPrefix(pongs, Meaning.pings)
        /\ ended = "protocol" => CutCompressed
        /\ ended = "no" /\ ~parsing /\ came = Total =>
               given = Meaning.messages /\ pongs = Meaning.pings
=============================================================================

---------------------------- MODULE FrameCodecs ----------------------------
(***************************************************************************)
(* The codecs of dsbox_ipc: LengthPrefixedFrameCodec and                    *)
(* TextLineFrameCodec, which turn frames into bytes and back.               *)
(*                                                                         *)
(* A peer sends frames one behind the other; feed() is called with whatever *)
(* a read returned, so what was sent arrives in pieces cut anywhere.  A     *)
(* character is "k" (a well-formed kind, id and target, with the blanks     *)
(* behind them), a digit, a line break, a carriage return, or a letter.     *)
(***************************************************************************)
EXTENDS Naturals, Sequences, SequencesExt

CONSTANTS MaxPayload,  \* bound: characters of a payload
          MaxFrames,   \* bound: frames a peer sends
          MaxPiece     \* bound: characters of one read

\* Assumed of the constants; a length is one digit.
CodecConstants == MaxPayload \in 0 .. 9 /\ MaxFrames \in Nat /\ MaxPiece \in Nat \ {0}

VARIABLES codec,   \* which of the two, at both ends
          sent,    \* the payloads of the frames sent, in order
          wire,    \* what the peer has written and the reader has not fed
          buffer,  \* m_buffer
          got,     \* the payloads of the frames feed() returned
          failed   \* feed() has thrown

vars == <<codec, sent, wire, buffer, got, failed>>

Kind == "k"
LF == "\n"
CR == "\r"
Letter == "a"
Digit(n) == <<"0", "1", "2", "3", "4", "5", "6", "7", "8", "9">>[n + 1]
Value(c) == CHOOSE n \in 0 .. 9 : Digit(n) = c

-----------------------------------------------------------------------------
\* encode(): a text line cannot hold a line break.
Encodable(p) == codec = "text" => LF \notin Range(p)
Encode(p) ==
    IF codec = "text" THEN <<Kind>> \o p \o <<LF>>
    ELSE <<Kind, Digit(Len(p)), LF>> \o p

\* feed(): one frame after the other, as long as they are there.
NoFrame == [is |-> "incomplete", payload |-> <<>>, rest |-> <<>>]
Bad     == [is |-> "malformed", payload |-> <<>>, rest |-> <<>>]
Chomp(l) == IF l # <<>> /\ Last(l) = CR THEN Front(l) ELSE l
Behind(b, i) == SubSeq(b, i + 1, Len(b))
NextLine(b) ==
    LET n == SelectInSeq(b, LAMBDA c : c = LF)
        l == Chomp(SubSeq(b, 1, n - 1))
    IN  IF n = 0 THEN NoFrame
        ELSE IF l = <<>> \/ Head(l) # Kind THEN Bad
        ELSE [is |-> "frame", payload |-> Tail(l), rest |-> Behind(b, n)]
\* The length is all that stands between the blank and the line break.
NextPrefixed(b) ==
    LET n == SelectInSeq(b, LAMBDA c : c = LF)
        there(k) == Len(b) >= n + k
    IN  IF n = 0 THEN NoFrame
        ELSE IF ~(n = 3 /\ b[1] = Kind /\ \E k \in 0 .. 9 : b[2] = Digit(k)) THEN Bad
        ELSE IF ~there(Value(b[2])) THEN NoFrame
        ELSE [is |-> "frame", payload |-> SubSeq(b, n + 1, n + Value(b[2])),
              rest |-> Behind(b, n + Value(b[2]))]
NextFrame(b) == IF codec = "text" THEN NextLine(b) ELSE NextPrefixed(b)

\* All frames of a buffer; a malformed one takes those before it with it.
Step(s) ==
    LET f == NextFrame(s.buffer) IN
    IF s.done THEN s
    ELSE IF f.is = "frame" THEN [s EXCEPT !.buffer = f.rest, !.out = Append(@, f.payload)]
    ELSE [s EXCEPT !.done = TRUE, !.bad = f.is = "malformed"]
All(b) ==
    LET steps == [i \in 1 .. Len(b) + 1 |-> i]
        step(s, i) == Step(s)
    IN  FoldLeft(step, [buffer |-> b, out |-> <<>>, done |-> FALSE, bad |-> FALSE], steps)

\* A mutated form: what follows the first frame of a read is thrown away.
OneFrame(b) == LET f == NextFrame(b) IN
    IF f.is = "frame" THEN [buffer |-> <<>>, out |-> <<f.payload>>, done |-> TRUE, bad |-> FALSE]
    ELSE All(b)
Decoded(b) == All(b)

-----------------------------------------------------------------------------
Payloads == BoundedSeq({Letter, LF, CR, Kind}, MaxPayload)
Init ==
    /\ codec \in {"text", "prefixed"}
    /\ sent = <<>> /\ wire = <<>> /\ buffer = <<>> /\ got = <<>> /\ failed = FALSE

Send ==
    /\ Len(sent) < MaxFrames
    /\ \E p \in Payloads :
         /\ Encodable(p)
         /\ sent' = Append(sent, p) /\ wire' = wire \o Encode(p)
    /\ UNCHANGED <<codec, buffer, got, failed>>
Feed ==
    /\ ~failed
    /\ \E n \in 1 .. MaxPiece :
         LET d == Decoded(buffer \o SubSeq(wire, 1, n)) IN
         /\ n <= Len(wire) /\ wire' = Behind(wire, n)
         /\ IF d.bad THEN UNCHANGED got /\ buffer' = buffer \o SubSeq(wire, 1, n)
            ELSE got' = got \o d.out /\ buffer' = d.buffer
         /\ failed' = d.bad
    /\ UNCHANGED <<codec, sent>>
Next == Send \/ Feed
Spec == Init /\ [][Next]_vars

-----------------------------------------------------------------------------
TypeOK == codec \in {"text", "prefixed"} /\ failed \in BOOLEAN /\ Len(sent) <= MaxFrames

\* What one end encodes the other end decodes: no frame is malformed, what was fed
\* so far is the frames that are complete, in order, and nothing is kept of them.
\* The text codec takes a carriage return at the end of a payload for one of the line.
Arrives(p) == IF codec = "text" THEN Chomp(p) ELSE p
EveryFrame ==
    /\ ~failed
    /\ Len(got) <= Len(sent) /\ \A i \in DOMAIN got : got[i] = Arrives(sent[i])
    /\ wire = <<>> => Len(got) = Len(sent) /\ buffer = <<>>
Inv == TypeOK /\ EveryFrame

\* frame_codec.hpp: the payload is opaque, "anything but a line break" for the text codec.
PayloadKept == \A i \in DOMAIN got : got[i] = sent[i]
=============================================================================

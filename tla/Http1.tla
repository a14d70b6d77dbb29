------------------------------- MODULE Http1 -------------------------------
(***************************************************************************)
(* The HTTP/1 wire format (dsbox_net_http/http1.hpp): ResponseHeadParser,   *)
(* determineFraming(), ChunkedDecoder and serializeRequestHead().           *)
(*                                                                         *)
(* The parsers are fed whatever a read returned, so the bytes of an input   *)
(* arrive in pieces cut anywhere.  Bytes are a few characters: "S" is a     *)
(* whole well-formed status line, "1" and "0" are digits, "f" is a letter   *)
(* that is none, and the names and the coding that decide how a body is     *)
(* framed are a character each.                                             *)
(***************************************************************************)
EXTENDS Integers, Sequences, SequencesExt

CONSTANTS MaxHead,   \* maxHeadBytes
          MaxFields, \* maxHeaderCount
          MaxLine,   \* kMaxLineBytes and kMaxTrailerLineBytes
          MaxInput,  \* bound: bytes after a status line, and of a chunked body
          MaxPiece   \* bound: bytes of one read

\* Assumed of the constants.
Http1Constants == {MaxHead, MaxFields, MaxLine, MaxInput, MaxPiece} \subseteq Nat \ {0}

VARIABLES input,  \* what the peer sends, or what the caller asks for
          pos,    \* how much of it was fed
          head,   \* the ResponseHeadParser
          chunks, \* the ChunkedDecoder
          taken   \* how many bytes the parser says are its own

vars == <<input, pos, head, chunks, taken>>

CR == "\r"
LF == "\n"

FreshHead   == [status |-> "NeedMore", buffer |-> <<>>, scan |-> 1, fields |-> <<>>]
FreshChunks == [state |-> "SizeLine", line |-> <<>>, remaining |-> 0, sawCR |-> FALSE,
                out |-> <<>>]

\* A line without the carriage return at its end, a text without blanks around it.
Chomp(l) == IF l # <<>> /\ Last(l) = CR THEN Front(l) ELSE l
Trim(t) ==
    LET kept == {i \in DOMAIN t : t[i] # " "} IN
    IF kept = {} THEN <<>> ELSE SubSeq(t, Min(kept), Max(kept))
Find(t, c) == SelectInSeq(t, LAMBDA x : x = c)

-----------------------------------------------------------------------------
\* findEndOfHead(): the scan goes on where an incomplete match began.
EndAt(b, i) ==
    CASE b[i] # LF -> 0
      [] i + 1 <= Len(b) /\ b[i + 1] = LF -> i + 1
      [] i + 2 <= Len(b) /\ b[i + 1] = CR /\ b[i + 2] = LF -> i + 2
      [] OTHER -> 0
EndOfHead(b, scan) ==
    LET ends == {i \in scan .. Len(b) : EndAt(b, i) # 0} IN
    IF ends = {} THEN 0 ELSE EndAt(b, Min(ends))
\* A mutated form: a scan never goes back to an incomplete match.
ScanOn(b, scan) == Len(b) + 1
ScanFrom(b, scan) ==
    LET open == {i \in scan .. Len(b) : b[i] = LF /\ i + 2 > Len(b)} IN
    IF open = {} THEN Len(b) + 1 ELSE Min(open)

\* parse(): the first bad line fails it, a line that starts with a blank goes on
\* with the field before.
Pieces(b, c) ==
    LET cut == SelectSeq([i \in DOMAIN b |-> i], LAMBDA i : b[i] = c)
    IN [k \in DOMAIN cut |-> SubSeq(b, IF k = 1 THEN 1 ELSE cut[k - 1] + 1, cut[k] - 1)]
Lines(b) == LET ls == Pieces(b, LF) IN [k \in DOMAIN ls |-> Chomp(ls[k])]
Names   == {"Content-Length", "Transfer-Encoding"}
IsToken(t) == t # <<>> /\ \A i \in DOMAIN t : t[i] \in {"f", "S", "0", "1"} \cup Names
Bad         == [name |-> <<>>, value |-> <<>>]
BadLine(fs) == Append(fs, Bad)
IsBad(fs)   == fs # <<>> /\ Last(fs) = Bad
FieldLine(fs, l) ==
    LET colon == Find(l, ":") IN
    CASE IsBad(fs) -> fs
      [] CR \in Range(l) -> BadLine(fs)
      [] Head(l) = " " ->
           IF fs = <<>> THEN BadLine(fs)
           ELSE [fs EXCEPT ![Len(fs)].value = @ \o <<" ">> \o Trim(l)]
      [] OTHER ->
           IF colon = 0 \/ ~IsToken(SubSeq(l, 1, colon - 1)) \/ Len(fs) >= MaxFields
           THEN BadLine(fs)
           ELSE Append(fs, [name |-> SubSeq(l, 1, colon - 1),
                            value |-> Trim(SubSeq(l, colon + 1, Len(l)))])
Fields(b) ==
    LET ls    == Lines(b)
        blank == Min({k \in DOMAIN ls : k > 1 /\ ls[k] = <<>>} \cup {Len(ls) + 1})
    IN IF ls[1] # <<"S">> THEN BadLine(<<>>)
       ELSE FoldLeft(FieldLine, <<>>, SubSeq(ls, 2, blank - 1))

\* feed(): the parser after one piece, and what it took of it.
HeadFeed(h, piece) ==
    LET b     == h.buffer \o piece
        end   == EndOfHead(b, h.scan)
        error == [h EXCEPT !.status = "Error", !.buffer = <<>>, !.scan = 0]
        fs    == Fields(SubSeq(b, 1, end))
    IN CASE h.status # "NeedMore" -> [parser |-> h, took |-> 0]
         [] h.status = "NeedMore" /\ end = 0 /\ Len(b) <= MaxHead ->
              [parser |-> [h EXCEPT !.buffer = b, !.scan = ScanFrom(b, h.scan)],
               took |-> Len(piece)]
         [] h.status = "NeedMore" /\ (IF end = 0 THEN Len(b) ELSE end) > MaxHead ->
              [parser |-> error, took |-> Len(piece)]
         [] OTHER ->
              [parser |-> IF IsBad(fs) THEN error
                          ELSE [error EXCEPT !.status = "Complete", !.fields = fs],
               took |-> end - Len(h.buffer)]

-----------------------------------------------------------------------------
\* finishSizeLine(): what is before a ";", all of it hexadecimal.
HexValue(t) == FoldLeft(LAMBDA n, c : 16 * n + (IF c = "1" THEN 1 ELSE 0), 0, t)
SizeText(l) == LET t == Chomp(l) IN
               Trim(IF Find(t, ";") = 0 THEN t ELSE SubSeq(t, 1, Find(t, ";") - 1))
SizeLineDone(d) ==
    LET t == SizeText(d.line) IN
    CASE t = <<>> \/ ~(Range(t) \subseteq {"0", "1"}) -> [d EXCEPT !.state = "Failed"]
      [] t # <<>> /\ Range(t) = {"0"} -> [d EXCEPT !.state = "Trailer", !.line = <<>>]
      [] OTHER -> [d EXCEPT !.state = "Data", !.line = <<>>, !.remaining = HexValue(t)]
LineByte(d, c, done) ==
    CASE c = LF -> done
      [] c # LF /\ Len(d.line) >= MaxLine -> [d EXCEPT !.state = "Failed"]
      [] OTHER -> [d EXCEPT !.line = Append(@, c)]

\* One round of feed()'s loop over what is left of the piece: the decoder and
\* how many bytes the round took.
DataEnd(d, c) ==
    CASE c = CR /\ ~d.sawCR -> [d EXCEPT !.sawCR = TRUE]
      [] c = LF -> [d EXCEPT !.state = "SizeLine", !.line = <<>>]
      [] OTHER -> [d EXCEPT !.state = "Failed"]
Take(d, in) == IF d.remaining < Len(in) THEN d.remaining ELSE Len(in)
Round(d, in) ==
    LET c == Head(in) n == Take(d, in) IN
    CASE d.state = "SizeLine" -> [d |-> LineByte(d, c, SizeLineDone(d)), n |-> 1]
      [] d.state = "Data" ->
           [d |-> [d EXCEPT !.out = @ \o SubSeq(in, 1, n), !.remaining = @ - n,
                            !.state = IF n = d.remaining THEN "DataEnd" ELSE @,
                            !.sawCR = IF n = d.remaining THEN FALSE ELSE @], n |-> n]
      [] d.state = "DataEnd" -> [d |-> DataEnd(d, c), n |-> 1]
      [] d.state = "Trailer" ->
           [d |-> LineByte(d, c, [d EXCEPT !.line = <<>>,
                             !.state = IF Chomp(d.line) = <<>> THEN "Done" ELSE @]), n |-> 1]
ChunkFeed(d, in) ==
    LET over(s) == s.took = Len(in) \/ s.parser.state \in {"Done", "Failed"}
        after[k \in 0 .. Len(in)] ==
            IF k = 0 THEN [parser |-> d, took |-> 0]
            ELSE LET s == after[k - 1]
                     r == Round(s.parser, SubSeq(in, s.took + 1, Len(in)))
                 IN IF over(s) THEN s ELSE [parser |-> r.d, took |-> s.took + r.n]
    IN after[Len(in)]

\* chunkHeader() and kFinalChunk, as a request body is sent.
ChunkHeader(size) == (IF size < 16 THEN <<"1">> ELSE <<"1", "0">>) \o <<CR, LF>>
Encode(cs) ==
    FlattenSeq([k \in DOMAIN cs |-> ChunkHeader(Len(cs[k])) \o cs[k] \o <<CR, LF>>])
        \o <<"0", CR, LF, CR, LF>>

-----------------------------------------------------------------------------
\* determineFraming() of a response that may have a body: the elements of every
\* field of a name, the last coding, and lengths that are one number.
Elements(v) ==
    LET es == Pieces(Append(v, ","), ",")
    IN SelectSeq([k \in DOMAIN es |-> Trim(es[k])], LAMBDA e : e # <<>>)
Listed(fs, n) ==
    FlattenSeq([k \in DOMAIN fs |-> IF fs[k].name = <<n>> THEN Elements(fs[k].value) ELSE <<>>])
Number(e) == FoldLeft(LAMBDA n, c : 10 * n + (IF c = "1" THEN 1 ELSE 0), 0, e)
Framed(k, n) == [kind |-> k, length |-> n]
WithLength(f, e) ==
    IF ~(Range(e) \subseteq {"0", "1"}) \/ f.kind = "bad"
         \/ (f.kind = "length" /\ f.length # Number(e))
    THEN Framed("bad", 0) ELSE Framed("length", Number(e))
\* A mutated form: the last length counts.
LastLength(f, e) ==
    IF ~(Range(e) \subseteq {"0", "1"}) \/ f.kind = "bad"
    THEN Framed("bad", 0) ELSE Framed("length", Number(e))
Framing(fs) ==
    LET codings == Listed(fs, "Transfer-Encoding") IN
    IF \E k \in DOMAIN fs : fs[k].name = <<"Transfer-Encoding">>
    THEN Framed(IF codings # <<>> /\ Last(codings) = <<"chunked">> THEN "chunked" ELSE "close", 0)
    ELSE FoldLeft(WithLength, Framed("close", 0), Listed(fs, "Content-Length"))

\* serializeRequestHead(): the fields it writes, or none when it rejects one.
Managed == {"Host", "Content-Length", "Transfer-Encoding", "Connection"}
\* A mutated form: the caller's own fields are all written.
AllFields(hs) == hs
Unmanaged(hs) == SelectSeq(hs, LAMBDA h : h.name \notin Managed)
NamesOf(hs) == [k \in DOMAIN hs |-> hs[k].name]
Serialize(hs, body) ==
    LET names == NamesOf(Unmanaged(hs))
        when(c, n) == IF c THEN <<n>> ELSE <<>>
    IN IF \E k \in DOMAIN hs : hs[k].bad THEN <<>>
       ELSE <<"Host">> \o names \o when("Accept" \notin Range(names), "Accept")
              \o when(body = "chunked", "Transfer-Encoding")
              \o when(body = "length", "Content-Length")

-----------------------------------------------------------------------------
\* Inputs: anything after a status line; a head that is a few fields, and more of
\* the stream; any chunked bytes; a body as serialized, and more of the stream.
UpTo(n, S) == UNION {[1 .. k -> S] : k \in 0 .. n}
Raw     == {<<"S">> \o w : w \in UpTo(MaxInput, {"f", ":", " ", CR, LF})}
Chunked == UpTo(MaxInput, {"1", "0", "f", ";", CR, LF})
Bodies  == {Encode(cs) \o <<"f">> : cs \in UpTo(2, {<<"f">>, <<LF>>})}

\* The lengths a value stands for; -1 is one that is no number, as what a line
\* goes on with is joined by a blank.
Lengths == <<"1">> :> {1} @@ <<" ", "0">> :> {0} @@ <<"0", "1", ",", "1">> :> {1}
             @@ <<"0", ",", "1">> :> {0, 1} @@ <<"1", LF, " ", "1">> :> {-1}
Field(n, v) == [name |-> n, value |-> v]
FieldSet == {Field("Content-Length", v) : v \in DOMAIN Lengths}
              \cup {Field("Transfer-Encoding", <<v>>) : v \in {"chunked", "f"}} \cup {Field("f", <<>>)}
Composed(fs, eol) ==
    <<"S">> \o eol \o FlattenSeq([k \in DOMAIN fs |-> <<fs[k].name, ":">> \o fs[k].value \o eol])
        \o eol \o <<"f">>

Input(of, b, fs) == [of |-> of, bytes |-> b, fields |-> fs]
NoInput == Input("head", <<"S">>, <<>>)
Init ==
    /\ \/ \E b \in Raw : input = Input("head", b, <<>>)
       \/ \E fs \in UpTo(3, FieldSet) \ {<<>>}, eol \in {<<LF>>, <<CR, LF>>} :
             input = Input("head", Composed(fs, eol), fs)
       \/ \E b \in Chunked \cup Bodies : input = Input("chunks", b, <<>>)
    /\ pos = 0 /\ head = FreshHead /\ chunks = FreshChunks /\ taken = 0

\* One read of the connection, of n bytes.
Piece(n) == SubSeq(input.bytes, pos + 1, pos + n)
FeedHead(n) ==
    /\ input.of = "head" /\ head.status = "NeedMore"
    /\ LET f == HeadFeed(head, Piece(n)) IN head' = f.parser /\ taken' = taken + f.took
    /\ UNCHANGED chunks
FeedChunks(n) ==
    /\ input.of = "chunks" /\ chunks.state \notin {"Done", "Failed"}
    /\ LET f == ChunkFeed(chunks, Piece(n)) IN chunks' = f.parser /\ taken' = taken + f.took
    /\ UNCHANGED head
Feed(n) ==
    /\ pos + n <= Len(input.bytes)
    /\ pos' = pos + n
    /\ FeedHead(n) \/ FeedChunks(n)
    /\ UNCHANGED input

Next == \E n \in 1 .. MaxPiece : Feed(n)

Spec == Init /\ [][Next]_vars

-----------------------------------------------------------------------------
\* However the bytes were cut, the parser is where one that was fed all of them
\* at once would be, and leaves the same bytes to whoever reads on.
Whole == SubSeq(input.bytes, 1, pos)
CutFree ==
    /\ input.of = "head" => LET f == HeadFeed(FreshHead, Whole) IN
          /\ head.status = f.parser.status /\ head.fields = f.parser.fields
          /\ head.status = "Complete" => taken = f.took
    /\ input.of = "chunks" =>
          ChunkFeed(FreshChunks, Whole) = [parser |-> chunks, took |-> taken]

\* A body as it is sent is received as it was, and not a byte more is taken.
BodyIntact ==
    \A cs \in UpTo(2, {<<"f">>, <<LF>>}) :
        input.bytes = Encode(cs) \o <<"f">> /\ pos >= Len(Encode(cs)) =>
            chunks.state = "Done" /\ chunks.out = FlattenSeq(cs) /\ taken = Len(Encode(cs))

\* Both ends of a connection agree on where a body ends: lengths that contradict
\* each other, in one field or in two, are refused, and none counts beside a coding.
FramingAgreed ==
    input.fields # <<>> /\ head.status = "Complete" =>
        LET fs   == input.fields
            of(n) == SelectSeq(fs, LAMBDA x : x.name = n)
            said == UNION {Lengths[x.value] : x \in Range(of("Content-Length"))}
            te   == of("Transfer-Encoding")
        IN Framing(head.fields) =
             CASE te # <<>> ->
                    Framed(IF Last(te).value = <<"chunked">> THEN "chunked" ELSE "close", 0)
               [] te = <<>> /\ said = {} -> Framed("close", 0)
               [] te = <<>> /\ said \in {{0}, {1}} -> Framed("length", CHOOSE n \in said : TRUE)
               [] OTHER -> Framed("bad", 0)

\* No head is taken that is longer, or has more fields, than the limits allow.
WithinLimits ==
    head.status = "Complete" => taken <= MaxHead /\ Len(head.fields) <= MaxFields

\* A request says only once where it goes and how its body ends, whatever fields
\* the caller has set.
SaidOnce ==
    input = NoInput /\ pos = 0 =>
        \A hs \in UpTo(2, [name : {"Host", "Content-Length", "Accept", "X"}, bad : BOOLEAN]),
           body \in {"none", "length", "chunked"} :
            LET names == Serialize(hs, body) IN
            /\ names = <<>> <=> \E k \in DOMAIN hs : hs[k].bad
            /\ names # <<>> => \A n \in Managed :
                  Len(SelectSeq(names, LAMBDA x : x = n)) <= 1

Inv == CutFree /\ BodyIntact /\ FramingAgreed /\ WithinLimits /\ SaidOnce
=============================================================================

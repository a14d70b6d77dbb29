-------------------------------- MODULE Url --------------------------------
(***************************************************************************)
(* Url (dsbox_net): parse(), resolve(), toString() and the removal of dot   *)
(* segments; and nativePathFromUrlPath() of the file protocol.              *)
(*                                                                         *)
(* A text is a sequence of characters of a small alphabet: one letter, one  *)
(* digit, the dot, the delimiters and, in an authority, the brackets of an  *)
(* IPv6 address; letters have no case.  It grows one character at a time,   *)
(* so that every text up to the bounds is a state.                          *)
(***************************************************************************)
EXTENDS Integers, Sequences, SequencesExt

CONSTANTS MaxText,    \* bound: characters of a text
          MaxPath,    \* bound: characters of one that is a path
          MaxLiteral  \* bound: characters of one that begins with an IPv6 address

\* Assumed of the constants.
UrlConstants == {MaxText, MaxPath, MaxLiteral} \subseteq Nat

VARIABLE text  \* the text: a URL after its "a:", a reference, or a path

Letter == "a"
Digit  == "1"
PathCharacters == {Letter, ".", "/"}
Brackets       == {"[", "]"}
Characters     == PathCharacters \cup Brackets \cup {Digit, ":", "@", "?", "#"}
Slashes        == <<"/", "/">>
Bound(t) ==
    CASE Range(t) \subseteq PathCharacters   -> MaxPath
      [] IsPrefix(Append(Slashes, "["), t)   -> MaxLiteral
      [] OTHER                               -> MaxText

Init == text = <<>>

\* One more character.
Extend(c) ==
    /\ c \in Brackets => IsPrefix(Slashes, text)
    /\ Len(text) < Bound(Append(text, c))
    /\ text' = Append(text, c)

Next == \E c \in Characters : Extend(c)

Spec == Init /\ [][Next]_text

-----------------------------------------------------------------------------
\* Where c is first, or last, in s (0 if nowhere), and the two sides of it.
FirstAt(s, c) == SelectInSeq(s, LAMBDA x : x = c)
LastAt(s, c)  == SelectLastInSeq(s, LAMBDA x : x = c)
Before(s, i)  == IF i = 0 THEN s ELSE SubSeq(s, 1, i - 1)
After(s, i)   == IF i = 0 THEN <<>> ELSE SubSeq(s, i + 1, Len(s))
Starts(s, t)  == IsPrefix(t, s)

\* removeDotSegments(): the segments, each from one "/" up to the next.
Segments(p) ==
    LET nth == SelectSeq([i \in 1 .. Len(p) |-> i], LAMBDA i : i = 1 \/ p[i] = "/")
        end(k) == IF k = Len(nth) THEN Len(p) ELSE nth[k + 1] - 1
    IN [k \in 1 .. Len(nth) |-> SubSeq(p, nth[k], end(k))]

\* A mutated form: ".." leaves the segment before it.
DropNothing(out) == out
\* A dot segment is not moved to the output, and leaves a "/" behind when it is
\* the last one.
Dropped(out) == IF out = <<>> THEN out ELSE Front(out)
Moved(out, segment, isLast) ==
    LET slash == IF isLast THEN << <<"/">> >> ELSE <<>> IN
    CASE segment = <<"/", ".">>      -> out \o slash
      [] segment = <<"/", ".", ".">> -> Dropped(out) \o slash
      [] OTHER                       -> Append(out, segment)
RemoveDotSegments(p) ==
    LET s   == Segments(p)
        out == FoldLeftDomain(LAMBDA o, i : Moved(o, s[i], i = Len(s)), <<>>, s)
    IN IF out = <<>> THEN <<"/">> ELSE FlattenSeq(out)

\* splitPathQueryFragment()
Split(rest) ==
    LET hash == FirstAt(rest, "#")
        part == Before(rest, hash)
        mark == FirstAt(part, "?")
    IN [path |-> Before(part, mark), query |-> After(part, mark), fragment |-> After(rest, hash)]

\* startsWithScheme(): a letter, then letters, digits and dots, then a colon.
HasScheme(t) ==
    LET colon == FirstAt(t, ":") IN
    colon > 1 /\ t[1] = Letter /\ Range(Before(t, colon)) \subseteq {Letter, Digit, "."}

\* parsePort(): a number of sixteen bits, or nothing at all.
IsPort(t) == Range(t) \subseteq {Digit} /\ Len(t) <= 5

Failure == [good |-> FALSE]
Good(authority, parts) == [good |-> TRUE] @@ authority @@ parts
NoAuthority == [userinfo |-> <<>>, host |-> <<>>, port |-> <<>>]

\* A host and its port: an IPv6 address ends at its "]", another host at the last ":".
Address(t) ==
    LET close == FirstAt(t, "]")
        after == After(t, close)
    IN [good |-> close # 0 /\ (after = <<>> \/ Head(after) = ":"),
        host |-> SubSeq(t, 1, close), port |-> After(after, 1)]
HostPort(t) ==
    LET colon == LastAt(t, ":") IN
    IF Starts(t, <<"[">>) THEN Address(t)
    ELSE [good |-> TRUE, host |-> Before(t, colon), port |-> After(t, colon)]
\* The authority: what is before its first "@", a host and a port.
Authority(t) ==
    LET at == FirstAt(t, "@") IN
    [userinfo |-> IF at = 0 THEN <<>> ELSE Before(t, at)]
        @@ HostPort(IF at = 0 THEN t ELSE After(t, at))
AuthorityEnd(t) == SelectInSeq(t, LAMBDA x : x \in {"/", "?", "#"})

\* parse() of a text behind its scheme and colon.
Parse(rest) ==
    IF ~Starts(rest, Slashes) THEN Good(NoAuthority, Split(rest))
    ELSE LET t     == SubSeq(rest, 3, Len(rest))
             end   == AuthorityEnd(t)
             a     == Authority(Before(t, end))
             parts == Split(IF end = 0 THEN <<>> ELSE SubSeq(t, end, Len(t)))
         IN IF ~a.good \/ ~IsPort(a.port) THEN Failure
            ELSE Good(a, [parts EXCEPT !.path = IF @ = <<>> THEN <<"/">> ELSE @])

\* toString(), without the scheme and its colon.
Prefixed(c, t) == IF t = <<>> THEN <<>> ELSE <<c>> \o t
Reassemble(u) ==
    (IF u.host = <<>> THEN <<>>
     ELSE Slashes \o (IF u.userinfo = <<>> THEN <<>> ELSE Append(u.userinfo, "@"))
          \o u.host \o Prefixed(":", u.port))
    \o u.path \o Prefixed("?", u.query) \o Prefixed("#", u.fragment)

\* resolve() of a reference without a scheme: against its base u.
Merge(u, p) == (IF LastAt(u.path, "/") = 0 THEN <<"/">>
                ELSE SubSeq(u.path, 1, LastAt(u.path, "/"))) \o p
HasQuery(t) == FirstAt(Before(t, FirstAt(t, "#")), "?") # 0
Resolve(u, t) ==
    IF Starts(t, Slashes) THEN Parse(t)
    ELSE LET r == Split(t) IN
         [u EXCEPT !.fragment = r.fragment,
                   !.query = IF r.path = <<>> /\ ~HasQuery(t) THEN @ ELSE r.query,
                   !.path = IF r.path = <<>> THEN @
                            ELSE RemoveDotSegments(IF Head(r.path) = "/" THEN r.path
                                                   ELSE Merge(u, r.path))]

\* A mutated form: the character after the colon is not looked at.
StartsWithDrive(p) == Len(p) >= 3 /\ p[2] = Letter /\ p[3] = ":"
\* nativePathFromUrlPath() of a decoded path that starts with "/", and the
\* styles it is asked for; <<>> is no path.
IsDrive(p) == Len(p) >= 3 /\ p[2] = Letter /\ p[3] = ":" /\ (Len(p) = 3 \/ p[4] = "/")
Windows(p) == SubSeq(p, 2, 3) \o (IF Len(p) = 3 THEN <<"\\">>
                                  ELSE ReplaceAll(SubSeq(p, 4, Len(p)), "/", "\\"))
Native(p, style) ==
    CASE style = "PosixOnly"   -> p
      [] style = "WindowsOnly" -> IF IsDrive(p) THEN Windows(p) ELSE <<>>
      [] style = "Both"        -> IF IsDrive(p) THEN Windows(p) ELSE p

-----------------------------------------------------------------------------
\* The removal of dot segments as RFC 3986, 5.2.4, has it: an input buffer whose
\* front is moved or replaced.
UpToLast(out) == SubSeq(out, 1, IF LastAt(out, "/") = 0 THEN 0 ELSE LastAt(out, "/") - 1)
RfcRound(s) ==
    LET next    == FirstAt(Tail(s.in), "/")
        n       == IF next = 0 THEN Len(s.in) ELSE next
        to(m)   == SubSeq(s.in, m + 1, Len(s.in))
    IN CASE s.in = <<>> -> s
         [] Starts(s.in, <<"/", ".", "/">>)      -> [s EXCEPT !.in = to(2)]
         [] s.in = <<"/", ".">>                  -> [s EXCEPT !.in = <<"/">>]
         [] Starts(s.in, <<"/", ".", ".", "/">>) -> [in |-> to(3), out |-> UpToLast(s.out)]
         [] s.in = <<"/", ".", ".">>             -> [in |-> <<"/">>, out |-> UpToLast(s.out)]
         [] OTHER -> [in |-> to(n), out |-> s.out \o SubSeq(s.in, 1, n)]
\* A round leaves a shorter input.
Rfc(path) ==
    LET after[k \in 0 .. Len(path)] ==
            IF k = 0 THEN [in |-> path, out |-> <<>>] ELSE RfcRound(after[k - 1])
    IN after[Len(path)].out

IsPath == Range(text) \subseteq PathCharacters /\ Starts(text, <<"/">>)
\* removeDotSegments() of an absolute path is what the RFC says.
DotsRemoved == IsPath => RemoveDotSegments(text) = Rfc(text)

\* A URL with a proper host is parsed again from what toString() made of it: the
\* redirects and the Location headers that are followed.
IsHost(t) == t # <<>> /\ (Head(t) = "[" \/ Range(t) \subseteq {Letter, Digit, "."})
HostsRoundTrip ==
    LET u == Parse(text) IN u.good /\ IsHost(u.host) => Parse(Reassemble(u)) = u

\* A reference without scheme and authority stays on the host of its base, and a
\* path it names has no dot segment left: this is what a redirect may reach.
Base == Good([NoAuthority EXCEPT !.host = <<Letter>>], Split(<<"/", Letter, "/", Letter>>))
ResolveStays ==
    ~HasScheme(text) /\ ~Starts(text, Slashes) =>
        LET u == Resolve(Base, text) IN
        /\ [u EXCEPT !.path = <<>>, !.query = <<>>, !.fragment = <<>>]
             = [Base EXCEPT !.path = <<>>]
        /\ Starts(u.path, <<"/">>)
        /\ Range(Segments(u.path)) \cap {<<"/", ".">>, <<"/", ".", ".">>} = {}

\* WindowsOnly never yields a path that is not on a drive, and the other styles
\* always yield one.
NativeOnDrive ==
    Starts(text, <<"/">>) =>
        /\ Native(text, "WindowsOnly") \in {<<>>, Native(text, "Both")}
        /\ Native(text, "WindowsOnly") # <<>> =>
              "/" \notin Range(Native(text, "WindowsOnly")) /\ Native(text, "WindowsOnly")[3] = "\\"
        /\ Native(text, "Both") # <<>>

Inv == DotsRemoved /\ HostsRoundTrip /\ ResolveStays /\ NativeOnDrive

\* url.hpp: toString() "Round-trips parse() for anything parse() itself produced".
RoundTrips == LET u == Parse(text) IN u.good => Parse(Reassemble(u)) = u
=============================================================================

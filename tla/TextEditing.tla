---------------------------- MODULE TextEditing -----------------------------
(***************************************************************************)
(* TextArea: a text, the lines it was wrapped into, and a cursor that      *)
(* moves through both.                                                     *)
(*                                                                         *)
(* A key changes the text at once and only invalidates the lines; they are *)
(* made again by measure() of the next tick.  What moves the cursor by     *)
(* lines, and a click, looks at the lines there are.  A character is a     *)
(* letter, a space or a line break, and each is one wide, as the ASCII of  *)
(* a monospaced font.  Left, Right, Delete, Backspace and what is typed    *)
(* do the same to the single line of a TextField, from which they are      *)
(* taken here.                                                             *)
(***************************************************************************)
EXTENDS Naturals, Sequences, SequencesExt

CONSTANTS Widths,       \* the widths measure() is asked to wrap to
          MaxText,      \* bound: characters of the text
          TickBetween   \* is there a tick between two events?

\* Assumed of the constants.
TextConstants == Widths \subseteq Nat \ {0} /\ MaxText \in Nat /\ TickBetween \in BOOLEAN

VARIABLES text,    \* m_text
          cursor,  \* m_cursor, a byte offset into the text
          lines,   \* m_lines: startByte and endByte
          wrapped  \* m_lastWrapWidth, 0 when the text has changed since

vars == <<text, cursor, lines, wrapped>>

Letter == "x"
Space  == " "
Break  == "nl"
Chars  == {Letter, Space, Break}
At(b)  == text[b + 1]     \* the byte at an offset
Line(from, to) == [start |-> from, end |-> to]

-----------------------------------------------------------------------------
(* rewrap(): hard lines, and the words of each put on lines of a width.    *)
HardLines ==
    LET ends == {b \in 0 .. Len(text) : b = Len(text) \/ At(b) = Break}
        begin(e) == IF \E d \in ends : d < e
                    THEN 1 + CHOOSE d \in ends : d < e /\ \A f \in ends : f < e => f <= d
                    ELSE 0
    IN  SetToSortSeq({Line(begin(e), e) : e \in ends}, LAMBDA a, b : a.end < b.end)

Words(hard) ==
    LET inWord(b) == b >= hard.start /\ b < hard.end /\ At(b) # Space
        starts == {b \in hard.start .. hard.end : inWord(b) /\ ~(b > hard.start /\ inWord(b - 1))}
        end(b) == CHOOSE e \in b + 1 .. hard.end :
                      ~inWord(e) /\ \A d \in b .. e - 1 : inWord(d)
    IN  SetToSortSeq({Line(b, end(b)) : b \in starts}, LAMBDA a, b : a.start < b.start)

\* A word that does not fit goes to a line of its own; one wider than a line is cut,
\* by at least a character a line.
Larger(m, n)  == IF m > n THEN m ELSE n
Smaller(m, n) == IF m < n THEN m ELSE n
Close(acc, at) == [acc EXCEPT !.out = Append(@, Line(acc.from, acc.word)), !.from = at, !.any = FALSE]
Cut(acc, w, width) ==
    LET first == Larger(w.start + 1, Smaller(w.end, acc.from + width))
        piece(k) == Line(IF k = 0 THEN acc.from ELSE first + (k - 1) * width,
                         Smaller(w.end, first + k * width))
        more == (w.end - first + width - 1) \div width
    IN  [acc EXCEPT !.out = @ \o [k \in 1 .. more + 1 |-> piece(k - 1)],
                    !.from = w.end, !.any = FALSE]
\* A mutated form: the line is closed where the word that does not fit begins, and the
\* word goes on behind its first character.
StartBehind(w) == w.start + 1
StartAt(w) == w.start
Put(acc, w, width) ==
    LET a == IF w.end - acc.from > width /\ acc.any THEN Close(acc, StartAt(w)) ELSE acc
    IN  IF w.end - a.from <= width THEN [a EXCEPT !.word = w.end, !.any = TRUE]
        ELSE Cut(a, w, width)
WrapHard(hard, width) ==
    LET put(acc, w) == Put(acc, w, width)
        done == FoldLeft(put, [out |-> <<>>, from |-> hard.start, word |-> hard.start, any |-> FALSE],
                         Words(hard))
    IN  IF done.from < hard.end \/ done.out = <<>>
        THEN Append(done.out, Line(done.from, hard.end)) ELSE done.out
Wrap(width) == FlattenSeq([i \in DOMAIN HardLines |-> WrapHard(HardLines[i], width)])

-----------------------------------------------------------------------------
(* Where a byte offset is on the lines, and back.                          *)
LineOf(b) ==
    LET before == {i \in 1 .. Len(lines) : \A j \in 1 .. i : lines[j].start <= b}
    IN  IF before = {} THEN 1 ELSE CHOOSE i \in before : \A j \in before : j <= i
XOf(l, b) == Smaller(IF b > l.start THEN b - l.start ELSE 0, l.end - l.start)
ByteAt(l, x) == l.start + Smaller(x, l.end - l.start)

Init == text = <<>> /\ cursor = 0 /\ lines = <<>> /\ wrapped = 0

\* May the next event be handled?
Ready == TickBetween => wrapped # 0

\* A key that changes the text.
Edited(t, c) == text' = t /\ cursor' = c /\ wrapped' = 0 /\ UNCHANGED lines
Before(b) == SubSeq(text, 1, b)
After(b)  == SubSeq(text, b + 1, Len(text))
Type(c) ==
    /\ Ready /\ Len(text) < MaxText /\ cursor <= Len(text)
    /\ Edited(Before(cursor) \o <<c>> \o After(cursor), cursor + 1)
\* A mutated form: the cursor stays where it was.
EraseAhead == Edited(Before(cursor - 1) \o After(cursor), cursor)
EraseBehind == Edited(Before(cursor - 1) \o After(cursor), cursor - 1)
Backspace == Ready /\ cursor > 0 /\ cursor <= Len(text) /\ EraseBehind
Delete ==
    /\ Ready /\ cursor < Len(text)
    /\ Edited(Before(cursor) \o After(cursor + 1), cursor)
SetText == \E n \in 0 .. Len(text) : Edited(Before(n), n)

\* A key that moves the cursor, or a click.
Move(c) == cursor' = c /\ UNCHANGED <<text, lines, wrapped>>
Left  == Ready /\ cursor > 0 /\ Move(cursor - 1)
Right == Ready /\ cursor < Len(text) /\ Move(cursor + 1)
Home  == Ready /\ lines # <<>> /\ Move(lines[LineOf(cursor)].start)
End   == Ready /\ lines # <<>> /\ Move(lines[LineOf(cursor)].end)
Up ==
    /\ Ready /\ lines # <<>>
    /\ LET i == LineOf(cursor)
       IN  Move(IF i = 1 THEN 0 ELSE ByteAt(lines[i - 1], XOf(lines[i], cursor)))
Down ==
    /\ Ready /\ lines # <<>>
    /\ LET i == LineOf(cursor)
       IN  Move(IF i = Len(lines) THEN Len(text) ELSE ByteAt(lines[i + 1], XOf(lines[i], cursor)))
Click == \E i \in DOMAIN lines, x \in 0 .. MaxText : Ready /\ Move(ByteAt(lines[i], x))

\* measure(), of a tick.
Measure ==
    /\ \E w \in Widths \ {wrapped} : wrapped' = w /\ lines' = Wrap(w)
    /\ UNCHANGED <<text, cursor>>

Next ==
    \/ \E c \in Chars : Type(c)
    \/ Backspace \/ Delete \/ SetText \/ Left \/ Right \/ Home \/ End \/ Up \/ Down \/ Click
    \/ Measure
Spec == Init /\ [][Next]_vars

-----------------------------------------------------------------------------
TypeOK ==
    /\ text \in BoundedSeq(Chars, MaxText) /\ cursor \in Nat
    /\ wrapped \in Widths \cup {0}

\* The cursor is a place in the text, whatever was typed, erased and clicked.
CursorInText == cursor <= Len(text)

\* Every letter is on one line, the lines follow each other, and what lies between
\* two of them is spaces or one line break.
OnLine(b) == {i \in DOMAIN lines : lines[i].start <= b /\ b < lines[i].end}
NothingDropped ==
    wrapped # 0 =>
        /\ \A b \in 0 .. Len(text) - 1 : At(b) = Letter => \E i \in DOMAIN lines : OnLine(b) = {i}
        /\ \A i \in DOMAIN lines : lines[i].start <= lines[i].end /\ lines[i].end <= Len(text)
        /\ \A i \in 2 .. Len(lines) :
               LET gap == lines[i - 1].end .. lines[i].start - 1
               IN  /\ lines[i - 1].end <= lines[i].start
                   /\ \A b \in gap : At(b) # Letter
                   /\ \A b, c \in gap : At(b) = Break /\ At(c) = Break => b = c

\* A click on the caret does not move it, but out of the spaces a wrap dropped.
ClickFindsCaret ==
    wrapped # 0 =>
        LET l == lines[LineOf(cursor)]
            b == ByteAt(l, XOf(l, cursor))
        IN  b <= cursor /\ \A k \in b .. cursor - 1 : At(k) = Space

Inv == TypeOK /\ CursorInText /\ NothingDropped /\ ClickFindsCaret

\* A word is cut only when it alone is wider than a line.
OnlyLongWordsCut ==
    wrapped # 0 =>
        \A i \in DOMAIN HardLines : \A k \in DOMAIN Words(HardLines[i]) :
            LET w == Words(HardLines[i])[k]
            IN  w.end - w.start <= wrapped =>
                    \A b \in w.start .. w.end - 1 : OnLine(b) = OnLine(w.start)
=============================================================================

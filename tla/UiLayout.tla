------------------------------ MODULE UiLayout ------------------------------
(***************************************************************************)
(* WindowUiTree::tick(): the incremental relayout of a tree of Containers  *)
(* with StackLayouts.                                                      *)
(*                                                                         *)
(* An element that was not marked dirty, nor anything below it, answers    *)
(* measure() from its cache and skips arrange() unless it has been moved.  *)
(* What is shown has to be what a relayout of everything would show.       *)
(*                                                                         *)
(* The layout is along the main axis of the stacks; the tree is a root, a  *)
(* panel in it, a box in the panel, and a leaf in each of them.            *)
(***************************************************************************)
EXTENDS Naturals, Sequences, SequencesExt

CONSTANTS WindowSizes,  \* sizes of the window
          Pixels,       \* sizes of elements in pixels
          MaxChanges    \* bound: changes between two ticks

\* Assumed of the constants.
LayoutConstants == WindowSizes \cup Pixels \subseteq Nat /\ MaxChanges \in Nat

VARIABLES style,     \* the preferred length of an element, and whether it is there
          window,    \* the size of the window
          known,     \* m_lastWindowSize
          dirty,     \* m_dirty
          relayout,  \* m_needsRelayout
          marked,    \* m_dirtyElements
          box,       \* what every element keeps between two ticks
          changes    \* bound: changes since the last tick

vars == <<style, window, known, dirty, relayout, marked, box, changes>>

Containers == {"root", "panel", "inner"}
Leaves     == {"label", "item"}
Elements   == Containers \cup Leaves
Below == [root  |-> <<"panel">>, panel |-> <<"label", "inner">>, inner |-> <<"item">>]

Pixel(n)  == [unit |-> "pixel", n |-> n]
Half      == [unit |-> "percent", n |-> 50]
Content   == [unit |-> "content", n |-> 0]
Fraction  == [unit |-> "fraction", n |-> 1]
Absent    == [unit |-> "absent", n |-> 0]
Styles(e) == IF e \in Leaves THEN {Pixel(n) : n \in Pixels} \cup {Half, Absent}
             ELSE {Content, Fraction}

Children(e) == IF e \in Leaves THEN <<>> ELSE SelectSeq(Below[e], LAMBDA c : style[c] # Absent)
Limits(min, max) == [min |-> min, max |-> max]
Never == Limits(1, 0)     \* no constraints a measure() is called with

\* resolveLengthDimension(), within finite limits.
Clamp(n, l) == IF n < l.min THEN l.min ELSE IF n > l.max THEN l.max ELSE n
Resolve(s, l) ==
    CASE s.unit = "pixel"   -> Clamp(s.n, l)
      [] s.unit = "percent" -> Clamp((l.max * s.n) \div 100, l)
      [] OTHER              -> l.max

-----------------------------------------------------------------------------
\* A mutated form: the cache answers whatever the limits are.
CachedAtAll(b, e, l) == ~b[e].stale
Cached(b, e, l) == ~b[e].stale /\ l = b[e].limits
\* A mutated form: what was moved as a whole keeps its children where they were.
SameSize(b, e, at, n) == ~b[e].stale /\ b[e].size = n
Settled(b, e, at, n) == ~b[e].stale /\ b[e].at = at /\ b[e].size = n

\* Container::measure(), StackLayout::measureContent(), and a leaf's measure().
Constraints == [min : Nat, max : Nat]
Boxes == [Elements -> [stale : BOOLEAN, limits : Constraints, measured : Nat, at : Nat, size : Nat]]
measure[b \in Boxes, e \in Elements, l \in Constraints] ==
    IF e \in Leaves THEN [b |-> b, size |-> Resolve(style[e], l)]
    ELSE IF Cached(b, e, l) THEN [b |-> b, size |-> b[e].measured]
    ELSE LET fits == style[e] = Content /\ Children(e) # <<>>
             child(acc, c) ==
                 LET m == measure[acc.b, c, Limits(0, l.max)] IN [b |-> m.b, size |-> acc.size + m.size]
             all == FoldLeft(child, [b |-> b, size |-> 0], Children(e))
             n == IF fits THEN Clamp(all.size, l) ELSE Resolve(style[e], l)
         IN  [b |-> [(IF fits THEN all.b ELSE b) EXCEPT ![e].limits = l, ![e].measured = n],
              size |-> n]

\* StackLayout::layout(): first what has a size, then what shares the rest; then
\* everything gets its place, from the first to the last.
Flexible(e) == style[e] = Fraction
Sized(b, e, total) ==
    LET child(acc, c) ==
            IF Flexible(c) THEN acc
            ELSE LET m == measure[acc.b, c, Limits(0, acc.rest)]
                     n == Clamp(m.size, Limits(0, acc.rest))
                 IN  [b |-> m.b, rest |-> acc.rest - n, sizes |-> [acc.sizes EXCEPT ![c] = n]]
    IN  FoldLeft(child, [b |-> b, rest |-> total, sizes |-> [c \in Elements |-> 0]], Children(e))
Shared(acc, e) ==
    LET flexible == SelectSeq(Children(e), Flexible)
        share == acc.rest \div Len(flexible)
        child(a, c) == [a EXCEPT !.b = measure[a.b, c, Limits(share, share)].b, !.sizes[c] = share]
    IN  FoldLeft(child, acc, flexible)

arrange[b \in Boxes, e \in Elements, at \in Nat, n \in Nat] ==
    LET placed == [b EXCEPT ![e].at = at, ![e].size = n]
        child(acc, c) ==
            [acc EXCEPT !.b = arrange[acc.b, c, acc.next, acc.sizes[c]], !.next = @ + acc.sizes[c]]
        a == Shared(Sized(placed, e, n), e)
    IN  IF e \in Leaves \/ Settled(b, e, at, n) THEN placed
        ELSE FoldLeft(child, [b |-> a.b, sizes |-> a.sizes, next |-> at], Children(e)).b

\* prepareIncrementalRelayout(): stale is what was marked or has something stale below.
\* A mutated form: below the first stale child nobody is asked.
FirstOnly(e) == IF Children(e) = <<>> THEN {} ELSE {Head(Children(e))}
Asked(e) == Range(Children(e))
subtreeStale[e \in Elements] == e \in marked \/ \E c \in Asked(e) : subtreeStale[c]
Prepared == [e \in Elements |-> [box[e] EXCEPT !.stale = subtreeStale[e]]]
Forced   == [e \in Elements |-> [box[e] EXCEPT !.stale = TRUE]]

Pass(b) == arrange[measure[b, "root", Limits(window, window)].b, "root", 0, window]

-----------------------------------------------------------------------------
Init ==
    /\ style \in [Elements -> {Content, Fraction, Absent} \cup {Pixel(n) : n \in Pixels}]
    /\ \A e \in Elements : style[e] = IF e \in Leaves THEN Absent ELSE Fraction
    /\ window \in WindowSizes /\ known = 0
    /\ dirty = TRUE /\ relayout = TRUE /\ marked = {} /\ changes = 0
    /\ box = [e \in Elements |->
                [stale |-> TRUE, limits |-> Never, measured |-> 0, at |-> 0, size |-> 0]]

\* The application changes an element and marks it, the parent for one that comes
\* or goes.
Parent(e) == CHOOSE p \in Containers : e \in Range(Below[p])
Mark(e) == marked' = marked \cup {e} /\ dirty' = TRUE /\ relayout' = TRUE
Change(e) ==
    /\ changes < MaxChanges /\ changes' = changes + 1
    /\ \E s \in Styles(e) \ {style[e]} :
           /\ style' = [style EXCEPT ![e] = s]
           /\ Mark(IF Absent \in {s, style[e]} THEN Parent(e) ELSE e)
    /\ UNCHANGED <<window, known, box>>
Repaint == dirty' = TRUE /\ UNCHANGED <<style, window, known, relayout, marked, box, changes>>
Resize ==
    /\ changes < MaxChanges /\ changes' = changes + 1
    /\ window' \in WindowSizes \ {window}
    /\ UNCHANGED <<style, known, dirty, relayout, marked, box>>

Tick ==
    /\ dirty \/ window # known
    /\ known' = window /\ dirty' = FALSE /\ relayout' = FALSE /\ changes' = 0
    /\ IF relayout \/ window # known
       THEN /\ box' = Pass(IF window # known THEN Forced ELSE Prepared)
            /\ marked' = {}
       ELSE UNCHANGED <<box, marked>>
    /\ UNCHANGED <<style, window>>

Next == (\E e \in Elements \ {"root"} : Change(e)) \/ Repaint \/ Resize \/ Tick
Spec == Init /\ [][Next]_vars

-----------------------------------------------------------------------------
Shown == {e \in Elements : style[e] # Absent}
Bounds(b) == [e \in Shown |-> <<b[e].at, b[e].size>>]

TypeOK ==
    /\ dirty \in BOOLEAN /\ relayout \in BOOLEAN /\ marked \subseteq Elements
    /\ relayout => dirty
\* What a tick leaves is what a relayout of everything would leave.
Exact == ~dirty /\ window = known => Bounds(box) = Bounds(Pass(Forced))
\* Nothing lies outside what it is in, and what follows does not overlap.
Nested ==
    ~dirty /\ window = known =>
        \A p \in Containers : \A i \in DOMAIN Children(p) :
            LET c == Children(p)[i]
            IN  /\ box[c].at >= box[p].at /\ box[c].at + box[c].size <= box[p].at + box[p].size
                /\ i > 1 => box[c].at = box[Children(p)[i - 1]].at + box[Children(p)[i - 1]].size

Inv == TypeOK /\ Exact /\ Nested
=============================================================================

------------------------------ MODULE Widgets -------------------------------
(***************************************************************************)
(* ListView, Dropdown and ScrollView: a selection over items the           *)
(* application replaces, and a view over contents a layout measures.       *)
(*                                                                         *)
(* Handlers run between two ticks, so a click or a wheel meets rows,       *)
(* glyphs and an extent of the last measure() and arrange(), while the     *)
(* application has put other items in their place.                         *)
(***************************************************************************)
EXTENDS Integers

CONSTANTS MaxItems,    \* bound: items of a list
          MaxVisible,  \* m_maxVisibleItems of a dropdown
          MaxExtent    \* bound: contents and viewport of a scroll view

\* Assumed of the constants.
WidgetConstants == {MaxItems, MaxVisible, MaxExtent} \subseteq Nat \ {0}

VARIABLES mode,      \* which widget it is: list, combo, box
          items,     \* how many there are
          selected,  \* m_selectedIndex, NoItem for kInvalidIndex
          hot,       \* m_hoveredIndex
          open,      \* m_open
          shaped,    \* how many items have glyphs
          reshape,   \* m_needsReshape
          viewport, content, \* the size and the measured size of the child
          maxScroll, scroll, \* m_maxScrollY and m_scrollY
          place      \* where the child was arranged

list == <<items, selected, hot, open, shaped, reshape>>
view == <<viewport, content, maxScroll, scroll, place>>
vars == <<mode, list, view>>

NoItem == -1
Least(m, n) == IF m < n THEN m ELSE n
Most(m, n)  == IF m > n THEN m ELSE n

Init ==
    /\ mode \in {"list", "combo", "box"}
    /\ items = 0 /\ selected = NoItem /\ hot = NoItem /\ open = FALSE
    /\ shaped = 0 /\ reshape = TRUE
    /\ viewport = 0 /\ content = 0 /\ maxScroll = 0 /\ scroll = 0 /\ place = 0

-----------------------------------------------------------------------------
(* The items.                                                              *)
Selects(i) == selected' = i /\ reshape' = (reshape \/ mode # "list")

\* setItems(), setRows(): what was selected may be gone.
\* A mutated form: only an empty list loses the selection.
StillSelected(n) == IF n = 0 THEN NoItem ELSE selected
KeptSelection(n) == IF n = 0 THEN NoItem ELSE Least(selected, n - 1)
SetItems ==
    /\ \E n \in 0 .. MaxItems :
           items' = n /\ selected' = KeptSelection(n)
    /\ hot' = (IF mode = "list" THEN hot ELSE NoItem)
    /\ reshape' = TRUE
    /\ UNCHANGED <<open, shaped>>

SetSelected ==
    /\ \E i \in -1 .. MaxItems : Selects(IF i < items THEN i ELSE NoItem)
    /\ UNCHANGED <<items, hot, open, shaped>>

\* The rows that can be hit: all of a list's, of a dropdown those it shows.
Shown == IF mode = "list" THEN items
         ELSE IF mode = "box" \/ open THEN Least(items, MaxVisible) ELSE 0

\* A click on a row, and what it does to an open combo box.
Row ==
    /\ \E i \in 0 .. Shown - 1 :
           IF i # selected THEN Selects(i) ELSE UNCHANGED <<selected, reshape>>
    /\ open' = FALSE
    /\ hot' = (IF open THEN NoItem ELSE hot)
    /\ UNCHANGED <<items, shaped>>
\* A click on the header, Enter and Space; Escape and the loss of the focus.
Toggle ==
    /\ mode = "combo" /\ open' = ~open /\ hot' = NoItem
    /\ UNCHANGED <<items, selected, shaped, reshape>>
Collapse ==
    /\ mode # "list" /\ open' = FALSE /\ hot' = NoItem
    /\ UNCHANGED <<items, selected, shaped, reshape>>
Pointer ==
    /\ mode # "list" /\ Shown > 0
    /\ hot' \in {NoItem} \cup (0 .. Shown - 1)
    /\ UNCHANGED <<items, selected, open, shaped, reshape>>

\* Up and Down.
\* A mutated form: Down ends one behind the last item.
NextOrLast == Least(selected + 1, items)
NextItem == IF selected = NoItem THEN 0 ELSE Least(selected + 1, items - 1)
PreviousItem == IF selected = NoItem THEN 0 ELSE Most(selected - 1, 0)
Arrow ==
    /\ items > 0
    /\ \E i \in {NextItem, PreviousItem} : i # selected /\ Selects(i)
    /\ UNCHANGED <<items, hot, open, shaped>>

\* measure(): the glyphs of the items there are.
Shape ==
    /\ reshape /\ reshape' = FALSE /\ shaped' = items
    /\ UNCHANGED <<items, selected, hot, open>>

List == SetItems \/ SetSelected \/ Row \/ Toggle \/ Collapse \/ Pointer \/ Arrow \/ Shape

-----------------------------------------------------------------------------
(* The view.                                                               *)
Clamp(x, max) == Least(Most(x, 0), max)

\* measure() and arrange(), of a tick.
\* A mutated form: the offset is clamped only when it is set.
KeepScroll(max) == scroll
ClampScroll(max) == Clamp(scroll, max)
Arrange ==
    /\ viewport' \in 0 .. MaxExtent /\ content' \in 0 .. MaxExtent
    /\ maxScroll' = Most(0, content' - viewport')
    /\ scroll' = ClampScroll(maxScroll')
    /\ place' = 0 - scroll'

\* The wheel, the keys and scrollBy(), by what they move: a line, a page, to an end.
Scroll ==
    /\ \E d \in {-1, 1, 0 - viewport, viewport, 0 - scroll, maxScroll - scroll} :
           scroll' = Clamp(scroll + d, maxScroll)
    /\ UNCHANGED <<viewport, content, maxScroll, place>>

\* The two have nothing to do with each other, so a behaviour is of one of them.
Next ==
    \/ UNCHANGED <<mode, view>> /\ List
    \/ mode = "box" /\ items = 0 /\ UNCHANGED <<mode, list>> /\ (Arrange \/ Scroll)
Spec == Init /\ [][Next]_vars

-----------------------------------------------------------------------------
TypeOK ==
    /\ items \in 0 .. MaxItems /\ open \in BOOLEAN /\ reshape \in BOOLEAN
    /\ {viewport, content} \subseteq 0 .. MaxExtent

\* What is selected or under the pointer is an item there is, whatever the
\* application replaced.
SelectionValid ==
    /\ selected \in {NoItem} \cup (0 .. items - 1) /\ hot \in {NoItem} \cup (0 .. items - 1)
\* Once measured, every item has its glyphs.
ShapedForItems == ~reshape => shaped = items
\* After a layout no part of the view is empty that the contents could fill.
NoGap ==
    /\ scroll \in 0 .. maxScroll
    /\ content > viewport => content + place >= viewport
    /\ place <= 0
\* A list that hangs open has been opened.
OnlyCombosOpen == open => mode = "combo"

Inv == TypeOK /\ SelectionValid /\ ShapedForItems /\ NoGap /\ OnlyCombosOpen
=============================================================================

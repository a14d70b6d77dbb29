------------------------------ MODULE UiEvents ------------------------------
(***************************************************************************)
(* WindowUiTree: how a raw event of a window becomes the presses, the      *)
(* hover, the focus and the text input of its elements.                    *)
(*                                                                         *)
(* One event is dispatched at a time, under m_treeMutex, and its handlers  *)
(* call back into the tree: a press asks for the focus, a change of focus  *)
(* cancels a press, a click replaces the elements the event is passing     *)
(* through.  The tree keeps ids, the elements keep flags, and the two have *)
(* to tell the same story after any sequence of events.                    *)
(*                                                                         *)
(* The tree is a window of the application: a root, a panel in it, and in  *)
(* the panel a button with its label, a text field and a combo box.  A new *)
(* panel has new ids (AtomicPanelIdAllocator).                             *)
(***************************************************************************)
EXTENDS Naturals, Sequences, SequencesExt

CONSTANTS MaxPanels   \* bound: how many panels there are, one after the other

\* Assumed of the constant.
UiConstants == MaxPanels \in Nat \ {0}

VARIABLES panel,    \* the panel there is
          focused,  \* m_focusedElement
          capture,  \* m_pointerCaptureTarget
          hovered,  \* m_hoveredPath
          ime,      \* m_textInputActive
          pressed,  \* Container::m_pressed, as the set of those that have it
          over,     \* Container::m_hovered
          lit,      \* m_focused of the field and the combo box
          open      \* Dropdown::m_open

vars == <<panel, focused, capture, hovered, ime, pressed, over, lit, open>>

Root    == <<0, "root">>
Nobody  == <<0, "invalid">>
E(name) == <<panel, name>>
Tree    == {Root} \cup {E(n) : n \in {"panel", "button", "label", "field", "combo"}}
Kind(e) == e[2]
PathTo(e) ==
    CASE Kind(e) = "root"  -> <<Root>>
      [] Kind(e) = "panel" -> <<Root, E("panel")>>
      [] Kind(e) = "label" -> <<Root, E("panel"), E("button"), e>>
      [] OTHER             -> <<Root, E("panel"), e>>
Focusables == <<E("button"), E("field"), E("combo")>>   \* in tree order
IsContainer(e) == Kind(e) \in {"root", "panel", "button"}
HasFocusFlag   == {"field", "combo"}

Init ==
    /\ panel = 1 /\ focused = Nobody /\ capture = Nobody /\ hovered = <<>>
    /\ ime = FALSE /\ pressed = {} /\ over = {} /\ lit = {} /\ open = {}

-----------------------------------------------------------------------------
(* What the handlers of one event do, as functions of the state.           *)
State == [focused |-> focused, capture |-> capture, hovered |-> hovered, ime |-> ime,
          pressed |-> pressed, over |-> over, lit |-> lit, open |-> open, called |-> FALSE]

\* cancelPointerCapture(): the element hears of it if it is still there.
Cancel(u) == [u EXCEPT !.capture = Nobody, !.pressed = @ \ ({u.capture} \cap Tree)]

FocusOut(u) ==
    [u EXCEPT !.lit = @ \ ({u.focused} \cap Tree), !.open = @ \ ({u.focused} \cap Tree)]
\* A mutated form: text input goes on until another element asks for it.
KeepTextInput(u) == u
StopTextInput(u) == [u EXCEPT !.ime = FALSE]
FocusIn(u, e) ==
    [u EXCEPT !.focused = e, !.lit = IF Kind(e) \in HasFocusFlag THEN @ \cup {e} ELSE @,
              !.ime = @ \/ Kind(e) = "field"]
\* setFocus(): to the same element is nothing, to one that is gone ends the press only.
SetFocus(u, e) ==
    IF e = u.focused THEN u
    ELSE IF e \notin Tree \cup {Nobody} THEN Cancel(u)
    ELSE FocusIn(StopTextInput(FocusOut(Cancel(u))), e)

\* updateHoverState(): who fell out of the path, who came in.
Prefix(s, t) == {i \in 1 .. Len(s) : i <= Len(t) /\ SubSeq(s, 1, i) = SubSeq(t, 1, i)}
\* A mutated form: only the innermost element is told.
LeftInnermost(u, path) == IF u.hovered = <<>> THEN {} ELSE {Last(u.hovered)} \ Range(path)
Left(u, path) == Range(u.hovered) \ {u.hovered[i] : i \in Prefix(u.hovered, path)}
Entered(u, path) == Range(path) \ {path[i] : i \in Prefix(u.hovered, path)}
Hover(u, path) ==
    [u EXCEPT !.hovered = path,
              !.over = (@ \ (Left(u, path) \cap Tree))
                       \cup {e \in Entered(u, path) : IsContainer(e)}]

\* The handler a pointer event ends at: the target unless it is a label, then on the
\* way up only a container that can be clicked or focused.
Interactive(e) == Kind(e) = "button"
Handler(path) ==
    IF Kind(Last(path)) # "label" THEN Last(path)
    ELSE Last(SelectSeq(Front(path), Interactive))

\* PointerDown of a container, of the field, of the combo box with its header and rows.
PressContainer(u, e) ==
    LET down == [u EXCEPT !.pressed = @ \cup {e}]
        with == IF Kind(e) = "button" THEN SetFocus(down, e) ELSE down
    IN  [with EXCEPT !.capture = e]
\* The header, or a row, of the combo box: both call back, and go on with the element.
Toggle(u, e) == [u EXCEPT !.open = IF e \in @ THEN @ \ {e} ELSE @ \cup {e}, !.called = TRUE]
Choose(u, e) == [u EXCEPT !.open = @ \ {e}, !.called = TRUE]
PressResults(u, e) ==
    CASE IsContainer(e)    -> {PressContainer(u, e)}
      [] Kind(e) = "field" -> {SetFocus(u, e)}
      [] OTHER -> LET w == SetFocus(u, e)
                  IN  {Toggle(w, e), Choose(w, e), w}

\* PointerUp: the capture is over before the handler runs.
\* A mutated form: the capture is left to releasePointerCapture().
HoldOn(u, target) == u
Release(u, target) == IF target = u.capture THEN [u EXCEPT !.capture = Nobody] ELSE u
LetGo(u, path) ==
    LET e == Handler(path)
        r == Release(u, Last(path))
    IN  [r EXCEPT !.pressed = @ \ {e}, !.called = e \in u.pressed /\ Kind(e) = "button"]

-----------------------------------------------------------------------------
\* What a handler calls may do what it likes; what matters to the tree is a new panel.
Become(u) ==
    /\ focused' = u.focused /\ capture' = u.capture /\ hovered' = u.hovered /\ ime' = u.ime
    /\ pressed' = u.pressed /\ over' = u.over /\ lit' = u.lit /\ open' = u.open
    /\ \/ UNCHANGED panel
       \/ u.called /\ panel < MaxPanels /\ panel' = panel + 1

\* While an element holds the pointer it is the target, wherever the pointer is.
Paths == IF capture \in Tree THEN {PathTo(capture)} ELSE {PathTo(e) : e \in Tree}

PointerMove == \E path \in Paths : Become(Hover(State, path))
PointerDown ==
    \E path \in Paths : \E u \in PressResults(Hover(State, path), Handler(path)) : Become(u)
PointerUp == \E path \in Paths : Become(LetGo(Hover(State, path), path))

\* Keys go to the focused element, or to the root when there is none any more; what a
\* label does not take its button does.
Target == IF focused \in Tree THEN focused ELSE Root
Enter ==
    CASE Kind(Target) \in {"button", "label"} -> Become([State EXCEPT !.called = TRUE])
      [] Kind(Target) = "combo"               -> Become(Toggle(State, Target))
      [] OTHER                                -> UNCHANGED vars
Escape == Target \in open /\ Become(Choose(State, Target))

\* Tab and Shift+Tab, in a ring; from an element that is gone to an end of it.
At == IF focused \in Range(Focusables)
      THEN CHOOSE i \in 1 .. Len(Focusables) : Focusables[i] = focused
      ELSE 0
Tab ==
    \E i \in { IF At = Len(Focusables) THEN 1 ELSE At + 1,
               IF At <= 1 THEN Len(Focusables) ELSE At - 1 } :
        Become(SetFocus(State, Focusables[i]))

\* The application moves the focus, or replaces the panel between two events.
Focus   == \E e \in Tree \cup {Nobody} : Become(SetFocus(State, e))
Replace ==
    /\ panel < MaxPanels /\ panel' = panel + 1
    /\ UNCHANGED <<focused, capture, hovered, ime, pressed, over, lit, open>>

Next == PointerMove \/ PointerDown \/ PointerUp \/ Enter \/ Escape \/ Tab \/ Focus \/ Replace
Spec == Init /\ [][Next]_vars

-----------------------------------------------------------------------------
TypeOK ==
    /\ panel \in 1 .. MaxPanels /\ ime \in BOOLEAN
    /\ pressed \cup over \cup lit \cup open \subseteq ((0 .. MaxPanels) \X STRING)

Now(s) == s \cap Tree
\* A container looks pressed exactly while the pointer is captured for it.
PressedIsCaptured == Now(pressed) = Now({capture})
\* What looks hovered is the path the pointer was last seen on.
HoverTold == Now(over) = {e \in Now(Range(hovered)) : IsContainer(e)}
\* What looks focused is, and a list is open only there.
FocusTold ==
    /\ Now(lit) = {e \in Now({focused}) : Kind(e) \in HasFocusFlag}
    /\ Now(open) \subseteq {focused}
\* The platform composes text exactly while a text field has the focus.
TextInputMeant == ime <=> Kind(focused) = "field"

Inv == TypeOK /\ PressedIsCaptured /\ HoverTold /\ FocusTold /\ TextInputMeant

\* ... of a field that is still there.
TextInputForTheLiving == ime => focused \in Tree
=============================================================================

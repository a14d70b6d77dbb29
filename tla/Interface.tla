------------------------------ MODULE Interface ------------------------------
(***************************************************************************)
(* What a user sees: the windows of dsbox_sdl and the frames that dsbox_vulkan*)
(* and dsbox_vulkan_gui draw into them, the Vulkan objects behind these, the*)
(* elements of dsbox_ui -- events, layout, text, lists -- and the windows of*)
(* the adb tool.  A behaviour is one of one component.                     *)
(***************************************************************************)
EXTENDS Naturals, Sequences

CONSTANTS None,
          Callers, MaxWindows, MaxQueue, AutoHandle, LateCalls, OnControl,  \* WindowModule's
          FramesInFlight, Images, NoImage, HandleSets, Sizes, MaxResizes, MaxFailures,   \* the frames'
          Surfaces, White, Textures, MaxSets, MaxVertices,                  \* the objects'
          MaxPanels,                                                        \* the events'
          WindowSizes, Pixels, MaxChanges,                                  \* the layout's
          Widths, MaxText, TickBetween,                                     \* the text's
          MaxItems, MaxVisible, MaxExtent,                                  \* the lists'
          ToolWindows, Serial, MaxClicks, MaxHasty, MaxLines                \* the adb tool's

VARIABLES kind,  \* the component whose behaviour this is
    running, winOwner, queue, woken, batch, control, winWindows, created, hooks, round,
    winCalling, winCall, hook, told,
    pc, next, frameSize, seen, frameKnown, extent, handles, frameSlot, fence, inFlight,
    frameImage, frameIndex, vertexSlot, cache, cacheExtent, frameDrawn, work, failed, resizes,
    failures,
    live, gpuHeld, up, renderer, sets, currentFrame, capacity, vertices, gpuDrawn,
    uiPanel, focused, capture, hovered, ime, pressed, over, lit, uiOpen,
    style, layoutWindow, layoutKnown, dirty, relayout, marked, box, changes,
    text, cursor, editLines, wrapped,
    mode, items, selected, hot, listOpen, shaped, reshape, viewport, content, maxScroll,
    scroll, place,
    patient, toolMutex, supervisor, toolTarget, requests, registered, toolState, shut,
    toolClosed, render, tasks, toolCalls, toolSelected, toolPanel, mount, toolView,
    detail, toolRows, sidebar, watching, toolLog, shown, clicks, toolLines, harm

windowVars == <<running, winOwner, queue, woken, batch, control, winWindows, created,
                 hooks, round, winCalling, winCall, hook, told>>
framesVars == <<pc, next, frameSize, seen, frameKnown, extent, handles, frameSlot,
                 fence, inFlight, frameImage, frameIndex, vertexSlot, cache, cacheExtent,
                 frameDrawn, work, failed, resizes, failures>>
objectsVars == <<live, gpuHeld, up, renderer, sets, currentFrame, capacity, vertices,
                  gpuDrawn>>
eventsVars == <<uiPanel, focused, capture, hovered, ime, pressed, over, lit, uiOpen>>
layoutVars == <<style, layoutWindow, layoutKnown, dirty, relayout, marked, box, changes>>
textVars == <<text, cursor, editLines, wrapped>>
listsVars == <<mode, items, selected, hot, listOpen, shaped, reshape, viewport, content,
                maxScroll, scroll, place>>
toolVars == <<patient, toolMutex, supervisor, toolTarget, requests, registered,
               toolState, shut, toolClosed, render, tasks, toolCalls, toolSelected,
               toolPanel, mount, toolView, detail, toolRows, sidebar, watching, toolLog,
               shown, clicks, toolLines, harm>>
vars == <<kind, windowVars, framesVars, objectsVars, eventsVars, layoutVars, textVars,
            listsVars, toolVars>>

Window == INSTANCE WindowModule WITH owner <- winOwner, windows <- winWindows, call <- winCall,
          calling <- winCalling
Frames == INSTANCE VulkanFrames WITH size <- frameSize, known <- frameKnown, slot <- frameSlot, image <- frameImage,
          drawn <- frameDrawn
Objects == INSTANCE VulkanResources WITH held <- gpuHeld, drawn <- gpuDrawn
Events == INSTANCE UiEvents WITH panel <- uiPanel, open <- uiOpen
Layout == INSTANCE UiLayout WITH window <- layoutWindow, known <- layoutKnown
Editing == INSTANCE TextEditing WITH lines <- editLines
Lists == INSTANCE Widgets WITH open <- listOpen
Tool == INSTANCE AdbTool WITH Windows <- ToolWindows, state <- toolState, closed <- toolClosed,
        calls <- toolCalls, panel <- toolPanel, view <- toolView, lines <- toolLines,
        mutex <- toolMutex, log <- toolLog, target <- toolTarget, rows <- toolRows,
        selected <- toolSelected

ASSUME InterfaceAssumption ==
    /\ Window!WindowConstants /\ Frames!VulkanConstants /\ Objects!ResourceConstants
    /\ Events!UiConstants /\ Layout!LayoutConstants /\ Editing!TextConstants
    /\ Lists!WidgetConstants /\ Tool!ToolConstants

-----------------------------------------------------------------------------
\* One component moves; the others stay in an initial state.
Init ==
    /\ kind \in {"window", "frames", "objects", "events", "layout", "text", "lists", "tool"}
    /\ Window!Init
    /\ Frames!Init /\ (kind # "frames" => frameSize = CHOOSE s \in Sizes : s # 0)
    /\ Objects!Init
    /\ Events!Init
    /\ Layout!Init /\ (kind # "layout" => layoutWindow = CHOOSE s \in WindowSizes : TRUE)
    /\ Editing!Init
    /\ Lists!Init /\ (kind # "lists" => mode = "list")
    /\ Tool!Init /\ (kind # "tool" => patient)

Next ==
    /\ UNCHANGED kind
    /\ \/ kind = "window" /\ Window!Next
          /\ UNCHANGED <<framesVars, objectsVars, eventsVars, layoutVars, textVars,
                          listsVars, toolVars>>
       \/ kind = "frames" /\ Frames!Next
          /\ UNCHANGED <<windowVars, objectsVars, eventsVars, layoutVars, textVars,
                          listsVars, toolVars>>
       \/ kind = "objects" /\ Objects!Next
          /\ UNCHANGED <<windowVars, framesVars, eventsVars, layoutVars, textVars,
                          listsVars, toolVars>>
       \/ kind = "events" /\ Events!Next
          /\ UNCHANGED <<windowVars, framesVars, objectsVars, layoutVars, textVars,
                          listsVars, toolVars>>
       \/ kind = "layout" /\ Layout!Next
          /\ UNCHANGED <<windowVars, framesVars, objectsVars, eventsVars, textVars,
                          listsVars, toolVars>>
       \/ kind = "text" /\ Editing!Next
          /\ UNCHANGED <<windowVars, framesVars, objectsVars, eventsVars, layoutVars,
                          listsVars, toolVars>>
       \/ kind = "lists" /\ Lists!Next
          /\ UNCHANGED <<windowVars, framesVars, objectsVars, eventsVars, layoutVars,
                          textVars, toolVars>>
       \/ kind = "tool" /\ Tool!Next
          /\ UNCHANGED <<windowVars, framesVars, objectsVars, eventsVars, layoutVars,
                          textVars, listsVars>>

\* What each component may rely on, as its own module says.
Fairness ==
    /\ WF_(Window!vars)(kind = "window" /\ Window!ControlThread)
    /\ WF_(Window!vars)(kind = "window" /\ Window!Joined)
    /\ \A c \in Callers : WF_(Window!vars)(kind = "window" /\ Window!Caller(c))
    /\ WF_(Frames!vars)(kind = "frames" /\ Frames!OnFrame)
    /\ WF_(Frames!vars)(kind = "frames" /\ Frames!Complete)
    /\ WF_(Tool!vars)(kind = "tool" /\ harm = None /\ Tool!GoesOn)

Spec == Init /\ [][Next]_vars /\ Fairness

-----------------------------------------------------------------------------
\* Windows and what is drawn into them (window_module.cpp, vulkan_module.cpp,
\* vulkan_ui_renderer.cpp): a hook is not called once it was cleared, a closing is told
\* once, and nothing is written, recorded or destroyed while somebody uses it.
WindowsSafe ==
    /\ kind = "window" => Window!Inv
    /\ kind = "frames" => Frames!Inv
    /\ kind = "objects" => Objects!Inv

\* The elements of a window (window_ui_tree.cpp, container.cpp, text_area.hpp, list_view.hpp
\* and others): who was told that it is hovered, pressed or focused is told of the end, a
\* layout is what one from nothing would be, and cursor and selection are within the text.
ScreenExact ==
    /\ kind = "events" => Events!Inv
    /\ kind = "layout" => Layout!Inv
    /\ kind = "text" => Editing!Inv
    /\ kind = "lists" => Lists!Inv

\* The adb tool (gui_mode.cpp): an answer never touches what a later view of its panel has
\* replaced, a window outlives its thread, and for a user who waits nobody uses what was
\* destroyed; a window shows the log and the panels there are.
ToolSafe == kind = "tool" => Tool!Inv

\* A call of the window module is answered and its shutdown ends; every onFrame() returns
\* and what is shown gets the window's size; closed windows of the tool are reaped.
InterfaceRests ==
    /\ \A c \in Callers : []<>(winCall[c].at # "waiting")
    /\ []<>((kind = "frames" => Frames!Resting))
    /\ <>[](/\ kind = "window" => winOwner # "joining"
            /\ kind = "frames" => Frames!Fits
            /\ kind = "tool" /\ patient => Tool!Settled)
=============================================================================

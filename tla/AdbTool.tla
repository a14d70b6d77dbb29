------------------------------- MODULE AdbTool -------------------------------
(***************************************************************************)
(* The windows of dsbox_adb_tool.  A supervisor opens and reaps windows;    *)
(* each has a render thread that runs the tasks of its UiTaskQueue between  *)
(* frames; clicks arrive on the control thread and push tasks, or start     *)
(* detached threads that call adb and push their result as a task.          *)
(*                                                                         *)
(* Clicks, closing a window, adb's output and other modules' panels are     *)
(* external.  A patient user waits: a click is answered before the next,    *)
(* and nobody leaves a panel or a window whose adb call is under way,       *)
(* except where a view of the Packages panel is meant to allow it.          *)
(*                                                                         *)
(* A panel that is mounted gets a number of its own; its elements live as   *)
(* long as it is the mounted one and, in the Packages panel, as long as     *)
(* its view is.  `harm` names what somebody did to what was destroyed; what *)
(* the program does from then on is undefined, and the behaviour ends.      *)
(***************************************************************************)
EXTENDS Naturals, Sequences, FiniteSets

CONSTANTS Windows, None, Serial,
          MaxClicks, MaxHasty, \* bounds: clicks in all, of a patient user or of another
          MaxLines    \* bound: lines of logcat

\* Assumed of the constants.
ToolConstants ==
    /\ IsFiniteSet(Windows) /\ Windows # {} /\ {None, Serial} \cap Windows = {} /\ None # Serial
    /\ None \notin {"host", "view", "left", "unguarded", "window", "thread"}
    /\ {MaxClicks, MaxHasty, MaxLines} \subseteq Nat

VARIABLES patient,   \* whether the user waits
          mutex,     \* who holds windowsMutex across steps: None, host
          supervisor,\* looping, opening, reaping, returned
          target,    \* the window that is opened or reaped
          requests,  \* pendingOpenRequests
          registered,\* panels other modules have registered
          state,     \* window |-> none, rendering, open, gone
          shut,      \* windows the user has closed
          closed,    \* windows whose `closed` is set
          render,    \* window |-> none, idle, building (a panel), ended
          tasks,     \* window |-> its UiTaskQueue
          calls,     \* detached calls of adb under way
          selected,  \* window |-> selectedSerial
          panel,     \* window |-> activePanelId
          mount,     \* window |-> number of the mounted panel; 0: nothing was built
          view,      \* window |-> mount |-> PackagesPanelState::generation; 0 if nobody refers to it
          detail,    \* window |-> its Packages panel shows one package
          rows,      \* window |-> the mounted list has rows
          sidebar,   \* window |-> panels of other modules it shows
          watching,  \* window |-> logcatSerial
          log, shown,\* window |-> lines in logBuffer, lines in logcatOutput
          clicks, lines, \* so far
          harm

hosted == <<patient, mutex, supervisor, target, requests, registered>>
opened == <<state, shut, closed>>
mounted == <<panel, mount, view, detail, rows, shown>>
content == <<selected, mounted, sidebar, watching, log>>
counts == <<clicks, lines>>
vars == <<hosted, opened, render, tasks, calls, content, counts, harm>>

Mounts == 1 .. MaxClicks + MaxHasty
Init ==
    /\ patient \in BOOLEAN
    /\ mutex = None /\ supervisor = "looping" /\ target = None
    /\ requests = <<None>> /\ registered = 0
    /\ state = [w \in Windows |-> "none"] /\ shut = {} /\ closed = {}
    /\ render = [w \in Windows |-> "none"] /\ tasks = [w \in Windows |-> <<>>] /\ calls = {}
    /\ selected = [w \in Windows |-> None] /\ watching = [w \in Windows |-> None]
    /\ panel = [w \in Windows |-> "none"] /\ mount = [w \in Windows |-> 0]
    /\ view = [w \in Windows |-> [m \in Mounts |-> 0]]
    /\ detail = [w \in Windows |-> FALSE] /\ rows = [w \in Windows |-> FALSE]
    /\ sidebar = [w \in Windows |-> 0]
    /\ log = [w \in Windows |-> 0] /\ shown = [w \in Windows |-> 0]
    /\ clicks = 0 /\ lines = 0 /\ harm = None

Open == {w \in Windows : state[w] = "open"}    \* host.windows
Panels == {"devices", "shell", "packages", "logcat"}

-----------------------------------------------------------------------------
\* A task, and where what it touches lives; a switch names its panel.
Task(do, m, v) == [do |-> do, mount |-> m, view |-> v, panel |-> "none"]
Switch(p) == [Task("switch", 0, 0) EXCEPT !.panel = p]
Here(w, do) == Task(do, mount[w], view[w][mount[w]])
Push(w, task) == tasks' = [tasks EXCEPT ![w] = Append(@, task)]
CallsOf(w) == {c \in calls : c.win = w}

\* A detached call of adb for an element of a mounted panel: its answer is a task, an
\* `answer` if the generation guards it, else a `touch`.
NewCall(w, task) == [win |-> w, task |-> task]
CallReturns ==
    \E c \in calls :
        /\ calls' = calls \ {c}
        /\ IF state[c.win] = "gone" THEN harm' = "window" /\ UNCHANGED tasks
           ELSE Push(c.win, c.task) /\ UNCHANGED harm
        /\ UNCHANGED <<hosted, opened, render, content, counts>>

Lives(w, t) == t.mount = mount[w] /\ (panel[w] = "packages" => t.view = view[w][t.mount])
\* A mutated form: the answer of an earlier view is taken.
TakeAny(w, task) == TRUE
StillThere(w, task) == view[w][task.mount] = task.view

NextTask(w, do) ==
    /\ render[w] = "idle" /\ tasks[w] # <<>> /\ Head(tasks[w]).do = do
    /\ tasks' = [tasks EXCEPT ![w] = Tail(@)]
\* The answer of runAdbCall(), refreshDevices() or requireSelectedDevice(); that of
\* refreshDevices() fills the list anew.
RunTouch(w) ==
    /\ NextTask(w, "touch")
    /\ harm' = IF Lives(w, Head(tasks[w])) THEN None ELSE "unguarded"
    /\ \E some \in BOOLEAN : rows' = [rows EXCEPT ![w] = IF panel[w] = "devices" THEN some ELSE @]
    /\ UNCHANGED <<hosted, opened, render, calls, selected, panel, mount, view, detail, shown,
                   sidebar, watching, log, counts>>
\* The answer of loadPackagesList(), loadPackageInfo() or runPackageAction().
RunAnswer(w) ==
    /\ NextTask(w, "answer")
    /\ LET t == Head(tasks[w]) IN
         IF ~StillThere(w, t) THEN UNCHANGED <<rows, harm>>
         ELSE /\ harm' = IF Lives(w, t) THEN None ELSE IF t.mount = mount[w] THEN "view" ELSE "left"
              /\ \E some \in BOOLEAN : rows' = [rows EXCEPT ![w] = IF detail[w] THEN @ ELSE some]
    /\ UNCHANGED <<hosted, opened, render, calls, selected, panel, mount, view, detail, shown,
                   sidebar, watching, log, counts>>

\* showPackageDetail() and showPackagesList(): nothing without a body; otherwise the
\* generation is counted up and the body filled anew.  The list is always asked for, the
\* details only of a selected device.
Asks(w, m) == calls' = calls \cup {NewCall(w, Task("answer", m, view[w][m] + 1))}
Show(w, t, one) ==
    /\ view' = [view EXCEPT ![w][t.mount] = @ + 1]
    /\ detail' = [detail EXCEPT ![w] = one] /\ rows' = [rows EXCEPT ![w] = FALSE]
    /\ IF one /\ selected[w] = None THEN UNCHANGED calls
       ELSE Asks(w, t.mount)
RunRow(w) ==
    /\ NextTask(w, "row")
    /\ LET t == Head(tasks[w]) IN
         IF StillThere(w, t) /\ rows[w] /\ t.mount = mount[w] THEN Show(w, t, TRUE)
         ELSE UNCHANGED <<view, detail, rows, calls>>
    /\ UNCHANGED <<hosted, opened, render, selected, panel, mount, shown, sidebar, watching, log,
                   counts, harm>>
RunBack(w) ==
    /\ NextTask(w, "back")
    /\ LET t == Head(tasks[w]) IN
         IF t.mount = mount[w] THEN Show(w, t, FALSE) ELSE UNCHANGED <<view, detail, rows, calls>>
    /\ UNCHANGED <<hosted, opened, render, selected, panel, mount, shown, sidebar, watching, log,
                   counts, harm>>
\* The task of appendLogLine().
RunLog(w) ==
    /\ NextTask(w, "log")
    /\ shown' = [shown EXCEPT ![w] = IF panel[w] = "logcat" /\ mount[w] # 0 THEN log[w] ELSE @]
    /\ UNCHANGED <<hosted, opened, render, calls, selected, panel, mount, view, detail, rows,
                   sidebar, watching, log, counts, harm>>
\* rebuildSidebar().
RunSidebar(w) ==
    /\ NextTask(w, "sidebar")
    /\ sidebar' = [sidebar EXCEPT ![w] = registered]
    /\ UNCHANGED <<hosted, opened, render, calls, selected, mounted, watching, log, counts, harm>>
\* switchPanel(): the old panel goes; the factory of the new one looks its window up
\* under windowsMutex, builds it, and may start a call.
Refers(w, m) ==
    \/ \E c \in CallsOf(w) : c.task.mount = m
    \/ \E i \in DOMAIN tasks[w] : tasks[w][i].mount = m
Leave(w, p) ==
    /\ render' = [render EXCEPT ![w] = "building"]
    /\ panel' = [panel EXCEPT ![w] = p] /\ mount' = [mount EXCEPT ![w] = 0]
    /\ view' = [view EXCEPT ![w] = [m \in Mounts |-> IF Refers(w, m) THEN @[m] ELSE 0]]
    /\ detail' = [detail EXCEPT ![w] = FALSE] /\ rows' = [rows EXCEPT ![w] = FALSE]
    /\ shown' = [shown EXCEPT ![w] = 0]
RunSwitch(w) ==
    /\ NextTask(w, "switch")
    /\ Leave(w, Head(tasks[w]).panel)
    /\ UNCHANGED <<hosted, opened, calls, selected, sidebar, watching, log, counts, harm>>
\* selectDevice(): the Devices panel is mounted anew, to show what is selected.
RunSelect(w) ==
    /\ NextTask(w, "select")
    /\ selected' = [selected EXCEPT ![w] = Serial]
    /\ IF panel[w] = "devices" THEN Leave(w, "devices") ELSE UNCHANGED <<render, mounted>>
    /\ UNCHANGED <<hosted, opened, calls, sidebar, watching, log, counts, harm>>
\* A mutated form: the panel begins empty.
BeginEmpty(w) == 0
FirstShown(w) == log[w]
\* What a panel asks adb for as it is built.
FirstCalls(w, m) ==
    CASE panel[w] = "devices"  -> {NewCall(w, Task("touch", m, 1))}
      [] panel[w] = "packages" -> {NewCall(w, Task("answer", m, 1))}
      [] OTHER                 -> {}
\* The number of a panel that is mounted: the first nobody refers to.
IsFresh(w, m) == ~Refers(w, m) /\ \A n \in 1 .. m - 1 : Refers(w, n)
BuildPanel(w) ==
    /\ render[w] = "building" /\ mutex = None
    /\ render' = [render EXCEPT ![w] = "idle"]
    /\ \/ w \notin Open /\ UNCHANGED <<calls, mounted>>   \* findWindow() finds nothing
       \/ /\ w \in Open
          /\ \E m \in Mounts :
               /\ IsFresh(w, m)
               /\ mount' = [mount EXCEPT ![w] = m]
               /\ view' = [view EXCEPT ![w][m] = 1]
               /\ calls' = calls \cup FirstCalls(w, m)
               /\ shown' = [shown EXCEPT ![w] = IF panel[w] = "logcat" THEN FirstShown(w) ELSE @]
               /\ UNCHANGED <<panel, detail, rows>>
    /\ UNCHANGED <<hosted, opened, tasks, selected, sidebar, watching, log, counts, harm>>
\* The loop ends when the window is closed; what is queued by then is not run.
RenderEnds(w) ==
    /\ render[w] = "idle" /\ w \in closed \cup shut
    /\ render' = [render EXCEPT ![w] = "ended"] /\ closed' = closed \cup {w}
    /\ UNCHANGED <<hosted, state, shut, tasks, calls, content, counts, harm>>
RenderStep(w) ==
    \/ RunTouch(w) \/ RunAnswer(w) \/ RunRow(w) \/ RunBack(w) \/ RunLog(w) \/ RunSidebar(w)
    \/ RunSwitch(w) \/ RunSelect(w) \/ BuildPanel(w) \/ RenderEnds(w)

-----------------------------------------------------------------------------
\* The supervisor: openWindow() makes the window, fills its sidebar and switches to the
\* first panel, whose factory does not find the window, starts its thread, and enters
\* it into `windows` at last.
NextWindow == CHOOSE w \in Windows : state[w] = "none" \/ \A o \in Windows : state[o] # "none"
OpenBegin ==
    /\ supervisor = "looping" /\ requests # <<>> /\ requests' = Tail(requests)
    /\ \/ LET w == NextWindow IN
            /\ state[w] = "none" /\ supervisor' = "opening" /\ target' = w
            /\ state' = [state EXCEPT ![w] = "rendering"] /\ render' = [render EXCEPT ![w] = "idle"]
            /\ selected' = [selected EXCEPT ![w] = Head(requests)]
            /\ sidebar' = [sidebar EXCEPT ![w] = registered]
            /\ panel' = [panel EXCEPT ![w] = "devices"]
       \/ UNCHANGED <<supervisor, target, state, render, selected, sidebar, panel>>   \* it could not be created
    /\ UNCHANGED <<patient, mutex, registered, shut, closed, tasks, calls, mount, view, detail, rows, shown, watching, log, counts, harm>>
OpenEnd ==
    /\ supervisor = "opening" /\ mutex = None
    /\ state' = [state EXCEPT ![target] = "open"] /\ supervisor' = "looping" /\ target' = None
    /\ UNCHANGED <<patient, mutex, requests, registered, shut, closed, render, tasks, calls, content,
                   counts, harm>>

\* closeAndDestroyWindow(), with windowsMutex held until the render thread was joined.
Reap ==
    /\ supervisor = "looping" /\ mutex = None
    /\ \E w \in Open \cap closed : target' = w
    /\ supervisor' = "reaping" /\ mutex' = "host"
    /\ UNCHANGED <<patient, requests, registered, opened, render, tasks, calls, content, counts, harm>>
\* A mutated form: the render thread is not joined.
NotJoined(w) == TRUE
Joined(w) == render[w] = "ended"
Reaped ==
    /\ supervisor = "reaping" /\ Joined(target)
    /\ state' = [state EXCEPT ![target] = "gone"]
    /\ tasks' = [tasks EXCEPT ![target] = <<>>]
    /\ panel' = [panel EXCEPT ![target] = "none"] /\ mount' = [mount EXCEPT ![target] = 0]
    /\ detail' = [detail EXCEPT ![target] = FALSE] /\ rows' = [rows EXCEPT ![target] = FALSE]
    /\ shown' = [shown EXCEPT ![target] = 0] /\ log' = [log EXCEPT ![target] = 0]
    /\ selected' = [selected EXCEPT ![target] = None] /\ watching' = [watching EXCEPT ![target] = None]
    /\ supervisor' = "looping" /\ target' = None /\ mutex' = None
    /\ harm' = IF render[target] = "ended" THEN None ELSE "thread"
    /\ UNCHANGED <<patient, requests, registered, shut, closed, render, calls, view, sidebar, counts>>
\* runGui() returns when no window is left and none is asked for.
Return ==
    /\ supervisor = "looping" /\ requests = <<>> /\ Open = {}
    /\ supervisor' = "returned"
    /\ UNCHANGED <<patient, mutex, target, requests, registered, opened, render, tasks, calls, content,
                   counts, harm>>
Supervise == OpenBegin \/ OpenEnd \/ Reap \/ Reaped \/ Return

-----------------------------------------------------------------------------
\* The user.  A patient one waits for what was clicked.
Quiet(w) == patient => tasks[w] = <<>> /\ render[w] = "idle"
NoCalls(w) == patient => CallsOf(w) = {}
Guarded(w) == patient => \A c \in CallsOf(w) : c.task.do = "answer"
Click(w) ==
    /\ state[w] \in {"rendering", "open"} /\ w \notin shut /\ Quiet(w)
    /\ clicks < (IF patient THEN MaxClicks ELSE MaxHasty) /\ clicks' = clicks + 1
In(w, p) == Click(w) /\ panel[w] = p /\ mount[w] # 0

ClickPanel(w) ==
    /\ Click(w) /\ NoCalls(w)
    /\ \E p \in Panels : Push(w, Switch(p))
    /\ UNCHANGED <<hosted, opened, render, calls, content, lines, harm>>
\* A row of the Devices panel.
ClickDevice(w) ==
    /\ In(w, "devices") /\ rows[w] /\ NoCalls(w)
    /\ Push(w, Task("select", 0, 0))
    /\ UNCHANGED <<hosted, opened, render, calls, content, lines, harm>>
\* A row of the list of packages, or Back.
ClickView(w) ==
    /\ In(w, "packages") /\ Guarded(w) /\ (rows[w] \/ detail[w])
    /\ Push(w, Here(w, IF detail[w] THEN "back" ELSE "row"))
    /\ UNCHANGED <<hosted, opened, render, calls, content, lines, harm>>
\* Calls for an element of this view that nothing guards: Refresh of the Devices panel,
\* and, with a device selected, Run and Install;
ClickCall(w) ==
    /\ \/ In(w, "devices")
       \/ In(w, "shell") /\ selected[w] # None
       \/ In(w, "packages") /\ ~detail[w] /\ selected[w] # None
    /\ calls' = calls \cup {NewCall(w, Here(w, "touch"))}
    /\ UNCHANGED <<hosted, opened, render, tasks, content, lines, harm>>
\* those that the generation guards: Refresh of the list, and, with a device selected,
\* whatever can be done with a package;
ClickGuarded(w) ==
    /\ In(w, "packages") /\ (detail[w] => selected[w] # None)
    /\ calls' = calls \cup {NewCall(w, Here(w, "answer"))}
    /\ UNCHANGED <<hosted, opened, render, tasks, content, lines, harm>>
\* with none, requireSelectedDevice() pushes a task that says so.
ClickNoDevice(w) ==
    /\ In(w, "shell") \/ In(w, "packages")
    /\ selected[w] = None
    /\ Push(w, Here(w, "touch"))
    /\ UNCHANGED <<hosted, opened, render, calls, content, lines, harm>>
ClickOpen(w) ==
    /\ In(w, "devices") /\ Len(requests) < Cardinality({o \in Windows : state[o] = "none"})  \* bound
    /\ requests' = Append(requests, selected[w])
    /\ UNCHANGED <<patient, mutex, supervisor, target, registered, opened, render, tasks, calls, content,
                   lines, harm>>
\* Start of the Logcat panel; Stop changes nothing here.
ClickStart(w) ==
    /\ In(w, "logcat") /\ selected[w] # None
    /\ watching' = [watching EXCEPT ![w] = selected[w]]
    /\ UNCHANGED <<hosted, opened, render, tasks, calls, selected, mounted, sidebar, log, lines, harm>>
\* The window is closed, and told so to whom findWindow() finds.
Close(w) ==
    /\ state[w] \in {"rendering", "open"} /\ w \notin shut /\ Quiet(w) /\ NoCalls(w)
    /\ shut' = shut \cup {w}
    /\ UNCHANGED <<hosted, state, closed, render, tasks, calls, content, counts, harm>>
ClosedEvent(w) ==
    /\ w \in shut \ closed /\ mutex = None /\ w \in Open
    /\ closed' = closed \cup {w}
    /\ UNCHANGED <<hosted, state, shut, render, tasks, calls, content, counts, harm>>

\* A line of logcat, on its reader's thread: every window that watches the device appends
\* it and is told; the subscription outlives runGui().
Told(told, task) == tasks' = [w \in Windows |-> IF w \in told THEN Append(tasks[w], task) ELSE tasks[w]]
Line ==
    /\ lines < MaxLines /\ lines' = lines + 1 /\ mutex = None
    /\ \E w \in Windows : watching[w] # None       \* somebody has started it
    /\ patient => supervisor # "returned"
    /\ LET watchers == {w \in Open : watching[w] = Serial} IN
         IF supervisor = "returned" THEN harm' = "host" /\ UNCHANGED <<log, tasks>>
         ELSE /\ log' = [w \in Windows |-> IF w \in watchers THEN log[w] + 1 ELSE log[w]]
              /\ Told(watchers, Task("log", 0, 0)) /\ UNCHANGED harm
    /\ UNCHANGED <<hosted, opened, render, calls, selected, mounted, sidebar, watching, clicks>>
\* A module registers a panel: PanelRegistry tells the host, which tells every window
\* that is entered by then: a window that is being opened would miss it.
\* A mutated form: only one window is told.
FirstTold == {CHOOSE w \in Windows : w \in Open \/ Open = {}} \cap Open
AllTold == Open
RegisterPanel ==
    /\ patient /\ registered = 0      \* bound: only one, and where InStep is about it
    /\ mutex = None /\ supervisor \notin {"opening", "returned"}
    /\ registered' = 1
    /\ Told(AllTold, Task("sidebar", 0, 0))
    /\ UNCHANGED <<patient, mutex, supervisor, target, requests, opened, render, calls, content, counts,
                   harm>>

GoesOn ==
    \/ Supervise \/ CallReturns
    \/ \E w \in Windows : RenderStep(w) \/ ClosedEvent(w)
Clicked(w) ==
    \/ ClickPanel(w) \/ ClickDevice(w) \/ ClickView(w) \/ ClickCall(w) \/ ClickGuarded(w)
    \/ ClickNoDevice(w) \/ ClickOpen(w) \/ ClickStart(w) \/ Close(w)
Next == harm = None /\ (GoesOn \/ Line \/ RegisterPanel \/ \E w \in Windows : Clicked(w))

\* The supervisor, the render threads and adb go on.
Fairness == WF_vars(harm = None /\ GoesOn)
Spec == Init /\ [][Next]_vars /\ Fairness

-----------------------------------------------------------------------------
TypeOK ==
    /\ mutex \in {None, "host"} /\ supervisor \in {"looping", "opening", "reaping", "returned"}
    /\ render \in [Windows -> {"none", "idle", "building", "ended"}]
    /\ mount \in [Windows -> {0} \cup Mounts] /\ rows \in [Windows -> BOOLEAN]
    /\ harm \in {None, "view", "left", "unguarded", "window", "thread", "host"}

\* The generation keeps its promise while the Packages panel is mounted: what an earlier
\* view of it asked for touches nothing, whatever the user does; and a window is destroyed
\* after its thread.  For a patient user nobody uses what was destroyed at all.
NobodyDead == harm \notin {"view", "thread"} /\ (patient => harm = None)

\* A window that has nothing left to do shows the log it has, and every panel there is.
InStep ==
    \A w \in Open : tasks[w] = <<>> /\ render[w] = "idle" =>
        /\ sidebar[w] = registered
        /\ panel[w] = "logcat" /\ mount[w] # 0 => shown[w] = log[w]
Inv == TypeOK /\ NobodyDead /\ InStep

\* A window that was closed is reaped, and the tool ends with its last window.
Settled ==
    /\ \A w \in shut : state[w] = "gone"
    /\ (\A w \in Windows : state[w] \in {"none", "gone"}) => supervisor = "returned"
EventuallySettled == patient => <>[]Settled
=============================================================================

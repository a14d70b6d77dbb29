----------------------------- MODULE WindowModule -----------------------------
(***************************************************************************)
(* WindowModule (dsbox_sdl/src/window_module.cpp): the control thread, which *)
(* alone touches windows, the queue of commands other threads post to it and *)
(* wait for, the render hooks it calls once per turn of its loop, and the    *)
(* shutdown that joins it.                                                  *)
(*                                                                         *)
(* A caller owns one render hook.  It destroys the hook once a call that     *)
(* clears it has returned, as VulkanUiWindowDriver's users do.  Titles,      *)
(* native windows and text input share the fate of the other commands:       *)
(* "native" stands for the ones that are waited for, "title" for the ones    *)
(* that are not.                                                            *)
(***************************************************************************)
EXTENDS Integers, Sequences

CONSTANTS Callers,       \* threads that call the module
          MaxWindows,    \* bound: windows ever created
          MaxQueue,      \* WindowModuleOptions::maxCommandQueueSize
          AutoHandle,    \* WindowOptions::autoHandleCloseEvent
          LateCalls,     \* may calls be under way when the module is shut down?
          OnControl,     \* may a subscriber of an event call closeWindow()?
          None

\* Assumed of the constants.
WindowConstants ==
    /\ MaxWindows \in Nat \ {0} /\ MaxQueue \in Nat \ {0}
    /\ {AutoHandle, LateCalls, OnControl} \subseteq BOOLEAN
    /\ None \notin Callers

Handles == 1 .. MaxWindows

VARIABLES
    running,   \* Impl::running
    owner,     \* "on", "joining" (in onShutdown()) or "off"
    queue,     \* Impl::commands
    woken,     \* is a wake event in the queue of SDL?
    batch,     \* the commands processCommands() has taken
    control,   \* where the control thread is
    windows,   \* handles in Impl::windows
    created,   \* Impl::nextHandle - 1
    hooks,     \* Impl::renderHooks: a caller's hook or None
    round,     \* hooks of this turn that are still to be called
    calling,   \* the hook whose onFrame() runs, or None
    call,      \* the call of each caller: its state, operation, handle, answer
    hook,      \* "none", "set", "cleared" or "destroyed": the life of each hook
    told       \* "window.closed" events, by handle

vars == <<running, owner, queue, woken, batch, control, windows, created, hooks, round, calling,
          call, hook, told>>

NoCall == [at |-> "idle", op |-> "none", handle |-> 0, ok |-> FALSE]

Init ==
    /\ running = TRUE /\ owner = "on" /\ queue = <<>> /\ woken = FALSE /\ batch = <<>>
    /\ control = "top" /\ windows = {} /\ created = 0
    /\ hooks = [h \in Handles |-> None] /\ round = {} /\ calling = None
    /\ call = [c \in Callers |-> NoCall] /\ hook = [c \in Callers |-> "none"]
    /\ told = [h \in Handles |-> 0]

-----------------------------------------------------------------------------
\* post(): waits while a bounded queue is full and the module runs.
HasRoom == Len(queue) < MaxQueue \/ ~running
Post(command) == queue' = Append(queue, command) /\ woken' = TRUE
Idle(c) == call[c].at = "idle"
Calls(c, at, op, h) == call' = [call EXCEPT ![c] = [at |-> at, op |-> op, handle |-> h, ok |-> FALSE]]

\* A call begins; the module, once initialized, stays so for every caller.
Begin(c, op, h) ==
    /\ Idle(c) /\ (LateCalls \/ owner = "on")
    /\ CASE op = "create" -> created < MaxWindows
         [] op = "set"    -> hook[c] = "none"
         [] op = "clear"  -> hook[c] = "set" /\ \A g \in Handles : hooks[g] = c => g = h
         [] OTHER         -> h \in 1 .. created
    /\ Calls(c, "posting", op, h)
    /\ hook' = IF op = "set" THEN [hook EXCEPT ![c] = "set"] ELSE hook
    /\ UNCHANGED <<running, owner, queue, woken, batch, control, windows, created, hooks, round,
                   calling, told>>
\* A mutated form: a hook is cleared without waiting for it.
WaitsForWindows(op) == op \notin {"title", "clear"}
Waits(op) == op # "title"
Enqueue(c) ==
    /\ call[c].at = "posting" /\ HasRoom
    /\ Post([by |-> IF Waits(call[c].op) THEN c ELSE None, op |-> call[c].op, handle |-> call[c].handle])
    /\ call' = [call EXCEPT ![c].at = IF Waits(call[c].op) THEN "waiting" ELSE "returned"]
    /\ UNCHANGED <<running, owner, batch, control, windows, created, hooks, round, calling, hook, told>>
\* A mutated form: whoever called closeWindow() tells of it.
HasCalledClose(c) == call[c].op = "close"
HasClosed(c) == call[c].op = "close" /\ call[c].ok
\* The call returns; closeWindow() tells that the window is closed first.
Return(c) ==
    /\ call[c].at = "returned"
    /\ told' = IF HasClosed(c) THEN [told EXCEPT ![call[c].handle] = @ + 1] ELSE told
    /\ hook' = IF call[c].op = "clear" THEN [hook EXCEPT ![c] = "cleared"] ELSE hook
    /\ call' = [call EXCEPT ![c] = NoCall]
    /\ UNCHANGED <<running, owner, queue, woken, batch, control, windows, created, hooks, round, calling>>
\* The owner of a hook that was cleared destroys it.
DestroyHook(c) ==
    /\ hook[c] = "cleared" /\ hook' = [hook EXCEPT ![c] = "destroyed"]
    /\ UNCHANGED <<running, owner, queue, woken, batch, control, windows, created, hooks, round,
                   calling, call, told>>

-----------------------------------------------------------------------------
\* destroyWindowInternal()
DestroyWindow(h) == windows' = windows \ {h} /\ hooks' = [hooks EXCEPT ![h] = None]
Answer(c, ok) ==
    call' = IF c \in Callers /\ call[c].at = "waiting"
            THEN [call EXCEPT ![c].at = "returned", ![c].ok = ok] ELSE call

\* controlThreadLoop()
Loop ==
    /\ control = "top"
    /\ control' = IF running THEN "wait" ELSE "drain"
    /\ UNCHANGED <<running, owner, queue, woken, batch, windows, created, hooks, round, calling, call,
                   hook, told>>
HookedAt(h) == hooks[h] # None
Hooked == {h \in Handles : HookedAt(h)}
WakeEvent ==
    /\ control = "wait" /\ woken
    /\ woken' = FALSE /\ control' = "swap"
    /\ UNCHANGED <<running, owner, queue, batch, windows, created, hooks, round, calling, call, hook, told>>
\* With hooks to call the wait has a timeout, when nothing is in the queue of SDL.
TimesOut ==
    /\ control = "wait" /\ ~woken /\ Hooked # {}
    /\ control' = "hooks" /\ round' = Hooked
    /\ UNCHANGED <<running, owner, queue, woken, batch, windows, created, hooks, calling, call, hook, told>>
\* The user asks for a window to be closed: handleSDLEvent().
CloseRequested(h) ==
    /\ control = "wait" /\ h \in windows
    /\ IF AutoHandle THEN DestroyWindow(h) /\ told' = [told EXCEPT ![h] = @ + 1]
                     ELSE UNCHANGED <<windows, hooks, told>>
    /\ \/ control' = "hooks" /\ round' = {g \in Handles : hooks'[g] # None} /\ UNCHANGED <<queue, woken>>
       \/ /\ OnControl /\ HasRoom  \* a subscriber calls closeWindow() here, on this thread
          /\ Post([by |-> None, op |-> "close", handle |-> h])
          /\ control' = "ownCall" /\ UNCHANGED round
    /\ UNCHANGED <<running, owner, batch, created, calling, call, hook>>

\* processCommands(): all commands at once, and room for the callers that wait.
Swap ==
    /\ control \in {"swap", "drain"}
    /\ batch' = queue /\ queue' = <<>>
    /\ control' = IF control = "swap" THEN "run" ELSE "runLast"
    /\ UNCHANGED <<running, owner, woken, windows, created, hooks, round, calling, call, hook, told>>
Execute ==
    /\ control \in {"run", "runLast"} /\ batch # <<>>
    /\ LET m == Head(batch) IN
       /\ CASE m.op = "create" ->
                 \/ /\ created < MaxWindows
                    /\ created' = created + 1 /\ windows' = windows \cup {created + 1}
                    /\ Answer(m.by, TRUE) /\ UNCHANGED hooks
                 \/ Answer(m.by, FALSE) /\ UNCHANGED <<created, windows, hooks>>
            [] m.op = "close" ->
                 /\ IF m.handle \in windows THEN DestroyWindow(m.handle) ELSE UNCHANGED <<windows, hooks>>
                 /\ Answer(m.by, m.handle \in windows) /\ UNCHANGED created
            [] m.op = "set" ->
                 /\ hooks' = [hooks EXCEPT ![m.handle] = m.by]
                 /\ Answer(m.by, TRUE) /\ UNCHANGED <<created, windows>>
            [] m.op = "clear" ->
                 /\ hooks' = [hooks EXCEPT ![m.handle] = None]
                 /\ Answer(m.by, TRUE) /\ UNCHANGED <<created, windows>>
            [] OTHER -> Answer(m.by, m.handle \in windows) /\ UNCHANGED <<created, windows, hooks>>
    /\ batch' = Tail(batch)
    /\ UNCHANGED <<running, owner, queue, woken, control, round, calling, hook, told>>
Executed ==
    /\ batch = <<>>
    /\ \/ control = "run" /\ control' = "hooks" /\ round' = Hooked
       \/ control = "runLast" /\ control' = "clear" /\ UNCHANGED round
    /\ UNCHANGED <<running, owner, queue, woken, batch, windows, created, hooks, calling, call, hook, told>>

\* A mutated form: the window is not looked at.
AnyHookOf(h) == hooks[h]
HookOf(h) == IF h \in windows THEN hooks[h] ELSE None
\* runRenderHooks(): a hook whose window is gone is passed by.
Frame(h) ==
    /\ control = "hooks" /\ calling = None /\ h \in round
    /\ round' = round \ {h}
    /\ calling' = HookOf(h)
    /\ UNCHANGED <<running, owner, queue, woken, batch, control, windows, created, hooks, call, hook, told>>
FrameDone ==
    /\ calling # None /\ calling' = None
    /\ UNCHANGED <<running, owner, queue, woken, batch, control, windows, created, hooks, round, call, hook, told>>
TurnDone ==
    /\ control = "hooks" /\ calling = None /\ round = {}
    /\ control' = "top"
    /\ UNCHANGED <<running, owner, queue, woken, batch, windows, created, hooks, round, calling, call, hook, told>>
\* The windows that are left are destroyed, and told of to nobody.
Clear ==
    /\ control = "clear"
    /\ windows' = {} /\ hooks' = [h \in Handles |-> None] /\ control' = "gone"
    /\ UNCHANGED <<running, owner, queue, woken, batch, created, round, calling, call, hook, told>>

\* A mutated form: the control thread is left asleep.
LetSleep == UNCHANGED woken
WakeLast == woken' = TRUE
\* onShutdown(), or the destructor
Shutdown ==
    /\ owner = "on" /\ (LateCalls \/ \A c \in Callers : Idle(c))
    /\ owner' = "joining" /\ running' = FALSE /\ WakeLast
    /\ UNCHANGED <<queue, batch, control, windows, created, hooks, round, calling, call, hook, told>>
Joined ==
    /\ owner = "joining" /\ control = "gone" /\ owner' = "off"
    /\ UNCHANGED <<running, queue, woken, batch, control, windows, created, hooks, round, calling, call,
                   hook, told>>

ControlThread ==
    \/ Loop \/ WakeEvent \/ TimesOut \/ Swap \/ Execute \/ Executed \/ FrameDone \/ TurnDone \/ Clear
    \/ \E h \in Handles : Frame(h)
Caller(c) == Enqueue(c) \/ Return(c)
Begins(c) ==
    \/ Begin(c, "create", 0)
    \/ \E op \in {"close", "set", "clear", "title", "native"}, h \in Handles : Begin(c, op, h)
Next ==
    \/ ControlThread \/ Shutdown \/ Joined
    \/ \E h \in Handles : CloseRequested(h)
    \/ \E c \in Callers : Caller(c) \/ Begins(c) \/ DestroyHook(c)

\* The control thread keeps turning, and callers go on when they can.
Fairness == WF_vars(ControlThread) /\ WF_vars(Joined) /\ \A c \in Callers : WF_vars(Caller(c))
Spec == Init /\ [][Next]_vars /\ Fairness

-----------------------------------------------------------------------------
TypeOK ==
    /\ windows \subseteq 1 .. created /\ round \subseteq Handles
    /\ calling \in Callers \cup {None} /\ hooks \in [Handles -> Callers \cup {None}]
    /\ control \in {"top", "wait", "swap", "run", "hooks", "ownCall", "drain", "runLast", "clear", "gone"}

\* A hook may be destroyed as soon as the call that cleared it has returned: its
\* onFrame() neither runs then nor will ever run again.
HookOutlivesFrames ==
    \A c \in Callers : hook[c] \in {"cleared", "destroyed"} => calling # c /\ \A h \in Handles : hooks[h] # c
\* A window is told to be closed at most once, and only when it is; one that was
\* closed by a call that returned is gone.
ClosedIsTold ==
    \A h \in Handles : told[h] <= 1 /\ (told[h] = 1 => h \notin windows)
\* No frame is drawn into a window that is closed.
FramesHaveWindows == calling # None => \E h \in windows : hooks[h] = calling

Inv == TypeOK /\ HookOutlivesFrames /\ ClosedIsTold /\ FramesHaveWindows

\* A caller whose command was enqueued is answered, and onShutdown() ends, while
\* the hooks return and no call is made during or after the shutdown.
EventuallyAnswered ==
    /\ \A c \in Callers : []<>(call[c].at # "waiting")
    /\ []<>(owner # "joining")

\* "Safe to call from any thread."
NeverOwnCall == control # "ownCall"
=============================================================================

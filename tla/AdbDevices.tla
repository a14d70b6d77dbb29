----------------------------- MODULE AdbDevices -----------------------------
(***************************************************************************)
(* The devices AdbModule (dsbox_android_adb) knows of: a refresh runs       *)
(* "adb devices -l", exchanges the snapshot under its mutex and tells of    *)
(* the difference without it, if there is a Context.  Refreshes come from   *)
(* any thread and from the device watch, which is a timer of the published  *)
(* Scheduler or, without one, a thread of the module's own.                 *)
(*                                                                         *)
(* External: the devices, adb, and the scheduler, which is there as long as *)
(* its timer is, and whose cancelAndWait() returns when no run is under way *)
(* and none will come.  Assumed of the callers, for what the code leaves    *)
(* unsynchronized: one thread, the owner, initializes, starts, stops and    *)
(* destroys; nobody refreshes while it sets or clears the Context, or when  *)
(* it destroys the module.                                                  *)
(***************************************************************************)
EXTENDS Integers, FiniteSets

CONSTANTS Devices,
          Callers,     \* threads that call refreshDevices() themselves
          MaxPlugs,    \* bound: devices plugged in or unplugged
          MaxStarts,   \* bound: starts of the watch
          MaxFailures  \* bound: runs of adb that fail, or whose output is cut

\* Assumed of the constants.
AdbConstants == IsFiniteSet(Devices) /\ {MaxPlugs, MaxStarts, MaxFailures} \subseteq Nat /\ "watch" \notin Callers

VARIABLES plugged,          \* the devices adb sees
          plugs, failures, starts,       \* how often each of these happened
          snapshot,         \* devicesSnapshot
          told,             \* device |-> connected events less disconnected ones
          unheard,          \* whether a refresh found no Context to tell
          refresh,          \* caller |-> what its refreshDevices() is doing
          active, usingTimer,            \* watchActive, usingSchedulerTimer
          timer,            \* whether the scheduler's timer is armed
          running, thread,  \* fallbackWatchRunning; none, waiting, ticking, ended
          owner,            \* new, inited, up, stopped, shut, gone
          stopping          \* the stopDeviceWatch() under way: no, call, onStop, destructor

world == <<plugged, plugs, failures, starts>>
known == <<snapshot, told, unheard>>
watch == <<active, usingTimer, timer, running, thread>>
life  == <<owner, stopping>>
vars  == <<plugged, plugs, failures, starts, snapshot, told, unheard, refresh, active, usingTimer, timer,
           running, thread, owner, stopping>>

Refreshers == Callers \cup {"watch"}
Idle == [at |-> "idle", new |-> {}, added |-> {}, removed |-> {}]

Init ==
    /\ plugged = {} /\ plugs = 0 /\ failures = 0 /\ starts = 0
    /\ snapshot = {} /\ told = [d \in Devices |-> 0] /\ unheard = FALSE
    /\ refresh = [c \in Refreshers |-> Idle]
    /\ active = FALSE /\ usingTimer = FALSE /\ timer = FALSE
    /\ running = FALSE /\ thread = "none" /\ owner = "new" /\ stopping = "no"

-----------------------------------------------------------------------------
HasContext == owner \in {"inited", "up", "stopped"}

\* The world: a device comes or goes.
Plug ==
    /\ plugs < MaxPlugs /\ plugs' = plugs + 1
    /\ \E d \in Devices : plugged' = (plugged \ {d}) \cup ({d} \ plugged)
    /\ UNCHANGED <<failures, starts, known, refresh, watch, life>>

\* runToCompletion(): adb starts, or the caller of refreshDevices() gets an exception,
\* which a tick of the watch swallows;
Ask(c) ==
    /\ refresh[c].at = "idle"
    /\ refresh' = [refresh EXCEPT ![c].at = "asking"]
AskFails(c) ==
    /\ refresh[c].at = "asking" /\ failures < MaxFailures
    /\ failures' = failures + 1
    /\ refresh' = [refresh EXCEPT ![c] = Idle]
    /\ UNCHANGED <<plugged, plugs, starts, known, watch, life>>
\* it prints what it sees, and every line with a serial and a state is parsed.  wait()
\* may return before the reader has delivered everything: a line that is cut is skipped,
\* or has its serial all the same.
Answered(c, devices) ==
    /\ refresh[c].at = "asking"
    /\ refresh' = [refresh EXCEPT ![c].at = "answered", ![c].new = devices]
Answer(c) ==
    /\ Answered(c, plugged)
    /\ UNCHANGED <<world, known, watch, life>>
AnswerCut(c) ==
    /\ failures < MaxFailures /\ failures' = failures + 1
    /\ \E devices \in (SUBSET plugged) \ {plugged} : Answered(c, devices)
    /\ UNCHANGED <<plugged, plugs, starts, known, watch, life>>

\* A mutated form: the new snapshot is compared with nothing.
NothingKnown == {}
\* emitDevicesDiff(): the exchange under the mutex, then, with a Context, the events
\* without it, one after the other.
Previous == snapshot
Exchange(c) ==
    /\ refresh[c].at = "answered"
    /\ snapshot' = refresh[c].new
    /\ IF HasContext
       THEN /\ refresh' = [refresh EXCEPT ![c].at = "telling", ![c].added = refresh[c].new \ Previous,
                                          ![c].removed = Previous \ refresh[c].new]
            /\ UNCHANGED unheard
       ELSE refresh' = [refresh EXCEPT ![c] = Idle] /\ unheard' = TRUE
    /\ UNCHANGED <<world, told, watch, life>>
TellAdded(c) ==
    /\ refresh[c].at = "telling"
    /\ \E d \in refresh[c].added :
         /\ told' = [told EXCEPT ![d] = @ + 1]
         /\ refresh' = [refresh EXCEPT ![c].added = @ \ {d}]
    /\ UNCHANGED <<world, snapshot, unheard, watch, life>>
TellRemoved(c) ==
    /\ refresh[c].at = "telling" /\ refresh[c].added = {}
    /\ \E d \in refresh[c].removed :
         /\ told' = [told EXCEPT ![d] = @ - 1]
         /\ refresh' = [refresh EXCEPT ![c].removed = @ \ {d}]
    /\ UNCHANGED <<world, snapshot, unheard, watch, life>>
Refreshed(c) ==
    /\ refresh[c].at = "telling" /\ refresh[c].added = {} /\ refresh[c].removed = {}
    /\ refresh' = [refresh EXCEPT ![c] = Idle]
    /\ UNCHANGED <<world, known, watch, life>>

RefreshStep(c) ==
    \/ Answer(c) \/ AnswerCut(c) \/ AskFails(c) \/ Exchange(c)
    \/ TellAdded(c) \/ TellRemoved(c) \/ Refreshed(c)
CallRefresh(c) ==
    /\ owner # "gone" /\ stopping # "destructor"
    /\ Ask(c)
    /\ UNCHANGED <<world, known, watch, life>>

\* The watch: a run of the timer, or a turn of the thread.
TimerRuns ==
    /\ timer /\ Ask("watch")
    /\ UNCHANGED <<world, known, watch, life>>
\* A mutated form: the watch ends its work with the first device it sees.
TickWhileEmpty == thread = "waiting" /\ running /\ snapshot = {}
MayTick == thread = "waiting" /\ running
ThreadTicks ==
    /\ MayTick /\ Ask("watch")
    /\ thread' = "ticking"
    /\ UNCHANGED <<world, known, active, usingTimer, timer, running, life>>
ThreadTicked ==
    /\ thread = "ticking" /\ refresh["watch"].at = "idle"
    /\ thread' = "waiting"
    /\ UNCHANGED <<world, known, refresh, active, usingTimer, timer, running, life>>
ThreadEnds ==
    /\ thread = "waiting" /\ ~running
    /\ thread' = "ended"
    /\ UNCHANGED <<world, known, refresh, active, usingTimer, timer, running, life>>
Ticks == TimerRuns \/ ThreadTicks \/ ThreadTicked \/ ThreadEnds

-----------------------------------------------------------------------------
\* startDeviceWatch(), unless it is active: on the scheduler the Context may have, or
\* on a thread of its own.
OnTimer ==
    /\ HasContext
    /\ timer' = TRUE /\ usingTimer' = TRUE
    /\ UNCHANGED <<running, thread>>
OnThread ==
    /\ usingTimer' = FALSE /\ running' = TRUE /\ thread' = "waiting"
    /\ UNCHANGED timer
Watch ==
    /\ ~active /\ active' = TRUE
    /\ starts < MaxStarts /\ starts' = starts + 1
    /\ OnTimer \/ OnThread
StartDeviceWatch ==
    /\ owner # "gone" /\ stopping = "no"
    /\ Watch
    /\ UNCHANGED <<plugged, plugs, failures, known, refresh, life>>

\* The owner: onInit() finds the Context, onStart() may start the watch.
Nobody == \A c \in Refreshers : refresh[c].at = "idle"
OnInit ==
    /\ owner = "new" /\ stopping = "no" /\ Nobody
    /\ owner' = "inited"
    /\ UNCHANGED <<world, known, refresh, watch, stopping>>
OnStart ==
    /\ owner = "inited" /\ stopping = "no"
    /\ owner' = "up"
    /\ Watch \/ UNCHANGED <<watch, starts>>
    /\ UNCHANGED <<plugged, plugs, failures, known, refresh, stopping>>

\* stopDeviceWatch(): by itself (where it changes nothing without a watch), or from
\* onStop() or the destructor.
StopWatch(why) ==
    /\ stopping = "no" /\ stopping' = why
    /\ usingTimer' = FALSE
    /\ timer' = IF usingTimer THEN FALSE ELSE timer
    /\ running' = IF usingTimer THEN running ELSE FALSE
    /\ UNCHANGED <<world, known, refresh, active, thread, owner>>
StopDeviceWatch == owner # "gone" /\ active /\ StopWatch("call")
OnStop          == owner = "up" /\ StopWatch("onStop")
Destroy         ==
    /\ owner # "gone" /\ \A c \in Callers : refresh[c].at = "idle"
    /\ StopWatch("destructor")

\* A mutated form: nobody is waited for.
QuietAtOnce == TRUE
\* cancelAndWait() of the timer, or the join of the thread.
Quiet == refresh["watch"].at = "idle" /\ thread \in {"none", "ended"}
WatchStopped ==
    /\ stopping # "no" /\ Quiet
    /\ stopping' = "no" /\ active' = FALSE /\ thread' = "none"
    /\ owner' = CASE stopping = "call"       -> owner
                  [] stopping = "onStop"     -> "stopped"
                  [] stopping = "destructor" -> "gone"
    /\ UNCHANGED <<world, known, refresh, usingTimer, timer, running>>

\* onShutdown() clears the Context.
OnShutdown ==
    /\ owner = "stopped" /\ stopping = "no" /\ Nobody
    /\ owner' = "shut"
    /\ UNCHANGED <<world, known, refresh, watch, stopping>>

Owner ==
    OnInit \/ OnStart \/ StartDeviceWatch \/ StopDeviceWatch \/ OnStop
    \/ Destroy \/ WatchStopped \/ OnShutdown
Next ==
    \/ Plug \/ Ticks \/ Owner
    \/ \E c \in Refreshers : RefreshStep(c)
    \/ \E c \in Callers : CallRefresh(c)

\* A refresh that began ends, the watch ticks while it runs, and stops are finished.
Fairness ==
    /\ \A c \in Refreshers : WF_vars(RefreshStep(c))
    /\ WF_vars(Ticks) /\ WF_vars(WatchStopped)
Spec == Init /\ [][Next]_vars /\ Fairness

-----------------------------------------------------------------------------
TypeOK ==
    /\ plugged \subseteq Devices /\ snapshot \subseteq Devices
    /\ told \in [Devices -> Int] /\ thread \in {"none", "waiting", "ticking", "ended"}
    /\ {unheard, active, usingTimer, timer, running} \subseteq BOOLEAN

\* Whoever counts the events knows the snapshot whenever nobody is telling, however
\* the refreshes overlapped (the exchange in emitDevicesDiff()).
Telling(c) == refresh[c].at = "telling"
Heard == ~unheard => \A d \in Devices : told[d] = IF d \in snapshot THEN 1 ELSE 0
EventsAddUp == (\A c \in Refreshers : ~Telling(c)) => Heard

\* When stopDeviceWatch() has returned no tick is under way and none will come: the
\* destructor may free what it uses.
StoppedIsQuiet ==
    ~active => ~timer /\ thread = "none" /\ refresh["watch"].at = "idle"

Inv == TypeOK /\ EventsAddUp /\ StoppedIsQuiet

\* While the watch runs, what it knows becomes what is plugged in, and everybody was
\* told so, whatever runs of adb failed before; and stopping it comes to an end.
InStep == stopping = "no" /\ (active => snapshot = plugged /\ Heard)
WatchConverges == <>[]InStep

=============================================================================

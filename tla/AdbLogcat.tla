------------------------------ MODULE AdbLogcat ------------------------------
(***************************************************************************)
(* The logcats of AdbModule (dsbox_android_adb) for one serial: startLogcat *)
(* looks under the mutex, starts a process without it and enters the        *)
(* process with it; stopLogcat, onStop and the destructor take the entry    *)
(* out and destroy the process outside.  The process' own threads read its  *)
(* lines into the entry's buffer through that mutex, and tell of them and   *)
(* of its exit.                                                            *)
(*                                                                         *)
(* External: the process, which writes and may end at any time, and         *)
(* Subprocess, whose destructor kills it and joins its threads, and whose   *)
(* isRunning() is over when its waiter has noticed the end.  Listeners do   *)
(* not call the module, whose threads they are on; the module is destroyed  *)
(* when its calls have returned.                                            *)
(***************************************************************************)
EXTENDS Naturals, FiniteSets

CONSTANTS Callers,    \* threads that call startLogcat() and stopLogcat()
          Processes,  \* bound: the processes that can be started, one by each start
          None,
          MaxLines    \* bound: pieces of output of each process

\* Assumed of the constants.
LogcatConstants ==
    /\ IsFiniteSet(Processes) /\ None \notin Processes \cup Callers
    /\ "module" \notin Callers /\ MaxLines \in Nat

VARIABLES mutex,    \* who holds logcatMutex
          entry,    \* the process in logcatEntries
          buffer,   \* whose output the entry's lineBuffer is made of
          process,  \* process |-> fresh, running, exited, gone
          output,   \* process |-> pieces it may still write
          hooked,   \* processes whose callbacks are set
          reader,   \* process |-> blocked, calling, telling, done
          waiter,   \* process |-> blocked, telling, done
          caller,   \* caller |-> where its call is
          held,     \* caller |-> the process it is starting or destroying
          overlapped, \* whether two calls were ever under way at once
          starts,   \* calls of startLogcat() so far
          owner     \* up, stopping, stopped, destroying, gone

entries == <<entry, buffer>>
threads == <<output, reader, waiter>>
calls   == <<caller, held, overlapped, starts>>
vars    == <<mutex, entry, buffer, process, output, hooked, reader, waiter, caller, held, overlapped, starts, owner>>

Module == "module"   \* the thread of onStop() and of the destructor
Init ==
    /\ mutex = None /\ entry = None /\ buffer = {}
    /\ process = [p \in Processes |-> "fresh"] /\ output = [p \in Processes |-> MaxLines]
    /\ hooked = {} /\ reader = [p \in Processes |-> "blocked"]
    /\ waiter = [p \in Processes |-> "blocked"]
    /\ caller = [c \in Callers |-> "idle"] /\ held = [c \in Callers \cup {Module} |-> None]
    /\ overlapped = FALSE /\ starts = 0 /\ owner = "up"

IsRunning(p) == process[p] # "fresh" /\ waiter[p] = "blocked"
Idle == (\A c \in Callers : caller[c] = "idle") /\ owner \notin {"stopping", "destroying"}
Exists == owner \notin {"destroying", "gone"}
Goto(c, step) == caller' = [caller EXCEPT ![c] = step]
Hold(c, p) == held' = [held EXCEPT ![c] = p]

-----------------------------------------------------------------------------
\* startLogcat(): the first look, which refuses, or reaps what exited, or goes on.
Start(c) ==
    /\ Exists /\ caller[c] = "idle"
    /\ starts < Cardinality(Processes) /\ starts' = starts + 1
    /\ Goto(c, "looking") /\ overlapped' = (overlapped \/ ~Idle)
    /\ UNCHANGED <<mutex, entries, process, hooked, threads, held, owner>>
AlreadyRunning(c) ==
    /\ caller[c] = "looking" /\ mutex = None
    /\ entry # None /\ IsRunning(entry)
    /\ Goto(c, "idle")
    /\ UNCHANGED <<mutex, entries, process, hooked, threads, held, overlapped, starts, owner>>
Unregistered(c) ==
    /\ caller[c] = "looking" /\ mutex = None /\ entry = None
    /\ Goto(c, "spawning")
    /\ UNCHANGED <<mutex, entries, process, hooked, threads, held, overlapped, starts, owner>>
\* logcatEntries.erase(): it destroys the process, and holds the mutex meanwhile.
Reapable == entry # None /\ ~IsRunning(entry)
Reap(c) ==
    /\ caller[c] = "looking" /\ mutex = None /\ Reapable
    /\ mutex' = c /\ Hold(c, entry) /\ entry' = None /\ buffer' = {}
    /\ Goto(c, "reaping")
    /\ UNCHANGED <<process, hooked, threads, overlapped, starts, owner>>
\* A mutated form: the reader is not joined.
WaiterOnly(p) == waiter[p] = "done"
Joined(p) == reader[p] = "done" /\ waiter[p] = "done"
Reaped(c) ==
    /\ caller[c] = "reaping" /\ Joined(held[c])
    /\ process' = [process EXCEPT ![held[c]] = "gone"]
    /\ Hold(c, None) /\ mutex' = None /\ Goto(c, "spawning")
    /\ UNCHANGED <<entries, hooked, threads, overlapped, starts, owner>>

\* Outside the mutex: the process starts, then its callbacks are set.
Spawn(c) ==
    /\ caller[c] = "spawning"
    /\ \E p \in Processes :
         /\ process[p] = "fresh"
         /\ process' = [process EXCEPT ![p] = "running"] /\ Hold(c, p)
    /\ Goto(c, "hooking")
    /\ UNCHANGED <<mutex, entries, hooked, threads, overlapped, starts, owner>>
SpawnFails(c) ==
    /\ caller[c] = "spawning" /\ Goto(c, "idle")
    /\ UNCHANGED <<mutex, entries, process, hooked, threads, held, overlapped, starts, owner>>
Hook(c) ==
    /\ caller[c] = "hooking"
    /\ hooked' = hooked \cup {held[c]} /\ Goto(c, "entering")
    /\ UNCHANGED <<mutex, entries, process, threads, held, overlapped, starts, owner>>

\* A mutated form: the second look is left out.
NotLooked == FALSE
\* The second look: whoever comes later throws, and destroys what it started.
Taken == entry # None
Enter(c) ==
    /\ caller[c] = "entering" /\ mutex = None /\ ~Taken
    /\ entry' = held[c] /\ buffer' = {} /\ Hold(c, None) /\ Goto(c, "idle")
    /\ UNCHANGED <<mutex, process, hooked, threads, overlapped, starts, owner>>
EnterLate(c) ==
    /\ caller[c] = "entering" /\ mutex = None /\ Taken
    /\ Goto(c, "destroying")
    /\ UNCHANGED <<mutex, entries, process, hooked, threads, held, overlapped, starts, owner>>

\* stopLogcat(), onStop() and the destructor: the entry is taken out, then destroyed.
TakeOut(who) ==
    /\ mutex = None
    /\ Hold(who, entry) /\ entry' = None /\ buffer' = {}
    /\ overlapped' = (overlapped \/ ~Idle)
Stop(c) ==
    /\ Exists /\ caller[c] = "idle"
    /\ entry # None /\ TakeOut(c) /\ Goto(c, "destroying")
    /\ UNCHANGED <<mutex, process, hooked, threads, starts, owner>>
OnStop ==
    /\ owner = "up" /\ owner' = "stopping"
    /\ TakeOut(Module)
    /\ UNCHANGED <<mutex, process, hooked, threads, starts, caller>>
Destroy ==
    /\ Exists /\ Idle /\ owner' = "destroying"
    /\ TakeOut(Module)
    /\ UNCHANGED <<mutex, process, hooked, threads, starts, caller>>
\* A mutated form: the process is left to end by itself.
Spared == "running"
Killed == "exited"
Kill(who) ==
    /\ held[who] # None /\ IsRunning(held[who]) /\ process[held[who]] = "running"
    /\ who # Module => caller[who] \in {"reaping", "destroying"}
    /\ process' = [process EXCEPT ![held[who]] = Killed]
    /\ UNCHANGED <<mutex, entries, hooked, threads, calls, owner>>
Destroyed(c) ==
    /\ caller[c] = "destroying" /\ Joined(held[c])
    /\ process' = [process EXCEPT ![held[c]] = "gone"]
    /\ Hold(c, None) /\ Goto(c, "idle")
    /\ UNCHANGED <<mutex, entries, hooked, threads, overlapped, starts, owner>>
ModuleDone ==
    /\ owner \in {"stopping", "destroying"} /\ (held[Module] # None => Joined(held[Module]))
    /\ process' = [p \in Processes |-> IF p = held[Module] THEN "gone" ELSE process[p]]
    /\ Hold(Module, None) /\ owner' = IF owner = "stopping" THEN "stopped" ELSE "gone"
    /\ UNCHANGED <<mutex, entries, hooked, threads, overlapped, starts, caller>>

-----------------------------------------------------------------------------
\* The process: it writes, and may end by itself.
Exit(p) ==
    /\ process[p] = "running"
    /\ process' = [process EXCEPT ![p] = "exited"]
    /\ UNCHANGED <<mutex, entries, hooked, threads, calls, owner>>

\* Its reader: a piece before the callback is set is lost.
Read(p) ==
    /\ process[p] \in {"running", "exited"} /\ reader[p] = "blocked" /\ output[p] > 0
    /\ output' = [output EXCEPT ![p] = @ - 1]
    /\ reader' = [reader EXCEPT ![p] = IF p \in hooked THEN "calling" ELSE @]
    /\ UNCHANGED <<mutex, entries, process, hooked, waiter, calls, owner>>
\* onLogcatData(): whatever entry the serial has by now gets the piece, and the lines
\* that are complete are told of without the mutex.
Deliver(p) ==
    /\ reader[p] = "calling" /\ mutex = None
    /\ buffer' = IF entry = None THEN buffer ELSE buffer \cup {p}
    /\ reader' = [reader EXCEPT ![p] = IF entry = None THEN "blocked" ELSE "telling"]
    /\ UNCHANGED <<mutex, entry, process, hooked, output, waiter, calls, owner>>
LinesTold(p) ==
    /\ reader[p] = "telling"
    /\ reader' = [reader EXCEPT ![p] = "blocked"]
    /\ UNCHANGED <<mutex, entries, process, hooked, output, waiter, calls, owner>>
\* What it had not written when it ended is not written any more.
ReadEnd(p) ==
    /\ process[p] = "exited" /\ reader[p] = "blocked"
    /\ reader' = [reader EXCEPT ![p] = "done"]
    /\ UNCHANGED <<mutex, entries, process, hooked, output, waiter, calls, owner>>
\* Its waiter notices the end; onLogcatExit(), on its thread, leaves the entry alone.
Notice(p) ==
    /\ process[p] = "exited" /\ waiter[p] = "blocked"
    /\ waiter' = [waiter EXCEPT ![p] = "telling"]
    /\ UNCHANGED <<mutex, entries, process, hooked, output, reader, calls, owner>>
TellExit(p) ==
    /\ waiter[p] = "telling"
    /\ waiter' = [waiter EXCEPT ![p] = "done"]
    /\ UNCHANGED <<mutex, entries, process, hooked, output, reader, calls, owner>>

CallStep(c) ==
    \/ AlreadyRunning(c) \/ Unregistered(c) \/ Reap(c) \/ Reaped(c)
    \/ Spawn(c) \/ SpawnFails(c) \/ Hook(c) \/ Enter(c) \/ EnterLate(c)
    \/ Kill(c) \/ Destroyed(c)
ProcessStep(p) == Deliver(p) \/ LinesTold(p) \/ ReadEnd(p) \/ Notice(p) \/ TellExit(p)
Next ==
    \/ \E c \in Callers : Start(c) \/ Stop(c) \/ CallStep(c)
    \/ \E p \in Processes : Exit(p) \/ Read(p) \/ ProcessStep(p)
    \/ OnStop \/ Destroy \/ Kill(Module) \/ ModuleDone

\* Calls and the threads of a process go on; calls themselves are nobody's duty.
GoesOn ==
    \/ \E c \in Callers : CallStep(c)
    \/ \E p \in Processes : ProcessStep(p)
    \/ Kill(Module) \/ ModuleDone
Fairness == WF_vars(GoesOn)
Spec == Init /\ [][Next]_vars /\ Fairness

-----------------------------------------------------------------------------
TypeOK ==
    /\ entry \in Processes \cup {None} /\ buffer \subseteq Processes
    /\ process \in [Processes -> {"fresh", "running", "exited", "gone"}]
    /\ mutex \in Callers \cup {None} /\ hooked \subseteq Processes

\* A process is looked after by exactly one: the table, a call or onStop(); what has
\* no keeper any more has been joined and freed (the moves out of logcatEntries).
Keepers(p) == {c \in Callers \cup {Module} : held[c] = p}
OneKeeper ==
    \A p \in Processes :
        Cardinality(Keepers(p)) + (IF entry = p THEN 1 ELSE 0)
            = IF process[p] \in {"running", "exited"} THEN 1 ELSE 0

\* "Each serial has at most one logcat subprocess at a time": between calls at most
\* one process runs, and none is left to the operating system.
OneRuns ==
    (Idle => Cardinality({p \in Processes : process[p] = "running"}) <= 1)
    /\ (owner = "gone" => \A p \in Processes : process[p] \in {"fresh", "gone"})

\* The lines of the registered process are put together from its own output only
\* (the buffer is found by serial, not by process).
OwnLines == ~overlapped => buffer \subseteq {entry}

Inv == TypeOK /\ OneKeeper /\ OneRuns /\ OwnLines

\* Every call returns, and what was taken out is joined, unless startLogcat() reaps a
\* process whose last output is not read yet: it holds the mutex its reader waits for.
Stuck == \E c \in Callers : caller[c] = "reaping" /\ reader[held[c]] = "calling"
Settled == Stuck \/ (Idle /\ mutex = None)
EventuallySettled == <>[]Settled

\* Stated without that restriction it fails: with calls that overlap the buffer gets
\* the output of the process that lost, too.
OwnLinesAlways == buffer \subseteq {entry}
=============================================================================

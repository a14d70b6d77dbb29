----------------------------- MODULE Executors -----------------------------
(***************************************************************************)
(* The three executors of dsbox_scheduler behind the contract they share,  *)
(* IExecutor: a behaviour is one of a strand, a thread pool or a loop.     *)
(***************************************************************************)
EXTENDS Naturals

CONSTANTS Callbacks, NoCallback,
          Posters, Drainers, BaseMayClose,   \* the strand's
          Workers, Clients, SpawnMayFail,    \* the pool's
          Pumps, LoopCallbacks, MaxRestarts, \* the loop's
          Unused                             \* the value of a variable of another kind

VARIABLES kind, queue, current, result, started, asleep, notifies,
          running, baseOpen, tasks, ppc, posting, dpc, order,
          stopping, workers, active, wpc, cpc, joining, idlers,
          stopRequested, closed, mode, phase, late, waking, restarts

common     == <<queue, current, result>>
wakeups    == <<asleep, notifies>>
serialOnly == <<running, baseOpen, tasks, ppc, posting, dpc, order>>
poolOnly   == <<stopping, workers, active, wpc, cpc, joining, idlers>>
loopOnly   == <<stopRequested, closed, mode, phase, late, waking, restarts>>
vars == <<kind, common, started, wakeups, serialOnly, poolOnly, loopOnly>>

Serial == INSTANCE SerialExecutor
Pool   == INSTANCE ThreadPool
Loop   == INSTANCE LoopExecutor WITH Callbacks <- LoopCallbacks

ASSUME ExecutorsAssumption ==
    /\ Serial!SerialConstants /\ Pool!PoolConstants /\ Loop!LoopConstants
    /\ LoopCallbacks \subseteq Callbacks

-----------------------------------------------------------------------------
NoWakeups == asleep = Unused /\ notifies = Unused
NoSerial ==
    /\ running = Unused /\ baseOpen = Unused /\ tasks = Unused /\ ppc = Unused
    /\ posting = Unused /\ dpc = Unused /\ order = Unused
NoPool ==
    /\ stopping = Unused /\ workers = Unused /\ active = Unused /\ wpc = Unused
    /\ cpc = Unused /\ joining = Unused /\ idlers = Unused
NoLoop ==
    /\ stopRequested = Unused /\ closed = Unused /\ mode = Unused /\ phase = Unused
    /\ late = Unused /\ waking = Unused /\ restarts = Unused

Init ==
    \/ kind = "serial" /\ Serial!Init /\ NoWakeups /\ NoPool /\ NoLoop
    \/ kind = "pool" /\ Pool!Init /\ NoSerial /\ NoLoop
    \/ kind = "loop" /\ Loop!Init /\ started = Unused /\ NoSerial /\ NoPool

Next ==
    /\ UNCHANGED kind
    /\ \/ kind = "serial" /\ Serial!Next /\ UNCHANGED <<wakeups, poolOnly, loopOnly>>
       \/ kind = "pool" /\ Pool!Next /\ UNCHANGED <<serialOnly, loopOnly>>
       \/ kind = "loop" /\ Loop!Next /\ UNCHANGED <<started, serialOnly, poolOnly>>

\* Threads inside an executor go on and callbacks return, and the time of a
\* runFor() passes; nobody is obliged to post, pump, stop, restart, shut down
\* or wait.
SerialGoesOn(p) == Serial!HandOff(p) \/ Serial!HandOffRefused(p) \/ Serial!DropQueue(p)
PoolCall(u)     == Pool!WakeAll(u) \/ Pool!Joined(u)
PoolIdle(u)     == Pool!IdleSleep(u) \/ Pool!IdleReturn(u)

Fairness ==
    /\ \A p \in Posters : WF_(Serial!vars)(kind = "serial" /\ SerialGoesOn(p))
    /\ \A d \in Drainers : WF_(Serial!vars)(kind = "serial" /\ Serial!Drain(d))
    /\ \A w \in Workers : WF_(Pool!vars)(kind = "pool" /\ Pool!Work(w))
    /\ WF_(Pool!vars)(kind = "pool" /\ Pool!NotifyOne)
    /\ \A u \in Workers \cup Clients : WF_(Pool!vars)(kind = "pool" /\ PoolCall(u))
    /\ \A u \in Clients : WF_(Pool!vars)(kind = "pool" /\ PoolIdle(u))
    /\ WF_(Loop!vars)(kind = "loop" /\ (Loop!NotifyOne \/ Loop!WakeAll))
    /\ \A p \in Pumps : WF_(Loop!vars)(kind = "loop" /\ Loop!Pump(p))
    /\ \A p \in Pumps : WF_(Loop!vars)(kind = "loop" /\ Loop!Deadline(p))

Spec == Init /\ [][Next]_vars /\ Fairness

-----------------------------------------------------------------------------
\* A strand: exactly one party is responsible for a queue that is not empty,
\* so callbacks never run concurrently and none is forgotten.
OneResponsible == kind = "serial" => Serial!TypeOK /\ Serial!OneResponsible

\* A strand starts callbacks in the order post() queued them, and loses one
\* post() took only through a hand-over the base refuses.
AcceptedInOrder ==
    kind = "serial" => Serial!FifoOrder /\ Serial!AcceptedUnlessRefused

\* A pool and a loop never sleep on a queued callback, although they notify
\* after they unlock; a shutdown() that returns has drained and joined.
NoLostWakeup ==
    /\ kind = "pool" => Pool!Inv /\ Pool!ShutdownDrains
    /\ kind = "loop" => Loop!Inv

\* Whatever the kind: a callback is taken or refused; taken, it runs at most
\* once; refused, never.
StatusOf(c) ==
    CASE kind = "serial" -> Serial!StatusOf(c)
      [] kind = "pool"   -> Pool!StatusOf(c)
      [] kind = "loop"   -> IF c \in LoopCallbacks THEN Loop!StatusOf(c) ELSE "new"

Contract == INSTANCE Executor WITH status <- [c \in Callbacks |-> StatusOf(c)]

ImplementsExecutor == Contract!Spec

\* What has been queued is run or dropped, and whoever waits for that, or for
\* the executor to end, returns: a shutdown() whoever calls it, a waitIdle()
\* (unless a thread could not be started), a run() that has callbacks to run
\* or is stopped, and a runFor().  Everything is posted, shut down and waited
\* for at most once, so a strand and a pool come to rest.
Settled ==
    CASE kind = "serial" -> queue = <<>>
      [] kind = "pool" ->
            /\ \A u \in Workers \cup Clients : cpc[u] \notin {"waking", "joining"}
            /\ \A u \in Clients : cpc[u] = "waiting" => \E c \in Callbacks : result[c] = "threw"
      [] kind = "loop" -> TRUE

MustReturn(p) ==
    /\ kind = "loop" /\ phase[p] # "out"
    /\ \/ mode[p] = "run" /\ (stopRequested \/ queue # <<>>)
       \/ mode[p] = "runFor"

CallsReturn == <>[]Settled /\ \A p \in Pumps : []<>~MustReturn(p)
=============================================================================

----------------------------- MODULE ThreadPool -----------------------------
(***************************************************************************)
(* ThreadPoolExecutor (dsbox_scheduler): worker threads, started by the    *)
(* first post(), draining one FIFO queue; shutdown() refuses new work,     *)
(* lets the queue drain and joins the workers; waitIdle() waits until      *)
(* nothing is queued or running.                                           *)
(*                                                                         *)
(* Each critical section of PoolState::mutex is one action, and each       *)
(* notify made after leaving it another.  The condition variables are wait *)
(* sets: a thread whose predicate is false joins the set and goes on only  *)
(* after a notify took it out again.                                       *)
(***************************************************************************)
EXTENDS Naturals, Sequences, FiniteSets

CONSTANTS Workers,       \* the threads the pool starts
          Clients,       \* threads calling shutdown() and waitIdle()
          Callbacks,     \* callbacks to post, each posted at most once
          SpawnMayFail,  \* whether starting a thread may throw
          NoCallback     \* not a callback

\* Assumed of the constants.
PoolConstants ==
    /\ IsFiniteSet(Workers) /\ IsFiniteSet(Callbacks)
    /\ NoCallback \notin Callbacks
    /\ Workers \cap Clients = {}
    /\ SpawnMayFail \in BOOLEAN

VARIABLES queue,     \* PoolState::queue
          started,   \* PoolState::started
          stopping,  \* PoolState::stopping
          workers,   \* PoolState::workers, the threads still to be joined
          active,    \* PoolState::active, as the set of workers it counts
          wpc,       \* where each worker is inside poolWorker()
          current,   \* the callback each worker is running
          asleep,    \* workers waiting on cv
          notifies,  \* post() calls that have queued and not yet notified
          cpc,       \* where each thread is inside shutdown() or waitIdle()
          joining,   \* the workers a shutdown() has taken over to join
          idlers,    \* clients waiting on idleCv
          result     \* what post() did for each callback

vars == <<queue, started, stopping, workers, active, wpc, current, asleep,
          notifies, cpc, joining, idlers, result>>

Callers == Clients \cup Workers

TypeOK ==
    /\ queue \in Seq(Callbacks)
    /\ started \in BOOLEAN
    /\ stopping \in BOOLEAN
    /\ workers \subseteq Workers
    /\ active \subseteq Workers
    /\ wpc \in [Workers -> {"unborn", "loop", "run", "report", "exited"}]
    /\ current \in [Workers -> Callbacks \cup {NoCallback}]
    /\ \A w \in Workers : current[w] = NoCallback <=> wpc[w] # "run"
    /\ asleep \subseteq Workers
    /\ notifies \in 0 .. Cardinality(Callbacks)
    /\ cpc \in [Callers -> {"out", "waking", "joining", "waiting", "joined", "idle"}]
    /\ joining \in [Callers -> SUBSET Workers]
    /\ idlers \subseteq Clients
    /\ result \in [Callbacks -> {"none", "true", "false", "threw"}]

Init ==
    /\ queue = <<>>
    /\ started = FALSE
    /\ stopping = FALSE
    /\ workers = {}
    /\ active = {}
    /\ wpc = [w \in Workers |-> "unborn"]
    /\ current = [w \in Workers |-> NoCallback]
    /\ asleep = {}
    /\ notifies = 0
    /\ cpc = [u \in Callers |-> "out"]
    /\ joining = [u \in Callers |-> {}]
    /\ idlers = {}
    /\ result = [c \in Callbacks |-> "none"]

-----------------------------------------------------------------------------
\* post() refused because of shutdown().
PostRefused(c) ==
    /\ result[c] = "none" /\ stopping
    /\ result' = [result EXCEPT ![c] = "false"]
    /\ UNCHANGED <<notifies, queue, started, stopping, workers, active, wpc,
                   current, asleep, cpc, joining, idlers>>

\* The threads that a first post() starts; a later one starts none.
StartWorkers(new) ==
    /\ started' = TRUE
    /\ workers' = workers \cup new
    /\ wpc' = [w \in Workers |-> IF w \in new THEN "loop" ELSE wpc[w]]

ToStart   == IF started THEN {} ELSE Workers

\* post() taken: start the threads if this is the first one, and queue.
PostTaken(c) ==
    /\ result[c] = "none" /\ ~stopping
    /\ StartWorkers(ToStart)
    /\ queue' = Append(queue, c)
    /\ notifies' = notifies + 1
    /\ result' = [result EXCEPT ![c] = "true"]
    /\ UNCHANGED <<stopping, active, current, asleep, cpc, joining, idlers>>

\* cv.notify_one() at the end of post(): one sleeper, if any, wakes up.
WakeNobody == UNCHANGED asleep
WakeOne ==
    \/ asleep = {} /\ UNCHANGED asleep
    \/ \E w \in asleep : asleep' = asleep \ {w}

NotifyOne ==
    /\ notifies > 0
    /\ notifies' = notifies - 1
    /\ WakeOne
    /\ UNCHANGED <<queue, started, stopping, workers, active, wpc, current,
                   cpc, joining, idlers, result>>

\* Starting one of the threads throws: `started` stays set, the threads
\* already started stay, and the exception leaves post() before the push.
PostThrows(c) ==
    /\ SpawnMayFail
    /\ result[c] = "none" /\ ~stopping /\ ~started
    /\ \E some \in (SUBSET Workers) \ {Workers} : StartWorkers(some)
    /\ result' = [result EXCEPT ![c] = "threw"]
    /\ UNCHANGED <<notifies, queue, stopping, active, current, asleep, cpc,
                   joining, idlers>>

\* poolWorker(): the predicate of cv.wait() is false, go to sleep,
Sleep(w) ==
    /\ wpc[w] = "loop" /\ w \notin asleep
    /\ queue = <<>> /\ ~stopping
    /\ asleep' = asleep \cup {w}
    /\ UNCHANGED <<notifies, queue, started, stopping, workers, active, wpc,
                   current, cpc, joining, idlers, result>>

\* take the front of the queue,
PopFront == queue' = Tail(queue)

TakeCallback(w) ==
    /\ wpc[w] = "loop" /\ w \notin asleep
    /\ queue # <<>>
    /\ current' = [current EXCEPT ![w] = Head(queue)]
    /\ PopFront
    /\ active' = active \cup {w}
    /\ wpc' = [wpc EXCEPT ![w] = "run"]
    /\ UNCHANGED <<notifies, started, stopping, workers, asleep, cpc, joining,
                   idlers, result>>

\* or leave: stopping, and nothing left to drain.
StoppingOnly == stopping
MayLeave     == queue = <<>> /\ stopping

Exit(w) ==
    /\ wpc[w] = "loop" /\ w \notin asleep /\ MayLeave
    /\ wpc' = [wpc EXCEPT ![w] = "exited"]
    /\ UNCHANGED <<notifies, queue, started, stopping, workers, active,
                   current, asleep, cpc, joining, idlers, result>>

\* The callback returns (an exception is caught) and is destroyed,
Release(w) == current' = [current EXCEPT ![w] = NoCallback]

Returned(w) ==
    /\ wpc[w] = "run" /\ cpc[w] \in {"out", "joined"}
    /\ wpc' = [wpc EXCEPT ![w] = "report"]
    /\ Release(w)
    /\ UNCHANGED <<notifies, queue, started, stopping, workers, active,
                   asleep, cpc, joining, idlers, result>>

\* and the worker reports idle, waking waitIdle() if it was the last one.
WakeIdlers  == idlers' = IF queue = <<>> /\ active' = {} THEN {} ELSE idlers

Report(w) ==
    /\ wpc[w] = "report"
    /\ active' = active \ {w}
    /\ WakeIdlers
    /\ wpc' = [wpc EXCEPT ![w] = "loop"]
    /\ UNCHANGED <<notifies, queue, started, stopping, workers, current,
                   asleep, cpc, joining, result>>

\* A thread that may call into the pool now: a client, or a worker inside a
\* callback.
MayCall(u) == cpc[u] = "out" /\ (u \in Workers => wpc[u] = "run")

\* shutdown(): refuse new work and take the threads over,
Shutdown(u) ==
    /\ MayCall(u)
    /\ stopping' = TRUE
    /\ joining' = [joining EXCEPT ![u] = workers]
    /\ workers' = {}
    /\ cpc' = [cpc EXCEPT ![u] = "waking"]
    /\ UNCHANGED <<notifies, queue, started, active, wpc, current, asleep,
                   idlers, result>>

\* wake them all (cv.notify_all()),
WakeAll(u) ==
    /\ cpc[u] = "waking"
    /\ asleep' = {}
    /\ cpc' = [cpc EXCEPT ![u] = "joining"]
    /\ UNCHANGED <<notifies, queue, started, stopping, workers, active, wpc,
                   current, joining, idlers, result>>

\* then join each of them, detaching the caller's own thread.
TakenOver(u) == joining[u]
ToJoin(u)    == joining[u] \ {u}

Joined(u) ==
    /\ cpc[u] = "joining"
    /\ \A w \in ToJoin(u) : wpc[w] = "exited"
    /\ cpc' = [cpc EXCEPT ![u] = "joined"]
    /\ UNCHANGED <<notifies, queue, started, stopping, workers, active, wpc,
                   current, asleep, joining, idlers, result>>

\* waitIdle(): sleep on idleCv while something is queued or running.
WaitIdle(u) ==
    /\ cpc[u] = "out"
    /\ cpc' = [cpc EXCEPT ![u] = "waiting"]
    /\ UNCHANGED <<notifies, queue, started, stopping, workers, active, wpc,
                   current, asleep, joining, idlers, result>>

IdleSleep(u) ==
    /\ cpc[u] = "waiting" /\ u \notin idlers
    /\ ~(queue = <<>> /\ active = {})
    /\ idlers' = idlers \cup {u}
    /\ UNCHANGED <<notifies, queue, started, stopping, workers, active, wpc,
                   current, asleep, cpc, joining, result>>

IdleReturn(u) ==
    /\ cpc[u] = "waiting" /\ u \notin idlers
    /\ queue = <<>> /\ active = {}
    /\ cpc' = [cpc EXCEPT ![u] = "idle"]
    /\ UNCHANGED <<notifies, queue, started, stopping, workers, active, wpc,
                   current, asleep, joining, idlers, result>>

Work(w) == Sleep(w) \/ TakeCallback(w) \/ Exit(w) \/ Returned(w) \/ Report(w)

Next ==
    \/ \E c \in Callbacks : PostRefused(c) \/ PostTaken(c) \/ PostThrows(c)
    \/ NotifyOne
    \/ \E w \in Workers : Work(w)
    \/ \E u \in Callers : Shutdown(u) \/ WakeAll(u) \/ Joined(u)
    \/ \E u \in Clients : WaitIdle(u) \/ IdleSleep(u) \/ IdleReturn(u)

Spec == Init /\ [][Next]_vars

-----------------------------------------------------------------------------
Queued == {queue[i] : i \in 1 .. Len(queue)}

\* No wake-up is lost: while some worker sleeps there is, for every queued
\* callback, a notify under way or another worker about to look (so nothing
\* waits behind a busy worker), and a shutdown is about to wake the sleepers.
NoLostWakeup ==
    asleep # {} =>
        /\ Len(queue) <= notifies + Cardinality({w \in Workers \ asleep : wpc[w] = "loop"})
        /\ stopping => \E u \in Callers : cpc[u] = "waking"

\* The state is well formed and no wake-up is lost.
Inv == TypeOK /\ NoLostWakeup

\* When the shutdown() that took the workers over returns, every callback
\* the pool had taken is finished and every thread but the caller's is gone.
ShutdownDrains ==
    \A u \in Callers : cpc[u] = "joined" /\ joining[u] # {} /\ joining[u] # {u} =>
        /\ queue = <<>>
        /\ \A w \in Workers \ {u} : wpc[w] \in {"unborn", "exited"}

-----------------------------------------------------------------------------
\* The pool as the client of IExecutor sees it.
StatusOf(c) ==
    IF \E w \in Workers : current[w] = c THEN "running"
    ELSE CASE result[c] \in {"false", "threw"} -> "refused"
           [] result[c] = "none"               -> "new"
           [] c \in Queued                     -> "taken"
           [] OTHER                            -> "done"
=============================================================================

---------------------------- MODULE LoopExecutor ----------------------------
(***************************************************************************)
(* LoopExecutor (dsbox_scheduler): a queue pumped by threads of the host,  *)
(* through run(), runFor(), poll() and runOne(), several at once if it     *)
(* likes; stop() makes run() and runFor() return until restart(); close()  *)
(* makes post() refuse.                                                    *)
(*                                                                         *)
(* Each critical section is one action, and each notify made after leaving *)
(* it another; cv is the wait set `asleep`, from which notify_one() takes  *)
(* one thread, notify_all() all, and the deadline of a runFor() its own.   *)
(***************************************************************************)
EXTENDS Naturals, Sequences, FiniteSets

CONSTANTS Pumps,        \* threads that pump the loop
          Callbacks,    \* callbacks to post, each posted at most once
          MaxRestarts,  \* bound on calls of restart()
          NoCallback    \* not a callback

\* Assumed of the constants.
LoopConstants ==
    /\ IsFiniteSet(Pumps) /\ IsFiniteSet(Callbacks)
    /\ NoCallback \notin Callbacks
    /\ MaxRestarts \in Nat

VARIABLES queue,     \* LoopState::queue
          stopRequested,
          closed,
          mode,      \* the function each thread pumps with
          phase,     \* where it is inside that function
          late,      \* the deadline of its runFor() has passed
          asleep,    \* threads waiting on cv
          notifies,  \* post() calls that have queued and not yet notified
          waking,    \* a stop() has set its flag and not yet notified
          current,   \* the callback each thread is running
          restarts,  \* calls of restart() so far
          result     \* what post() returned for each callback

vars == <<queue, stopRequested, closed, mode, phase, late, asleep, notifies,
          waking, current, restarts, result>>

Modes == {"run", "runFor", "poll", "runOne"}

TypeOK ==
    /\ queue \in Seq(Callbacks)
    /\ stopRequested \in BOOLEAN
    /\ closed \in BOOLEAN
    /\ mode \in [Pumps -> Modes]
    /\ phase \in [Pumps -> {"out", "top", "wait", "invoke"}]
    /\ late \in [Pumps -> BOOLEAN]
    /\ asleep \subseteq Pumps
    /\ notifies \in 0 .. Cardinality(Callbacks)
    /\ waking \in BOOLEAN
    /\ current \in [Pumps -> Callbacks \cup {NoCallback}]
    /\ \A p \in Pumps : current[p] = NoCallback <=> phase[p] # "invoke"
    /\ restarts \in 0 .. MaxRestarts
    /\ result \in [Callbacks -> {"none", "true", "false"}]

Init ==
    /\ queue = <<>>
    /\ stopRequested = FALSE
    /\ closed = FALSE
    /\ mode = [p \in Pumps |-> "run"]
    /\ phase = [p \in Pumps |-> "out"]
    /\ late = [p \in Pumps |-> FALSE]
    /\ asleep = {}
    /\ notifies = 0
    /\ waking = FALSE
    /\ current = [p \in Pumps |-> NoCallback]
    /\ restarts = 0
    /\ result = [c \in Callbacks |-> "none"]

-----------------------------------------------------------------------------
PostTaken(c) ==
    /\ result[c] = "none" /\ ~closed
    /\ queue' = Append(queue, c)
    /\ notifies' = notifies + 1
    /\ result' = [result EXCEPT ![c] = "true"]
    /\ UNCHANGED <<stopRequested, closed, mode, phase, late, asleep, waking,
                   current, restarts>>

PostRefused(c) ==
    /\ result[c] = "none" /\ closed
    /\ result' = [result EXCEPT ![c] = "false"]
    /\ UNCHANGED <<notifies, waking, queue, stopRequested, closed, mode,
                   phase, late, asleep, current, restarts>>

\* cv.notify_one() at the end of post(): one sleeper, if any, wakes up.
WakeNobody == UNCHANGED asleep
WakeOne ==
    \/ asleep = {} /\ UNCHANGED asleep
    \/ \E p \in asleep : asleep' = asleep \ {p}

NotifyOne ==
    /\ notifies > 0
    /\ notifies' = notifies - 1
    /\ WakeOne
    /\ UNCHANGED <<queue, stopRequested, closed, mode, phase, late, waking,
                   current, restarts, result>>

\* stop(): set the flag (one call at a time),
Stop ==
    /\ ~waking
    /\ stopRequested' = TRUE
    /\ waking' = TRUE
    /\ UNCHANGED <<queue, closed, mode, phase, late, asleep, notifies,
                   current, restarts, result>>

\* then cv.notify_all().
WakeEverybody == asleep' = {}

WakeAll ==
    /\ waking
    /\ waking' = FALSE
    /\ WakeEverybody
    /\ UNCHANGED <<queue, stopRequested, closed, mode, phase, late, notifies,
                   current, restarts, result>>

Restart ==
    /\ restarts < MaxRestarts
    /\ restarts' = restarts + 1
    /\ stopRequested' = FALSE
    /\ UNCHANGED <<notifies, waking, queue, closed, mode, phase, late, asleep,
                   current, result>>

Close ==
    /\ ~closed
    /\ closed' = TRUE
    /\ UNCHANGED <<notifies, waking, queue, stopRequested, mode, phase, late,
                   asleep, current, restarts, result>>

-----------------------------------------------------------------------------
Goto(p, l) == phase' = [phase EXCEPT ![p] = l]

\* A thread of the host calls one of the pumping functions.  Only runFor()
\* looks at its deadline before it waits.
Enter(p) ==
    /\ phase[p] = "out"
    /\ \E m \in Modes :
           /\ mode' = [mode EXCEPT ![p] = m]
           /\ Goto(p, IF m = "runFor" THEN "top" ELSE "wait")
    /\ late' = [late EXCEPT ![p] = FALSE]
    /\ UNCHANGED <<notifies, waking, queue, stopRequested, closed, asleep,
                   current, restarts, result>>

EndWait(p)   == asleep' = asleep \ {p}

\* The deadline of a runFor() passes, which also ends a wait for it.
Deadline(p) ==
    /\ mode[p] = "runFor" /\ phase[p] # "out" /\ ~late[p]
    /\ late' = [late EXCEPT ![p] = TRUE]
    /\ EndWait(p)
    /\ UNCHANGED <<notifies, waking, queue, stopRequested, closed, mode,
                   phase, current, restarts, result>>

\* runFor(), top of the loop: give up if the deadline has passed.
CheckDeadline(p) ==
    /\ phase[p] = "top"
    /\ Goto(p, IF late[p] THEN "out" ELSE "wait")
    /\ UNCHANGED <<notifies, waking, queue, stopRequested, closed, mode, late,
                   asleep, current, restarts, result>>

\* run() and runFor() obey stop(); poll() and runOne() ignore it.
Stopped(p) == mode[p] \in {"run", "runFor"} /\ stopRequested

\* The predicate of cv.wait() is false: sleep,
Sleep(p) ==
    /\ phase[p] = "wait" /\ p \notin asleep
    /\ mode[p] \in {"run", "runFor"} /\ ~stopRequested /\ queue = <<>> /\ ~late[p]
    /\ asleep' = asleep \cup {p}
    /\ UNCHANGED <<notifies, waking, queue, stopRequested, closed, mode,
                   phase, late, current, restarts, result>>

\* leave: stopped, out of time, or (poll, runOne) nothing queued,
Leave(p) ==
    /\ phase[p] = "wait" /\ p \notin asleep
    /\ \/ Stopped(p)
       \/ queue = <<>> /\ (late[p] \/ mode[p] \in {"poll", "runOne"})
    /\ Goto(p, "out")
    /\ UNCHANGED <<notifies, waking, queue, stopRequested, closed, mode, late,
                   asleep, current, restarts, result>>

\* or take the front of the queue and run it.
LeaveFront == UNCHANGED queue
PopFront   == queue' = Tail(queue)

TakeCallback(p) ==
    /\ phase[p] = "wait" /\ p \notin asleep
    /\ ~Stopped(p) /\ queue # <<>>
    /\ PopFront
    /\ current' = [current EXCEPT ![p] = Head(queue)]
    /\ Goto(p, "invoke")
    /\ UNCHANGED <<notifies, waking, stopRequested, closed, mode, late,
                   asleep, restarts, result>>

\* The callback returns (an exception is caught) and is destroyed; runOne()
\* is done.
KeepCallback(p) == UNCHANGED current
Release(p) == current' = [current EXCEPT ![p] = NoCallback]

Returned(p) ==
    /\ phase[p] = "invoke"
    /\ Release(p)
    /\ Goto(p, CASE mode[p] = "runOne" -> "out"
                 [] mode[p] = "runFor" -> "top"
                 [] OTHER              -> "wait")
    /\ UNCHANGED <<notifies, waking, queue, stopRequested, closed, mode, late,
                   asleep, restarts, result>>

Pump(p) == CheckDeadline(p) \/ Sleep(p) \/ Leave(p) \/ TakeCallback(p) \/ Returned(p)

Next ==
    \/ \E c \in Callbacks : PostTaken(c) \/ PostRefused(c)
    \/ NotifyOne \/ Stop \/ WakeAll \/ Restart \/ Close
    \/ \E p \in Pumps : Enter(p) \/ Deadline(p) \/ Pump(p)

Spec == Init /\ [][Next]_vars

-----------------------------------------------------------------------------
Queued == {queue[i] : i \in 1 .. Len(queue)}

\* No wake-up is lost: while some thread sleeps, either a stop() is about to
\* wake everybody, or nobody has to stop and there is, for every queued
\* callback, a notify under way or another thread about to look.
NoLostWakeup ==
    asleep # {} /\ ~waking =>
        /\ ~stopRequested
        /\ Len(queue) <= notifies + Cardinality({p \in Pumps \ asleep : phase[p] = "wait"})

\* The state is well formed and no wake-up is lost.
Inv == TypeOK /\ NoLostWakeup

-----------------------------------------------------------------------------
\* The loop as the client of IExecutor sees it.
StatusOf(c) ==
    IF \E p \in Pumps : current[p] = c THEN "running"
    ELSE CASE result[c] = "false" -> "refused"
           [] result[c] = "none"  -> "new"
           [] c \in Queued        -> "taken"
           [] OTHER               -> "done"
=============================================================================

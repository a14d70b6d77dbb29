-------------------------- MODULE Scheduler_proofs --------------------------
(***************************************************************************)
(* Proofs about Scheduler, for any timers, threads and clock bound.        *)
(***************************************************************************)
EXTENDS Scheduler, FiniteSetTheorems, SequenceTheorems, TLAPS

\* The part of the state a call or a run relies on where it stands: only a
\* cancel that has not reached the queue holds a won claim, the timer of a
\* cancel is inactive, and a run is counted from Enter to Leave.
PlaceInv ==
    /\ \A u \in Threads :
          /\ upc[u] \in {"cancel", "cancelAndWait", "wait"} => ~active[target[u]]
          /\ won[u] => upc[u] \in {"cancel", "cancelAndWait"}
    /\ \A w \in Workers :
          wpc[w] \in {"entered", "started", "task", "rearm", "leaving"} =>
              w \in inside[job[w].timer]

\* The claim of a one-shot is taken exactly once: by its run, by a cancel()
\* that has returned, or by a single one that is about to.
ClaimInv ==
    \A t \in Timers : Kind[t] = "oneshot" =>
        /\ active[t] => runs[t] + wins[t] = 0 /\ \A u \in Threads : ~Claims(u, t)
        /\ \A u \in Threads : Claims(u, t) =>
              /\ runs[t] + wins[t] = 0
              /\ \A v \in Threads : Claims(v, t) => u = v
        /\ ~active[t] /\ (\A u \in Threads : ~Claims(u, t)) => runs[t] + wins[t] = 1

IInv == TypeOK /\ PlaceInv /\ ClaimInv /\ QuietAfterWait

-----------------------------------------------------------------------------
(* Types.                                                                  *)

USE SchedulerAssumption

\* The re-arm arithmetic of a FixedRate timer stays in the naturals.
LEMMA NextTickType ==
    ASSUME NEW at \in Nat, now \in Nat
    PROVE  NextTick(at) \in Nat
<1> DEFINE next == at + Period
<1>1. CASE next <= now
  <2> DEFINE missed == (now - next) \div Period + 1
  <2>1. now - next \in Nat /\ next \in Nat
    BY <1>1
  <2>2. missed \in Nat
    BY <2>1
  <2>3. Period * missed \in Nat
    <3> HIDE DEF missed
    <3> QED BY <2>2
  <2> QED BY <1>1, <2>1, <2>3 DEF NextTick
<1>2. CASE ~(next <= now)
  BY <1>2 DEF NextTick
<1> QED BY <1>1, <1>2

\* What is handed to the executor is well formed, and a run is of a timer.
LEMMA JobTypes ==
    /\ \A e \in Entries : /\ RunJob(e) \in Jobs /\ RunJob(e).op = "run"
                         /\ DropJob(e) \in Jobs /\ DropJob(e).op = "drop"
                         /\ e.timer \in Timers
    /\ PostJob \in Jobs
    /\ NoJob \in Jobs
    /\ \A j \in Jobs : j.at \in Nat /\ j.op \in {"run", "drop", "post"}
                       /\ (j.op \in {"run", "drop"} => j.timer \in Timers)
BY DEF Entries, Jobs, RunJob, DropJob, PostJob, NoJob

\* Counting up stays in the naturals.
LEMMA CountType ==
    ASSUME NEW S, NEW f \in [S -> Nat], NEW x \in S
    PROVE  [f EXCEPT ![x] = @ + 1] \in [S -> Nat]
<1>1. f[x] + 1 \in Nat
  OBVIOUS
<1> QED BY <1>1

LEMMA RearmType ==
    ASSUME TypeOK, NEW t \in Timers, NEW at \in Nat, Add(t, at) \/ Rearm(t, at)
    PROVE  queue' \subseteq Entries /\ nextId' \in Nat /\ entry' \in [Timers -> Nat]
<1>1. [id |-> nextId, timer |-> t, at |-> at] \in Entries
  BY DEF TypeOK, Entries
<1>2. queue \subseteq Entries /\ nextId \in Nat /\ entry \in [Timers -> Nat]
  BY DEF TypeOK
<1>3. CASE Add(t, at)
  BY <1>1, <1>2, <1>3 DEF Add
<1>4. CASE Rearm(t, at) /\ ~Add(t, at)
  BY <1>2, <1>4 DEF Rearm
<1> QED BY <1>3, <1>4

\* A worker in a run has the job of a run.
LEMMA RunningJob ==
    ASSUME TypeOK, NEW w \in Workers,
           wpc[w] \in {"picked", "entered", "started", "task", "rearm", "leaving"}
    PROVE  job[w].timer \in Timers /\ job[w].at \in Nat /\ job[w].op = "run"
<1>1. job[w] \in Jobs /\ job[w].op = "run"
  BY DEF TypeOK
<1> QED BY <1>1, JobTypes

LEMMA InitType == Init => TypeOK
<1> HAVE Init
<1>1. ready \in Seq(Jobs)
  BY DEF Init
<1>2. job \in [Workers -> Jobs]
  BY JobTypes DEF Init
<1>3. /\ now \in 0 .. MaxTime /\ queue \subseteq Entries /\ dropping \subseteq Entries
      /\ due \in [Dispatchers -> SUBSET Entries]
      /\ inside \in [Timers -> SUBSET Workers]
  BY DEF Init
<1>4. /\ exec \in {"none", "pool", "external", "rejecting"}
      /\ target \in [Threads -> Timers \cup {NoTimer}]
      /\ stopper \in Threads \cup {NoTimer}
  BY DEF Init
<1> QED BY <1>1, <1>2, <1>3, <1>4 DEF Init, TypeOK, CallSteps, RunSteps

LEMMA TypeStep == TypeOK /\ [Next]_vars => TypeOK'
<1> SUFFICES ASSUME TypeOK, [Next]_vars PROVE TypeOK'
  OBVIOUS
<1> USE JobTypes DEF CallSteps, RunSteps, vars, tvars, uvars, svars, wvars,
       xvars, hvars, Exchange, CancelId, HandOver, Sealed, RearmsBefore, RearmsAfter,
           FirstStep, Finished, Goto, StopGoto, At
<1>0. now \in Nat /\ now + 1 \in Nat /\ now + Period \in Nat
  BY DEF TypeOK
<1>1. CASE Tick
  BY SMTT(30), <1>1 DEF TypeOK, Tick
<1>2. CASE CloseExecutor
  <2>1. /\ open' \in BOOLEAN
        /\ UNCHANGED <<now, queue, nextId, tpc, due, ready, exec, tvars, uvars,
                       svars, wvars, hvars>>
    BY <1>2 DEF CloseExecutor
  <2> QED BY SMTT(30), <2>1 DEF TypeOK
<1>3. ASSUME NEW u \in Threads, NEW t \in Timers, Schedule(u, t) PROVE TypeOK'
  BY SMTT(30), <1>3 DEF TypeOK, Schedule, Call, Free, Resolved
<1>4. ASSUME NEW u \in Threads, NEW t \in Timers, CancelFlag(u, t) PROVE TypeOK'
  BY SMTT(30), <1>4 DEF TypeOK, CancelFlag, Call, Free
<1>5. ASSUME NEW u \in Threads, ScheduleEntry(u) PROVE TypeOK'
  <2>1. target[u] \in Timers
    BY SMTT(30), <1>5 DEF TypeOK, ScheduleEntry
  <2>2. queue' \subseteq Entries /\ nextId' \in Nat /\ entry' \in [Timers -> Nat]
    BY SMTT(30), <1>5, <1>0, <2>1, RearmType DEF TypeOK, ScheduleEntry
  <2>3. handle' \in [Timers -> {"new", "scheduling", "live", "empty"}]
    <3>1. handle \in [Timers -> {"new", "scheduling", "live", "empty"}]
      BY DEF TypeOK
    <3>2. \E h \in {"live", "empty"} : handle' = [handle EXCEPT ![target[u]] = h]
      BY <1>5 DEF ScheduleEntry
    <3> QED BY <3>1, <3>2
  <2> QED BY SMTT(30), <1>5, <2>1, <2>2, <2>3 DEF TypeOK, ScheduleEntry
<1>6. ASSUME NEW u \in Threads, CancelEntry(u) PROVE TypeOK'
  <2>1. target[u] \in Timers
    BY SMTT(30), <1>6 DEF TypeOK, CancelEntry
  <2>2. wins' \in [Timers -> Nat]
    <3>1. [wins EXCEPT ![target[u]] = @ + 1] \in [Timers -> Nat] /\ wins \in [Timers -> Nat]
      BY SMTT(30), <2>1, CountType DEF TypeOK
    <3> QED BY <1>6, <3>1 DEF CancelEntry
  <2>3. queue' \subseteq Entries /\ gone' \in SUBSET Timers
    BY SMTT(30), <1>6, <2>1 DEF TypeOK, CancelEntry
  <2>4. won' \in [Threads -> BOOLEAN]
    BY SMTT(30), <1>6 DEF TypeOK, CancelEntry
  <2>5. upc' \in [Threads -> CallSteps] /\ target' \in [Threads -> Timers \cup {NoTimer}]
    <3>1. upc \in [Threads -> CallSteps] /\ target \in [Threads -> Timers \cup {NoTimer}]
      BY DEF TypeOK
    <3>2. CASE upc[u] = "cancel"
      BY <1>6, <3>1, <3>2 DEF CancelEntry
    <3>3. CASE upc[u] = "cancelAndWait"
      BY <1>6, <3>1, <3>3 DEF CancelEntry
    <3> QED BY <1>6, <3>2, <3>3 DEF CancelEntry
  <2>6. \A v \in Threads : upc'[v] \in {"schedule", "cancel", "cancelAndWait", "wait"} =>
            target'[v] \in Timers
    <3>1. /\ \A v \in Threads : upc[v] \in {"schedule", "cancel", "cancelAndWait", "wait"} =>
                target[v] \in Timers
          /\ upc \in [Threads -> CallSteps] /\ target \in [Threads -> Timers \cup {NoTimer}]
      BY DEF TypeOK
    <3>2. CASE upc[u] = "cancel"
      BY <1>6, <3>1, <3>2 DEF CancelEntry
    <3>3. CASE upc[u] = "cancelAndWait"
      BY <1>6, <3>1, <3>3 DEF CancelEntry
    <3> QED BY <1>6, <3>2, <3>3 DEF CancelEntry
  <2>7. UNCHANGED <<now, nextId, tpc, due, ready, tvars, svars, wvars, xvars,
                    runs, drops, quiet>>
    BY <1>6 DEF CancelEntry
  <2> HIDE DEF CallSteps, RunSteps, Goto
  <2> QED BY SMTT(30), <2>2, <2>3, <2>4, <2>5, <2>6, <2>7 DEF TypeOK
<1>7. ASSUME NEW u \in Threads, WaitDone(u) PROVE TypeOK'
  BY SMTT(30), <1>7 DEF TypeOK, WaitDone
<1>8. ASSUME NEW u \in Threads, RunDue(u) PROVE TypeOK'
  BY SMTT(30), <1>8 DEF TypeOK, RunDue, Call, Free, DueNow, Dispatchers
<1>9. ASSUME NEW u \in Threads, PostCheck(u) PROVE TypeOK'
  BY SMTT(30), <1>9 DEF TypeOK, PostCheck, Call, Free, Resolved
<1>9a. ASSUME NEW u \in Threads, PostResolve(u) PROVE TypeOK'
  BY SMTT(30), <1>9a DEF TypeOK, PostResolve, Call, Free, Resolved
<1>10. ASSUME NEW u \in Threads, PostSubmit(u) PROVE TypeOK'
  <2>1. ready' \in Seq(Jobs)
    <3>1. PostJob \in Jobs /\ ready \in Seq(Jobs)
      BY SMTT(30), <1>10 DEF TypeOK, PostSubmit
    <3> QED BY <1>10, <3>1 DEF PostSubmit, Submit
  <2> QED BY SMTT(30), <1>10, <2>1 DEF TypeOK, PostSubmit
<1>11. CASE PopDue
  BY SMTT(30), <1>11 DEF TypeOK, PopDue, DueNow, Dispatchers
<1>12. CASE TimerThreadExit
  BY SMTT(30), <1>12 DEF TypeOK, TimerThreadExit
<1>13. ASSUME NEW d \in Dispatchers, Dispatch(d) PROVE TypeOK'
  <2>1. PICK e \in due[d] : Dispatch(d)!(e)
    BY <1>13 DEF Dispatch
  <2>2. e \in Entries
    BY SMTT(30), <2>1 DEF TypeOK
  <2>3. ready' \in Seq(Jobs) /\ drops' \in [Timers -> Nat]
    <3>1. RunJob(e) \in Jobs /\ DropJob(e) \in Jobs /\ e.timer \in Timers
      BY <2>2
    <3>2. ready \in Seq(Jobs) /\ drops \in [Timers -> Nat]
      BY DEF TypeOK
    <3>3. [drops EXCEPT ![e.timer] = @ + 1] \in [Timers -> Nat]
      BY <3>1, <3>2, CountType
    <3>4. drops' \in [Timers -> Nat]
      BY <2>1, <3>2, <3>3 DEF ReportDrop
    <3>5. ready' \in Seq(Jobs)
      <4>1. Append(ready, RunJob(e)) \in Seq(Jobs) /\ Append(ready,
      DropJob(e)) \in Seq(Jobs)
        BY <3>1, <3>2
      <4> QED BY <2>1, <3>2, <4>1 DEF Submit
    <3> QED BY <3>4, <3>5
  <2>4. due' \in [Dispatchers -> SUBSET Entries]
    BY SMTT(30), <2>1 DEF TypeOK
  <2> QED BY SMTT(30), <1>13, <2>1, <2>2, <2>3, <2>4 DEF TypeOK, Dispatch
<1>14. ASSUME NEW d \in Dispatchers, DispatchDone(d) PROVE TypeOK'
  <2>1. CASE tpc' = "loop" /\ UNCHANGED upc
    BY SMTT(30), <1>14, <2>1 DEF TypeOK, DispatchDone
  <2>2. CASE d \in Users /\ upc' = [upc EXCEPT ![d] = "idle"] /\ UNCHANGED tpc
    BY SMTT(30), <1>14, <2>2 DEF TypeOK, DispatchDone, Threads
  <2> QED BY <1>14, <2>1, <2>2 DEF DispatchDone
<1>15. ASSUME NEW w \in Workers, Take(w) PROVE TypeOK'
  BY SMTT(30), <1>15 DEF TypeOK, Take
<1>16. ASSUME NEW w \in Workers, Enter(w) PROVE TypeOK'
  <2>1. inside' \in [Timers -> SUBSET Workers]
    <3>1. inside \in [Timers -> SUBSET Workers]
      BY DEF TypeOK
    <3>2. inside' = [inside EXCEPT ![job[w].timer] = @ \cup {w}]
      BY <1>16 DEF Enter
    <3> QED BY <3>1, <3>2
  <2> QED BY SMTT(30), <1>16, <2>1 DEF TypeOK, Enter
<1>17. ASSUME NEW w \in Workers, Claim(w) PROVE TypeOK'
  <2> DEFINE t == job[w].timer
  <2>1. t \in Timers
    <3>1. wpc[w] = "entered"
      BY <1>17 DEF Claim
    <3> QED BY <3>1, RunningJob
  <2>2. active' \in [Timers -> BOOLEAN]
    <3>1. active \in [Timers -> BOOLEAN]
      BY DEF TypeOK
    <3>2. active' = active \/ active' = [active EXCEPT ![t] = FALSE]
      BY <1>17 DEF Claim
    <3> QED BY <3>1, <3>2
  <2>4. runs' \in [Timers -> Nat]
    <3>1. /\ [runs EXCEPT ![t] = @ + 1] \in [Timers -> Nat]
          /\ [runs EXCEPT ![t] = 1] \in [Timers -> Nat]
          /\ runs \in [Timers -> Nat]
      BY SMTT(30), <2>1, CountType DEF TypeOK
    <3> QED BY <1>17, <3>1 DEF Claim
  <2>3. \E l \in {"started", "task", "leaving"} : wpc' = [wpc EXCEPT ![w] = l]
    BY <1>17 DEF Claim
  <2> QED BY SMTT(30), <1>17, <2>1, <2>2, <2>3, <2>4 DEF TypeOK, Claim
<1>18. ASSUME NEW w \in Workers, RearmRate(w) PROVE TypeOK'
  <2>1. job[w].timer \in Timers /\ job[w].at \in Nat
    <3>1. wpc[w] = "started"
      BY <1>18 DEF RearmRate
    <3> QED BY <3>1, RunningJob
  <2>2. NextTick(job[w].at) \in Nat
    BY <2>1, <1>0, NextTickType
  <2>3. queue' \subseteq Entries /\ nextId' \in Nat /\ entry' \in [Timers -> Nat]
    BY <1>18, <2>1, <2>2, RearmType DEF RearmRate
  <2>4. /\ wpc[w] = "started" /\ wpc' = [wpc EXCEPT ![w] = "task"]
        /\ UNCHANGED <<now, tpc, due, ready, handle, active, inside, job, uvars,
                       svars, xvars, hvars>>
    BY <1>18 DEF RearmRate
  <2> QED BY SMTT(30), <2>3, <2>4 DEF TypeOK
<1>19. ASSUME NEW w \in Workers, TaskDone(w) PROVE TypeOK'
  BY SMTT(30), <1>19 DEF TypeOK, TaskDone
<1>20. ASSUME NEW w \in Workers, RearmDelay(w) PROVE TypeOK'
  <2>1. job[w].timer \in Timers
    <3>1. wpc[w] = "rearm"
      BY <1>20 DEF RearmDelay
    <3> QED BY <3>1, RunningJob
  <2>2. queue' \subseteq Entries /\ nextId' \in Nat /\ entry' \in [Timers -> Nat]
    BY <1>20, <2>1, <1>0, RearmType DEF RearmDelay
  <2>3. /\ wpc[w] = "rearm" /\ wpc' = [wpc EXCEPT ![w] = "leaving"]
        /\ UNCHANGED <<now, tpc, due, ready, handle, active, inside, job, uvars,
                       svars, xvars, hvars>>
    BY <1>20 DEF RearmDelay
  <2> QED BY SMTT(30), <2>2, <2>3 DEF TypeOK
<1>21. ASSUME NEW w \in Workers, Leave(w) PROVE TypeOK'
  <2>1. inside' \in [Timers -> SUBSET Workers]
    <3>1. inside \in [Timers -> SUBSET Workers]
      BY DEF TypeOK
    <3>2. inside' = [inside EXCEPT ![job[w].timer] = @ \ {w}]
      BY <1>21 DEF Leave
    <3> QED BY <3>1, <3>2
  <2> QED BY SMTT(30), <1>21, <2>1 DEF TypeOK, Leave
<1>22. ASSUME NEW w \in Workers, OtherDone(w) PROVE TypeOK'
  <2>1. drops' \in [Timers -> Nat]
    <3>1. drops \in [Timers -> Nat]
      BY DEF TypeOK
    <3>2. CASE job[w].op = "drop"
      <4>1. job[w].timer \in Timers
        BY SMTT(30), <3>2 DEF TypeOK
      <4>2. [drops EXCEPT ![job[w].timer] = @ + 1] \in [Timers -> Nat]
        BY <3>1, <4>1, CountType
      <4> QED BY <1>22, <3>1, <3>2, <4>2 DEF OtherDone, ReportDrop
    <3> QED BY <1>22, <3>1, <3>2 DEF OtherDone
  <2> QED BY SMTT(30), <1>22, <2>1 DEF TypeOK, OtherDone
<1>23. ASSUME NEW s \in Threads, Stop(s) PROVE TypeOK'
  BY SMTT(30), <1>23 DEF TypeOK, Stop
<1>24. CASE StopFlag
  BY SMTT(30), <1>24 DEF TypeOK, StopFlag
<1>25. CASE StopJoin
  BY SMTT(30), <1>25 DEF TypeOK, StopJoin
<1>26. CASE StopDrop
  <2>1. PICK e \in dropping : StopDrop!2!(e)
    BY <1>26 DEF StopDrop
  <2>2. e \in Entries
    BY SMTT(30), <2>1 DEF TypeOK
  <2>3. ready' \in Seq(Jobs) /\ drops' \in [Timers -> Nat]
    <3>1. RunJob(e) \in Jobs /\ DropJob(e) \in Jobs /\ e.timer \in Timers
      BY <2>2
    <3>2. ready \in Seq(Jobs) /\ drops \in [Timers -> Nat]
      BY DEF TypeOK
    <3>3. [drops EXCEPT ![e.timer] = @ + 1] \in [Timers -> Nat]
      BY <3>1, <3>2, CountType
    <3>4. drops' \in [Timers -> Nat]
      BY <2>1, <3>2, <3>3 DEF ReportDrop
    <3>5. ready' \in Seq(Jobs)
      <4>1. Append(ready, RunJob(e)) \in Seq(Jobs) /\ Append(ready,
      DropJob(e)) \in Seq(Jobs)
        BY <3>1, <3>2
      <4> QED BY <2>1, <3>2, <4>1 DEF Submit
    <3> QED BY <3>4, <3>5
  <2>4. dropping' \subseteq Entries
    BY SMTT(30), <2>1 DEF TypeOK
  <2> QED BY SMTT(30), <1>26, <2>1, <2>2, <2>3, <2>4 DEF TypeOK, StopDrop
<1>27. CASE StopExecutor
  BY SMTT(30), <1>27 DEF TypeOK, StopExecutor
<1>28. CASE StopShutdown
  BY SMTT(30), <1>28 DEF TypeOK, StopShutdown
<1>29. CASE StopJoinPool
  BY SMTT(30), <1>29 DEF TypeOK, StopJoinPool
<1>30. CASE UNCHANGED vars
  BY SMTT(30), <1>30 DEF TypeOK
<1> QED
  BY <1>1, <1>2, <1>3, <1>4, <1>5, <1>6, <1>7, <1>8, <1>9, <1>9a, <1>10, <1>11, <1>12,
     <1>13, <1>14, <1>15,
     <1>16, <1>17, <1>18, <1>19, <1>20, <1>21, <1>22, <1>23, <1>24, <1>25, <1>26,
     <1>27, <1>28, <1>29, <1>30
     DEF Next, Caller, Work, StopStep
\* TypeOK is an invariant of the scheduler.
THEOREM TypeCorrect == Spec => []TypeOK
BY InitType, TypeStep, PTL DEF Spec

-----------------------------------------------------------------------------
(* Cancellation.                                                           *)

\* The claim of a timer is never given back.
LEMMA InactiveStep ==
    ASSUME TypeOK, [Next]_vars
    PROVE  \A t \in Timers : ~active[t] => ~active'[t]
<1> USE DEF vars, tvars, uvars, svars, wvars, xvars, hvars,
           Exchange, CancelId, HandOver, Sealed, RearmsBefore, RearmsAfter,
           FirstStep, Finished
<1>0. active \in [Timers -> BOOLEAN]
  BY DEF TypeOK
<1>1. CASE Tick
  BY <1>1, <1>0 DEF Tick
<1>2. CASE CloseExecutor
  BY <1>2, <1>0 DEF CloseExecutor
<1>3. ASSUME NEW u \in Threads, NEW t \in Timers, Schedule(u,
     t) PROVE \A x \in Timers : ~active[x] => ~active'[x]
  BY <1>3, <1>0 DEF Schedule
<1>4. ASSUME NEW u \in Threads, NEW t \in Timers, CancelFlag(u,
     t) PROVE \A x \in Timers : ~active[x] => ~active'[x]
  BY <1>4, <1>0 DEF CancelFlag
<1>5. ASSUME NEW u \in Threads,
     ScheduleEntry(u) PROVE \A x \in Timers : ~active[x] => ~active'[x]
  BY <1>5, <1>0 DEF ScheduleEntry
<1>6. ASSUME NEW u \in Threads,
     CancelEntry(u) PROVE \A x \in Timers : ~active[x] => ~active'[x]
  BY <1>6, <1>0 DEF CancelEntry
<1>7. ASSUME NEW u \in Threads,
     WaitDone(u) PROVE \A x \in Timers : ~active[x] => ~active'[x]
  BY <1>7, <1>0 DEF WaitDone
<1>8. ASSUME NEW u \in Threads,
     RunDue(u) PROVE \A x \in Timers : ~active[x] => ~active'[x]
  BY <1>8, <1>0 DEF RunDue
<1>9. ASSUME NEW u \in Threads,
     PostCheck(u) PROVE \A x \in Timers : ~active[x] => ~active'[x]
  BY <1>9, <1>0 DEF PostCheck
<1>9a. ASSUME NEW u \in Threads,
     PostResolve(u) PROVE \A x \in Timers : ~active[x] => ~active'[x]
  BY <1>9a, <1>0 DEF PostResolve
<1>10. ASSUME NEW u \in Threads,
     PostSubmit(u) PROVE \A x \in Timers : ~active[x] => ~active'[x]
  BY <1>10, <1>0 DEF PostSubmit
<1>11. CASE PopDue
  BY <1>11, <1>0 DEF PopDue
<1>12. CASE TimerThreadExit
  BY <1>12, <1>0 DEF TimerThreadExit
<1>13. ASSUME NEW d \in Dispatchers,
     Dispatch(d) PROVE \A x \in Timers : ~active[x] => ~active'[x]
  BY <1>13, <1>0 DEF Dispatch
<1>14. ASSUME NEW d \in Dispatchers,
     DispatchDone(d) PROVE \A x \in Timers : ~active[x] => ~active'[x]
  BY <1>14, <1>0 DEF DispatchDone
<1>15. ASSUME NEW w \in Workers,
     Take(w) PROVE \A x \in Timers : ~active[x] => ~active'[x]
  BY <1>15, <1>0 DEF Take
<1>16. ASSUME NEW w \in Workers,
     Enter(w) PROVE \A x \in Timers : ~active[x] => ~active'[x]
  BY <1>16, <1>0 DEF Enter
<1>17. ASSUME NEW w \in Workers,
     Claim(w) PROVE \A x \in Timers : ~active[x] => ~active'[x]
  BY <1>17, <1>0 DEF Claim
<1>18. ASSUME NEW w \in Workers,
     RearmRate(w) PROVE \A x \in Timers : ~active[x] => ~active'[x]
  BY <1>18, <1>0 DEF RearmRate
<1>19. ASSUME NEW w \in Workers,
     TaskDone(w) PROVE \A x \in Timers : ~active[x] => ~active'[x]
  BY <1>19, <1>0 DEF TaskDone
<1>20. ASSUME NEW w \in Workers,
     RearmDelay(w) PROVE \A x \in Timers : ~active[x] => ~active'[x]
  BY <1>20, <1>0 DEF RearmDelay
<1>21. ASSUME NEW w \in Workers,
     Leave(w) PROVE \A x \in Timers : ~active[x] => ~active'[x]
  BY <1>21, <1>0 DEF Leave
<1>22. ASSUME NEW w \in Workers,
     OtherDone(w) PROVE \A x \in Timers : ~active[x] => ~active'[x]
  BY <1>22, <1>0 DEF OtherDone
<1>23. ASSUME NEW s \in Threads,
     Stop(s) PROVE \A x \in Timers : ~active[x] => ~active'[x]
  BY <1>23, <1>0 DEF Stop
<1>24. CASE StopFlag
  BY <1>24, <1>0 DEF StopFlag
<1>25. CASE StopJoin
  BY <1>25, <1>0 DEF StopJoin
<1>26. CASE StopDrop
  BY <1>26, <1>0 DEF StopDrop
<1>27. CASE StopExecutor
  BY <1>27, <1>0 DEF StopExecutor
<1>28. CASE StopShutdown
  BY <1>28, <1>0 DEF StopShutdown
<1>29. CASE StopJoinPool
  BY <1>29, <1>0 DEF StopJoinPool
<1>30. CASE UNCHANGED vars
  BY <1>30, <1>0
<1> QED
  BY <1>1, <1>2, <1>3, <1>4, <1>5, <1>6, <1>7, <1>8, <1>9, <1>9a, <1>10, <1>11, <1>12,
     <1>13, <1>14, <1>15,
     <1>16, <1>17, <1>18, <1>19, <1>20, <1>21, <1>22, <1>23, <1>24, <1>25, <1>26,
     <1>27, <1>28, <1>29, <1>30
     DEF Next, Caller, Work, StopStep

LEMMA InitPlace == Init => PlaceInv
BY DEF Init, PlaceInv

LEMMA PlaceStep ==
    ASSUME TypeOK, TypeOK', PlaceInv, [Next]_vars
    PROVE  PlaceInv'
<1> USE DEF vars, tvars, uvars, svars, wvars, xvars, hvars,
           Exchange, CancelId, HandOver, Sealed, RearmsBefore, RearmsAfter,
           FirstStep, Finished, PlaceInv
<1>0. /\ active \in [Timers -> BOOLEAN] /\ inside \in [Timers -> SUBSET Workers]
      /\ upc \in [Threads -> CallSteps] /\ won \in [Threads -> BOOLEAN]
      /\ target \in [Threads -> Timers \cup {NoTimer}]
      /\ wpc \in [Workers -> RunSteps] /\ job \in [Workers -> Jobs]
      /\ \A u \in Threads :
            upc[u] \in {"schedule", "cancel", "cancelAndWait", "wait"} => target[u] \in Timers
      /\ \A w \in Workers : wpc[w] # "idle" /\ wpc[w] # "other" => job[w].timer \in Timers
  <2>1. \A w \in Workers : wpc[w] # "idle" /\ wpc[w] # "other" => job[w].op = "run"
    BY DEF TypeOK
  <2>2. \A w \in Workers : job[w] \in Jobs
    BY DEF TypeOK
  <2>3. \A w \in Workers : wpc[w] # "idle" /\ wpc[w] # "other" => job[w].timer \in Timers
    BY <2>1, <2>2, JobTypes
  <2> QED BY <2>3 DEF TypeOK
<1>a. \A t \in Timers : ~active[t] => ~active'[t]
  BY InactiveStep
<1>1. CASE Tick
  BY <1>1, <1>0, <1>a DEF Tick
<1>2. CASE CloseExecutor
  BY <1>2, <1>0, <1>a DEF CloseExecutor
<1>3. ASSUME NEW u \in Threads, NEW t \in Timers, Schedule(u, t) PROVE PlaceInv'
  BY <1>3, <1>0, <1>a DEF Schedule, Call, Free, Goto
<1>4. ASSUME NEW u \in Threads, NEW t \in Timers, CancelFlag(u, t) PROVE PlaceInv'
  BY <1>4, <1>0, <1>a DEF CancelFlag, Call, Free, Goto
<1>5. ASSUME NEW u \in Threads, ScheduleEntry(u) PROVE PlaceInv'
  BY <1>5, <1>0, <1>a DEF ScheduleEntry, Goto
<1>6. ASSUME NEW u \in Threads, CancelEntry(u) PROVE PlaceInv'
  BY <1>6, <1>0, <1>a DEF CancelEntry, Goto
<1>7. ASSUME NEW u \in Threads, WaitDone(u) PROVE PlaceInv'
  BY <1>7, <1>0, <1>a DEF WaitDone, Goto
<1>8. ASSUME NEW u \in Threads, RunDue(u) PROVE PlaceInv'
  BY <1>8, <1>0, <1>a DEF RunDue, Call, Free, Goto
<1>9. ASSUME NEW u \in Threads, PostCheck(u) PROVE PlaceInv'
  BY <1>9, <1>0, <1>a DEF PostCheck, Call, Free, Goto
<1>9a. ASSUME NEW u \in Threads, PostResolve(u) PROVE PlaceInv'
  BY <1>9a, <1>0, <1>a DEF PostResolve, Call, Free, Goto
<1>10. ASSUME NEW u \in Threads, PostSubmit(u) PROVE PlaceInv'
  BY <1>10, <1>0, <1>a DEF PostSubmit, Goto
<1>11. CASE PopDue
  BY <1>11, <1>0, <1>a DEF PopDue
<1>12. CASE TimerThreadExit
  BY <1>12, <1>0, <1>a DEF TimerThreadExit
<1>13. ASSUME NEW d \in Dispatchers, Dispatch(d) PROVE PlaceInv'
  BY <1>13, <1>0, <1>a DEF Dispatch
<1>14. ASSUME NEW d \in Dispatchers, DispatchDone(d) PROVE PlaceInv'
  BY <1>14, <1>0, <1>a DEF DispatchDone, Goto, Threads
<1>15. ASSUME NEW w \in Workers, Take(w) PROVE PlaceInv'
  BY <1>15, <1>0, <1>a DEF Take, At
<1>16. ASSUME NEW w \in Workers, Enter(w) PROVE PlaceInv'
  BY <1>16, <1>0, <1>a DEF Enter, At
<1>17. ASSUME NEW w \in Workers, Claim(w) PROVE PlaceInv'
  BY <1>17, <1>0, <1>a DEF Claim, At
<1>18. ASSUME NEW w \in Workers, RearmRate(w) PROVE PlaceInv'
  BY <1>18, <1>0, <1>a DEF RearmRate, At
<1>19. ASSUME NEW w \in Workers, TaskDone(w) PROVE PlaceInv'
  BY <1>19, <1>0, <1>a DEF TaskDone, At
<1>20. ASSUME NEW w \in Workers, RearmDelay(w) PROVE PlaceInv'
  BY <1>20, <1>0, <1>a DEF RearmDelay, At
<1>21. ASSUME NEW w \in Workers, Leave(w) PROVE PlaceInv'
  BY <1>21, <1>0, <1>a DEF Leave, At
<1>22. ASSUME NEW w \in Workers, OtherDone(w) PROVE PlaceInv'
  BY <1>22, <1>0, <1>a DEF OtherDone, At
<1>23. ASSUME NEW s \in Threads, Stop(s) PROVE PlaceInv'
  BY <1>23, <1>0, <1>a DEF Stop
<1>24. CASE StopFlag
  BY <1>24, <1>0, <1>a DEF StopFlag
<1>25. CASE StopJoin
  BY <1>25, <1>0, <1>a DEF StopJoin
<1>26. CASE StopDrop
  BY <1>26, <1>0, <1>a DEF StopDrop
<1>27. CASE StopExecutor
  BY <1>27, <1>0, <1>a DEF StopExecutor
<1>28. CASE StopShutdown
  BY <1>28, <1>0, <1>a DEF StopShutdown
<1>29. CASE StopJoinPool
  BY <1>29, <1>0, <1>a DEF StopJoinPool
<1>30. CASE UNCHANGED vars
  BY <1>30, <1>0, <1>a
<1> QED
  BY <1>1, <1>2, <1>3, <1>4, <1>5, <1>6, <1>7, <1>8, <1>9, <1>9a, <1>10, <1>11, <1>12,
     <1>13, <1>14, <1>15,
     <1>16, <1>17, <1>18, <1>19, <1>20, <1>21, <1>22, <1>23, <1>24, <1>25, <1>26,
     <1>27, <1>28, <1>29, <1>30
     DEF Next, Caller, Work, StopStep

LEMMA QuietStep ==
    ASSUME TypeOK, PlaceInv, QuietAfterWait, [Next]_vars
    PROVE  QuietAfterWait'
<1> USE DEF vars, tvars, uvars, svars, wvars, xvars, hvars,
           Exchange, CancelId, HandOver, Sealed, RearmsBefore, RearmsAfter,
           FirstStep, Finished
<1> USE DEF QuietAfterWait, Executing
<1>0. /\ active \in [Timers -> BOOLEAN] /\ quiet \subseteq Timers
      /\ wpc \in [Workers -> RunSteps] /\ job \in [Workers -> Jobs]
      /\ \A u \in Threads : upc[u] = "wait" => target[u] \in Timers
  BY DEF TypeOK
<1>a. \A t \in Timers : ~active[t] => ~active'[t]
  BY InactiveStep
<1>1. CASE Tick
  BY <1>1, <1>0, <1>a DEF Tick
<1>2. CASE CloseExecutor
  BY <1>2, <1>0, <1>a DEF CloseExecutor
<1>3. ASSUME NEW u \in Threads, NEW t \in Timers, Schedule(u,
     t) PROVE QuietAfterWait'
  BY <1>3, <1>0, <1>a DEF Schedule
<1>4. ASSUME NEW u \in Threads, NEW t \in Timers, CancelFlag(u,
     t) PROVE QuietAfterWait'
  BY <1>4, <1>0, <1>a DEF CancelFlag
<1>5. ASSUME NEW u \in Threads, ScheduleEntry(u) PROVE QuietAfterWait'
  BY <1>5, <1>0, <1>a DEF ScheduleEntry
<1>6. ASSUME NEW u \in Threads, CancelEntry(u) PROVE QuietAfterWait'
  BY <1>6, <1>0, <1>a DEF CancelEntry
<1>7. ASSUME NEW u \in Threads, WaitDone(u) PROVE QuietAfterWait'
  BY <1>7, <1>0, <1>a DEF WaitDone, PlaceInv
<1>8. ASSUME NEW u \in Threads, RunDue(u) PROVE QuietAfterWait'
  BY <1>8, <1>0, <1>a DEF RunDue
<1>9. ASSUME NEW u \in Threads, PostCheck(u) PROVE QuietAfterWait'
  BY <1>9, <1>0, <1>a DEF PostCheck
<1>9a. ASSUME NEW u \in Threads, PostResolve(u) PROVE QuietAfterWait'
  BY <1>9a, <1>0, <1>a DEF PostResolve
<1>10. ASSUME NEW u \in Threads, PostSubmit(u) PROVE QuietAfterWait'
  BY <1>10, <1>0, <1>a DEF PostSubmit
<1>11. CASE PopDue
  BY <1>11, <1>0, <1>a DEF PopDue
<1>12. CASE TimerThreadExit
  BY <1>12, <1>0, <1>a DEF TimerThreadExit
<1>13. ASSUME NEW d \in Dispatchers, Dispatch(d) PROVE QuietAfterWait'
  BY <1>13, <1>0, <1>a DEF Dispatch
<1>14. ASSUME NEW d \in Dispatchers, DispatchDone(d) PROVE QuietAfterWait'
  BY <1>14, <1>0, <1>a DEF DispatchDone
<1>15. ASSUME NEW w \in Workers, Take(w) PROVE QuietAfterWait'
  BY <1>15, <1>0, <1>a DEF Take, At
<1>16. ASSUME NEW w \in Workers, Enter(w) PROVE QuietAfterWait'
  BY <1>16, <1>0, <1>a DEF Enter, At
<1>17. ASSUME NEW w \in Workers, Claim(w) PROVE QuietAfterWait'
  BY <1>17, <1>0, <1>a DEF Claim, At
<1>18. ASSUME NEW w \in Workers, RearmRate(w) PROVE QuietAfterWait'
  BY <1>18, <1>0, <1>a DEF RearmRate, At
<1>19. ASSUME NEW w \in Workers, TaskDone(w) PROVE QuietAfterWait'
  BY <1>19, <1>0, <1>a DEF TaskDone, At
<1>20. ASSUME NEW w \in Workers, RearmDelay(w) PROVE QuietAfterWait'
  BY <1>20, <1>0, <1>a DEF RearmDelay, At
<1>21. ASSUME NEW w \in Workers, Leave(w) PROVE QuietAfterWait'
  BY <1>21, <1>0, <1>a DEF Leave, At
<1>22. ASSUME NEW w \in Workers, OtherDone(w) PROVE QuietAfterWait'
  BY <1>22, <1>0, <1>a DEF OtherDone, At
<1>23. ASSUME NEW s \in Threads, Stop(s) PROVE QuietAfterWait'
  BY <1>23, <1>0, <1>a DEF Stop
<1>24. CASE StopFlag
  BY <1>24, <1>0, <1>a DEF StopFlag
<1>25. CASE StopJoin
  BY <1>25, <1>0, <1>a DEF StopJoin
<1>26. CASE StopDrop
  BY <1>26, <1>0, <1>a DEF StopDrop
<1>27. CASE StopExecutor
  BY <1>27, <1>0, <1>a DEF StopExecutor
<1>28. CASE StopShutdown
  BY <1>28, <1>0, <1>a DEF StopShutdown
<1>29. CASE StopJoinPool
  BY <1>29, <1>0, <1>a DEF StopJoinPool
<1>30. CASE UNCHANGED vars
  BY <1>30, <1>0, <1>a
<1> QED
  BY <1>1, <1>2, <1>3, <1>4, <1>5, <1>6, <1>7, <1>8, <1>9, <1>9a, <1>10, <1>11, <1>12,
     <1>13, <1>14, <1>15,
     <1>16, <1>17, <1>18, <1>19, <1>20, <1>21, <1>22, <1>23, <1>24, <1>25, <1>26,
     <1>27, <1>28, <1>29, <1>30
     DEF Next, Caller, Work, StopStep

LEMMA InitClaim == Init => ClaimInv
BY DEF Init, ClaimInv, Claims

LEMMA ClaimStep ==
    ASSUME TypeOK, PlaceInv, ClaimInv, [Next]_vars
    PROVE  ClaimInv'
<1> USE DEF vars, tvars, uvars, svars, wvars, xvars, hvars,
           Exchange, CancelId, HandOver, Sealed, RearmsBefore, RearmsAfter,
           FirstStep, Finished
<1> USE DEF ClaimInv, Claims
<1>0. /\ active \in [Timers -> BOOLEAN] /\ runs \in [Timers -> Nat] /\ wins \in [Timers -> Nat]
      /\ won \in [Threads -> BOOLEAN] /\ target \in [Threads -> Timers \cup {NoTimer}]
      /\ NoTimer \notin Timers
      /\ \A u \in Threads : won[u] => upc[u] \in {"cancel", "cancelAndWait"}
  BY DEF TypeOK, PlaceInv
<1>1. CASE Tick
  BY <1>1, <1>0 DEF Tick
<1>2. CASE CloseExecutor
  BY <1>2, <1>0 DEF CloseExecutor
<1>3. ASSUME NEW u \in Threads, NEW t \in Timers, Schedule(u, t) PROVE ClaimInv'
  BY <1>3, <1>0 DEF Schedule, Call, Free, Goto
<1>4. ASSUME NEW u \in Threads, NEW t \in Timers, CancelFlag(u, t) PROVE ClaimInv'
  BY <1>4, <1>0 DEF CancelFlag, Call, Free, Goto
<1>5. ASSUME NEW u \in Threads, ScheduleEntry(u) PROVE ClaimInv'
  BY <1>5, <1>0 DEF ScheduleEntry
<1>6. ASSUME NEW u \in Threads, CancelEntry(u) PROVE ClaimInv'
  BY <1>6, <1>0 DEF CancelEntry
<1>7. ASSUME NEW u \in Threads, WaitDone(u) PROVE ClaimInv'
  BY <1>7, <1>0 DEF WaitDone
<1>8. ASSUME NEW u \in Threads, RunDue(u) PROVE ClaimInv'
  BY <1>8, <1>0 DEF RunDue, Call, Free, Goto
<1>9. ASSUME NEW u \in Threads, PostCheck(u) PROVE ClaimInv'
  BY <1>9, <1>0 DEF PostCheck, Call, Free, Goto
<1>9a. ASSUME NEW u \in Threads, PostResolve(u) PROVE ClaimInv'
  BY <1>9a, <1>0 DEF PostResolve, Call, Free, Goto
<1>10. ASSUME NEW u \in Threads, PostSubmit(u) PROVE ClaimInv'
  BY <1>10, <1>0 DEF PostSubmit
<1>11. CASE PopDue
  BY <1>11, <1>0 DEF PopDue
<1>12. CASE TimerThreadExit
  BY <1>12, <1>0 DEF TimerThreadExit
<1>13. ASSUME NEW d \in Dispatchers, Dispatch(d) PROVE ClaimInv'
  BY <1>13, <1>0 DEF Dispatch
<1>14. ASSUME NEW d \in Dispatchers, DispatchDone(d) PROVE ClaimInv'
  BY <1>14, <1>0 DEF DispatchDone
<1>15. ASSUME NEW w \in Workers, Take(w) PROVE ClaimInv'
  BY <1>15, <1>0 DEF Take
<1>16. ASSUME NEW w \in Workers, Enter(w) PROVE ClaimInv'
  BY <1>16, <1>0 DEF Enter
<1>17. ASSUME NEW w \in Workers, Claim(w) PROVE ClaimInv'
  BY <1>17, <1>0 DEF Claim
<1>18. ASSUME NEW w \in Workers, RearmRate(w) PROVE ClaimInv'
  BY <1>18, <1>0 DEF RearmRate
<1>19. ASSUME NEW w \in Workers, TaskDone(w) PROVE ClaimInv'
  BY <1>19, <1>0 DEF TaskDone
<1>20. ASSUME NEW w \in Workers, RearmDelay(w) PROVE ClaimInv'
  BY <1>20, <1>0 DEF RearmDelay
<1>21. ASSUME NEW w \in Workers, Leave(w) PROVE ClaimInv'
  BY <1>21, <1>0 DEF Leave
<1>22. ASSUME NEW w \in Workers, OtherDone(w) PROVE ClaimInv'
  BY <1>22, <1>0 DEF OtherDone
<1>23. ASSUME NEW s \in Threads, Stop(s) PROVE ClaimInv'
  BY <1>23, <1>0 DEF Stop
<1>24. CASE StopFlag
  BY <1>24, <1>0 DEF StopFlag
<1>25. CASE StopJoin
  BY <1>25, <1>0 DEF StopJoin
<1>26. CASE StopDrop
  BY <1>26, <1>0 DEF StopDrop
<1>27. CASE StopExecutor
  BY <1>27, <1>0 DEF StopExecutor
<1>28. CASE StopShutdown
  BY <1>28, <1>0 DEF StopShutdown
<1>29. CASE StopJoinPool
  BY <1>29, <1>0 DEF StopJoinPool
<1>30. CASE UNCHANGED vars
  BY <1>30, <1>0
<1> QED
  BY <1>1, <1>2, <1>3, <1>4, <1>5, <1>6, <1>7, <1>8, <1>9, <1>9a, <1>10, <1>11, <1>12,
     <1>13, <1>14, <1>15,
     <1>16, <1>17, <1>18, <1>19, <1>20, <1>21, <1>22, <1>23, <1>24, <1>25, <1>26,
     <1>27, <1>28, <1>29, <1>30
     DEF Next, Caller, Work, StopStep

LEMMA InitInv == Init => IInv
<1>1. Init => QuietAfterWait
  BY DEF Init, QuietAfterWait
<1> QED BY <1>1, InitType, InitPlace, InitClaim DEF IInv

LEMMA InvStep == IInv /\ [Next]_vars => IInv'
BY TypeStep, PlaceStep, ClaimStep, QuietStep DEF IInv

\* IInv is inductive, so it holds throughout.
THEOREM Invariance == Spec => []IInv
BY InitInv, InvStep, PTL DEF Spec

\* OneShotOnce: of a one-shot's run and the cancel() calls that return true
\* exactly one happens, whatever the interleaving.
THEOREM OneShotRunsOrIsCancelled == Spec => []OneShotOnce
<1>1. IInv => OneShotOnce
  BY DEF IInv, ClaimInv, OneShotOnce
<1> QED BY <1>1, Invariance, PTL

\* QuietAfterWait: once cancelAndWait() has returned, the callback neither
\* executes nor will.
THEOREM NothingRunsAfterWait == Spec => []QuietAfterWait
<1>1. IInv => QuietAfterWait
  BY DEF IInv
<1> QED BY <1>1, Invariance, PTL

-----------------------------------------------------------------------------
(* stop().                                                                 *)

\* How far stop() has got: nothing is queued once `stopping` is set, the timer
\* thread is gone once it has been joined, executor() can no longer create a
\* pool once the drops are out, and the pool refuses once it is shut down.
StopInv ==
    /\ stopping <=> stopPc # "no"
    /\ stopping => queue = {}
    /\ stopPc \in {"drops", "shutdown", "joinPool", "done"} => tpc \in {"off",
     "none", "exited"}
    /\ stopPc \in {"shutdown", "joinPool", "done"} => dropping = {} /\ exec # "none"
    /\ stopPc \in {"joinPool", "done"} => (exec = "pool" => ~open)

LEMMA InitStop == Init => StopInv
BY DEF Init, StopInv

LEMMA StopInvStep ==
    ASSUME TypeOK, StopInv, [Next]_vars
    PROVE  StopInv'
<1> USE DEF vars, tvars, uvars, svars, wvars, xvars, hvars,
           Exchange, CancelId, HandOver, Sealed, RearmsBefore, RearmsAfter,
           FirstStep, Finished
<1> USE DEF StopInv
<1>0. stopping \in BOOLEAN /\ open \in BOOLEAN
  BY DEF TypeOK
<1>1. CASE Tick
  BY <1>1, <1>0 DEF Tick
<1>2. CASE CloseExecutor
  BY <1>2, <1>0 DEF CloseExecutor
<1>3. ASSUME NEW u \in Threads, NEW t \in Timers, Schedule(u, t) PROVE StopInv'
  BY <1>3, <1>0 DEF Schedule, Resolved
<1>4. ASSUME NEW u \in Threads, NEW t \in Timers, CancelFlag(u, t) PROVE StopInv'
  BY <1>4, <1>0 DEF CancelFlag
<1>5. ASSUME NEW u \in Threads, ScheduleEntry(u) PROVE StopInv'
  BY <1>5, <1>0 DEF ScheduleEntry, Add
<1>6. ASSUME NEW u \in Threads, CancelEntry(u) PROVE StopInv'
  BY <1>6, <1>0 DEF CancelEntry
<1>7. ASSUME NEW u \in Threads, WaitDone(u) PROVE StopInv'
  BY <1>7, <1>0 DEF WaitDone
<1>8. ASSUME NEW u \in Threads, RunDue(u) PROVE StopInv'
  BY <1>8, <1>0 DEF RunDue
<1>9. ASSUME NEW u \in Threads, PostCheck(u) PROVE StopInv'
  BY <1>9, <1>0 DEF PostCheck, Resolved
<1>9a. ASSUME NEW u \in Threads, PostResolve(u) PROVE StopInv'
  BY <1>9a, <1>0 DEF PostResolve, Resolved
<1>10. ASSUME NEW u \in Threads, PostSubmit(u) PROVE StopInv'
  BY <1>10, <1>0 DEF PostSubmit
<1>11. CASE PopDue
  BY <1>11, <1>0 DEF PopDue
<1>12. CASE TimerThreadExit
  BY <1>12, <1>0 DEF TimerThreadExit
<1>13. ASSUME NEW d \in Dispatchers, Dispatch(d) PROVE StopInv'
  BY <1>13, <1>0 DEF Dispatch
<1>14. ASSUME NEW d \in Dispatchers, DispatchDone(d) PROVE StopInv'
  BY <1>14, <1>0 DEF DispatchDone
<1>15. ASSUME NEW w \in Workers, Take(w) PROVE StopInv'
  BY <1>15, <1>0 DEF Take
<1>16. ASSUME NEW w \in Workers, Enter(w) PROVE StopInv'
  BY <1>16, <1>0 DEF Enter
<1>17. ASSUME NEW w \in Workers, Claim(w) PROVE StopInv'
  BY <1>17, <1>0 DEF Claim
<1>18. ASSUME NEW w \in Workers, RearmRate(w) PROVE StopInv'
  BY <1>18, <1>0 DEF RearmRate, Rearm, Add
<1>19. ASSUME NEW w \in Workers, TaskDone(w) PROVE StopInv'
  BY <1>19, <1>0 DEF TaskDone
<1>20. ASSUME NEW w \in Workers, RearmDelay(w) PROVE StopInv'
  BY <1>20, <1>0 DEF RearmDelay, Rearm, Add
<1>21. ASSUME NEW w \in Workers, Leave(w) PROVE StopInv'
  BY <1>21, <1>0 DEF Leave
<1>22. ASSUME NEW w \in Workers, OtherDone(w) PROVE StopInv'
  BY <1>22, <1>0 DEF OtherDone
<1>23. ASSUME NEW s \in Threads, Stop(s) PROVE StopInv'
  BY <1>23, <1>0 DEF Stop, StopGoto
<1>24. CASE StopFlag
  BY <1>24, <1>0 DEF StopFlag, StopGoto
<1>25. CASE StopJoin
  BY <1>25, <1>0 DEF StopJoin, StopGoto
<1>26. CASE StopDrop
  BY <1>26, <1>0 DEF StopDrop
<1>27. CASE StopExecutor
  BY <1>27, <1>0 DEF StopExecutor, StopGoto
<1>28. CASE StopShutdown
  BY <1>28, <1>0 DEF StopShutdown, StopGoto
<1>29. CASE StopJoinPool
  BY <1>29, <1>0 DEF StopJoinPool, StopGoto
<1>30. CASE UNCHANGED vars
  BY <1>30, <1>0
<1> QED
  BY <1>1, <1>2, <1>3, <1>4, <1>5, <1>6, <1>7, <1>8, <1>9, <1>9a, <1>10, <1>11, <1>12,
     <1>13, <1>14, <1>15,
     <1>16, <1>17, <1>18, <1>19, <1>20, <1>21, <1>22, <1>23, <1>24, <1>25, <1>26,
     <1>27, <1>28, <1>29, <1>30
     DEF Next, Caller, Work, StopStep

\* StopQuiesces: a stop() that has returned leaves nothing queued, no timer
\* thread, and no pool that takes callbacks or can still be created.
THEOREM StopLeavesNothing == Spec => []StopQuiesces
<1>1. TypeOK /\ StopInv /\ [Next]_vars => StopInv'
  BY StopInvStep
<1>2. StopInv => StopQuiesces
  BY DEF StopInv, StopQuiesces
<1> QED BY <1>1, <1>2, InitStop, TypeCorrect, PTL DEF Spec

-----------------------------------------------------------------------------
(* Where the run a timer has coming is, that there is one and no second,   *)
(* that a cancelled timer leaves the queue, in which order entries fire, and*)
(* what stop() leaves to the pool.                                         *)
HIDE SchedulerAssumption

\* An entry is handed on before any entry of the same instant queued later.
QueueInv ==
    /\ nextId >= 1
    /\ \A e \in queue : e.id < nextId
    /\ \A d \in Dispatchers : \A e \in due[d] :
          e.id < nextId /\ \A f \in queue : f.at = e.at => e.id < f.id

\* When stop() has returned nothing is handed to the pool any more, and at
\* most the worker that made the call is still in a callback.
DoneInv ==
    stopPc = "done" /\ exec = "pool" /\ Cardinality(Workers) > 1 =>
        ready = <<>> /\ \A v, w \in Workers : wpc[v] # "idle" /\ wpc[w] # "idle" => v = w

-----------------------------------------------------------------------------
(* The places where a run of t, or its drop, can be coming from.           *)

Queued(t)   == {e \in queue : e.timer = t}
Draining(t) == {e \in dropping : e.timer = t}
Popped(t)   == {e \in UNION {due[d] : d \in Dispatchers} : e.timer = t}
Handed(t)   == {i \in 1 .. Len(ready) : ready[i].timer = t}

\* Where a run of t counts as still to come.
Counted(t)  == {"picked", "entered", "started", "other"}
                  \cup (IF Kind[t] = "rate" THEN {} ELSE {"task", "rearm"})
Taken(t)    == {w \in Workers : job[w].timer = t /\ wpc[w] \in Counted(t)}

Sole(S) == \A x, y \in S : x = y

\* No place has two, and no two places have one.
Solo(A, B, C, D, E) ==
    /\ Sole(A) /\ Sole(B) /\ Sole(C) /\ Sole(D) /\ Sole(E)
    /\ A # {} => B = {} /\ C = {} /\ D = {} /\ E = {}
    /\ B # {} => C = {} /\ D = {} /\ E = {}
    /\ C # {} => D = {} /\ E = {}
    /\ D # {} => E = {}

Armed(t) == Queued(t) # {} \/ Draining(t) # {} \/ Popped(t) # {} \/ Handed(t) # {} \/ Taken(t) # {}

\* Who is in a call or a run, and what that takes.
CallInv ==
    /\ \A u \in Threads :
          /\ upc[u] = "schedule" => handle[target[u]] = "scheduling"
          /\ upc[u] \in {"cancel", "cancelAndWait", "wait"} => handle[target[u]] = "live"
    /\ \A u, v \in Threads :
          upc[u] = "schedule" /\ upc[v] = "schedule" /\ target[u] = target[v] => u = v
    /\ exec = "rejecting" => stopPc \in {"shutdown", "joinPool", "done"}
    /\ exec = "none" => \A t \in Timers : handle[t] = "new"

BatchInv ==
    /\ \A u \in Users : upc[u] # "dispatch" => due[u] = {}
    /\ tpc # "dispatch" => due[TimerThread] = {}
    /\ \A c, d \in Dispatchers : \A e \in due[c] : e \in due[d] => c = d
    /\ stopPc = "no" => dropping = {}

RunInv ==
    /\ \A w \in Workers :
          /\ wpc[w] = "started" => Kind[job[w].timer] = "rate"
          /\ wpc[w] = "rearm" => Kind[job[w].timer] = "delay"
          /\ wpc[w] = "task" /\ Kind[job[w].timer] = "oneshot" => ~active[job[w].timer]
          /\ wpc[w] = "other" /\ job[w].op = "drop" => stopping /\ job[w].timer \in HasDrop
    /\ \A i \in 1 .. Len(ready) : ready[i].op = "drop" => stopping /\ ready[i].timer \in HasDrop

\* The id of a timer's entry is its own.
EntryInv ==
    /\ \A e \in queue : e.id = entry[e.timer]
    /\ \A t \in Timers : handle[t] = "live" => 1 <= entry[t] /\ entry[t] < nextId
    /\ \A s, t \in Timers : handle[s] = "live" /\ handle[t] = "live" /\ entry[s] = entry[t] => s = t

\* A timer has at most one run coming, and what has run or been dropped has
\* none.
SoloOne(t) ==
    /\ Solo(Queued(t), Draining(t), Popped(t), Handed(t), Taken(t))
    /\ handle[t] # "live" => /\ ~Armed(t) /\ active[t] /\ t \notin gone
                             /\ runs[t] = 0 /\ drops[t] = 0
    /\ runs[t] <= 1
    /\ Kind[t] = "oneshot" /\ runs[t] = 1 =>
          /\ ~active[t]
          /\ Armed(t) => \E w \in Taken(t) : wpc[w] = "task"
    /\ t \in HasDrop => drops[t] <= 1 /\ (drops[t] = 1 => ~Armed(t) /\ runs[t] = 0)
    /\ t \in gone => ~active[t] /\ Queued(t) = {}

\* A timer that can still fire, or must still be told, has one coming.
ArmedOne(t) ==
    Live(t) /\ active[t] /\ ((t \in HasDrop /\ drops[t] = 0) \/ (~stopping /\ open)) => Armed(t)

SoloInv  == \A t \in Timers : SoloOne(t)
ArmedInv == \A t \in Timers : ArmedOne(t)

ArmInv ==
    /\ TypeOK /\ PlaceInv /\ StopInv /\ QueueInv
    /\ CallInv /\ BatchInv /\ RunInv /\ EntryInv /\ SoloInv /\ ArmedInv

-----------------------------------------------------------------------------
(* The order of entries.                                                   *)

\* What a step does to the queue and to the batches popped from it: nothing,
\* or it adds an entry with a new id, takes some out, pops what is due, or
\* takes an entry out of a batch.
LEMMA QueueSteps ==
    ASSUME TypeOK, [Next]_vars
    PROVE  \/ UNCHANGED <<queue, nextId, due>>
           \/ \E t \in Timers, at \in Nat : Add(t, at) /\ due' = due
           \/ queue' \subseteq queue /\ nextId' = nextId /\ due' = due
           \/ \E d \in Dispatchers : /\ due' = [due EXCEPT ![d] = DueNow]
                                     /\ queue' = queue \ DueNow /\ nextId' = nextId
           \/ \E d \in Dispatchers, e \in Entries : /\ due' = [due EXCEPT ![d] = @ \ {e}]
                                                    /\ queue' = queue /\ nextId' = nextId
<1> DEFINE Goal == \/ UNCHANGED <<queue, nextId, due>>
                   \/ \E t \in Timers, at \in Nat : Add(t, at) /\ due' = due
                   \/ queue' \subseteq queue /\ nextId' = nextId /\ due' = due
                   \/ \E d \in Dispatchers : /\ due' = [due EXCEPT ![d] = DueNow]
                                             /\ queue' = queue \ DueNow /\ nextId' = nextId
                   \/ \E d \in Dispatchers, e \in Entries : /\ due' = [due EXCEPT ![d] = @ \ {e}]
                                                            /\ queue' = queue /\ nextId' = nextId
<1> USE DEF vars, svars
<1>0. /\ now \in Nat /\ now + 1 \in Nat /\ now + Period \in Nat
      /\ \A w \in Workers : wpc[w] \in {"started", "rearm"} => job[w].timer \in Timers /\ job[w].at \in Nat
      /\ \A u \in Threads : upc[u] = "schedule" => target[u] \in Timers
      /\ due \in [Dispatchers -> SUBSET Entries]
  BY SchedulerAssumption, RunningJob DEF TypeOK
<1>1. CASE Tick
  BY <1>1, <1>0 DEF Tick
<1>2. CASE CloseExecutor
  BY <1>2, <1>0 DEF CloseExecutor
<1>3. ASSUME NEW u \in Threads, NEW t \in Timers, Schedule(u, t) PROVE Goal
  BY <1>3, <1>0 DEF Schedule
<1>4. ASSUME NEW u \in Threads, NEW t \in Timers, CancelFlag(u, t) PROVE Goal
  BY <1>4, <1>0 DEF CancelFlag
<1>5. ASSUME NEW u \in Threads, ScheduleEntry(u) PROVE Goal
  <2>1. CASE stopping
    BY <1>5, <2>1 DEF ScheduleEntry
  <2>2. CASE ~stopping
    BY <1>5, <1>0, <2>2 DEF ScheduleEntry
  <2> QED
    BY <2>1, <2>2
<1>6. ASSUME NEW u \in Threads, CancelEntry(u) PROVE Goal
  BY <1>6, <1>0 DEF CancelEntry, CancelId
<1>7. ASSUME NEW u \in Threads, WaitDone(u) PROVE Goal
  BY <1>7, <1>0 DEF WaitDone
<1>8. ASSUME NEW u \in Threads, RunDue(u) PROVE Goal
  BY <1>8, <1>0 DEF RunDue, Dispatchers
<1>9. ASSUME NEW u \in Threads, PostCheck(u) PROVE Goal
  BY <1>9, <1>0 DEF PostCheck
<1>9a. ASSUME NEW u \in Threads, PostResolve(u) PROVE Goal
  BY <1>9a, <1>0 DEF PostResolve
<1>10. ASSUME NEW u \in Threads, PostSubmit(u) PROVE Goal
  BY <1>10, <1>0 DEF PostSubmit
<1>11. CASE PopDue
  BY <1>11, <1>0 DEF PopDue, Dispatchers
<1>12. CASE TimerThreadExit
  BY <1>12, <1>0 DEF TimerThreadExit
<1>13. ASSUME NEW d \in Dispatchers, Dispatch(d) PROVE Goal
  BY <1>13, <1>0 DEF Dispatch
<1>14. ASSUME NEW d \in Dispatchers, DispatchDone(d) PROVE Goal
  BY <1>14, <1>0 DEF DispatchDone
<1>15. ASSUME NEW w \in Workers, Take(w) PROVE Goal
  BY <1>15, <1>0 DEF Take
<1>16. ASSUME NEW w \in Workers, Enter(w) PROVE Goal
  BY <1>16, <1>0 DEF Enter
<1>17. ASSUME NEW w \in Workers, Claim(w) PROVE Goal
  BY <1>17, <1>0 DEF Claim
<1>18. ASSUME NEW w \in Workers, RearmRate(w) PROVE Goal
  <2>1. job[w].timer \in Timers /\ NextTick(job[w].at) \in Nat
    BY <1>18, <1>0, NextTickType DEF RearmRate
  <2> QED
    BY <1>18, <2>1 DEF RearmRate, Rearm
<1>19. ASSUME NEW w \in Workers, TaskDone(w) PROVE Goal
  BY <1>19, <1>0 DEF TaskDone
<1>20. ASSUME NEW w \in Workers, RearmDelay(w) PROVE Goal
  <2>1. job[w].timer \in Timers
    BY <1>20, <1>0 DEF RearmDelay
  <2> QED
    BY <1>20, <1>0, <2>1 DEF RearmDelay, Rearm
<1>21. ASSUME NEW w \in Workers, Leave(w) PROVE Goal
  BY <1>21, <1>0 DEF Leave
<1>22. ASSUME NEW w \in Workers, OtherDone(w) PROVE Goal
  BY <1>22, <1>0 DEF OtherDone
<1>23. ASSUME NEW s \in Threads, Stop(s) PROVE Goal
  BY <1>23, <1>0 DEF Stop
<1>24. CASE StopFlag
  BY <1>24, <1>0 DEF StopFlag
<1>25. CASE StopJoin
  BY <1>25, <1>0 DEF StopJoin
<1>26. CASE StopDrop
  BY <1>26, <1>0 DEF StopDrop
<1>27. CASE StopExecutor
  BY <1>27, <1>0 DEF StopExecutor
<1>28. CASE StopShutdown
  BY <1>28, <1>0 DEF StopShutdown
<1>29. CASE StopJoinPool
  BY <1>29, <1>0 DEF StopJoinPool
<1>30. CASE UNCHANGED vars
  BY <1>30, <1>0
<1> QED
  BY <1>1, <1>2, <1>3, <1>4, <1>5, <1>6, <1>7, <1>8, <1>9, <1>9a, <1>10, <1>11, <1>12,
     <1>13, <1>14, <1>15, <1>16, <1>17, <1>18, <1>19, <1>20, <1>21, <1>22, <1>23,
     <1>24, <1>25, <1>26, <1>27, <1>28, <1>29, <1>30
     DEF Next, Caller, Work, StopStep

LEMMA QueueInvStep ==
    ASSUME TypeOK, QueueInv, [Next]_vars
    PROVE  QueueInv'
<1>0. /\ nextId \in Nat /\ due \in [Dispatchers -> SUBSET Entries] /\ queue \subseteq Entries
      /\ \A e \in Entries : e.id \in Nat /\ e.at \in Nat
  BY DEF TypeOK, Entries
<1>1. CASE UNCHANGED <<queue, nextId, due>>
  BY <1>1 DEF QueueInv
<1>2. ASSUME NEW t \in Timers, NEW at \in Nat, Add(t, at), due' = due
      PROVE  QueueInv'
  <2>1. PICK n : n = [id |-> nextId, timer |-> t, at |-> at]
    OBVIOUS
  <2>2. queue' = queue \cup {n} /\ n.id = nextId /\ nextId' = nextId + 1
    BY <1>2, <2>1 DEF Add
  <2>3. nextId' >= 1 /\ \A e \in queue' : e.id < nextId'
    BY <1>0, <2>2 DEF QueueInv
  <2>4. ASSUME NEW d \in Dispatchers, NEW e \in due[d]
        PROVE  e.id < nextId' /\ \A f \in queue' : f.at = e.at => e.id < f.id
    <3>1. e \in Entries /\ e.id < nextId
      BY <1>0 DEF QueueInv
    <3> QED
      BY <1>0, <2>2, <3>1 DEF QueueInv
  <2> QED
    BY <1>2, <2>3, <2>4 DEF QueueInv
<1>3. CASE queue' \subseteq queue /\ nextId' = nextId /\ due' = due
  BY <1>3 DEF QueueInv
<1>4. ASSUME NEW d \in Dispatchers, due' = [due EXCEPT ![d] = DueNow],
             queue' = queue \ DueNow, nextId' = nextId
      PROVE  QueueInv'
  <2>1. \A c \in Dispatchers : due'[c] = IF c = d THEN DueNow ELSE due[c]
    BY <1>0, <1>4
  <2>2. \A e \in DueNow : e \in queue /\ \A f \in queue' : f.at # e.at
    BY <1>0, <1>4 DEF DueNow
  <2> QED
    BY <1>4, <2>1, <2>2 DEF QueueInv
<1>5. ASSUME NEW d \in Dispatchers, NEW e \in Entries, due' = [due EXCEPT ![d] = @ \ {e}],
             queue' = queue, nextId' = nextId
      PROVE  QueueInv'
  <2>1. \A c \in Dispatchers : due'[c] \subseteq due[c]
    BY <1>0, <1>5
  <2> QED
    BY <1>5, <2>1 DEF QueueInv
<1> QED
  BY <1>1, <1>2, <1>3, <1>4, <1>5, QueueSteps

\* FiresInOrder: timers of the same instant fire in the order they were
\* scheduled, whoever dispatches them.
THEOREM OrderOfScheduling == Spec => []FiresInOrder
<1>1. Init => QueueInv
  BY DEF Init, QueueInv
<1>2. TypeOK /\ QueueInv /\ [Next]_vars => QueueInv'
  BY QueueInvStep
<1>3. TypeOK /\ QueueInv => FiresInOrder
  <2> SUFFICES ASSUME TypeOK, QueueInv, NEW d \in Dispatchers, NEW e \in due[d], IsFirst(e, due[d]),
                      NEW f \in queue \cup due[d], f.at = e.at, f.id < e.id
               PROVE  FALSE
    BY DEF FiresInOrder
  <2>1. e \in Entries /\ f \in Entries
    BY DEF TypeOK
  <2>2. e.id \in Nat /\ f.id \in Nat /\ e.at \in Nat
    BY <2>1 DEF Entries
  <2>3. CASE f \in queue
    <3>1. e.id < f.id
      BY <2>3 DEF QueueInv
    <3> QED
      BY <2>2, <3>1
  <2>4. CASE f \in due[d]
    <3>1. f # e
      BY <2>2
    <3>2. Before(e, f)
      BY <2>4, <3>1 DEF IsFirst
    <3> QED
      BY <2>2, <3>2 DEF Before
  <2> QED
    BY <2>3, <2>4
<1> QED
  BY <1>1, <1>2, <1>3, TypeCorrect, PTL DEF Spec

-----------------------------------------------------------------------------
(* What stop() leaves to the pool.                                         *)

LEMMA DoneStep ==
    ASSUME TypeOK, StopInv, DoneInv, [Next]_vars
    PROVE  DoneInv'
<1> USE DEF vars, tvars, uvars, svars, wvars, xvars, hvars
<1>0. /\ wpc \in [Workers -> RunSteps] /\ open \in BOOLEAN
      /\ stopPc = "done" => (exec = "pool" => ~open) /\ exec # "none"
  BY DEF TypeOK, StopInv
<1>1. CASE Tick
  BY <1>1, <1>0 DEF Tick, DoneInv
<1>2. CASE CloseExecutor
  BY <1>2, <1>0 DEF CloseExecutor, DoneInv
<1>3. ASSUME NEW u \in Threads, NEW t \in Timers, Schedule(u, t) PROVE DoneInv'
  BY <1>3, <1>0 DEF Schedule, DoneInv, Resolved
<1>4. ASSUME NEW u \in Threads, NEW t \in Timers, CancelFlag(u, t) PROVE DoneInv'
  BY <1>4, <1>0 DEF CancelFlag, DoneInv
<1>5. ASSUME NEW u \in Threads, ScheduleEntry(u) PROVE DoneInv'
  BY <1>5, <1>0 DEF ScheduleEntry, DoneInv
<1>6. ASSUME NEW u \in Threads, CancelEntry(u) PROVE DoneInv'
  BY <1>6, <1>0 DEF CancelEntry, DoneInv
<1>7. ASSUME NEW u \in Threads, WaitDone(u) PROVE DoneInv'
  BY <1>7, <1>0 DEF WaitDone, DoneInv
<1>8. ASSUME NEW u \in Threads, RunDue(u) PROVE DoneInv'
  BY <1>8, <1>0 DEF RunDue, DoneInv
<1>9. ASSUME NEW u \in Threads, PostCheck(u) PROVE DoneInv'
  BY <1>9, <1>0 DEF PostCheck, DoneInv, Resolved
<1>9a. ASSUME NEW u \in Threads, PostResolve(u) PROVE DoneInv'
  BY <1>9a, <1>0 DEF PostResolve, DoneInv, Resolved
<1>10. ASSUME NEW u \in Threads, PostSubmit(u) PROVE DoneInv'
  BY <1>10, <1>0 DEF PostSubmit, DoneInv, Accepts
<1>11. CASE PopDue
  BY <1>11, <1>0 DEF PopDue, DoneInv
<1>12. CASE TimerThreadExit
  BY <1>12, <1>0 DEF TimerThreadExit, DoneInv
<1>13. ASSUME NEW d \in Dispatchers, Dispatch(d) PROVE DoneInv'
  BY <1>13, <1>0 DEF Dispatch, DoneInv, HandOver, Accepts
<1>14. ASSUME NEW d \in Dispatchers, DispatchDone(d) PROVE DoneInv'
  BY <1>14, <1>0 DEF DispatchDone, DoneInv
<1>15. ASSUME NEW w \in Workers, Take(w) PROVE DoneInv'
  BY <1>15, <1>0 DEF Take, DoneInv, At
<1>16. ASSUME NEW w \in Workers, Enter(w) PROVE DoneInv'
  BY <1>16, <1>0 DEF Enter, DoneInv, At
<1>17. ASSUME NEW w \in Workers, Claim(w) PROVE DoneInv'
  BY <1>17, <1>0 DEF Claim, DoneInv, At
<1>18. ASSUME NEW w \in Workers, RearmRate(w) PROVE DoneInv'
  BY <1>18, <1>0 DEF RearmRate, DoneInv, At
<1>19. ASSUME NEW w \in Workers, TaskDone(w) PROVE DoneInv'
  BY <1>19, <1>0 DEF TaskDone, DoneInv, At
<1>20. ASSUME NEW w \in Workers, RearmDelay(w) PROVE DoneInv'
  BY <1>20, <1>0 DEF RearmDelay, DoneInv, At
<1>21. ASSUME NEW w \in Workers, Leave(w) PROVE DoneInv'
  BY <1>21, <1>0 DEF Leave, DoneInv, At
<1>22. ASSUME NEW w \in Workers, OtherDone(w) PROVE DoneInv'
  BY <1>22, <1>0 DEF OtherDone, DoneInv, At
<1>23. ASSUME NEW s \in Threads, Stop(s) PROVE DoneInv'
  BY <1>23, <1>0 DEF Stop, DoneInv, StopGoto
<1>24. CASE StopFlag
  BY <1>24, <1>0 DEF StopFlag, DoneInv, StopGoto
<1>25. CASE StopJoin
  BY <1>25, <1>0 DEF StopJoin, DoneInv, StopGoto
<1>26. CASE StopDrop
  BY <1>26, <1>0 DEF StopDrop, DoneInv
<1>27. CASE StopExecutor
  BY <1>27, <1>0 DEF StopExecutor, DoneInv, StopGoto
<1>28. CASE StopShutdown
  BY <1>28, <1>0 DEF StopShutdown, DoneInv, StopGoto
<1>29. CASE StopJoinPool
  <2> SUFFICES ASSUME exec = "pool", Cardinality(Workers) > 1
               PROVE  ready = <<>> /\ \A v, w \in Workers : wpc[v] # "idle" /\ wpc[w] # "idle" => v = w
    BY <1>29 DEF StopJoinPool, DoneInv
  <2>1. Others # {}
    <3> SUFFICES ASSUME Workers \subseteq {stopper}
                 PROVE  FALSE
      BY DEF Others
    <3>1. Workers = {} \/ Workers = {stopper}
      OBVIOUS
    <3>2. Cardinality(Workers) \in {0, 1}
      BY <3>1, FS_EmptySet, FS_Singleton
    <3> QED
      BY <3>2
  <2> QED
    BY <1>29, <2>1 DEF StopJoinPool, Joined, Others
<1>30. CASE UNCHANGED vars
  BY <1>30, <1>0 DEF DoneInv
<1> QED
  BY <1>1, <1>2, <1>3, <1>4, <1>5, <1>6, <1>7, <1>8, <1>9, <1>9a, <1>10, <1>11, <1>12,
     <1>13, <1>14, <1>15, <1>16, <1>17, <1>18, <1>19, <1>20, <1>21, <1>22, <1>23,
     <1>24, <1>25, <1>26, <1>27, <1>28, <1>29, <1>30
     DEF Next, Caller, Work, StopStep

\* DrainedAfterStop: when stop() has returned, the scheduler's own pool has
\* run what it was handed and is idle, but for a worker that made the call.
THEOREM PoolDrained == Spec => []DrainedAfterStop
<1>1. Init => StopInv /\ DoneInv
  BY InitStop DEF Init, DoneInv
<1>2. TypeOK /\ StopInv /\ DoneInv /\ [Next]_vars => StopInv' /\ DoneInv'
  BY StopInvStep, DoneStep
<1>3. DoneInv => DrainedAfterStop
  <2> SUFFICES ASSUME DoneInv, stopPc = "done", exec = "pool", Cardinality(Workers) > 1
               PROVE  ready = <<>> /\ Cardinality({w \in Workers : wpc[w] # "idle"}) <= 1
    BY DEF DrainedAfterStop
  <2> DEFINE S == {w \in Workers : wpc[w] # "idle"}
  <2>1. \A v, w \in S : v = w
    BY DEF DoneInv
  <2>2. S = {} \/ \E w : S = {w}
    BY <2>1
  <2>3. Cardinality(S) \in {0, 1}
    BY <2>2, FS_EmptySet, FS_Singleton
  <2> QED
    BY <2>3 DEF DoneInv
<1> QED
  BY <1>1, <1>2, <1>3, TypeCorrect, PTL DEF Spec

-----------------------------------------------------------------------------
(* Who is in a call or a run.                                              *)

LEMMA CallStep ==
    ASSUME TypeOK, StopInv, CallInv, [Next]_vars
    PROVE  CallInv'
<1> USE DEF vars, tvars, uvars, svars, wvars, xvars, hvars, CallInv
<1>0. /\ handle \in [Timers -> {"new", "scheduling", "live", "empty"}]
      /\ upc \in [Threads -> CallSteps] /\ target \in [Threads -> Timers \cup {NoTimer}]
      /\ Users \subseteq Threads
      /\ \A u \in Threads : upc[u] \in {"schedule", "cancel", "cancelAndWait", "wait"} =>
            target[u] \in Timers
      /\ stopping <=> stopPc # "no"
  BY DEF TypeOK, StopInv, Threads
<1>1. CASE Tick
  BY <1>1, <1>0 DEF Tick
<1>2. CASE CloseExecutor
  BY <1>2, <1>0 DEF CloseExecutor
<1>3. ASSUME NEW u \in Threads, NEW t \in Timers, Schedule(u, t) PROVE CallInv'
  BY <1>3, <1>0 DEF Schedule, Goto, Call, Free, Resolved
<1>4. ASSUME NEW u \in Threads, NEW t \in Timers, CancelFlag(u, t) PROVE CallInv'
  BY <1>4, <1>0 DEF CancelFlag, Goto, Call, Free
<1>5. ASSUME NEW u \in Threads, ScheduleEntry(u) PROVE CallInv'
  BY <1>5, <1>0 DEF ScheduleEntry, Goto
<1>6. ASSUME NEW u \in Threads, CancelEntry(u) PROVE CallInv'
  BY <1>6, <1>0 DEF CancelEntry, Goto
<1>7. ASSUME NEW u \in Threads, WaitDone(u) PROVE CallInv'
  BY <1>7, <1>0 DEF WaitDone, Goto
<1>8. ASSUME NEW u \in Threads, RunDue(u) PROVE CallInv'
  BY <1>8, <1>0 DEF RunDue, Goto, Call, Free
<1>9. ASSUME NEW u \in Threads, PostCheck(u) PROVE CallInv'
  BY <1>9, <1>0 DEF PostCheck, Goto, Call, Free, Resolved
<1>9a. ASSUME NEW u \in Threads, PostResolve(u) PROVE CallInv'
  BY <1>9a, <1>0 DEF PostResolve, Goto, Call, Free, Resolved
<1>10. ASSUME NEW u \in Threads, PostSubmit(u) PROVE CallInv'
  BY <1>10, <1>0 DEF PostSubmit, Goto
<1>11. CASE PopDue
  BY <1>11, <1>0 DEF PopDue
<1>12. CASE TimerThreadExit
  BY <1>12, <1>0 DEF TimerThreadExit
<1>13. ASSUME NEW d \in Dispatchers, Dispatch(d) PROVE CallInv'
  BY <1>13, <1>0 DEF Dispatch
<1>14. ASSUME NEW d \in Dispatchers, DispatchDone(d) PROVE CallInv'
  BY <1>14, <1>0 DEF DispatchDone, Goto
<1>15. ASSUME NEW w \in Workers, Take(w) PROVE CallInv'
  BY <1>15, <1>0 DEF Take
<1>16. ASSUME NEW w \in Workers, Enter(w) PROVE CallInv'
  BY <1>16, <1>0 DEF Enter
<1>17. ASSUME NEW w \in Workers, Claim(w) PROVE CallInv'
  BY <1>17, <1>0 DEF Claim
<1>18. ASSUME NEW w \in Workers, RearmRate(w) PROVE CallInv'
  BY <1>18, <1>0 DEF RearmRate
<1>19. ASSUME NEW w \in Workers, TaskDone(w) PROVE CallInv'
  BY <1>19, <1>0 DEF TaskDone
<1>20. ASSUME NEW w \in Workers, RearmDelay(w) PROVE CallInv'
  BY <1>20, <1>0 DEF RearmDelay
<1>21. ASSUME NEW w \in Workers, Leave(w) PROVE CallInv'
  BY <1>21, <1>0 DEF Leave
<1>22. ASSUME NEW w \in Workers, OtherDone(w) PROVE CallInv'
  BY <1>22, <1>0 DEF OtherDone
<1>23. ASSUME NEW s \in Threads, Stop(s) PROVE CallInv'
  BY <1>23, <1>0 DEF Stop, StopGoto, MayStop, Free
<1>24. CASE StopFlag
  BY <1>24, <1>0 DEF StopFlag, StopGoto
<1>25. CASE StopJoin
  BY <1>25, <1>0 DEF StopJoin, StopGoto
<1>26. CASE StopDrop
  BY <1>26, <1>0 DEF StopDrop
<1>27. CASE StopExecutor
  BY <1>27, <1>0 DEF StopExecutor, StopGoto, Sealed
<1>28. CASE StopShutdown
  BY <1>28, <1>0 DEF StopShutdown, StopGoto
<1>29. CASE StopJoinPool
  BY <1>29, <1>0 DEF StopJoinPool, StopGoto
<1>30. CASE UNCHANGED vars
  BY <1>30, <1>0
<1> QED
  BY <1>1, <1>2, <1>3, <1>4, <1>5, <1>6, <1>7, <1>8, <1>9, <1>9a, <1>10, <1>11, <1>12,
     <1>13, <1>14, <1>15, <1>16, <1>17, <1>18, <1>19, <1>20, <1>21, <1>22, <1>23,
     <1>24, <1>25, <1>26, <1>27, <1>28, <1>29, <1>30
     DEF Next, Caller, Work, StopStep

LEMMA BatchStep ==
    ASSUME TypeOK, StopInv, QueueInv, BatchInv, [Next]_vars
    PROVE  BatchInv'
<1> USE DEF vars, tvars, uvars, svars, wvars, xvars, hvars, BatchInv
<1>0. /\ upc \in [Threads -> CallSteps] /\ due \in [Dispatchers -> SUBSET Entries]
      /\ Users \subseteq Threads /\ Users \subseteq Dispatchers /\ TimerThread \in Dispatchers
      /\ Dispatchers = Users \cup {TimerThread} /\ TimerThread \notin Users
      /\ stopping <=> stopPc # "no"
      /\ \A d \in Dispatchers : \A e \in due[d] : e \notin queue
  <2>1. ASSUME NEW d \in Dispatchers, NEW e \in due[d], e \in queue PROVE FALSE
    <3>1. e.id < e.id /\ e.id \in Nat
      BY <2>1 DEF QueueInv, TypeOK, Entries
    <3> QED BY <3>1
  <2> QED
    BY <2>1, SchedulerAssumption DEF TypeOK, StopInv, Threads, Dispatchers
<1>1. CASE Tick
  BY <1>1, <1>0 DEF Tick
<1>2. CASE CloseExecutor
  BY <1>2, <1>0 DEF CloseExecutor
<1>3. ASSUME NEW u \in Threads, NEW t \in Timers, Schedule(u, t) PROVE BatchInv'
  BY <1>3, <1>0 DEF Schedule, Goto, Call, Free
<1>4. ASSUME NEW u \in Threads, NEW t \in Timers, CancelFlag(u, t) PROVE BatchInv'
  BY <1>4, <1>0 DEF CancelFlag, Goto, Call, Free
<1>5. ASSUME NEW u \in Threads, ScheduleEntry(u) PROVE BatchInv'
  BY <1>5, <1>0 DEF ScheduleEntry, Goto
<1>6. ASSUME NEW u \in Threads, CancelEntry(u) PROVE BatchInv'
  BY <1>6, <1>0 DEF CancelEntry, Goto
<1>7. ASSUME NEW u \in Threads, WaitDone(u) PROVE BatchInv'
  BY <1>7, <1>0 DEF WaitDone, Goto
<1>8. ASSUME NEW u \in Threads, RunDue(u) PROVE BatchInv'
  BY <1>8, <1>0 DEF RunDue, Goto, Call, Free, DueNow
<1>9. ASSUME NEW u \in Threads, PostCheck(u) PROVE BatchInv'
  BY <1>9, <1>0 DEF PostCheck, Goto, Call, Free
<1>9a. ASSUME NEW u \in Threads, PostResolve(u) PROVE BatchInv'
  BY <1>9a, <1>0 DEF PostResolve, Goto, Call, Free
<1>10. ASSUME NEW u \in Threads, PostSubmit(u) PROVE BatchInv'
  BY <1>10, <1>0 DEF PostSubmit, Goto
<1>11. CASE PopDue
  BY <1>11, <1>0 DEF PopDue, DueNow
<1>12. CASE TimerThreadExit
  BY <1>12, <1>0 DEF TimerThreadExit
<1>13. ASSUME NEW d \in Dispatchers, Dispatch(d) PROVE BatchInv'
  BY <1>13, <1>0 DEF Dispatch
<1>14. ASSUME NEW d \in Dispatchers, DispatchDone(d) PROVE BatchInv'
  BY <1>14, <1>0 DEF DispatchDone, Goto
<1>15. ASSUME NEW w \in Workers, Take(w) PROVE BatchInv'
  BY <1>15, <1>0 DEF Take
<1>16. ASSUME NEW w \in Workers, Enter(w) PROVE BatchInv'
  BY <1>16, <1>0 DEF Enter
<1>17. ASSUME NEW w \in Workers, Claim(w) PROVE BatchInv'
  BY <1>17, <1>0 DEF Claim
<1>18. ASSUME NEW w \in Workers, RearmRate(w) PROVE BatchInv'
  BY <1>18, <1>0 DEF RearmRate
<1>19. ASSUME NEW w \in Workers, TaskDone(w) PROVE BatchInv'
  BY <1>19, <1>0 DEF TaskDone
<1>20. ASSUME NEW w \in Workers, RearmDelay(w) PROVE BatchInv'
  BY <1>20, <1>0 DEF RearmDelay
<1>21. ASSUME NEW w \in Workers, Leave(w) PROVE BatchInv'
  BY <1>21, <1>0 DEF Leave
<1>22. ASSUME NEW w \in Workers, OtherDone(w) PROVE BatchInv'
  BY <1>22, <1>0 DEF OtherDone
<1>23. ASSUME NEW s \in Threads, Stop(s) PROVE BatchInv'
  BY <1>23, <1>0 DEF Stop, StopGoto
<1>24. CASE StopFlag
  BY <1>24, <1>0 DEF StopFlag, StopGoto
<1>25. CASE StopJoin
  BY <1>25, <1>0 DEF StopJoin, StopGoto
<1>26. CASE StopDrop
  BY <1>26, <1>0 DEF StopDrop
<1>27. CASE StopExecutor
  BY <1>27, <1>0 DEF StopExecutor, StopGoto
<1>28. CASE StopShutdown
  BY <1>28, <1>0 DEF StopShutdown, StopGoto
<1>29. CASE StopJoinPool
  BY <1>29, <1>0 DEF StopJoinPool, StopGoto
<1>30. CASE UNCHANGED vars
  BY <1>30, <1>0
<1> QED
  BY <1>1, <1>2, <1>3, <1>4, <1>5, <1>6, <1>7, <1>8, <1>9, <1>9a, <1>10, <1>11, <1>12,
     <1>13, <1>14, <1>15, <1>16, <1>17, <1>18, <1>19, <1>20, <1>21, <1>22, <1>23,
     <1>24, <1>25, <1>26, <1>27, <1>28, <1>29, <1>30
     DEF Next, Caller, Work, StopStep

LEMMA RunStep ==
    ASSUME TypeOK, StopInv, RunInv, [Next]_vars
    PROVE  RunInv'
<1> USE DEF vars, tvars, uvars, svars, wvars, xvars, hvars, RunInv
<1>0. /\ wpc \in [Workers -> RunSteps] /\ ready \in Seq(Jobs) /\ job \in [Workers -> Jobs]
      /\ active \in [Timers -> BOOLEAN]
      /\ stopping <=> stopPc # "no"
  BY DEF TypeOK, StopInv
<1>1. CASE Tick
  BY <1>1, <1>0 DEF Tick
<1>2. CASE CloseExecutor
  BY <1>2, <1>0 DEF CloseExecutor
<1>3. ASSUME NEW u \in Threads, NEW t \in Timers, Schedule(u, t) PROVE RunInv'
  BY <1>3, <1>0 DEF Schedule
<1>4. ASSUME NEW u \in Threads, NEW t \in Timers, CancelFlag(u, t) PROVE RunInv'
  BY <1>4, <1>0 DEF CancelFlag, Exchange
<1>5. ASSUME NEW u \in Threads, ScheduleEntry(u) PROVE RunInv'
  BY <1>5, <1>0 DEF ScheduleEntry
<1>6. ASSUME NEW u \in Threads, CancelEntry(u) PROVE RunInv'
  BY <1>6, <1>0 DEF CancelEntry
<1>7. ASSUME NEW u \in Threads, WaitDone(u) PROVE RunInv'
  BY <1>7, <1>0 DEF WaitDone
<1>8. ASSUME NEW u \in Threads, RunDue(u) PROVE RunInv'
  BY <1>8, <1>0 DEF RunDue
<1>9. ASSUME NEW u \in Threads, PostCheck(u) PROVE RunInv'
  BY <1>9, <1>0 DEF PostCheck
<1>9a. ASSUME NEW u \in Threads, PostResolve(u) PROVE RunInv'
  BY <1>9a, <1>0 DEF PostResolve
<1>10. ASSUME NEW u \in Threads, PostSubmit(u) PROVE RunInv'
  BY <1>10, <1>0 DEF PostSubmit, Submit, PostJob
<1>11. CASE PopDue
  BY <1>11, <1>0 DEF PopDue
<1>12. CASE TimerThreadExit
  BY <1>12, <1>0 DEF TimerThreadExit
<1>13. ASSUME NEW d \in Dispatchers, Dispatch(d) PROVE RunInv'
  BY <1>13, <1>0 DEF Dispatch, HandOver, Submit, RunJob
<1>14. ASSUME NEW d \in Dispatchers, DispatchDone(d) PROVE RunInv'
  BY <1>14, <1>0 DEF DispatchDone
<1>15. ASSUME NEW w \in Workers, Take(w) PROVE RunInv'
  BY <1>15, <1>0 DEF Take, At, FirstStep
<1>16. ASSUME NEW w \in Workers, Enter(w) PROVE RunInv'
  BY <1>16, <1>0 DEF Enter, At
<1>17. ASSUME NEW w \in Workers, Claim(w) PROVE RunInv'
  <2>1. wpc[w] = "entered" /\ job[w].timer \in Timers
    BY <1>17, RunningJob DEF Claim
  <2>2. active' = active \/ active' = [active EXCEPT ![job[w].timer] = FALSE]
    BY <1>17 DEF Claim, Exchange
  <2>3. \A s \in Timers : ~active[s] => ~active'[s]
    BY <1>0, <2>2
  <2>4. \E l \in {"leaving", "task", "started"} :
          /\ wpc' = [wpc EXCEPT ![w] = l]
          /\ l = "started" => Kind[job[w].timer] = "rate"
          /\ l = "task" /\ Kind[job[w].timer] = "oneshot" => ~active'[job[w].timer]
    BY <1>17, <1>0, <2>1 DEF Claim, Exchange, At, RearmsBefore
  <2>5. UNCHANGED <<ready, job, stopping>>
    BY <1>17 DEF Claim
  <2>6. \A v \in Workers : v # w => wpc'[v] = wpc[v]
    BY <1>0, <2>4
  <2>7. \A v \in Workers : wpc[v] = "task" => job[v].timer \in Timers
    BY RunningJob
  <2> QED
    BY <1>0, <2>1, <2>3, <2>4, <2>5, <2>6, <2>7
<1>18. ASSUME NEW w \in Workers, RearmRate(w) PROVE RunInv'
  BY <1>18, <1>0 DEF RearmRate, At
<1>19. ASSUME NEW w \in Workers, TaskDone(w) PROVE RunInv'
  BY <1>19, <1>0 DEF TaskDone, At, RearmsAfter
<1>20. ASSUME NEW w \in Workers, RearmDelay(w) PROVE RunInv'
  BY <1>20, <1>0 DEF RearmDelay, At
<1>21. ASSUME NEW w \in Workers, Leave(w) PROVE RunInv'
  BY <1>21, <1>0 DEF Leave, At
<1>22. ASSUME NEW w \in Workers, OtherDone(w) PROVE RunInv'
  BY <1>22, <1>0 DEF OtherDone, At
<1>23. ASSUME NEW s \in Threads, Stop(s) PROVE RunInv'
  BY <1>23, <1>0 DEF Stop
<1>24. CASE StopFlag
  BY <1>24, <1>0 DEF StopFlag
<1>25. CASE StopJoin
  BY <1>25, <1>0 DEF StopJoin
<1>26. CASE StopDrop
  BY <1>26, <1>0 DEF StopDrop, Submit, DropJob
<1>27. CASE StopExecutor
  BY <1>27, <1>0 DEF StopExecutor
<1>28. CASE StopShutdown
  BY <1>28, <1>0 DEF StopShutdown
<1>29. CASE StopJoinPool
  BY <1>29, <1>0 DEF StopJoinPool
<1>30. CASE UNCHANGED vars
  BY <1>30, <1>0
<1> QED
  BY <1>1, <1>2, <1>3, <1>4, <1>5, <1>6, <1>7, <1>8, <1>9, <1>9a, <1>10, <1>11, <1>12,
     <1>13, <1>14, <1>15, <1>16, <1>17, <1>18, <1>19, <1>20, <1>21, <1>22, <1>23,
     <1>24, <1>25, <1>26, <1>27, <1>28, <1>29, <1>30
     DEF Next, Caller, Work, StopStep

-----------------------------------------------------------------------------
(* One run coming: the places before and after a step.                     *)

\* What is alike in emptiness, and has two only if the other has.
Alike(X, Y) == (X = {} <=> Y = {}) /\ (Sole(X) => Sole(Y))

\* Some worker is in the callback of t, with the run still counted.
AtTask(t) == \E w \in Taken(t) : wpc[w] = "task"

LEMMA SoloElim ==
    ASSUME NEW A, NEW B, NEW C, NEW D, NEW E, Solo(A, B, C, D, E)
    PROVE  /\ \A x \in A : A = {x} /\ B = {} /\ C = {} /\ D = {} /\ E = {}
           /\ \A x \in B : B = {x} /\ A = {} /\ C = {} /\ D = {} /\ E = {}
           /\ \A x \in C : C = {x} /\ A = {} /\ B = {} /\ D = {} /\ E = {}
           /\ \A x \in D : D = {x} /\ A = {} /\ B = {} /\ C = {} /\ E = {}
           /\ \A x \in E : E = {x} /\ A = {} /\ B = {} /\ C = {} /\ D = {}
BY DEF Solo, Sole

LEMMA AlikeSolo ==
    ASSUME NEW A, NEW B, NEW C, NEW D, NEW E, Solo(A, B, C, D, E),
           NEW F, NEW G, NEW H, NEW I, NEW J,
           Alike(A, F), Alike(B, G), Alike(C, H), Alike(D, I), Alike(E, J)
    PROVE  Solo(F, G, H, I, J)
BY DEF Solo, Alike

\* A step that leaves the places of t as they are.
LEMMA SameOne ==
    ASSUME NEW t \in Timers, SoloOne(t), ArmedOne(t),
           Alike(Queued(t), Queued(t)'), Alike(Draining(t), Draining(t)'),
           Alike(Popped(t), Popped(t)'), Alike(Handed(t), Handed(t)'),
           Alike(Taken(t), Taken(t)'), Kind[t] = "oneshot" /\ AtTask(t) => AtTask(t)',
           handle'[t] = "live" <=> handle[t] = "live",
           active'[t] => active[t], handle[t] # "live" => active'[t] = active[t],
           runs'[t] = runs[t], drops'[t] = drops[t], t \in gone' <=> t \in gone,
           stopping => stopping', open' => open
    PROVE  SoloOne(t)' /\ ArmedOne(t)'
<1>1. Solo(Queued(t), Draining(t), Popped(t), Handed(t), Taken(t))'
  BY AlikeSolo DEF SoloOne
<1>2. Armed(t)' <=> Armed(t)
  BY DEF Alike, Armed
<1>3. Queued(t) = {} => Queued(t)' = {}
  BY DEF Alike
<1>4. SoloOne(t)'
  BY <1>1, <1>2, <1>3 DEF SoloOne, AtTask
<1>5. ArmedOne(t)'
  BY <1>2 DEF ArmedOne, Live
<1> QED BY <1>4, <1>5

\* A step that moves what t has coming to another place, before it runs.
LEMMA MoveOne ==
    ASSUME NEW t \in Timers, SoloOne(t), Armed(t), ~AtTask(t),
           Solo(Queued(t), Draining(t), Popped(t), Handed(t), Taken(t))', Armed(t)',
           t \in gone => Queued(t)' = {},
           handle'[t] = handle[t], active'[t] = active[t],
           runs'[t] = runs[t], drops'[t] = drops[t], t \in gone' <=> t \in gone
    PROVE  SoloOne(t)' /\ ArmedOne(t)'
<1>1. handle[t] = "live" /\ ~(Kind[t] = "oneshot" /\ runs[t] = 1)
  BY DEF SoloOne, AtTask
<1>2. SoloOne(t)'
  BY <1>1 DEF SoloOne
<1> QED BY <1>2 DEF ArmedOne

\* A step after which t has nothing coming.
LEMMA RemoveOne ==
    ASSUME NEW t \in Timers, SoloOne(t), handle'[t] = "live",
           Queued(t)' = {}, Draining(t)' = {}, Popped(t)' = {}, Handed(t)' = {}, Taken(t)' = {},
           active'[t] = active[t], handle[t] = "live", t \in gone' => ~active[t],
           runs'[t] = runs[t],
           drops'[t] = drops[t] \/ (drops'[t] = 1 /\ runs[t] = 0),
           ~active[t] \/ (~(~stopping' /\ open') /\ (t \in HasDrop => drops'[t] # 0))
    PROVE  SoloOne(t)' /\ ArmedOne(t)'
<1>1. ~Armed(t)'
  BY DEF Armed
<1>2. Solo(Queued(t), Draining(t), Popped(t), Handed(t), Taken(t))'
  BY DEF Solo, Sole
<1>3. SoloOne(t)'
  BY <1>1, <1>2 DEF SoloOne
<1>4. ArmedOne(t)'
  BY <1>1 DEF ArmedOne, Live
<1> QED BY <1>3, <1>4

-----------------------------------------------------------------------------
(* The places themselves.                                                  *)

LEMMA HandedAppend ==
    ASSUME ready \in Seq(Jobs), NEW j \in Jobs, ready' = Append(ready, j), NEW t
    PROVE  /\ j.timer # t => Handed(t)' = Handed(t)
           /\ j.timer = t => Handed(t)' = Handed(t) \cup {Len(ready) + 1}
<1> DEFINE n == Len(ready)
<1>1. /\ Len(ready') = n + 1 /\ n \in Nat
      /\ \A i \in 1 .. n : ready'[i] = ready[i]
      /\ ready'[n + 1] = j
  OBVIOUS
<1>2. \A i : i \in 1 .. n + 1 <=> i \in 1 .. n \/ i = n + 1
  BY <1>1
<1>3. n + 1 \notin 1 .. n
  BY <1>1
<1> HIDE DEF n
<1> QED BY <1>1, <1>2, <1>3 DEF Handed, n

LEMMA HandedTail ==
    ASSUME ready \in Seq(Jobs), ready # <<>>, ready' = Tail(ready), NEW t
    PROVE  /\ Head(ready).timer # t => Alike(Handed(t), Handed(t)')
           /\ Head(ready).timer = t => 1 \in Handed(t) /\ (Sole(Handed(t)) => Handed(t)' = {})
<1> DEFINE n == Len(ready)
<1>1. /\ n \in Nat /\ n >= 1 /\ Len(ready') = n - 1
      /\ \A i \in 1 .. n - 1 : ready'[i] = ready[i + 1]
      /\ Head(ready) = ready[1]
  OBVIOUS
<1>2. \A i \in Handed(t)' : i \in Nat /\ i + 1 \in Handed(t) /\ i + 1 # 1
  BY <1>1 DEF Handed
<1>3. \A i \in Handed(t) : i \in Nat /\ (i # 1 => i - 1 \in Handed(t)' /\ (i - 1) + 1 = i)
  <2> SUFFICES ASSUME NEW i \in Handed(t), i # 1
               PROVE  i - 1 \in Handed(t)'
    BY <1>1 DEF Handed
  <2>1. i \in Nat /\ i - 1 \in 1 .. n - 1 /\ (i - 1) + 1 = i
    BY <1>1 DEF Handed
  <2>2. ready'[i - 1] = ready[i]
    BY <1>1, <2>1
  <2> QED BY <1>1, <2>1, <2>2 DEF Handed
<1>4. 1 \in Handed(t) <=> Head(ready).timer = t
  BY <1>1 DEF Handed
<1> HIDE DEF n
<1>5. CASE Head(ready).timer # t
  <2>1. Handed(t) = {} <=> Handed(t)' = {}
    BY <1>2, <1>3, <1>4, <1>5
  <2>2. ASSUME Sole(Handed(t)), NEW i \in Handed(t)', NEW k \in Handed(t)' PROVE i = k
    <3>1. i + 1 = k + 1 /\ i \in Nat /\ k \in Nat
      BY <1>2, <2>2 DEF Sole
    <3> QED BY <3>1
  <2> QED BY <1>5, <2>1, <2>2 DEF Alike, Sole
<1>6. CASE Head(ready).timer = t
  BY <1>2, <1>4, <1>6 DEF Sole
<1> QED BY <1>5, <1>6

LEMMA PlacesKept ==
    ASSUME NEW t
    PROVE  /\ UNCHANGED queue => Queued(t)' = Queued(t)
           /\ UNCHANGED dropping => Draining(t)' = Draining(t)
           /\ UNCHANGED due => Popped(t)' = Popped(t)
           /\ UNCHANGED ready => Handed(t)' = Handed(t)
           /\ UNCHANGED <<wpc, job>> => Taken(t)' = Taken(t) /\ (AtTask(t)' <=> AtTask(t))
BY DEF Queued, Draining, Popped, Handed, Taken, AtTask, Counted

LEMMA AlikeSame == \A X : Alike(X, X)
BY DEF Alike

\* What the steps of a worker w do to Taken: only its own place changes.
LEMMA TakenStep ==
    ASSUME TypeOK, NEW w \in Workers, NEW l, NEW j,
           wpc' = [wpc EXCEPT ![w] = l], job' = [job EXCEPT ![w] = j], NEW t
    PROVE  /\ Taken(t)' \ {w} = Taken(t) \ {w}
           /\ w \in Taken(t)' <=> j.timer = t /\ l \in Counted(t)
           /\ w \in Taken(t) <=> job[w].timer = t /\ wpc[w] \in Counted(t)
           /\ (job[w].timer = t /\ wpc[w] \in Counted(t) <=> j.timer = t /\ l \in Counted(t)) =>
                  Taken(t)' = Taken(t)
           /\ ~(j.timer = t /\ l \in Counted(t)) => Taken(t)' = Taken(t) \ {w}
           /\ j.timer = t /\ l \in Counted(t) => Taken(t)' = Taken(t) \cup {w}
           /\ wpc'[w] = l
           /\ \A v \in Workers : v # w => wpc'[v] = wpc[v]
<1>1. wpc \in [Workers -> RunSteps] /\ job \in [Workers -> Jobs]
  BY DEF TypeOK
<1>2. wpc'[w] = l /\ job'[w] = j /\ \A v \in Workers : v # w => wpc'[v] = wpc[v] /\ job'[v] = job[v]
  BY <1>1
<1>3. Counted(t)' = Counted(t)
  BY DEF Counted
<1>4. w \in Taken(t)' <=> j.timer = t /\ l \in Counted(t)
  BY <1>2, <1>3 DEF Taken
<1>5. \A v \in Workers : v # w => (v \in Taken(t)' <=> v \in Taken(t))
  BY <1>2, <1>3 DEF Taken
<1>6. Taken(t)' \subseteq Workers /\ Taken(t) \subseteq Workers
  BY DEF Taken
<1>7. w \in Taken(t) <=> job[w].timer = t /\ wpc[w] \in Counted(t)
  BY DEF Taken
<1>8. /\ w \in Taken(t)' => Taken(t)' = Taken(t) \cup {w}
      /\ w \notin Taken(t)' => Taken(t)' = Taken(t) \ {w}
      /\ (w \in Taken(t)' <=> w \in Taken(t)) => Taken(t)' = Taken(t)
      /\ Taken(t)' \ {w} = Taken(t) \ {w}
  BY <1>5, <1>6
<1> QED BY <1>2, <1>4, <1>7, <1>8

LEMMA TakenKept ==
    ASSUME TypeOK, NEW w \in Workers, NEW l, NEW j,
           wpc' = [wpc EXCEPT ![w] = l], job' = [job EXCEPT ![w] = j], NEW t,
           job[w].timer = t /\ wpc[w] \in Counted(t) <=> j.timer = t /\ l \in Counted(t)
    PROVE  Taken(t)' = Taken(t)
BY TakenStep

LEMMA TakenLeft ==
    ASSUME TypeOK, NEW w \in Workers, NEW l, NEW j,
           wpc' = [wpc EXCEPT ![w] = l], job' = [job EXCEPT ![w] = j], NEW t,
           ~(j.timer = t /\ l \in Counted(t))
    PROVE  Taken(t)' = Taken(t) \ {w}
BY TakenStep

-----------------------------------------------------------------------------
(* One run coming: step by step.                                           *)

\* What SoloInv and ArmedInv promise after a step.
OneComing == SoloInv /\ ArmedInv

LEMMA KeptStep ==
    ASSUME SoloInv, ArmedInv,
           UNCHANGED <<queue, dropping, due, ready, wpc, job, runs, drops, gone>>,
           stopping => stopping', open' => open,
           \A s \in Timers : /\ handle'[s] = "live" <=> handle[s] = "live"
                             /\ active'[s] => active[s]
                             /\ handle[s] # "live" => active'[s] = active[s]
    PROVE  OneComing'
<1> SUFFICES ASSUME NEW s \in Timers
             PROVE  SoloOne(s)' /\ ArmedOne(s)'
  BY DEF OneComing, SoloInv, ArmedInv
<1>1. /\ Alike(Queued(s), Queued(s)') /\ Alike(Draining(s), Draining(s)')
      /\ Alike(Popped(s), Popped(s)') /\ Alike(Handed(s), Handed(s)')
      /\ Alike(Taken(s), Taken(s)') /\ (AtTask(s) => AtTask(s)')
  BY PlacesKept, AlikeSame
<1>2. SoloOne(s) /\ ArmedOne(s)
  BY DEF SoloInv, ArmedInv
<1> QED BY <1>1, <1>2, SameOne

LEMMA ScheduleEntrySolo ==
    ASSUME TypeOK, CallInv, SoloInv, ArmedInv, NEW u \in Threads, ScheduleEntry(u)
    PROVE  OneComing'
<1>1. PICK t : t = target[u]
  OBVIOUS
<1>2. /\ t \in Timers /\ handle[t] = "scheduling"
      /\ handle \in [Timers -> {"new", "scheduling", "live", "empty"}]
  BY <1>1 DEF ScheduleEntry, TypeOK, CallInv
<1>3. UNCHANGED <<dropping, due, ready, wpc, job, runs, drops, gone, active, stopping, open>>
  BY DEF ScheduleEntry, svars, wvars, hvars
<1>4. CASE stopping
  <2>1. handle' = [handle EXCEPT ![t] = "empty"] /\ UNCHANGED queue
    BY <1>1, <1>4 DEF ScheduleEntry
  <2>2. \A s \in Timers : handle'[s] = "live" <=> handle[s] = "live"
    BY <1>2, <2>1
  <2> QED BY <1>3, <2>1, <2>2, KeptStep
<1>5. CASE ~stopping
  <2>1. handle' = [handle EXCEPT ![t] = "live"] /\ \E at : Add(t, at)
    BY <1>1, <1>5 DEF ScheduleEntry
  <2>2. PICK n : n.timer = t /\ queue' = queue \cup {n}
    BY <2>1 DEF Add
  <2>3. ASSUME NEW s \in Timers, s # t PROVE SoloOne(s)' /\ ArmedOne(s)'
    <3>1. Queued(s)' = Queued(s)
      BY <2>2, <2>3 DEF Queued
    <3>2. handle'[s] = handle[s]
      BY <1>2, <2>1, <2>3
    <3>3. /\ Alike(Queued(s), Queued(s)') /\ Alike(Draining(s), Draining(s)')
          /\ Alike(Popped(s), Popped(s)') /\ Alike(Handed(s), Handed(s)')
          /\ Alike(Taken(s), Taken(s)') /\ (AtTask(s) => AtTask(s)')
      BY <1>3, <3>1, PlacesKept, AlikeSame
    <3>4. SoloOne(s) /\ ArmedOne(s)
      BY DEF SoloInv, ArmedInv
    <3> QED BY <1>3, <3>2, <3>3, <3>4, SameOne
  <2>4. SoloOne(t)' /\ ArmedOne(t)'
    <3>1. /\ ~Armed(t) /\ active[t] /\ t \notin gone /\ runs[t] = 0 /\ drops[t] = 0
      BY <1>2 DEF SoloInv, SoloOne
    <3>2. Queued(t)' = {n}
      BY <2>2, <3>1 DEF Queued, Armed
    <3>3. Draining(t)' = {} /\ Popped(t)' = {} /\ Handed(t)' = {} /\ Taken(t)' = {}
      BY <1>3, <3>1, PlacesKept DEF Armed
    <3>4. Solo(Queued(t), Draining(t), Popped(t), Handed(t), Taken(t))'
      BY <3>2, <3>3 DEF Solo, Sole
    <3>5. Armed(t)' /\ handle'[t] = "live"
      BY <1>2, <2>1, <3>2 DEF Armed
    <3> QED BY <1>3, <3>1, <3>4, <3>5 DEF SoloOne, ArmedOne
  <2> QED BY <2>3, <2>4 DEF OneComing, SoloInv, ArmedInv
<1> QED BY <1>4, <1>5

LEMMA CancelEntrySolo ==
    ASSUME TypeOK, PlaceInv, CallInv, EntryInv, SoloInv, ArmedInv,
           NEW u \in Threads, CancelEntry(u)
    PROVE  OneComing'
<1>1. PICK t : t = target[u]
  OBVIOUS
<1>2. t \in Timers /\ handle[t] = "live" /\ ~active[t]
  BY <1>1 DEF CancelEntry, TypeOK, CallInv, PlaceInv
<1>3. UNCHANGED <<dropping, due, ready, wpc, job, runs, drops, active, handle, stopping, open>>
  BY DEF CancelEntry, svars, wvars, tvars, xvars
<1>4. queue' = {e \in queue : e.id # entry[t]} /\ gone' = gone \cup {t}
  BY <1>1 DEF CancelEntry, CancelId
<1>5. ASSUME NEW s \in Timers, s # t PROVE SoloOne(s)' /\ ArmedOne(s)'
  <2>1. ASSUME NEW e \in Queued(s) PROVE e.id # entry[t]
    <3>1. e \in queue /\ e.timer = s /\ handle[s] = "live"
      BY DEF Queued, SoloInv, SoloOne, Armed
    <3> QED BY <1>2, <1>5, <3>1 DEF EntryInv
  <2>2. Queued(s)' = Queued(s)
    BY <1>4, <2>1 DEF Queued
  <2>3. /\ Alike(Queued(s), Queued(s)') /\ Alike(Draining(s), Draining(s)')
        /\ Alike(Popped(s), Popped(s)') /\ Alike(Handed(s), Handed(s)')
        /\ Alike(Taken(s), Taken(s)') /\ (AtTask(s) => AtTask(s)')
    BY <1>3, <2>2, PlacesKept, AlikeSame
  <2>4. SoloOne(s) /\ ArmedOne(s)
    BY DEF SoloInv, ArmedInv
  <2> QED BY <1>3, <1>4, <1>5, <2>3, <2>4, SameOne
<1>6. SoloOne(t)' /\ ArmedOne(t)'
  <2>1. Queued(t)' = {}
    BY <1>4 DEF Queued, EntryInv
  <2>2. /\ Draining(t)' = Draining(t) /\ Popped(t)' = Popped(t) /\ Handed(t)' = Handed(t)
        /\ Taken(t)' = Taken(t) /\ (AtTask(t) => AtTask(t)')
    BY <1>3, PlacesKept
  <2>3. SoloOne(t)
    BY <1>2 DEF SoloInv
  <2>4. Solo(Queued(t), Draining(t), Popped(t), Handed(t), Taken(t))'
    BY <2>1, <2>2, <2>3 DEF SoloOne, Solo, Sole
  <2>5. Armed(t)' => Armed(t)
    BY <2>1, <2>2 DEF Armed
  <2>6. SoloOne(t)'
    BY <1>2, <1>3, <2>1, <2>2, <2>3, <2>4, <2>5 DEF SoloOne, AtTask
  <2>7. ArmedOne(t)'
    BY <1>2, <1>3 DEF ArmedOne
  <2> QED BY <2>6, <2>7
<1> QED BY <1>5, <1>6 DEF OneComing, SoloInv, ArmedInv

LEMMA PopSolo ==
    ASSUME TypeOK, SoloInv, ArmedInv, NEW d \in Dispatchers, due[d] = {},
           due' = [due EXCEPT ![d] = DueNow], queue' = queue \ DueNow,
           UNCHANGED <<dropping, ready, wpc, job, runs, drops, gone, active, handle, stopping, open>>
    PROVE  OneComing'
<1> SUFFICES ASSUME NEW s \in Timers
             PROVE  SoloOne(s)' /\ ArmedOne(s)'
  BY DEF OneComing, SoloInv, ArmedInv
<1>1. due \in [Dispatchers -> SUBSET Entries] /\ DueNow \subseteq queue
  BY DEF TypeOK, DueNow
<1>2. UNION {due'[c] : c \in Dispatchers} = DueNow \cup UNION {due[c] : c \in Dispatchers}
  BY <1>1
<1>3. SoloOne(s) /\ ArmedOne(s)
  BY DEF SoloInv, ArmedInv
<1>4. /\ Draining(s)' = Draining(s) /\ Handed(s)' = Handed(s)
      /\ Taken(s)' = Taken(s) /\ (AtTask(s) => AtTask(s)')
  BY PlacesKept
<1>5. CASE \E e \in DueNow : e.timer = s
  <2>1. PICK e \in DueNow : e.timer = s
    BY <1>5
  <2>2. /\ Queued(s) = {e} /\ Draining(s) = {} /\ Popped(s) = {}
        /\ Handed(s) = {} /\ Taken(s) = {}
    <3>1. e \in Queued(s)
      BY <1>1, <2>1 DEF Queued
    <3> QED BY <1>3, <3>1, SoloElim DEF SoloOne
  <2>3. Queued(s)' = {}
    BY <2>1, <2>2 DEF Queued
  <2>4. Popped(s)' = {e}
    <3>1. \A f : f \in Popped(s)' <=> (f \in DueNow /\ f.timer = s) \/ f \in Popped(s)
      BY <1>2 DEF Popped
    <3>2. \A f \in DueNow : f.timer = s => f \in Queued(s)
      BY <1>1 DEF Queued
    <3> QED BY <2>1, <2>2, <3>1, <3>2
  <2>5. Solo(Queued(s), Draining(s), Popped(s), Handed(s), Taken(s))' /\ Armed(s)'
    BY <1>4, <2>2, <2>3, <2>4 DEF Solo, Sole, Armed
  <2>6. Armed(s) /\ ~AtTask(s)
    BY <2>2 DEF Armed, AtTask
  <2> QED BY <1>3, <2>3, <2>5, <2>6, MoveOne
<1>6. CASE \A e \in DueNow : e.timer # s
  <2>1. Queued(s)' = Queued(s)
    BY <1>6 DEF Queued
  <2>2. Popped(s)' = Popped(s)
    BY <1>2, <1>6 DEF Popped
  <2>3. /\ Alike(Queued(s), Queued(s)') /\ Alike(Draining(s), Draining(s)')
        /\ Alike(Popped(s), Popped(s)') /\ Alike(Handed(s), Handed(s)')
        /\ Alike(Taken(s), Taken(s)')
    BY <1>4, <2>1, <2>2, AlikeSame
  <2> QED BY <1>3, <1>4, <2>3, SameOne
<1> QED BY <1>5, <1>6

LEMMA StopSolo ==
    ASSUME TypeOK, StopInv, BatchInv, SoloInv, ArmedInv, NEW u \in Threads, Stop(u)
    PROVE  OneComing'
<1> SUFFICES ASSUME NEW s \in Timers
             PROVE  SoloOne(s)' /\ ArmedOne(s)'
  BY DEF OneComing, SoloInv, ArmedInv
<1>1. /\ dropping = {} /\ dropping' = queue /\ queue' = {} /\ stopping'
      /\ UNCHANGED <<due, ready, wpc, job, runs, drops, gone, active, handle, open>>
  BY DEF Stop, StopInv, BatchInv, wvars, hvars, tvars, xvars
<1>2. Queued(s)' = {} /\ Draining(s) = {} /\ Draining(s)' = Queued(s)
  BY <1>1 DEF Queued, Draining
<1>3. SoloOne(s) /\ ArmedOne(s)
  BY DEF SoloInv, ArmedInv
<1>4. /\ Popped(s)' = Popped(s) /\ Handed(s)' = Handed(s)
      /\ Taken(s)' = Taken(s) /\ (AtTask(s) => AtTask(s)')
  BY <1>1, PlacesKept
<1>5. CASE Queued(s) # {}
  <2>1. PICK e : /\ Queued(s) = {e} /\ Popped(s) = {} /\ Handed(s) = {} /\ Taken(s) = {}
    BY <1>3, <1>5, SoloElim DEF SoloOne
  <2>2. Solo(Queued(s), Draining(s), Popped(s), Handed(s), Taken(s))' /\ Armed(s)'
    BY <1>2, <1>4, <2>1 DEF Solo, Sole, Armed
  <2>3. Armed(s) /\ ~AtTask(s)
    BY <2>1 DEF Armed, AtTask
  <2> QED BY <1>1, <1>2, <1>3, <2>2, <2>3, MoveOne
<1>6. CASE Queued(s) = {}
  <2>1. /\ Alike(Queued(s), Queued(s)') /\ Alike(Draining(s), Draining(s)')
        /\ Alike(Popped(s), Popped(s)') /\ Alike(Handed(s), Handed(s)')
        /\ Alike(Taken(s), Taken(s)')
    BY <1>2, <1>4, <1>6, AlikeSame
  <2> QED BY <1>1, <1>3, <1>4, <2>1, SameOne
<1> QED BY <1>5, <1>6

\* A refusal is the answer of a closed executor or of a stopped scheduler.
LEMMA Refusal ==
    ASSUME TypeOK, StopInv, CallInv, NEW t \in Timers, handle[t] = "live", ~Accepts
    PROVE  ~(~stopping /\ open)
<1>1. exec \in {"none", "pool", "external", "rejecting"}
  BY DEF TypeOK
<1>2. exec # "none"
  BY DEF CallInv
<1>3. exec = "rejecting" => stopping
  BY DEF CallInv, StopInv
<1> QED BY <1>1, <1>2, <1>3 DEF Accepts

\* What a run that has not started says of its timer.
LEMMA NotYetRun ==
    ASSUME TypeOK, NEW t \in Timers, SoloOne(t), Armed(t), ~AtTask(t)
    PROVE  /\ handle[t] = "live" /\ runs[t] \in {0, 1}
           /\ t \in HasDrop => drops[t] = 0 /\ runs[t] = 0
<1>1. runs[t] \in Nat /\ drops[t] \in Nat
  BY DEF TypeOK
<1>2. handle[t] = "live" /\ runs[t] <= 1
  BY DEF SoloOne
<1>3. t \in HasDrop => Kind[t] = "oneshot"
  BY SchedulerAssumption
<1>4. t \in HasDrop => runs[t] # 1 /\ drops[t] # 1 /\ drops[t] <= 1
  BY <1>3 DEF SoloOne, AtTask
<1> QED BY <1>1, <1>2, <1>4

LEMMA DispatchSolo ==
    ASSUME TypeOK, StopInv, CallInv, BatchInv, SoloInv, ArmedInv,
           NEW d \in Dispatchers, Dispatch(d)
    PROVE  OneComing'
<1>1. PICK e \in due[d] : Dispatch(d)!(e)
  BY DEF Dispatch
<1>2. PICK t : t = e.timer
  OBVIOUS
<1>3. /\ e \in Entries /\ t \in Timers /\ due \in [Dispatchers -> SUBSET Entries]
      /\ ready \in Seq(Jobs) /\ RunJob(e) \in Jobs /\ RunJob(e).timer = t
      /\ drops \in [Timers -> Nat]
  BY <1>2, JobTypes DEF TypeOK, RunJob
<1>4. UNCHANGED <<queue, dropping, wpc, job, runs, gone, active, handle, stopping, open>>
  BY <1>1 DEF svars, wvars, tvars, xvars
<1>5. \A c \in Dispatchers : due'[c] = due[c] \ {e}
  <2>1. due' = [due EXCEPT ![d] = @ \ {e}]
    BY <1>1
  <2>2. \A c \in Dispatchers : e \in due[c] => c = d
    BY DEF BatchInv
  <2> QED BY <1>3, <2>1, <2>2
<1>6. \A s \in Timers : Popped(s)' = Popped(s) \ {e}
  BY <1>5 DEF Popped
<1>7. \A s \in Timers : SoloOne(s) /\ ArmedOne(s)
  BY DEF SoloInv, ArmedInv
<1>8. \A s \in Timers : /\ Queued(s)' = Queued(s) /\ Draining(s)' = Draining(s)
                        /\ Taken(s)' = Taken(s) /\ (AtTask(s) => AtTask(s)')
  BY <1>4, PlacesKept
<1>9. /\ Popped(t) = {e} /\ Queued(t) = {} /\ Draining(t) = {} /\ Handed(t) = {} /\ Taken(t) = {}
  <2>1. e \in Popped(t)
    BY <1>2 DEF Popped
  <2> QED BY <2>1, <1>3, <1>7, SoloElim DEF SoloOne
<1>10. Armed(t) /\ ~AtTask(t) /\ Popped(t)' = {}
  BY <1>3, <1>6, <1>9 DEF Armed, AtTask
<1>11. /\ handle[t] = "live"
       /\ t \in HasDrop => drops[t] = 0 /\ runs[t] = 0
  BY <1>3, <1>7, <1>10, NotYetRun
<1>12. ASSUME NEW s \in Timers, s # t, Alike(Handed(s), Handed(s)'), drops'[s] = drops[s]
       PROVE  SoloOne(s)' /\ ArmedOne(s)'
  <2>1. Popped(s)' = Popped(s)
    BY <1>2, <1>6, <1>12 DEF Popped
  <2>2. /\ Alike(Queued(s), Queued(s)') /\ Alike(Draining(s), Draining(s)')
        /\ Alike(Popped(s), Popped(s)') /\ Alike(Taken(s), Taken(s)')
    BY <1>8, <2>1, AlikeSame
  <2> QED BY <1>4, <1>7, <1>8, <1>12, <2>2, SameOne
<1>13. CASE Accepts /\ Submit(RunJob(e)) /\ UNCHANGED drops
  <2>1. ready' = Append(ready, RunJob(e))
    BY <1>13 DEF Submit
  <2>2. \A s \in Timers : s # t => Handed(s)' = Handed(s)
    BY <1>3, <2>1, HandedAppend
  <2>3. Handed(t)' = {Len(ready) + 1}
    BY <1>3, <1>9, <2>1, HandedAppend
  <2>4. Solo(Queued(t), Draining(t), Popped(t), Handed(t), Taken(t))' /\ Armed(t)'
    BY <1>3, <1>8, <1>9, <1>10, <2>3 DEF Solo, Sole, Armed
  <2>5. SoloOne(t)' /\ ArmedOne(t)'
    BY <1>3, <1>4, <1>7, <1>8, <1>9, <1>10, <1>13, <2>4, MoveOne
  <2> QED BY <1>12, <1>13, <2>2, <2>5, AlikeSame DEF OneComing, SoloInv, ArmedInv
<1>14. CASE ~Accepts /\ ReportDrop(t) /\ UNCHANGED ready
  <2>1. \A s \in Timers : Handed(s)' = Handed(s)
    BY <1>14, PlacesKept
  <2>2. \A s \in Timers : s # t => drops'[s] = drops[s]
    BY <1>3, <1>14 DEF ReportDrop
  <2>3. IF t \in HasDrop THEN drops'[t] = 1 ELSE drops'[t] = drops[t]
    BY <1>3, <1>11, <1>14 DEF ReportDrop
  <2>4. ~(~stopping' /\ open')
    BY <1>3, <1>4, <1>11, <1>14, Refusal
  <2>5. SoloOne(t)' /\ ArmedOne(t)'
    <3>1. drops'[t] = drops[t] \/ (drops'[t] = 1 /\ runs[t] = 0)
      BY <1>11, <2>3
    <3>2. t \in HasDrop => drops'[t] # 0
      BY <2>3
    <3>3. t \in gone' => ~active[t]
      BY <1>3, <1>4, <1>7 DEF SoloOne
    <3>4. /\ Queued(t)' = {} /\ Draining(t)' = {} /\ Popped(t)' = {}
          /\ Handed(t)' = {} /\ Taken(t)' = {}
      BY <1>3, <1>8, <1>9, <1>10, <2>1
    <3>5. handle'[t] = "live" /\ active'[t] = active[t] /\ runs'[t] = runs[t]
      BY <1>4, <1>11
    <3> QED BY <1>3, <1>7, <1>11, <2>4, <3>1, <3>2, <3>3, <3>4, <3>5, RemoveOne
  <2> QED BY <1>12, <2>1, <2>2, <2>5, AlikeSame DEF OneComing, SoloInv, ArmedInv
<1> QED BY <1>1, <1>2, <1>13, <1>14 DEF HandOver

LEMMA StopDropSolo ==
    ASSUME TypeOK, StopInv, SoloInv, ArmedInv, StopDrop
    PROVE  OneComing'
<1>1. PICK e \in dropping :
         /\ dropping' = dropping \ {e}
         /\ \/ e.timer \in HasDrop /\ Accepts /\ Submit(DropJob(e)) /\ UNCHANGED drops
            \/ ~(e.timer \in HasDrop /\ Accepts) /\ ReportDrop(e.timer) /\ UNCHANGED ready
  BY DEF StopDrop
<1>2. PICK t : t = e.timer
  OBVIOUS
<1>3. /\ e \in Entries /\ t \in Timers
      /\ ready \in Seq(Jobs) /\ DropJob(e) \in Jobs /\ DropJob(e).timer = t
      /\ drops \in [Timers -> Nat]
  BY <1>2, JobTypes DEF TypeOK, DropJob
<1>4. UNCHANGED <<queue, due, wpc, job, runs, gone, active, handle, stopping, open>> /\ stopping
  BY DEF StopDrop, StopInv, wvars, tvars, xvars
<1>6. \A s \in Timers : Draining(s)' = Draining(s) \ {e}
  BY <1>1 DEF Draining
<1>7. \A s \in Timers : SoloOne(s) /\ ArmedOne(s)
  BY DEF SoloInv, ArmedInv
<1>8. \A s \in Timers : /\ Queued(s)' = Queued(s) /\ Popped(s)' = Popped(s)
                        /\ Taken(s)' = Taken(s) /\ (AtTask(s) => AtTask(s)')
  BY <1>4, PlacesKept
<1>9. /\ Draining(t) = {e} /\ Queued(t) = {} /\ Popped(t) = {} /\ Handed(t) = {} /\ Taken(t) = {}
  <2>1. e \in Draining(t)
    BY <1>2 DEF Draining
  <2> QED BY <2>1, <1>3, <1>7, SoloElim DEF SoloOne
<1>10. Armed(t) /\ ~AtTask(t) /\ Draining(t)' = {}
  BY <1>3, <1>6, <1>9 DEF Armed, AtTask
<1>11. /\ handle[t] = "live"
       /\ t \in HasDrop => drops[t] = 0 /\ runs[t] = 0
  BY <1>3, <1>7, <1>10, NotYetRun
<1>12. ASSUME NEW s \in Timers, s # t, Alike(Handed(s), Handed(s)'), drops'[s] = drops[s]
       PROVE  SoloOne(s)' /\ ArmedOne(s)'
  <2>1. Draining(s)' = Draining(s)
    BY <1>2, <1>6, <1>12 DEF Draining
  <2>2. /\ Alike(Queued(s), Queued(s)') /\ Alike(Draining(s), Draining(s)')
        /\ Alike(Popped(s), Popped(s)') /\ Alike(Taken(s), Taken(s)')
    BY <1>8, <2>1, AlikeSame
  <2> QED BY <1>4, <1>7, <1>8, <1>12, <2>2, SameOne
<1>13. CASE t \in HasDrop /\ Accepts /\ Submit(DropJob(e)) /\ UNCHANGED drops
  <2>1. ready' = Append(ready, DropJob(e))
    BY <1>13 DEF Submit
  <2>2. \A s \in Timers : s # t => Handed(s)' = Handed(s)
    BY <1>3, <2>1, HandedAppend
  <2>3. Handed(t)' = {Len(ready) + 1}
    BY <1>3, <1>9, <2>1, HandedAppend
  <2>4. Solo(Queued(t), Draining(t), Popped(t), Handed(t), Taken(t))' /\ Armed(t)'
    BY <1>3, <1>8, <1>9, <1>10, <2>3 DEF Solo, Sole, Armed
  <2>5. SoloOne(t)' /\ ArmedOne(t)'
    BY <1>3, <1>4, <1>7, <1>8, <1>9, <1>10, <1>13, <2>4, MoveOne
  <2> QED BY <1>12, <1>13, <2>2, <2>5, AlikeSame DEF OneComing, SoloInv, ArmedInv
<1>14. CASE ~(t \in HasDrop /\ Accepts) /\ ReportDrop(t) /\ UNCHANGED ready
  <2>1. \A s \in Timers : Handed(s)' = Handed(s)
    BY <1>14, PlacesKept
  <2>2. \A s \in Timers : s # t => drops'[s] = drops[s]
    BY <1>3, <1>14 DEF ReportDrop
  <2>3. IF t \in HasDrop THEN drops'[t] = 1 ELSE drops'[t] = drops[t]
    BY <1>3, <1>11, <1>14 DEF ReportDrop
  <2>5. SoloOne(t)' /\ ArmedOne(t)'
    <3>1. drops'[t] = drops[t] \/ (drops'[t] = 1 /\ runs[t] = 0)
      BY <1>11, <2>3
    <3>2. (t \in HasDrop => drops'[t] # 0) /\ stopping'
      BY <1>4, <2>3
    <3>3. t \in gone' => ~active[t]
      BY <1>3, <1>4, <1>7 DEF SoloOne
    <3>4. /\ Queued(t)' = {} /\ Draining(t)' = {} /\ Popped(t)' = {}
          /\ Handed(t)' = {} /\ Taken(t)' = {}
      BY <1>3, <1>8, <1>9, <1>10, <2>1
    <3>5. handle'[t] = "live" /\ active'[t] = active[t] /\ runs'[t] = runs[t]
      BY <1>4, <1>11
    <3> QED BY <1>3, <1>7, <1>11, <3>1, <3>2, <3>3, <3>4, <3>5, RemoveOne
  <2> QED BY <1>12, <2>1, <2>2, <2>5, AlikeSame DEF OneComing, SoloInv, ArmedInv
<1> QED BY <1>1, <1>2, <1>13, <1>14

LEMMA PostSubmitSolo ==
    ASSUME TypeOK, SoloInv, ArmedInv, NEW u \in Threads, PostSubmit(u)
    PROVE  OneComing'
<1> SUFFICES ASSUME NEW s \in Timers
             PROVE  SoloOne(s)' /\ ArmedOne(s)'
  BY DEF OneComing, SoloInv, ArmedInv
<1>1. UNCHANGED <<queue, dropping, due, wpc, job, runs, drops, gone, active, handle, stopping, open>>
  BY DEF PostSubmit, svars, wvars, hvars, tvars, xvars
<1>2. Handed(s)' = Handed(s)
  <2>1. PostJob \in Jobs /\ PostJob.timer # s /\ ready \in Seq(Jobs)
    BY JobTypes, SchedulerAssumption DEF PostJob, TypeOK
  <2>2. CASE ready' = Append(ready, PostJob)
    BY <2>1, <2>2, HandedAppend
  <2>3. CASE UNCHANGED ready
    BY <2>3, PlacesKept
  <2> QED BY <2>2, <2>3 DEF PostSubmit, Submit
<1>3. /\ Alike(Queued(s), Queued(s)') /\ Alike(Draining(s), Draining(s)')
      /\ Alike(Popped(s), Popped(s)') /\ Alike(Handed(s), Handed(s)')
      /\ Alike(Taken(s), Taken(s)') /\ (AtTask(s) => AtTask(s)')
  BY <1>1, <1>2, PlacesKept, AlikeSame
<1>4. SoloOne(s) /\ ArmedOne(s)
  BY DEF SoloInv, ArmedInv
<1> QED BY <1>1, <1>3, <1>4, SameOne

\* A step of worker w that only moves it, by which the run it carries counts
\* as coming just as before.
LEMMA WorkerKept ==
    ASSUME TypeOK, SoloInv, ArmedInv, NEW w \in Workers, NEW l, NEW j,
           wpc' = [wpc EXCEPT ![w] = l], job' = [job EXCEPT ![w] = j],
           UNCHANGED <<queue, dropping, due, ready, drops, gone, handle, stopping, open>>,
           NEW s \in Timers, runs'[s] = runs[s], active'[s] = active[s],
           job[w].timer = s /\ wpc[w] \in Counted(s) <=> j.timer = s /\ l \in Counted(s),
           Kind[s] = "oneshot" /\ job[w].timer = s => wpc[w] # "task"
    PROVE  SoloOne(s)' /\ ArmedOne(s)'
<1>1. Taken(s)' = Taken(s)
  BY TakenStep
<1>2. Kind[s] = "oneshot" /\ AtTask(s) => AtTask(s)'
  <2> SUFFICES ASSUME Kind[s] = "oneshot", NEW v \in Taken(s), wpc[v] = "task"
               PROVE  AtTask(s)'
    BY DEF AtTask
  <2>1. v \in Workers /\ v # w
    BY DEF Taken
  <2>2. wpc'[v] = "task"
    BY <2>1, TakenStep
  <2> QED BY <1>1, <2>2 DEF AtTask
<1>3. /\ Alike(Queued(s), Queued(s)') /\ Alike(Draining(s), Draining(s)')
      /\ Alike(Popped(s), Popped(s)') /\ Alike(Handed(s), Handed(s)')
      /\ Alike(Taken(s), Taken(s)')
  BY <1>1, PlacesKept, AlikeSame
<1>4. SoloOne(s) /\ ArmedOne(s)
  BY DEF SoloInv, ArmedInv
<1> QED BY <1>2, <1>3, <1>4, SameOne

\* What a timer whose run a worker carries has coming: that run.
LEMMA Carried ==
    ASSUME TypeOK, SoloInv, NEW w \in Workers, NEW t \in Timers, job[w].timer = t,
           wpc[w] \in Counted(t)
    PROVE  /\ Taken(t) = {w}
           /\ Queued(t) = {} /\ Draining(t) = {} /\ Popped(t) = {} /\ Handed(t) = {}
           /\ Armed(t) /\ handle[t] = "live"
           /\ wpc[w] # "task" => ~AtTask(t)
<1>1. w \in Taken(t)
  BY DEF Taken
<1>2. SoloOne(t)
  BY DEF SoloInv
<1>3. /\ Taken(t) = {w}
      /\ Queued(t) = {} /\ Draining(t) = {} /\ Popped(t) = {} /\ Handed(t) = {}
  BY <1>1, <1>2, SoloElim DEF SoloOne
<1>4. Armed(t)
  BY <1>3 DEF Armed
<1> QED BY <1>2, <1>3, <1>4 DEF SoloOne, AtTask

\* A worker's step by which the run it carries comes to nothing more.
LEMMA WorkerRemoves ==
    ASSUME TypeOK, SoloInv, NEW w \in Workers, NEW l, NEW j,
           NEW t \in Timers, job[w].timer = t, wpc[w] \in Counted(t),
           wpc' = [wpc EXCEPT ![w] = l], job' = [job EXCEPT ![w] = j],
           ~(j.timer = t /\ l \in Counted(t)),
           UNCHANGED <<queue, dropping, due, ready, gone, handle, stopping, open>>,
           runs'[t] = runs[t], active'[t] = active[t],
           drops'[t] = drops[t] \/ (drops'[t] = 1 /\ runs[t] = 0),
           ~active[t] \/ (stopping /\ (t \in HasDrop => drops'[t] # 0))
    PROVE  SoloOne(t)' /\ ArmedOne(t)'
<1>1. SoloOne(t)
  BY DEF SoloInv
<1>2. /\ Taken(t) = {w} /\ handle[t] = "live"
      /\ Queued(t) = {} /\ Draining(t) = {} /\ Popped(t) = {} /\ Handed(t) = {}
  BY Carried
<1>3. Taken(t)' = {}
  <2>1. /\ wpc'[w] = l /\ job'[w] = j
        /\ \A v \in Workers : v # w => wpc'[v] = wpc[v] /\ job'[v] = job[v]
    BY DEF TypeOK
  <2>2. Counted(t)' = Counted(t)
    BY DEF Counted
  <2>3. ASSUME NEW v \in Taken(t)' PROVE FALSE
    <3>1. v \in Workers /\ job'[v].timer = t /\ wpc'[v] \in Counted(t)
      BY <2>2 DEF Taken
    <3>2. v # w => v \in Taken(t)
      BY <2>1, <3>1 DEF Taken
    <3> QED BY <1>2, <2>1, <3>1, <3>2
  <2> QED BY <2>3
<1>4. /\ Queued(t)' = {} /\ Draining(t)' = {} /\ Popped(t)' = {} /\ Handed(t)' = {}
  BY <1>2, PlacesKept
<1>5. t \in gone' => ~active[t]
  BY <1>1 DEF SoloOne
<1> QED BY <1>1, <1>2, <1>3, <1>4, <1>5, RemoveOne

LEMMA TakeSolo ==
    ASSUME TypeOK, SoloInv, ArmedInv, NEW w \in Workers, Take(w)
    PROVE  OneComing'
<1> SUFFICES ASSUME NEW s \in Timers
             PROVE  SoloOne(s)' /\ ArmedOne(s)'
  BY DEF OneComing, SoloInv, ArmedInv
<1>1. PICK j : j = Head(ready)
  OBVIOUS
<1>2. PICK l : l = FirstStep(j)
  OBVIOUS
<1>3. /\ wpc[w] = "idle" /\ ready # <<>> /\ ready' = Tail(ready) /\ ready \in Seq(Jobs)
      /\ wpc' = [wpc EXCEPT ![w] = l] /\ job' = [job EXCEPT ![w] = j]
  BY <1>1, <1>2 DEF Take, TypeOK, At
<1>4. UNCHANGED <<queue, dropping, due, runs, drops, gone, active, handle, stopping, open>>
  BY DEF Take, svars, hvars, tvars, xvars
<1>5. SoloOne(s) /\ ArmedOne(s)
  BY DEF SoloInv, ArmedInv
<1>6. /\ Queued(s)' = Queued(s) /\ Draining(s)' = Draining(s) /\ Popped(s)' = Popped(s)
  BY <1>4, PlacesKept
<1>7. l \in Counted(s) /\ wpc[w] \notin Counted(s) /\ l # "task"
  BY <1>2, <1>3 DEF FirstStep, Counted
<1>8. w \notin Taken(s) /\ (w \in Taken(s)' <=> j.timer = s)
  BY <1>3, <1>7, TakenStep
<1>9. Taken(s)' \ {w} = Taken(s) \ {w} /\ \A v \in Workers : v # w => wpc'[v] = wpc[v]
  BY <1>3, TakenStep
<1>10. CASE j.timer = s
  <2>1. 1 \in Handed(s) /\ (Sole(Handed(s)) => Handed(s)' = {})
    BY <1>1, <1>3, <1>10, HandedTail
  <2>2. /\ Queued(s) = {} /\ Draining(s) = {} /\ Popped(s) = {} /\ Taken(s) = {}
    BY <1>5, <2>1, SoloElim DEF SoloOne
  <2>3. Handed(s)' = {}
    BY <1>5, <2>1 DEF SoloOne, Solo
  <2>4. Taken(s)' = {w}
    BY <1>8, <1>9, <1>10, <2>2
  <2>5. Solo(Queued(s), Draining(s), Popped(s), Handed(s), Taken(s))' /\ Armed(s)'
    BY <1>6, <2>2, <2>3, <2>4 DEF Solo, Sole, Armed
  <2>6. Armed(s) /\ ~AtTask(s)
    BY <2>1, <2>2 DEF Armed, AtTask
  <2> QED BY <1>4, <1>5, <1>6, <2>2, <2>5, <2>6, MoveOne
<1>11. CASE j.timer # s
  <2>1. Alike(Handed(s), Handed(s)')
    BY <1>1, <1>3, <1>11, HandedTail
  <2>2. Taken(s)' = Taken(s)
    BY <1>8, <1>9, <1>11
  <2>3. AtTask(s) => AtTask(s)'
    BY <1>8, <1>9, <2>2 DEF AtTask, Taken
  <2> QED BY <1>4, <1>5, <1>6, <2>1, <2>2, <2>3, AlikeSame, SameOne
<1> QED BY <1>10, <1>11

LEMMA ClaimSolo ==
    ASSUME TypeOK, SoloInv, ArmedInv, NEW w \in Workers, Claim(w)
    PROVE  OneComing'
<1>1. PICK t : t = job[w].timer
  OBVIOUS
<1>2. /\ t \in Timers /\ wpc[w] = "entered" /\ job \in [Workers -> Jobs] /\ wpc[w] \in Counted(t)
      /\ active \in [Timers -> BOOLEAN] /\ runs \in [Timers -> Nat] /\ drops \in [Timers -> Nat]
      /\ Kind[t] \in {"oneshot", "rate", "delay"} /\ (t \in HasDrop => Kind[t] = "oneshot")
  BY <1>1, RunningJob, SchedulerAssumption DEF Claim, TypeOK, Counted
<1>3. UNCHANGED <<queue, dropping, due, ready, drops, gone, handle, stopping, open>>
  BY DEF Claim, svars, xvars
<1>4. PICK l : l = CASE ~active[t] -> "leaving"
                     [] active[t] /\ Kind[t] = "rate" -> "started"
                     [] active[t] /\ Kind[t] # "rate" -> "task"
  OBVIOUS
<1>5. wpc' = [wpc EXCEPT ![w] = l]
  BY <1>1, <1>2, <1>4 DEF Claim, At, RearmsBefore
<1>6. job' = job /\ job' = [job EXCEPT ![w] = job[w]]
  BY <1>2 DEF Claim
<1>7. /\ ~active[t] => active' = active /\ runs' = runs
      /\ active[t] /\ Kind[t] = "oneshot" =>
            active' = [active EXCEPT ![t] = FALSE] /\ runs' = [runs EXCEPT ![t] = @ + 1]
      /\ active[t] /\ Kind[t] # "oneshot" =>
            active' = active /\ runs' = [runs EXCEPT ![t] = 1]
  BY <1>1, <1>2 DEF Claim, Exchange
<1>8. ASSUME NEW s \in Timers, s # t
      PROVE  SoloOne(s)' /\ ArmedOne(s)'
  <2>1. runs'[s] = runs[s] /\ active'[s] = active[s]
    BY <1>2, <1>7, <1>8
  <2>2. job[w].timer # s
    BY <1>1, <1>8
  <2> QED BY <1>3, <1>5, <1>6, <2>1, <2>2, WorkerKept
<1>9. SoloOne(t)' /\ ArmedOne(t)'
  <2>1. /\ Taken(t) = {w} /\ Armed(t) /\ handle[t] = "live" /\ ~AtTask(t)
        /\ Queued(t) = {} /\ Draining(t) = {} /\ Popped(t) = {} /\ Handed(t) = {}
    BY <1>1, <1>2, Carried
  <2>2. SoloOne(t)
    BY <1>2 DEF SoloInv
  <2>3. CASE ~active[t]
    <3>1. l \notin Counted(t)
      BY <1>4, <2>3 DEF Counted
    <3>2. drops'[t] = drops[t] /\ runs'[t] = runs[t] /\ active'[t] = active[t]
      BY <1>3, <1>7, <2>3
    <3> QED BY <1>1, <1>2, <1>3, <1>5, <1>6, <2>3, <3>1, <3>2, WorkerRemoves
  <2>4. CASE active[t]
    <3>1. l \in Counted(t) /\ (Kind[t] = "oneshot" => l = "task")
      BY <1>4, <2>4 DEF Counted
    <3>2. Taken(t)' = {w} /\ wpc'[w] = l
      <4>1. Taken(t)' = Taken(t)
        <5>1. job[w].timer = t /\ wpc[w] \in Counted(t) <=> job[w].timer = t /\ l \in Counted(t)
          BY <1>2, <3>1
        <5> QED BY <1>5, <1>6, <5>1, TakenKept
      <4>2. wpc'[w] = l
        BY <1>5 DEF TypeOK
      <4> QED BY <2>1, <4>1, <4>2
    <3>3. Queued(t)' = {} /\ Draining(t)' = {} /\ Popped(t)' = {} /\ Handed(t)' = {}
      BY <1>3, <2>1, PlacesKept
    <3>4. Solo(Queued(t), Draining(t), Popped(t), Handed(t), Taken(t))' /\ Armed(t)'
      BY <3>2, <3>3 DEF Solo, Sole, Armed
    <3>5. Kind[t] = "oneshot" => runs[t] = 0
      <4>1. runs[t] \in Nat /\ runs[t] <= 1
        BY <1>2, <2>2 DEF SoloOne
      <4>2. Kind[t] = "oneshot" => runs[t] # 1
        BY <2>2, <2>4 DEF SoloOne
      <4> QED BY <4>1, <4>2
    <3>6. runs'[t] = 1 /\ (Kind[t] = "oneshot" => ~active'[t])
      BY <1>2, <1>7, <2>4, <3>5
    <3>7. t \in HasDrop => drops'[t] <= 1 /\ drops'[t] # 1
      BY <1>3, <2>1, <2>2 DEF SoloOne
    <3>8. handle'[t] = "live" /\ t \notin gone'
      BY <1>3, <2>1, <2>2, <2>4 DEF SoloOne
    <3>9. SoloOne(t)'
      BY <3>1, <3>2, <3>4, <3>6, <3>7, <3>8 DEF SoloOne
    <3> QED BY <3>4, <3>9 DEF ArmedOne
  <2> QED BY <2>3, <2>4
<1> QED BY <1>8, <1>9 DEF OneComing, SoloInv, ArmedInv

\* The two re-arms, of a run at `from` that goes on to `l`.
LEMMA RearmSolo ==
    ASSUME TypeOK, SoloInv, ArmedInv, NEW w \in Workers, NEW t \in Timers, NEW at, NEW l,
           job[w].timer = t, wpc[w] \in Counted(t), wpc[w] # "task", l \notin Counted(t),
           t \notin HasDrop, Rearm(t, at), wpc' = [wpc EXCEPT ![w] = l],
           UNCHANGED <<dropping, due, ready, job, runs, drops, gone, active, handle,
                       stopping, open>>
    PROVE  OneComing'
<1>1. job' = [job EXCEPT ![w] = job[w]]
  BY DEF TypeOK
<1>2. /\ Taken(t) = {w} /\ Armed(t) /\ ~AtTask(t)
      /\ Queued(t) = {} /\ Draining(t) = {} /\ Popped(t) = {} /\ Handed(t) = {}
  BY Carried
<1>3. \A s \in Timers : SoloOne(s) /\ ArmedOne(s)
  BY DEF SoloInv, ArmedInv
<1>4. CASE stopping \/ ~active[t]
  <2>1. UNCHANGED queue
    BY <1>4 DEF Rearm
  <2>2. SoloOne(t)' /\ ArmedOne(t)'
    BY <1>1, <1>4, <2>1, WorkerRemoves
  <2>3. ASSUME NEW s \in Timers, s # t PROVE SoloOne(s)' /\ ArmedOne(s)'
    BY <1>1, <2>1, <2>3, WorkerKept
  <2> QED BY <2>2, <2>3 DEF OneComing, SoloInv, ArmedInv
<1>5. CASE ~stopping /\ active[t]
  <2>1. PICK n : n.timer = t /\ queue' = queue \cup {n}
    BY <1>5 DEF Rearm, Add
  <2>2. SoloOne(t)' /\ ArmedOne(t)'
    <3>1. Taken(t)' = {}
      <4>1. Taken(t)' = Taken(t) \ {w}
        BY <1>1, TakenLeft
      <4> QED BY <1>2, <4>1
    <3>2. Queued(t)' = {n}
      BY <1>2, <2>1 DEF Queued
    <3>3. Draining(t)' = {} /\ Popped(t)' = {} /\ Handed(t)' = {}
      BY <1>2, PlacesKept
    <3>4. Solo(Queued(t), Draining(t), Popped(t), Handed(t), Taken(t))' /\ Armed(t)'
      BY <3>1, <3>2, <3>3 DEF Solo, Sole, Armed
    <3>5. t \notin gone
      BY <1>3, <1>5 DEF SoloOne
    <3> QED BY <1>2, <1>3, <3>4, <3>5, MoveOne
  <2>3. ASSUME NEW s \in Timers, s # t PROVE SoloOne(s)' /\ ArmedOne(s)'
    <3>1. Queued(s)' = Queued(s)
      BY <2>1, <2>3 DEF Queued
    <3>2. w \notin Taken(s) /\ Taken(s)' = Taken(s) /\ \A v \in Workers : v # w => wpc'[v] = wpc[v]
      <4>1. job[w].timer # s
        BY <2>3
      <4>2. w \notin Taken(s)
        BY <4>1 DEF Taken
      <4>3. Taken(s)' = Taken(s)
        BY <1>1, <4>1, TakenKept
      <4> QED BY <1>1, <4>2, <4>3 DEF TypeOK
    <3>3. AtTask(s) => AtTask(s)'
      BY <3>2 DEF AtTask, Taken
    <3>4. /\ Alike(Queued(s), Queued(s)') /\ Alike(Draining(s), Draining(s)')
          /\ Alike(Popped(s), Popped(s)') /\ Alike(Handed(s), Handed(s)')
          /\ Alike(Taken(s), Taken(s)')
      BY <3>1, <3>2, PlacesKept, AlikeSame
    <3> QED BY <1>3, <3>3, <3>4, SameOne
  <2> QED BY <2>2, <2>3 DEF OneComing, SoloInv, ArmedInv
<1> QED BY <1>4, <1>5

LEMMA RearmingSolo ==
    ASSUME TypeOK, RunInv, SoloInv, ArmedInv, NEW w \in Workers, RearmRate(w) \/ RearmDelay(w)
    PROVE  OneComing'
<1>1. PICK t : t = job[w].timer
  OBVIOUS
<1>2. PICK l : l = IF wpc[w] = "started" THEN "task" ELSE "leaving"
  OBVIOUS
<1>3. wpc[w] \in {"started", "rearm"} /\ t \in Timers
  BY <1>1, RunningJob DEF RearmRate, RearmDelay
<1>4. /\ Kind[t] = IF wpc[w] = "started" THEN "rate" ELSE "delay"
  BY <1>1, <1>3 DEF RunInv
<1>5. /\ wpc[w] \in Counted(t) /\ wpc[w] # "task" /\ l \notin Counted(t) /\ t \notin HasDrop
  BY <1>2, <1>3, <1>4, SchedulerAssumption DEF Counted
<1>6. PICK at : Rearm(t, at)
  BY <1>1 DEF RearmRate, RearmDelay
<1>7. wpc' = [wpc EXCEPT ![w] = l]
  BY <1>2, <1>3 DEF RearmRate, RearmDelay, At
<1>8. UNCHANGED <<dropping, due, ready, job, runs, drops, gone, active, handle, stopping, open>>
  BY DEF RearmRate, RearmDelay, svars, xvars, hvars
<1> QED BY <1>1, <1>3, <1>5, <1>6, <1>7, <1>8, RearmSolo

LEMMA MovedSolo ==
    ASSUME TypeOK, SoloInv, ArmedInv, NEW w \in Workers, Enter(w) \/ Leave(w)
    PROVE  OneComing'
<1> SUFFICES ASSUME NEW s \in Timers
             PROVE  SoloOne(s)' /\ ArmedOne(s)'
  BY DEF OneComing, SoloInv, ArmedInv
<1>1. UNCHANGED <<queue, dropping, due, ready, runs, drops, gone, active, handle, stopping, open>>
  BY DEF Enter, Leave, svars, xvars, hvars
<1>2. CASE Enter(w)
  <2>1. /\ wpc[w] = "picked" /\ wpc' = [wpc EXCEPT ![w] = "entered"]
        /\ job' = [job EXCEPT ![w] = job[w]]
    BY <1>2 DEF Enter, At, TypeOK
  <2>2. wpc[w] \in Counted(s) /\ "entered" \in Counted(s)
    BY <2>1 DEF Counted
  <2> QED BY <1>1, <2>1, <2>2, WorkerKept
<1>3. CASE Leave(w)
  <2>1. /\ wpc[w] = "leaving" /\ wpc' = [wpc EXCEPT ![w] = "idle"]
        /\ job' = [job EXCEPT ![w] = NoJob]
    BY <1>3 DEF Leave, At
  <2>2. wpc[w] \notin Counted(s) /\ "idle" \notin Counted(s)
    BY <2>1 DEF Counted
  <2> QED BY <1>1, <2>1, <2>2, WorkerKept
<1> QED BY <1>2, <1>3

LEMMA TaskDoneSolo ==
    ASSUME TypeOK, RunInv, SoloInv, ArmedInv, NEW w \in Workers, TaskDone(w)
    PROVE  OneComing'
<1>1. PICK t : t = job[w].timer
  OBVIOUS
<1>2. t \in Timers /\ wpc[w] = "task" /\ Kind[t] \in {"oneshot", "rate", "delay"}
  BY <1>1, RunningJob, SchedulerAssumption DEF TaskDone
<1>3. PICK l : l = IF Kind[t] = "delay" THEN "rearm" ELSE "leaving"
  OBVIOUS
<1>4. wpc' = [wpc EXCEPT ![w] = l] /\ job' = [job EXCEPT ![w] = job[w]]
  BY <1>1, <1>3 DEF TaskDone, At, RearmsAfter, TypeOK
<1>5. UNCHANGED <<queue, dropping, due, ready, runs, drops, gone, active, handle, stopping, open>>
  BY DEF TaskDone, svars, xvars, hvars, tvars
<1>6. ASSUME NEW s \in Timers, s # t PROVE SoloOne(s)' /\ ArmedOne(s)'
  BY <1>1, <1>4, <1>5, <1>6, WorkerKept
<1>7. SoloOne(t)' /\ ArmedOne(t)'
  <2>1. CASE Kind[t] = "oneshot"
    <3>1. ~active[t] /\ wpc[w] \in Counted(t) /\ l \notin Counted(t)
      BY <1>1, <1>2, <1>3, <2>1 DEF RunInv, Counted
    <3> QED BY <1>1, <1>2, <1>4, <1>5, <3>1, WorkerRemoves
  <2>2. CASE Kind[t] # "oneshot"
    <3>1. wpc[w] \in Counted(t) <=> l \in Counted(t)
      BY <1>2, <1>3, <2>2 DEF Counted
    <3> QED BY <1>1, <1>2, <1>4, <1>5, <2>2, <3>1, WorkerKept
  <2> QED BY <2>1, <2>2
<1> QED BY <1>6, <1>7 DEF OneComing, SoloInv, ArmedInv

LEMMA OtherDoneSolo ==
    ASSUME TypeOK, RunInv, SoloInv, ArmedInv, NEW w \in Workers, OtherDone(w)
    PROVE  OneComing'
<1>1. PICK t : t = job[w].timer
  OBVIOUS
<1>2. /\ wpc[w] = "other" /\ wpc' = [wpc EXCEPT ![w] = "idle"]
      /\ job' = [job EXCEPT ![w] = NoJob]
  BY DEF OtherDone, At
<1>3. UNCHANGED <<queue, dropping, due, ready, runs, gone, active, handle, stopping, open>>
  BY DEF OtherDone, svars, xvars, hvars, tvars
<1>4. job[w] \in Jobs /\ job[w].op # "run" /\ drops \in [Timers -> Nat]
  BY <1>2 DEF TypeOK
<1>5. \A s : "other" \in Counted(s) /\ "idle" \notin Counted(s)
  BY DEF Counted
<1>6. CASE job[w].op = "drop"
  <2>1. t \in HasDrop /\ stopping /\ t \in Timers
    BY <1>1, <1>2, <1>6, SchedulerAssumption DEF RunInv
  <2>2. drops' = [drops EXCEPT ![t] = @ + 1]
    BY <1>1, <1>6, <2>1 DEF OtherDone, ReportDrop
  <2>3. Armed(t) /\ ~AtTask(t)
    BY <1>1, <1>2, <1>5, <2>1, Carried
  <2>4. drops[t] = 0 /\ runs[t] = 0
    BY <2>1, <2>3, NotYetRun DEF SoloInv
  <2>5. drops'[t] = 1
    BY <1>4, <2>1, <2>2, <2>4
  <2>6. SoloOne(t)' /\ ArmedOne(t)'
    <3>1. job[w].timer = t /\ wpc[w] \in Counted(t) /\ ~(NoJob.timer = t /\ "idle" \in Counted(t))
      BY <1>1, <1>2, <1>5
    <3>2. /\ drops'[t] = drops[t] \/ (drops'[t] = 1 /\ runs[t] = 0)
          /\ t \in HasDrop => drops'[t] # 0
      BY <2>4, <2>5
    <3> QED BY <1>2, <1>3, <2>1, <3>1, <3>2, WorkerRemoves
  <2>7. ASSUME NEW s \in Timers, s # t PROVE SoloOne(s)' /\ ArmedOne(s)'
    <3>1. drops'[s] = drops[s]
      BY <1>4, <2>2, <2>7
    <3>2. w \notin Taken(s) /\ Taken(s)' = Taken(s) /\ \A v \in Workers : v # w => wpc'[v] = wpc[v]
      BY <1>1, <1>2, <1>5, <2>7, TakenStep
    <3>3. AtTask(s) => AtTask(s)'
      BY <3>2 DEF AtTask, Taken
    <3>4. /\ Alike(Queued(s), Queued(s)') /\ Alike(Draining(s), Draining(s)')
          /\ Alike(Popped(s), Popped(s)') /\ Alike(Handed(s), Handed(s)')
          /\ Alike(Taken(s), Taken(s)')
      BY <1>3, <3>2, PlacesKept, AlikeSame
    <3>5. SoloOne(s) /\ ArmedOne(s)
      BY DEF SoloInv, ArmedInv
    <3> QED BY <1>3, <3>1, <3>3, <3>4, <3>5, SameOne
  <2> QED BY <2>6, <2>7 DEF OneComing, SoloInv, ArmedInv
<1>7. CASE job[w].op # "drop"
  <2>1. t \notin Timers
    BY <1>1, <1>4, <1>7, SchedulerAssumption DEF Jobs
  <2>2. UNCHANGED drops
    BY <1>7 DEF OtherDone
  <2>3. ASSUME NEW s \in Timers PROVE SoloOne(s)' /\ ArmedOne(s)'
    BY <1>1, <1>2, <1>3, <1>5, <2>1, <2>2, WorkerKept
  <2> QED BY <2>3 DEF OneComing, SoloInv, ArmedInv
<1> QED BY <1>6, <1>7

-----------------------------------------------------------------------------
(* The id a timer's entry has.                                             *)

LEMMA EntryAdd ==
    ASSUME TypeOK, QueueInv, EntryInv, NEW t \in Timers, NEW at, Add(t, at), Queued(t) = {},
           \A s \in Timers : s # t => (handle'[s] = "live" <=> handle[s] = "live")
    PROVE  EntryInv'
<1>1. /\ nextId \in Nat /\ nextId >= 1 /\ entry \in [Timers -> Nat]
      /\ \A e \in queue : e.timer \in Timers /\ e.timer # t
  BY DEF TypeOK, QueueInv, Entries, Queued
<1>2. PICK n : n.timer = t /\ n.id = nextId /\ queue' = queue \cup {n}
  BY DEF Add
<1>3. entry'[t] = nextId /\ nextId' = nextId + 1 /\ \A s \in Timers : s # t => entry'[s] = entry[s]
  BY <1>1 DEF Add
<1>4. \A s \in Timers : s # t /\ handle'[s] = "live" =>
          1 <= entry'[s] /\ entry'[s] < nextId /\ entry'[s] < nextId' /\ entry'[s] \in Nat
  BY <1>1, <1>3 DEF EntryInv
<1>5. \A e \in queue' : e.id = entry'[e.timer]
  BY <1>1, <1>2, <1>3 DEF EntryInv
<1>6. \A s \in Timers : handle'[s] = "live" => 1 <= entry'[s] /\ entry'[s] < nextId'
  BY <1>1, <1>3, <1>4
<1>7. ASSUME NEW r \in Timers, NEW s \in Timers, handle'[r] = "live", handle'[s] = "live",
             entry'[r] = entry'[s], r # s
      PROVE  FALSE
  <2>1. CASE r = t
    BY <1>1, <1>3, <1>4, <1>7, <2>1
  <2>2. CASE s = t
    BY <1>1, <1>3, <1>4, <1>7, <2>2
  <2>3. CASE r # t /\ s # t
    BY <1>3, <1>7, <2>3 DEF EntryInv
  <2> QED BY <2>1, <2>2, <2>3
<1> QED BY <1>5, <1>6, <1>7 DEF EntryInv

LEMMA EntryKept ==
    ASSUME EntryInv, queue' \subseteq queue, UNCHANGED <<entry, nextId>>,
           \A s \in Timers : handle'[s] = "live" <=> handle[s] = "live"
    PROVE  EntryInv'
BY DEF EntryInv

LEMMA EntryStep ==
    ASSUME TypeOK, QueueInv, CallInv, RunInv, EntryInv, SoloInv, [Next]_vars
    PROVE  EntryInv'
<1> USE DEF vars, tvars, uvars, svars, wvars, xvars, hvars
<1>1. CASE Tick
  <2>1. UNCHANGED <<queue, entry, nextId, handle>>
    BY <1>1 DEF Tick
  <2> QED BY <2>1, EntryKept
<1>2. CASE CloseExecutor
  <2>1. UNCHANGED <<queue, entry, nextId, handle>>
    BY <1>2 DEF CloseExecutor
  <2> QED BY <2>1, EntryKept
<1>3. ASSUME NEW u \in Threads, NEW t \in Timers, Schedule(u, t) PROVE EntryInv'
  <2>1. UNCHANGED <<queue, entry, nextId>> /\ \A s \in Timers : handle'[s] = "live" <=> handle[s] = "live"
    BY <1>3 DEF Schedule, TypeOK
  <2> QED BY <2>1, EntryKept
<1>4. ASSUME NEW u \in Threads, NEW t \in Timers, CancelFlag(u, t) PROVE EntryInv'
  <2>1. UNCHANGED <<queue, entry, nextId, handle>>
    BY <1>4 DEF CancelFlag
  <2> QED BY <2>1, EntryKept
<1>5. ASSUME NEW u \in Threads, ScheduleEntry(u) PROVE EntryInv'
  <2>1. PICK t : t = target[u]
    OBVIOUS
  <2>2. t \in Timers /\ handle[t] = "scheduling" /\ Queued(t) = {}
    <3>1. t \in Timers /\ handle[t] = "scheduling"
      BY <1>5, <2>1 DEF ScheduleEntry, TypeOK, CallInv
    <3> QED BY <3>1 DEF SoloInv, SoloOne, Armed
  <2>3. CASE stopping
    <3>1. UNCHANGED <<queue, entry, nextId>> /\ handle' = [handle EXCEPT ![t] = "empty"]
      BY <1>5, <2>1, <2>3 DEF ScheduleEntry
    <3>2. \A s \in Timers : handle'[s] = "live" <=> handle[s] = "live"
      BY <2>2, <3>1 DEF TypeOK
    <3> QED BY <3>1, <3>2, EntryKept
  <2>4. CASE ~stopping
    <3>1. PICK at : Add(t, at)
      BY <1>5, <2>1, <2>4 DEF ScheduleEntry
    <3>2. handle' = [handle EXCEPT ![t] = "live"]
      BY <1>5, <2>1, <2>4 DEF ScheduleEntry
    <3>3. \A s \in Timers : s # t => handle'[s] = handle[s]
      BY <2>2, <3>2 DEF TypeOK
    <3> QED BY <2>2, <3>1, <3>3, EntryAdd
  <2> QED BY <2>3, <2>4
<1>6. ASSUME NEW u \in Threads, CancelEntry(u) PROVE EntryInv'
  <2>1. queue' \subseteq queue /\ UNCHANGED <<entry, nextId, handle>>
    BY <1>6 DEF CancelEntry, CancelId
  <2> QED BY <2>1, EntryKept
<1>7. ASSUME NEW u \in Threads, WaitDone(u) PROVE EntryInv'
  <2>1. UNCHANGED <<queue, entry, nextId, handle>>
    BY <1>7 DEF WaitDone
  <2> QED BY <2>1, EntryKept
<1>8. ASSUME NEW u \in Threads, RunDue(u) PROVE EntryInv'
  <2>1. queue' \subseteq queue /\ UNCHANGED <<entry, nextId, handle>>
    BY <1>8 DEF RunDue
  <2> QED BY <2>1, EntryKept
<1>9. ASSUME NEW u \in Threads, PostCheck(u) PROVE EntryInv'
  <2>1. UNCHANGED <<queue, entry, nextId, handle>>
    BY <1>9 DEF PostCheck
  <2> QED BY <2>1, EntryKept
<1>9a. ASSUME NEW u \in Threads, PostResolve(u) PROVE EntryInv'
  <2>1. UNCHANGED <<queue, entry, nextId, handle>>
    BY <1>9a DEF PostResolve
  <2> QED BY <2>1, EntryKept
<1>10. ASSUME NEW u \in Threads, PostSubmit(u) PROVE EntryInv'
  <2>1. UNCHANGED <<queue, entry, nextId, handle>>
    BY <1>10 DEF PostSubmit
  <2> QED BY <2>1, EntryKept
<1>11. CASE PopDue
  <2>1. queue' \subseteq queue /\ UNCHANGED <<entry, nextId, handle>>
    BY <1>11 DEF PopDue
  <2> QED BY <2>1, EntryKept
<1>12. CASE TimerThreadExit
  <2>1. UNCHANGED <<queue, entry, nextId, handle>>
    BY <1>12 DEF TimerThreadExit
  <2> QED BY <2>1, EntryKept
<1>13. ASSUME NEW d \in Dispatchers, Dispatch(d) PROVE EntryInv'
  <2>1. UNCHANGED <<queue, entry, nextId, handle>>
    BY <1>13 DEF Dispatch
  <2> QED BY <2>1, EntryKept
<1>14. ASSUME NEW d \in Dispatchers, DispatchDone(d) PROVE EntryInv'
  <2>1. UNCHANGED <<queue, entry, nextId, handle>>
    BY <1>14 DEF DispatchDone
  <2> QED BY <2>1, EntryKept
<1>15. ASSUME NEW w \in Workers, Take(w) PROVE EntryInv'
  <2>1. UNCHANGED <<queue, entry, nextId, handle>>
    BY <1>15 DEF Take
  <2> QED BY <2>1, EntryKept
<1>16. ASSUME NEW w \in Workers, Enter(w) PROVE EntryInv'
  <2>1. UNCHANGED <<queue, entry, nextId, handle>>
    BY <1>16 DEF Enter
  <2> QED BY <2>1, EntryKept
<1>17. ASSUME NEW w \in Workers, Claim(w) PROVE EntryInv'
  <2>1. UNCHANGED <<queue, entry, nextId, handle>>
    BY <1>17 DEF Claim
  <2> QED BY <2>1, EntryKept
<1>18. ASSUME NEW w \in Workers, RearmRate(w) PROVE EntryInv'
  <2>1. PICK t : t = job[w].timer
    OBVIOUS
  <2>2. wpc[w] = "started" /\ UNCHANGED handle /\ \E at : Rearm(t, at)
    BY <1>18, <2>1 DEF RearmRate
  <2>3. t \in Timers
    BY <2>1, <2>2, RunningJob
  <2>4. wpc[w] \in Counted(t)
    BY <2>1, <2>2 DEF Counted, RunInv
  <2>5. Queued(t) = {}
    BY <2>1, <2>3, <2>4, Carried
  <2>6. CASE stopping \/ ~active[t]
    <3>1. UNCHANGED <<queue, entry, nextId>>
      BY <2>2, <2>6 DEF Rearm
    <3> QED BY <2>2, <3>1, EntryKept
  <2>7. CASE ~(stopping \/ ~active[t])
    <3>1. PICK at : Add(t, at)
      BY <2>2, <2>7 DEF Rearm
    <3> QED BY <2>2, <2>3, <2>5, <3>1, EntryAdd
  <2> QED BY <2>6, <2>7
<1>19. ASSUME NEW w \in Workers, TaskDone(w) PROVE EntryInv'
  <2>1. UNCHANGED <<queue, entry, nextId, handle>>
    BY <1>19 DEF TaskDone
  <2> QED BY <2>1, EntryKept
<1>20. ASSUME NEW w \in Workers, RearmDelay(w) PROVE EntryInv'
  <2>1. PICK t : t = job[w].timer
    OBVIOUS
  <2>2. wpc[w] = "rearm" /\ UNCHANGED handle /\ \E at : Rearm(t, at)
    BY <1>20, <2>1 DEF RearmDelay
  <2>3. t \in Timers
    BY <2>1, <2>2, RunningJob
  <2>4. wpc[w] \in Counted(t)
    BY <2>1, <2>2 DEF Counted, RunInv
  <2>5. Queued(t) = {}
    BY <2>1, <2>3, <2>4, Carried
  <2>6. CASE stopping \/ ~active[t]
    <3>1. UNCHANGED <<queue, entry, nextId>>
      BY <2>2, <2>6 DEF Rearm
    <3> QED BY <2>2, <3>1, EntryKept
  <2>7. CASE ~(stopping \/ ~active[t])
    <3>1. PICK at : Add(t, at)
      BY <2>2, <2>7 DEF Rearm
    <3> QED BY <2>2, <2>3, <2>5, <3>1, EntryAdd
  <2> QED BY <2>6, <2>7
<1>21. ASSUME NEW w \in Workers, Leave(w) PROVE EntryInv'
  <2>1. UNCHANGED <<queue, entry, nextId, handle>>
    BY <1>21 DEF Leave
  <2> QED BY <2>1, EntryKept
<1>22. ASSUME NEW w \in Workers, OtherDone(w) PROVE EntryInv'
  <2>1. UNCHANGED <<queue, entry, nextId, handle>>
    BY <1>22 DEF OtherDone
  <2> QED BY <2>1, EntryKept
<1>23. ASSUME NEW s \in Threads, Stop(s) PROVE EntryInv'
  <2>1. queue' \subseteq queue /\ UNCHANGED <<entry, nextId, handle>>
    BY <1>23 DEF Stop
  <2> QED BY <2>1, EntryKept
<1>24. CASE StopFlag
  <2>1. UNCHANGED <<queue, entry, nextId, handle>>
    BY <1>24 DEF StopFlag
  <2> QED BY <2>1, EntryKept
<1>25. CASE StopJoin
  <2>1. UNCHANGED <<queue, entry, nextId, handle>>
    BY <1>25 DEF StopJoin
  <2> QED BY <2>1, EntryKept
<1>26. CASE StopDrop
  <2>1. UNCHANGED <<queue, entry, nextId, handle>>
    BY <1>26 DEF StopDrop
  <2> QED BY <2>1, EntryKept
<1>27. CASE StopExecutor
  <2>1. UNCHANGED <<queue, entry, nextId, handle>>
    BY <1>27 DEF StopExecutor
  <2> QED BY <2>1, EntryKept
<1>28. CASE StopShutdown
  <2>1. UNCHANGED <<queue, entry, nextId, handle>>
    BY <1>28 DEF StopShutdown
  <2> QED BY <2>1, EntryKept
<1>29. CASE StopJoinPool
  <2>1. UNCHANGED <<queue, entry, nextId, handle>>
    BY <1>29 DEF StopJoinPool
  <2> QED BY <2>1, EntryKept
<1>30. CASE UNCHANGED vars
  BY <1>30, EntryKept
<1> QED
  BY <1>1, <1>2, <1>3, <1>4, <1>5, <1>6, <1>7, <1>8, <1>9, <1>9a, <1>10, <1>11, <1>12,
     <1>13, <1>14, <1>15, <1>16, <1>17, <1>18, <1>19, <1>20, <1>21, <1>22, <1>23,
     <1>24, <1>25, <1>26, <1>27, <1>28, <1>29, <1>30
     DEF Next, Caller, Work, StopStep

-----------------------------------------------------------------------------
(* One run coming: throughout.                                             *)

LEMMA SoloStep ==
    ASSUME ArmInv, [Next]_vars
    PROVE  OneComing'
<1> USE DEF vars, tvars, uvars, svars, wvars, xvars, hvars
<1>0. /\ TypeOK /\ PlaceInv /\ StopInv /\ QueueInv
      /\ CallInv /\ BatchInv /\ RunInv /\ EntryInv /\ SoloInv /\ ArmedInv
  BY DEF ArmInv
<1>a. /\ handle \in [Timers -> {"new", "scheduling", "live", "empty"}]
      /\ active \in [Timers -> BOOLEAN] /\ stopping \in BOOLEAN /\ open \in BOOLEAN
  BY <1>0 DEF TypeOK
<1>1. CASE Tick
  <2>1. /\ UNCHANGED <<queue, dropping, due, ready, wpc, job, runs, drops, gone, handle, active>>
        /\ stopping => stopping'
        /\ open' => open
    BY <1>1, <1>a DEF Tick
  <2> QED BY <1>0, <2>1, KeptStep
<1>2. CASE CloseExecutor
  <2>1. /\ UNCHANGED <<queue, dropping, due, ready, wpc, job, runs, drops, gone, handle, active>>
        /\ stopping => stopping'
        /\ open' => open
    BY <1>2, <1>a DEF CloseExecutor
  <2> QED BY <1>0, <2>1, KeptStep
<1>3. ASSUME NEW u \in Threads, NEW t \in Timers, Schedule(u, t) PROVE OneComing'
  <2>1. /\ UNCHANGED <<queue, dropping, due, ready, wpc, job, runs, drops, gone, active, stopping, open>>
        /\ \A s \in Timers : handle'[s] = "live" <=> handle[s] = "live"
    BY <1>3, <1>a DEF Schedule
  <2> QED BY <1>0, <2>1, KeptStep
<1>4. ASSUME NEW u \in Threads, NEW t \in Timers, CancelFlag(u, t) PROVE OneComing'
  <2>1. /\ UNCHANGED <<queue, dropping, due, ready, wpc, job, runs, drops, gone, handle, stopping, open>>
        /\ handle[t] = "live" /\ active' = [active EXCEPT ![t] = FALSE]
    BY <1>4 DEF CancelFlag, Exchange
  <2>2. \A s \in Timers : /\ active'[s] => active[s]
                          /\ handle[s] # "live" => active'[s] = active[s]
    BY <1>a, <2>1
  <2> QED BY <1>0, <2>1, <2>2, KeptStep
<1>5. ASSUME NEW u \in Threads, ScheduleEntry(u) PROVE OneComing'
  BY <1>5, <1>0, ScheduleEntrySolo
<1>6. ASSUME NEW u \in Threads, CancelEntry(u) PROVE OneComing'
  BY <1>6, <1>0, CancelEntrySolo
<1>7. ASSUME NEW u \in Threads, WaitDone(u) PROVE OneComing'
  <2>1. /\ UNCHANGED <<queue, dropping, due, ready, wpc, job, runs, drops, gone, handle, active>>
        /\ stopping => stopping'
        /\ open' => open
    BY <1>7, <1>a DEF WaitDone
  <2> QED BY <1>0, <2>1, KeptStep
<1>8. ASSUME NEW u \in Threads, RunDue(u) PROVE OneComing'
  <2>1. u \in Dispatchers /\ due[u] = {}
    BY <1>8, <1>0, SchedulerAssumption DEF RunDue, Call, Free, BatchInv, Dispatchers
  <2>2. /\ due' = [due EXCEPT ![u] = DueNow] /\ queue' = queue \ DueNow
        /\ UNCHANGED <<dropping, ready, wpc, job, runs, drops, gone, active, handle, stopping, open>>
    BY <1>8 DEF RunDue
  <2> QED BY <1>0, <2>1, <2>2, PopSolo
<1>9. ASSUME NEW u \in Threads, PostCheck(u) PROVE OneComing'
  <2>1. /\ UNCHANGED <<queue, dropping, due, ready, wpc, job, runs, drops, gone, handle, active>>
        /\ stopping => stopping'
        /\ open' => open
    BY <1>9, <1>a DEF PostCheck
  <2> QED BY <1>0, <2>1, KeptStep
<1>9a. ASSUME NEW u \in Threads, PostResolve(u) PROVE OneComing'
  <2>1. /\ UNCHANGED <<queue, dropping, due, ready, wpc, job, runs, drops, gone, handle, active>>
        /\ stopping => stopping'
        /\ open' => open
    BY <1>9a, <1>a DEF PostResolve
  <2> QED BY <1>0, <2>1, KeptStep
<1>10. ASSUME NEW u \in Threads, PostSubmit(u) PROVE OneComing'
  BY <1>10, <1>0, PostSubmitSolo
<1>11. CASE PopDue
  <2>1. TimerThread \in Dispatchers /\ due[TimerThread] = {}
    BY <1>11, <1>0, SchedulerAssumption DEF PopDue, BatchInv, Dispatchers
  <2>2. /\ due' = [due EXCEPT ![TimerThread] = DueNow] /\ queue' = queue \ DueNow
        /\ UNCHANGED <<dropping, ready, wpc, job, runs, drops, gone, active, handle, stopping, open>>
    BY <1>11 DEF PopDue
  <2> QED BY <1>0, <2>1, <2>2, PopSolo
<1>12. CASE TimerThreadExit
  <2>1. /\ UNCHANGED <<queue, dropping, due, ready, wpc, job, runs, drops, gone, handle, active>>
        /\ stopping => stopping'
        /\ open' => open
    BY <1>12, <1>a DEF TimerThreadExit
  <2> QED BY <1>0, <2>1, KeptStep
<1>13. ASSUME NEW d \in Dispatchers, Dispatch(d) PROVE OneComing'
  BY <1>13, <1>0, DispatchSolo
<1>14. ASSUME NEW d \in Dispatchers, DispatchDone(d) PROVE OneComing'
  <2>1. /\ UNCHANGED <<queue, dropping, due, ready, wpc, job, runs, drops, gone, handle, active>>
        /\ stopping => stopping'
        /\ open' => open
    BY <1>14, <1>a DEF DispatchDone
  <2> QED BY <1>0, <2>1, KeptStep
<1>15. ASSUME NEW w \in Workers, Take(w) PROVE OneComing'
  BY <1>15, <1>0, TakeSolo
<1>16. ASSUME NEW w \in Workers, Enter(w) PROVE OneComing'
  BY <1>16, <1>0, MovedSolo
<1>17. ASSUME NEW w \in Workers, Claim(w) PROVE OneComing'
  BY <1>17, <1>0, ClaimSolo
<1>18. ASSUME NEW w \in Workers, RearmRate(w) PROVE OneComing'
  BY <1>18, <1>0, RearmingSolo
<1>19. ASSUME NEW w \in Workers, TaskDone(w) PROVE OneComing'
  BY <1>19, <1>0, TaskDoneSolo
<1>20. ASSUME NEW w \in Workers, RearmDelay(w) PROVE OneComing'
  BY <1>20, <1>0, RearmingSolo
<1>21. ASSUME NEW w \in Workers, Leave(w) PROVE OneComing'
  BY <1>21, <1>0, MovedSolo
<1>22. ASSUME NEW w \in Workers, OtherDone(w) PROVE OneComing'
  BY <1>22, <1>0, OtherDoneSolo
<1>23. ASSUME NEW s \in Threads, Stop(s) PROVE OneComing'
  BY <1>23, <1>0, StopSolo
<1>24. CASE StopFlag
  <2>1. /\ UNCHANGED <<queue, dropping, due, ready, wpc, job, runs, drops, gone, handle, active>>
        /\ stopping => stopping'
        /\ open' => open
    BY <1>24, <1>a DEF StopFlag
  <2> QED BY <1>0, <2>1, KeptStep
<1>25. CASE StopJoin
  <2>1. /\ UNCHANGED <<queue, dropping, due, ready, wpc, job, runs, drops, gone, handle, active>>
        /\ stopping => stopping'
        /\ open' => open
    BY <1>25, <1>a DEF StopJoin
  <2> QED BY <1>0, <2>1, KeptStep
<1>26. CASE StopDrop
  BY <1>26, <1>0, StopDropSolo
<1>27. CASE StopExecutor
  <2>1. /\ UNCHANGED <<queue, dropping, due, ready, wpc, job, runs, drops, gone, handle, active>>
        /\ stopping => stopping'
        /\ open' => open
    BY <1>27, <1>a DEF StopExecutor
  <2> QED BY <1>0, <2>1, KeptStep
<1>28. CASE StopShutdown
  <2>1. /\ UNCHANGED <<queue, dropping, due, ready, wpc, job, runs, drops, gone, handle, active>>
        /\ stopping => stopping'
        /\ open' => open
    BY <1>28, <1>a DEF StopShutdown
  <2> QED BY <1>0, <2>1, KeptStep
<1>29. CASE StopJoinPool
  <2>1. /\ UNCHANGED <<queue, dropping, due, ready, wpc, job, runs, drops, gone, handle, active>>
        /\ stopping => stopping'
        /\ open' => open
    BY <1>29, <1>a DEF StopJoinPool
  <2> QED BY <1>0, <2>1, KeptStep
<1>30. CASE UNCHANGED vars
  <2>1. /\ UNCHANGED <<queue, dropping, due, ready, wpc, job, runs, drops, gone, handle, active>>
        /\ stopping => stopping'
        /\ open' => open
    BY <1>30, <1>a
  <2> QED BY <1>0, <2>1, KeptStep
<1> QED
  BY <1>1, <1>2, <1>3, <1>4, <1>5, <1>6, <1>7, <1>8, <1>9, <1>9a, <1>10, <1>11, <1>12,
     <1>13, <1>14, <1>15, <1>16, <1>17, <1>18, <1>19, <1>20, <1>21, <1>22, <1>23,
     <1>24, <1>25, <1>26, <1>27, <1>28, <1>29, <1>30
     DEF Next, Caller, Work, StopStep

LEMMA InitArm == Init => ArmInv
<1> SUFFICES ASSUME Init PROVE ArmInv
  OBVIOUS
<1>1. TypeOK /\ PlaceInv /\ StopInv
  BY InitType, InitPlace, InitStop
<1>2. QueueInv /\ CallInv /\ BatchInv /\ RunInv /\ EntryInv
  BY DEF Init, QueueInv, CallInv, BatchInv, RunInv, EntryInv, Threads, Dispatchers
<1>3. ASSUME NEW t \in Timers PROVE SoloOne(t) /\ ArmedOne(t)
  <2>1. Queued(t) = {} /\ Draining(t) = {} /\ Popped(t) = {} /\ Handed(t) = {} /\ Taken(t) = {}
    BY DEF Init, Queued, Draining, Popped, Handed, Taken, Counted
  <2>2. Solo(Queued(t), Draining(t), Popped(t), Handed(t), Taken(t)) /\ ~Armed(t)
    BY <2>1 DEF Solo, Sole, Armed
  <2> QED BY <2>2 DEF Init, SoloOne, ArmedOne, Live
<1> QED BY <1>1, <1>2, <1>3 DEF ArmInv, SoloInv, ArmedInv

LEMMA ArmStep == ArmInv /\ [Next]_vars => ArmInv'
<1> SUFFICES ASSUME ArmInv, [Next]_vars PROVE ArmInv'
  OBVIOUS
<1>1. /\ TypeOK /\ PlaceInv /\ StopInv /\ QueueInv
      /\ CallInv /\ BatchInv /\ RunInv /\ EntryInv /\ SoloInv
  BY DEF ArmInv
<1>2. TypeOK' /\ PlaceInv' /\ StopInv' /\ QueueInv'
  BY <1>1, TypeStep, PlaceStep, StopInvStep, QueueInvStep
<1>3. CallInv' /\ BatchInv' /\ RunInv' /\ EntryInv'
  BY <1>1, CallStep, BatchStep, RunStep, EntryStep
<1>4. SoloInv' /\ ArmedInv'
  BY SoloStep DEF OneComing
<1> QED BY <1>2, <1>3, <1>4 DEF ArmInv

\* ArmInv is inductive, so it holds throughout.
THEOREM ArmInvariance == Spec => []ArmInv
BY InitArm, ArmStep, PTL DEF Spec

\* How many runs of a timer are coming.
LEMMA PendingCount ==
    ASSUME SoloInv, NEW t \in Timers
    PROVE  Pending(t) = IF Armed(t) THEN 1 ELSE 0
<1> DEFINE waiting == {e \in queue \cup dropping \cup UNION {due[d] : d \in Dispatchers} : e.timer = t}
<1>1. SoloOne(t)
  BY DEF SoloInv
<1>2. waiting = Queued(t) \cup Draining(t) \cup Popped(t)
  BY DEF Queued, Draining, Popped
<1>3. Pending(t) = Cardinality(waiting) + Cardinality(Handed(t)) + Cardinality(Taken(t))
  BY DEF Pending, Handed, Taken, Counted
<1> HIDE DEF waiting
<1>4. Cardinality({}) = 0 /\ \A x : Cardinality({x}) = 1
  BY FS_EmptySet, FS_Singleton
<1>5. CASE ~Armed(t)
  <2>1. waiting = {} /\ Handed(t) = {} /\ Taken(t) = {}
    BY <1>2, <1>5 DEF Armed
  <2>2. Pending(t) = 0 + 0 + 0
    BY <1>3, <1>4, <2>1
  <2> QED BY <1>5, <2>2
<1>6. CASE Queued(t) # {} \/ Draining(t) # {} \/ Popped(t) # {}
  <2>1. (\E x : waiting = {x}) /\ Handed(t) = {} /\ Taken(t) = {}
    BY <1>1, <1>2, <1>6, SoloElim DEF SoloOne
  <2>2. Pending(t) = 1 + 0 + 0
    BY <1>3, <1>4, <2>1
  <2> QED BY <1>6, <2>2 DEF Armed
<1>7. CASE Handed(t) # {}
  <2>1. waiting = {} /\ (\E x : Handed(t) = {x}) /\ Taken(t) = {}
    <3>1. PICK i : i \in Handed(t)
      BY <1>7
    <3>2. /\ Handed(t) = {i} /\ Taken(t) = {}
          /\ Queued(t) = {} /\ Draining(t) = {} /\ Popped(t) = {}
      BY <1>1, <3>1, SoloElim DEF SoloOne
    <3> QED BY <1>2, <3>2
  <2>2. Pending(t) = 0 + 1 + 0
    BY <1>3, <1>4, <2>1
  <2> QED BY <1>7, <2>2 DEF Armed
<1>8. CASE Taken(t) # {}
  <2>1. waiting = {} /\ Handed(t) = {} /\ (\E x : Taken(t) = {x})
    BY <1>1, <1>2, <1>8, SoloElim DEF SoloOne
  <2>2. Pending(t) = 0 + 0 + 1
    BY <1>3, <1>4, <2>1
  <2> QED BY <1>8, <2>2 DEF Armed
<1> QED BY <1>5, <1>6, <1>7, <1>8 DEF Armed

\* NeverArmedTwice: a timer never has two runs coming, wherever they are.
THEOREM OneRunComing == Spec => []NeverArmedTwice
<1>1. ArmInv => NeverArmedTwice
  BY PendingCount DEF ArmInv, NeverArmedTwice
<1> QED BY <1>1, ArmInvariance, PTL

\* NeverForgotten: a timer that can still fire, or whose owner must still be
\* told, has exactly one run coming.
THEOREM NoRunLost == Spec => []NeverForgotten
<1>1. ArmInv => NeverForgotten
  BY PendingCount DEF ArmInv, ArmedInv, ArmedOne, NeverForgotten
<1> QED BY <1>1, ArmInvariance, PTL

\* CancelledLeavesQueue: once cancel() has returned, the queue has no entry of
\* the timer, nor gets one from a run that is re-arming it.
THEOREM CancelEmptiesQueue == Spec => []CancelledLeavesQueue
<1>1. ArmInv => CancelledLeavesQueue
  BY DEF ArmInv, TypeOK, SoloInv, SoloOne, Queued, CancelledLeavesQueue
<1> QED BY <1>1, ArmInvariance, PTL

\* RanOrDropped: a one-shot's callback runs or its drop is reported, at most
\* once and never both.
THEOREM RunOrDropOnce == Spec => []RanOrDropped
<1>1. ArmInv => RanOrDropped
  <2> SUFFICES ASSUME ArmInv, NEW t \in Timers
               PROVE  runs[t] <= 1 /\ (t \in HasDrop => runs[t] + drops[t] <= 1)
    BY DEF RanOrDropped
  <2>1. SoloOne(t) /\ runs[t] \in Nat /\ drops[t] \in Nat
    BY DEF ArmInv, TypeOK, SoloInv
  <2>2. runs[t] <= 1 /\ (t \in HasDrop => drops[t] <= 1 /\ (drops[t] = 1 => runs[t] = 0))
    BY <2>1 DEF SoloOne
  <2> QED BY <2>1, <2>2
<1> QED BY <1>1, ArmInvariance, PTL
=============================================================================

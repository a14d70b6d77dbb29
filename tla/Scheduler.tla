------------------------------ MODULE Scheduler ------------------------------
(***************************************************************************)
(* The timers of dsbox_scheduler: Scheduler, TimerHandle and TimerQueue    *)
(* (scheduler.cpp, timer_queue.hpp).  Client threads schedule timers,      *)
(* cancel them (cancel, cancelAndWait), drive them by hand (runDue), post  *)
(* tasks and stop the scheduler; the timer thread pops due entries and     *)
(* hands them to the executor, whose workers run them and, for periodic    *)
(* timers, queue the next run.                                             *)
(*                                                                         *)
(* One action is one critical section of SchedulerImpl::mutex or           *)
(* executorMutex, one atomic access of TimerState, or one post() to the    *)
(* executor.  The executor is the scheduler's own lazily created           *)
(* ThreadPoolExecutor, which stop() shuts down, or one the caller passed,  *)
(* which its owner may close.  Its queue is FIFO.                          *)
(***************************************************************************)
EXTENDS Integers, Sequences, FiniteSets

CONSTANTS Timers,       \* the timers clients may schedule, each once
          Kind,         \* "oneshot", "rate" (FixedRate) or "delay" (FixedDelay)
          HasDrop,      \* the one-shot timers with an onDrop callback
          Users,        \* client threads
          Workers,      \* threads of the executor
          TimerThread,  \* the thread running timerLoop()
          Options,      \* SchedulerOptions: useTimerThread, and ownPool when
                        \* no defaultExecutor is given
          Calls,        \* the calls clients make in this instance
          Period,       \* the period of periodic timers
          MaxTime,      \* bound on the clock
          MaxReady,     \* bound on the executor's queue when a client posts
          MaxTimers,    \* bound on the timers scheduled in one behaviour
          NoTimer       \* not a timer

\* "callback": the timers' callbacks make these calls too.
CallNames == {"schedule", "cancel", "cancelAndWait", "runDue", "post", "stop",
              "close", "callback"}

ASSUME SchedulerAssumption ==
    /\ Kind \in [Timers -> {"oneshot", "rate", "delay"}]
    /\ HasDrop \subseteq {t \in Timers : Kind[t] = "oneshot"}
    /\ TimerThread \notin Users
    /\ Users \cap Workers = {}
    /\ Options \subseteq [useTimerThread : BOOLEAN, ownPool : BOOLEAN]
    /\ Calls \subseteq CallNames
    /\ Period \in Nat \ {0} /\ MaxTime \in Nat /\ MaxReady \in Nat
    /\ MaxTimers \in Nat
    /\ NoTimer \notin Timers

VARIABLES now,        \* the clock
          queue,      \* TimerQueue: the entries not yet popped
          nextId,     \* TimerQueue::m_nextId
          stopping,   \* SchedulerImpl::stopping
          stopped,    \* SchedulerImpl::stopped
          tpc,        \* the timer thread
          due,        \* entries each dispatching thread has popped
          exec,       \* SchedulerImpl::defaultExecutor
          open,       \* that executor takes callbacks
          ready,      \* its queue
          handle,     \* the TimerHandle of each timer
          active,     \* TimerState::active
          entry,      \* TimerState::id
          inside,     \* TimerState::running, as the set of workers counted
          wpc,        \* each worker
          job,        \* what it is running
          upc,        \* each thread making a call
          target,     \* the timer its call is about
          won,        \* its cancel() won the exchange
          stopPc,     \* the first stop() call
          stopper,    \* the thread in it
          dropping    \* the entries it has drained

tvars == <<handle, active, entry, inside>>
uvars == <<upc, target, won>>
svars == <<stopping, stopped, stopPc, stopper, dropping>>
wvars == <<wpc, job>>
xvars == <<exec, open>>

\* History: what each timer has seen so far.
VARIABLES runs,       \* runs of the callback started (claimed)
          wins,       \* cancel() calls that returned true
          drops,      \* invocations of onDrop
          gone,       \* timers on which a cancel() has returned
          quiet       \* timers on which a cancelAndWait() has returned

hvars == <<runs, wins, drops, gone, quiet>>

vars == <<now, queue, nextId, tpc, due, ready, tvars, uvars, svars, wvars,
          xvars, hvars>>

Threads == Users \cup Workers
Dispatchers == Users \cup {TimerThread}

Entries == [id : Nat, timer : Timers, at : Nat]
Jobs == [op : {"run", "drop"}, timer : Timers, at : Nat]
            \cup [op : {"post"}, timer : {NoTimer}, at : Nat]

RunJob(e)   == [op |-> "run", timer |-> e.timer, at |-> e.at]
DropJob(e)  == [op |-> "drop", timer |-> e.timer, at |-> e.at]
PostJob     == [op |-> "post", timer |-> NoTimer, at |-> 0]
NoJob       == PostJob

\* Where a call, and a run, can stand.
CallSteps == {"idle", "schedule", "cancel", "cancelAndWait", "wait", "dispatch",
              "resolve", "post"}
RunSteps  == {"idle", "picked", "entered", "started", "task", "rearm", "leaving",
              "other"}

TypeOK ==
    /\ now \in 0 .. MaxTime
    /\ queue \subseteq Entries
    /\ nextId \in Nat
    /\ stopping \in BOOLEAN /\ stopped \in BOOLEAN
    /\ tpc \in {"off", "none", "loop", "dispatch", "exited"}
    /\ due \in [Dispatchers -> SUBSET Entries]
    /\ exec \in {"none", "pool", "external", "rejecting"}
    /\ open \in BOOLEAN
    /\ ready \in Seq(Jobs)
    /\ handle \in [Timers -> {"new", "scheduling", "live", "empty"}]
    /\ active \in [Timers -> BOOLEAN]
    /\ entry \in [Timers -> Nat]
    /\ inside \in [Timers -> SUBSET Workers]
    /\ wpc \in [Workers -> RunSteps]
    /\ job \in [Workers -> Jobs]
    /\ \A w \in Workers : wpc[w] # "idle" => (job[w].op = "run" <=> wpc[w] # "other")
    /\ upc \in [Threads -> CallSteps]
    /\ target \in [Threads -> Timers \cup {NoTimer}]
    /\ \A u \in Threads : upc[u] \in {"schedule", "cancel", "cancelAndWait", "wait"} =>
          target[u] \in Timers
    /\ won \in [Threads -> BOOLEAN]
    /\ stopPc \in {"no", "flag", "join", "drops", "shutdown",
                   "joinPool", "done"}
    /\ stopper \in Threads \cup {NoTimer}
    /\ dropping \subseteq Entries
    /\ runs \in [Timers -> Nat]
    /\ wins \in [Timers -> Nat]
    /\ drops \in [Timers -> Nat]
    /\ gone \subseteq Timers
    /\ quiet \subseteq Timers

Init ==
    /\ now = 0
    /\ queue = {}
    /\ nextId = 1
    /\ stopping = FALSE /\ stopped = FALSE
    /\ \E o \in Options :
          /\ tpc = IF o.useTimerThread THEN "none" ELSE "off"
          /\ exec = IF o.ownPool THEN "none" ELSE "external"
    /\ due = [d \in Dispatchers |-> {}]
    /\ open = TRUE
    /\ ready = <<>>
    /\ handle = [t \in Timers |-> "new"]
    /\ active = [t \in Timers |-> TRUE]
    /\ entry = [t \in Timers |-> 0]
    /\ inside = [t \in Timers |-> {}]
    /\ wpc = [w \in Workers |-> "idle"]
    /\ job = [w \in Workers |-> NoJob]
    /\ upc = [u \in Threads |-> "idle"]
    /\ target = [u \in Threads |-> NoTimer]
    /\ won = [u \in Threads |-> FALSE]
    /\ stopPc = "no"
    /\ stopper = NoTimer
    /\ dropping = {}
    /\ runs = [t \in Timers |-> 0]
    /\ wins = [t \in Timers |-> 0]
    /\ drops = [t \in Timers |-> 0]
    /\ gone = {} /\ quiet = {}

-----------------------------------------------------------------------------
(* TimerQueue: ordered by deadline, then by insertion.                     *)

BeforeTiesReversed(e, f) == e.at < f.at \/ (e.at = f.at /\ e.id > f.id)
Before(e, f) == e.at < f.at \/ (e.at = f.at /\ e.id < f.id)

\* The front of an ordered collection of entries.
IsFirst(e, S) == e \in S /\ \A f \in S \ {e} : Before(e, f)

DueNow == {e \in queue : e.at <= now}

\* TimerQueue::add(), recording the id in the timer.
Add(t, at) ==
    /\ queue' = queue \cup {[id |-> nextId, timer |-> t, at |-> at]}
    /\ nextId' = nextId + 1
    /\ entry' = [entry EXCEPT ![t] = nextId]

\* TimerQueue::cancel().
CancelId(id) == queue' = {e \in queue : e.id # id}

-----------------------------------------------------------------------------
(* The executor.                                                           *)

\* SchedulerImpl::executor(): the executor this call hands out.
Resolved == IF exec = "none" THEN "pool" ELSE exec

\* Whether the executor of a pending entry takes a callback now.
Accepts == exec \in {"pool", "external"} /\ open

Submit(j) == ready' = Append(ready, j)

\* The owner of an executor passed to the scheduler closes it.
CloseExecutor ==
    /\ "close" \in Calls /\ exec = "external" /\ open
    /\ open' = FALSE
    /\ UNCHANGED <<now, queue, nextId, tpc, due, ready, exec, tvars, uvars,
                   svars, wvars, hvars>>

-----------------------------------------------------------------------------
(* Clients: schedule, cancel, cancelAndWait, runDue, post.                 *)

\* Thread u is free to make a call: a client outside the scheduler, or a
\* worker inside a callback.
Free(u) ==
    /\ upc[u] = "idle" /\ stopper # u
    /\ u \in Users \/ (u \in Workers /\ wpc[u] = "task")

Call(u, name) ==
    /\ name \in Calls /\ Free(u)
    /\ u \in Users \/ "callback" \in Calls
Goto(u, l) == upc' = [upc EXCEPT ![u] = l]

\* at() / after() / every(): resolve the executor,
Schedule(u, t) ==
    /\ Call(u, "schedule") /\ handle[t] = "new"
    /\ Cardinality({s \in Timers : handle[s] # "new"}) < MaxTimers
    /\ exec' = Resolved
    /\ handle' = [handle EXCEPT ![t] = "scheduling"]
    /\ target' = [target EXCEPT ![u] = t]
    /\ Goto(u, "schedule")
    /\ UNCHANGED <<now, queue, nextId, tpc, due, ready, open, active, entry,
                   inside, won, svars, wvars, hvars>>

\* then queue the first entry and start the timer thread, or return an
\* empty handle.
ScheduleEntry(u) ==
    LET t == target[u] IN
    /\ upc[u] = "schedule"
    /\ IF stopping
       THEN /\ handle' = [handle EXCEPT ![t] = "empty"]
            /\ UNCHANGED <<queue, nextId, entry, tpc>>
       ELSE /\ handle' = [handle EXCEPT ![t] = "live"]
            /\ \E at \in {now, now + 1} : at <= MaxTime /\ Add(t, at)
            /\ tpc' = IF tpc = "none" THEN "loop" ELSE tpc
    /\ Goto(u, "idle")
    /\ target' = [target EXCEPT ![u] = NoTimer]
    /\ UNCHANGED <<now, due, ready, exec, open, active, inside, won, svars,
                   wvars, hvars>>

\* active.exchange(false): whoever finds it set has the claim.
LoadOnly(t) == UNCHANGED active
Exchange(t) == active' = [active EXCEPT ![t] = FALSE]

\* cancel(): claim the timer,
CancelFlag(u, t) ==
    /\ handle[t] = "live"
    /\ \E name \in {"cancel", "cancelAndWait"} : Call(u, name) /\ Goto(u, name)
    /\ target' = [target EXCEPT ![u] = t]
    /\ won' = [won EXCEPT ![u] = active[t]]
    /\ Exchange(t)
    /\ UNCHANGED <<now, queue, nextId, tpc, due, ready, handle, entry, inside,
                   svars, wvars, xvars, hvars>>

\* remove its current queue entry and return,
CancelEntry(u) ==
    LET t == target[u] IN
    /\ upc[u] \in {"cancel", "cancelAndWait"}
    /\ CancelId(entry[t])
    /\ IF won[u] THEN wins' = [wins EXCEPT ![t] = @ + 1] ELSE UNCHANGED wins
    /\ gone' = gone \cup {t}
    /\ won' = [won EXCEPT ![u] = FALSE]
    /\ IF upc[u] = "cancel"
       THEN Goto(u, "idle") /\ target' = [target EXCEPT ![u] = NoTimer]
       ELSE Goto(u, "wait") /\ target' = target
    /\ UNCHANGED <<now, nextId, tpc, due, ready, tvars, svars, wvars, xvars,
                   runs, drops, quiet>>

\* t is the timer whose callback thread u is running: t_currentTimer.
NeverOwn(u, t) == FALSE
Own(u, t) == u \in Workers /\ job[u].timer = t

\* The predicate of TimerState::cv.
Skipped(t)  == TRUE
Finished(t) == inside[t] = {}

\* or (cancelAndWait) first wait until no run of it is in flight, unless the
\* call is made by its own callback.
WaitDone(u) ==
    LET t == target[u] IN
    /\ upc[u] = "wait"
    /\ Own(u, t) \/ Finished(t)
    /\ quiet' = IF Own(u, t) THEN quiet ELSE quiet \cup {t}
    /\ Goto(u, "idle")
    /\ target' = [target EXCEPT ![u] = NoTimer]
    /\ UNCHANGED <<now, queue, nextId, tpc, due, ready, tvars, won, svars, wvars,
                   xvars, runs, wins, drops, gone>>

\* runDue(): pop what is due; the host's thread dispatches it.
RunDue(u) ==
    /\ u \in Users /\ Call(u, "runDue") /\ ~stopping /\ DueNow # {}
    /\ due' = [due EXCEPT ![u] = DueNow]
    /\ queue' = queue \ DueNow
    /\ Goto(u, "dispatch")
    /\ UNCHANGED <<now, nextId, tpc, ready, tvars, target, won, svars, wvars,
                   xvars, hvars>>

\* post(): refuse if stopped;
PostCheck(u) ==
    /\ Call(u, "post") /\ ~stopped /\ Len(ready) < MaxReady
    /\ Goto(u, "resolve")
    /\ UNCHANGED <<now, queue, nextId, tpc, due, ready, tvars, target, won, svars,
                   wvars, xvars, hvars>>

\* else resolve the executor,
PostResolve(u) ==
    /\ upc[u] = "resolve"
    /\ exec' = Resolved
    /\ Goto(u, "post")
    /\ UNCHANGED <<now, queue, nextId, tpc, due, ready, open, tvars, target,
                   won, svars, wvars, hvars>>

\* and hand it the task.
PostSubmit(u) ==
    /\ upc[u] \in {"post"}
    /\ IF Accepts THEN Submit(PostJob) ELSE UNCHANGED ready
    /\ Goto(u, "idle")
    /\ UNCHANGED <<now, queue, nextId, tpc, due, tvars, target, won, svars,
                   wvars, xvars, hvars>>

-----------------------------------------------------------------------------
(* Dispatching: the timer thread, and clients in runDue().                 *)

\* timerLoop(): pop everything that is due,
PopDue ==
    /\ tpc = "loop" /\ ~stopping /\ DueNow # {}
    /\ due' = [due EXCEPT ![TimerThread] = DueNow]
    /\ queue' = queue \ DueNow
    /\ tpc' = "dispatch"
    /\ UNCHANGED <<now, nextId, ready, tvars, uvars, svars, wvars, xvars, hvars>>

\* and leave once the scheduler is stopping.
TimerThreadExit ==
    /\ tpc = "loop" /\ stopping
    /\ tpc' = "exited"
    /\ UNCHANGED <<now, queue, nextId, due, ready, tvars, uvars, svars, wvars,
                   xvars, hvars>>

\* onDrop is invoked, if the timer has one.
DropSilently(t) == UNCHANGED drops
ReportDrop(t) ==
    IF t \in HasDrop THEN drops' = [drops EXCEPT ![t] = @ + 1] ELSE UNCHANGED drops

\* Hand an entry to its executor; if that refuses, call onDrop on the spot.
HandOverAndDrop(e) ==
    /\ IF Accepts THEN Submit(RunJob(e)) ELSE UNCHANGED ready
    /\ ReportDrop(e.timer)
HandOver(e) ==
    \/ Accepts /\ Submit(RunJob(e)) /\ UNCHANGED drops
    \/ ~Accepts /\ ReportDrop(e.timer) /\ UNCHANGED ready

\* dispatch(): hand over the popped entries one by one.
Dispatch(d) ==
    \E e \in due[d] :
        /\ IsFirst(e, due[d])
        /\ due' = [due EXCEPT ![d] = @ \ {e}]
        /\ HandOver(e)
        /\ UNCHANGED <<now, queue, nextId, tpc, tvars, uvars, svars, wvars, xvars,
                       runs, wins, gone, quiet>>

\* The batch is done: back to timerLoop() / return from runDue().
DispatchDone(d) ==
    /\ due[d] = {}
    /\ \/ d = TimerThread /\ tpc = "dispatch" /\ tpc' = "loop" /\ UNCHANGED upc
       \/ d \in Users /\ upc[d] = "dispatch" /\ Goto(d, "idle") /\ UNCHANGED tpc
    /\ UNCHANGED <<now, queue, nextId, due, ready, tvars, target, won, svars,
                   wvars, xvars, hvars>>

-----------------------------------------------------------------------------
(* Workers: runTimer().                                                    *)

At(w, l) == wpc' = [wpc EXCEPT ![w] = l]

\* What a callback is: the runTimer() of an entry, or anything else.
AlwaysRun(j) == "picked"
FirstStep(j) == IF j.op = "run" THEN "picked" ELSE "other"

\* A worker of the executor takes the next callback.
Take(w) ==
    /\ wpc[w] = "idle" /\ ready # <<>>
    /\ job' = [job EXCEPT ![w] = Head(ready)]
    /\ ready' = Tail(ready)
    /\ At(w, FirstStep(Head(ready)))
    /\ UNCHANGED <<now, queue, nextId, tpc, due, tvars, uvars, svars, xvars, hvars>>

\* When a periodic timer is re-armed: FixedRate before its callback runs,
\* FixedDelay after it.
Periodic(t)     == Kind[t] # "oneshot"
RearmsBefore(t) == Kind[t] = "rate"
RearmsAfter(t)  == Kind[t] = "delay"

\* RunningScope: count this run.
Enter(w) ==
    /\ wpc[w] = "picked"
    /\ inside' = [inside EXCEPT ![job[w].timer] = @ \cup {w}]
    /\ At(w, "entered")
    /\ UNCHANGED <<now, queue, nextId, tpc, due, ready, handle, active, entry,
                   job, uvars, svars, xvars, hvars>>

\* Claim the run: a one-shot takes `active` away, a periodic timer looks.
Claim(w) ==
    LET t == job[w].timer IN
    /\ wpc[w] = "entered"
    /\ \/ ~active[t] /\ At(w, "leaving") /\ UNCHANGED <<active, runs>>
       \/ /\ active[t] /\ Kind[t] = "oneshot"
          /\ At(w, "task")
          /\ Exchange(t)
          /\ runs' = [runs EXCEPT ![t] = @ + 1]
       \/ /\ active[t] /\ Kind[t] # "oneshot"
          /\ At(w, IF RearmsBefore(t) THEN "started" ELSE "task")
          /\ runs' = [runs EXCEPT ![t] = 1]
          /\ UNCHANGED active
    /\ UNCHANGED <<now, queue, nextId, tpc, due, ready, handle, entry, inside,
                   job, uvars, svars, xvars, wins, drops, gone, quiet>>

\* rearm(): queue the next run unless stopping or cancelled.
RearmAnyway(t, at) ==
    IF stopping THEN UNCHANGED <<queue, nextId, entry>> ELSE Add(t, at)
Rearm(t, at) ==
    IF stopping \/ ~active[t] THEN UNCHANGED <<queue, nextId, entry>> ELSE Add(t, at)

NextFromNow(at) == now + Period

\* The next tick of a FixedRate timer after the one at `at`: missed ticks
\* are skipped.
NextTick(at) ==
    LET next == at + Period
    IN  IF next <= now THEN next + Period * ((now - next) \div Period + 1) ELSE next

\* FixedRate: the next run is queued before the callback starts.
RearmRate(w) ==
    /\ wpc[w] = "started"
    /\ Rearm(job[w].timer, NextTick(job[w].at))
    /\ At(w, "task")
    /\ UNCHANGED <<now, tpc, due, ready, handle, active, inside, job, uvars,
                   svars, xvars, hvars>>

\* The callback returns (an exception is caught).
TaskDone(w) ==
    /\ wpc[w] = "task" /\ Free(w)
    /\ At(w, IF RearmsAfter(job[w].timer) THEN "rearm" ELSE "leaving")
    /\ UNCHANGED <<now, queue, nextId, tpc, due, ready, tvars, job, uvars,
                   svars, xvars, hvars>>

\* FixedDelay: the next run is queued after the callback has finished.
RearmDelay(w) ==
    /\ wpc[w] = "rearm"
    /\ Rearm(job[w].timer, now + Period)
    /\ At(w, "leaving")
    /\ UNCHANGED <<now, tpc, due, ready, handle, active, inside, job, uvars,
                   svars, xvars, hvars>>

\* ~RunningScope: the run no longer counts.
Leave(w) ==
    /\ wpc[w] = "leaving"
    /\ inside' = [inside EXCEPT ![job[w].timer] = @ \ {w}]
    /\ At(w, "idle")
    /\ job' = [job EXCEPT ![w] = NoJob]
    /\ UNCHANGED <<now, queue, nextId, tpc, due, ready, handle, active, entry,
                   uvars, svars, xvars, hvars>>

\* A posted task, or the onDrop of a discarded timer, runs.
OtherDone(w) ==
    /\ wpc[w] = "other"
    /\ IF job[w].op = "drop" THEN ReportDrop(job[w].timer) ELSE UNCHANGED drops
    /\ At(w, "idle")
    /\ job' = [job EXCEPT ![w] = NoJob]
    /\ UNCHANGED <<now, queue, nextId, tpc, due, ready, tvars, uvars, svars,
                   xvars, runs, wins, gone, quiet>>

-----------------------------------------------------------------------------
(* SchedulerImpl::stop(), by a client or from inside a timer's callback.   *)

StopGoto(l) == stopPc' = l

MayStop(s) == "stop" \in Calls /\ Free(s)

\* The first call discards the queue; a later one returns at once.
Stop(s) ==
    /\ MayStop(s) /\ ~stopping
    /\ stopping' = TRUE
    /\ dropping' = queue
    /\ queue' = {}
    /\ stopper' = s
    /\ StopGoto("flag")
    /\ UNCHANGED <<now, nextId, tpc, due, ready, stopped, tvars, uvars, wvars,
                   xvars, hvars>>

StopFlag ==
    /\ stopPc = "flag"
    /\ stopped' = TRUE
    /\ StopGoto("join")
    /\ UNCHANGED <<now, queue, nextId, tpc, due, ready, stopping, stopper,
                   dropping, tvars, uvars, wvars, xvars, hvars>>

\* Join the timer thread,
StopJoin ==
    /\ stopPc = "join" /\ tpc \in {"off", "none", "exited"}
    /\ StopGoto("drops")
    /\ UNCHANGED <<now, queue, nextId, tpc, due, ready, stopping, stopped,
                   stopper, dropping, tvars, uvars, wvars, xvars, hvars>>

\* tell whoever waited for a discarded entry, through its executor or else
\* on the spot,
StopDrop ==
    /\ stopPc = "drops"
    /\ \E e \in dropping :
          /\ IsFirst(e, dropping)
          /\ dropping' = dropping \ {e}
          /\ \/ e.timer \in HasDrop /\ Accepts /\ Submit(DropJob(e)) /\ UNCHANGED drops
             \/ ~(e.timer \in HasDrop /\ Accepts) /\ ReportDrop(e.timer) /\ UNCHANGED ready
    /\ UNCHANGED <<now, queue, nextId, tpc, due, stopping, stopped, stopPc,
                   stopper, tvars, uvars, wvars, xvars, runs, wins, gone,
                   quiet>>

\* make executor() refuse from now on if there is none yet,
Unsealed == exec
Sealed == IF exec = "none" THEN "rejecting" ELSE exec

StopExecutor ==
    /\ stopPc = "drops" /\ dropping = {}
    /\ exec' = Sealed
    /\ StopGoto("shutdown")
    /\ UNCHANGED <<now, queue, nextId, tpc, due, ready, open, stopping, stopped,
                   stopper, dropping, tvars, uvars, wvars, hvars>>

\* shut the scheduler's own pool down
StopShutdown ==
    /\ stopPc = "shutdown"
    /\ open' = (open /\ exec # "pool")
    /\ StopGoto("joinPool")
    /\ UNCHANGED <<now, queue, nextId, tpc, due, ready, exec, stopping, stopped,
                   stopper, dropping, tvars, uvars, wvars, hvars>>

\* and join its workers, except the one this call is made from: they leave
\* when the queue is empty.
Others == Workers \ {stopper}
JoinNobody == TRUE
Joined == Others # {} => ready = <<>> /\ \A w \in Others : wpc[w] = "idle"

StopJoinPool ==
    /\ stopPc = "joinPool" /\ (exec = "pool" => Joined)
    /\ StopGoto("done")
    /\ stopper' = NoTimer
    /\ UNCHANGED <<now, queue, nextId, tpc, due, ready, stopping, stopped,
                   dropping, tvars, uvars, wvars, xvars, runs, wins, drops,
                   gone, quiet>>

-----------------------------------------------------------------------------
Tick ==
    /\ now < MaxTime
    /\ now' = now + 1
    /\ UNCHANGED <<queue, nextId, tpc, due, ready, tvars, uvars, svars, wvars,
                   xvars, hvars>>

Caller(u) ==
    \/ \E t \in Timers : Schedule(u, t) \/ CancelFlag(u, t)
    \/ ScheduleEntry(u) \/ CancelEntry(u) \/ WaitDone(u)
    \/ RunDue(u) \/ PostCheck(u) \/ PostResolve(u) \/ PostSubmit(u)

Work(w) ==
    \/ Take(w) \/ Enter(w) \/ Claim(w) \/ RearmRate(w) \/ TaskDone(w)
    \/ RearmDelay(w) \/ Leave(w) \/ OtherDone(w)

StopStep ==
    StopFlag \/ StopJoin \/ StopDrop \/ StopExecutor \/ StopShutdown \/ StopJoinPool

TimerLoop == PopDue \/ TimerThreadExit \/ DispatchDone(TimerThread) \/ Dispatch(TimerThread)

Next ==
    \/ Tick \/ CloseExecutor
    \/ \E u \in Threads : Caller(u)
    \/ PopDue \/ TimerThreadExit
    \/ \E d \in Dispatchers : Dispatch(d) \/ DispatchDone(d)
    \/ \E w \in Workers : Work(w)
    \/ \E s \in Threads : Stop(s)
    \/ StopStep

\* Every thread inside the scheduler goes on, time passes, and callbacks
\* return, having made a finite number of calls; nobody has to make a call.
Fairness ==
    /\ WF_vars(Tick)
    /\ WF_vars(TimerLoop)
    /\ WF_vars(StopStep)
    /\ \A w \in Workers : WF_vars(Work(w)) /\ SF_vars(TaskDone(w))
    /\ \A u \in Threads : WF_vars(ScheduleEntry(u) \/ CancelEntry(u) \/ WaitDone(u)
                                    \/ PostResolve(u) \/ PostSubmit(u))
    /\ \A u \in Users : WF_vars(Dispatch(u) \/ DispatchDone(u))

Spec == Init /\ [][Next]_vars
FairSpec == Spec /\ Fairness

-----------------------------------------------------------------------------
(* What the timers promise.                                                *)

Live(t) == handle[t] = "live"

\* A cancel that took the claim of t and has not returned yet.
Claims(u, t) == won[u] /\ target[u] = t

\* For a one-shot timer, exactly one of "it ran" and "cancel() returned true"
\* happens: none while the timer is active or the cancel that claimed it has
\* yet to return, and one from then on.
OneShotOnce ==
    \A t \in Timers : Kind[t] = "oneshot" =>
        runs[t] + wins[t] =
            IF active[t] \/ \E u \in Threads : Claims(u, t) THEN 0 ELSE 1

\* The callback of t is being executed by w (or about to be: it is claimed).
Executing(w, t) == wpc[w] \in {"started", "task", "rearm"} /\ job[w].timer = t

\* After cancelAndWait() returned, the callback is not executing and will not
\* execute again: the caller may destroy what it uses.
QuietAfterWait == \A t \in quiet : ~active[t] /\ \A w \in Workers : ~Executing(w, t)

\* After cancel() returned, the timer has no entry in the queue, and a run
\* that is re-arming it meanwhile does not put one there.
CancelledLeavesQueue == \A t \in gone : \A e \in queue : e.timer # t

\* Every way in which a run of t, or its drop, may still come about.
Pending(t) ==
    LET waiting == {e \in queue \cup dropping \cup UNION {due[d] : d \in Dispatchers} :
                        e.timer = t}
        handed  == {i \in 1 .. Len(ready) : ready[i].timer = t}
        taken   == {w \in Workers : job[w].timer = t /\
                        wpc[w] \in {"picked", "entered", "started", "other"}
                            \cup (IF Kind[t] = "rate" THEN {} ELSE {"task", "rearm"})}
    IN  Cardinality(waiting) + Cardinality(handed) + Cardinality(taken)

\* A timer never has two runs coming, so a FixedDelay timer never overlaps
\* itself and a FixedRate timer never fires in a burst.
NeverArmedTwice == \A t \in Timers : Pending(t) <= 1

\* A timer that can still fire has a run coming: none is lost between the
\* queue, the dispatching thread, the executor and a re-arm.  A one-shot with
\* an onDrop keeps this through stop() and a closed executor.
NeverForgotten ==
    \A t \in Timers : Live(t) /\ active[t]
        /\ ((t \in HasDrop /\ drops[t] = 0) \/ (~stopping /\ open)) => Pending(t) = 1

\* A one-shot that ran is not reported dropped, nor dropped twice.
RanOrDropped == \A t \in Timers : runs[t] <= 1 /\ (t \in HasDrop => runs[t] + drops[t] <= 1)

\* When stop() has returned, nothing is queued, the timer thread is gone, and
\* the scheduler's own pool is shut down: it is not created again by a call
\* that was under way.
StopQuiesces ==
    stopPc = "done" =>
        /\ queue = {} /\ dropping = {} /\ tpc \in {"off", "none", "exited"}
        /\ exec # "none"
        /\ exec = "pool" => ~open

\* When stop() has returned, the scheduler's own pool has run what it was
\* handed and is idle, but for a worker that made the call.
DrainedAfterStop ==
    stopPc = "done" /\ exec = "pool" /\ Cardinality(Workers) > 1 =>
        ready = <<>> /\ Cardinality({w \in Workers : wpc[w] # "idle"}) <= 1

\* Timers of the same instant are handed to the executor by a dispatching
\* thread in the order they were scheduled: none it has popped, and none it
\* left in the queue, should have gone before.
FiresInOrder ==
    \A d \in Dispatchers : \A e \in due[d] : IsFirst(e, due[d]) =>
        \A f \in queue \cup due[d] : ~(f.at = e.at /\ f.id < e.id)

\* A FixedRate timer stays on its grid first + k * Period, and a re-arm skips
\* exactly the ticks that were missed: the next one is the first after now.
RateOnGrid ==
    [][\A e \in queue' \ queue : Kind[e.timer] = "rate" /\ Live(e.timer) =>
          \E w \in Workers :
             LET at == job[w].at IN
             /\ wpc[w] = "started" /\ job[w].timer = e.timer
             /\ (e.at - at) % Period = 0
             /\ e.at > now /\ e.at > at
             /\ e.at - Period <= now \/ e.at - Period = at]_vars

\* timer_queue.hpp: onDrop is not invoked when the entry is cancelled.
DroppedNotCancelled == \A t \in Timers : wins[t] + drops[t] <= 1

\* A timer with an onDrop is settled in the end, whatever is cancelled,
\* closed or stopped: whoever waits for it is told.
Settled == \A t \in HasDrop : Live(t) ~> runs[t] + wins[t] + drops[t] > 0

\* stop() and cancelAndWait() return, also when a timer's callback calls them.
CallsReturn ==
    /\ stopPc = "flag" ~> stopPc = "done"
    /\ \A u \in Threads : upc[u] = "wait" ~> upc[u] = "idle"
=============================================================================

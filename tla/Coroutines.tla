------------------------------ MODULE Coroutines ------------------------------
(***************************************************************************)
(* The coroutines of dsbox_scheduler: a task is spawned on an executor,     *)
(* awaits one thing and ends.  What it awaits is a sleep, which the timer,  *)
(* the stop token and Scheduler::stop() each may end; a callback, called    *)
(* from any thread, perhaps twice, perhaps before it is waited for; or a    *)
(* hop to the executor.  Every await has a state of its own, so one is      *)
(* enough.                                                                  *)
(*                                                                         *)
(* A coroutine is suspended before await_suspend() is called, so it can be  *)
(* resumed by another thread while that is still running.  The executor     *)
(* runs what it accepted (ThreadPool); the scheduler fires a timer once or  *)
(* drops it, when it is stopped and when the executor refuses the run       *)
(* (Scheduler); whoever was given a callback calls it.                      *)
(***************************************************************************)
EXTENDS Naturals

CONSTANT Calls   \* the calls of the callback
\* Assumed of the constants.
CoroutineConstants == Calls # {}

VARIABLES co,       \* the coroutine: new, queued, running, suspended, posted, ended, none
          future,   \* of spawn(): pending, value, rejected, broken
          refusing, \* the executor was shut down
          kind,     \* what is awaited: sleep, callback, hop
          at,       \* await_suspend(): none, begun, checked, armed, hooking, given, left
          resumes,  \* how often this suspension was ended
          answer,   \* what co_await returned: none, yes, no
          claimed,  \* who set SleepState::claimed: nobody, timer, stop
          result,   \* SleepState::result
          timer,    \* none, armed, due, firing, dropping, won (to resume with), over
          hook,     \* stopCallback: none, set, running, claimed (by the callback), over
          stops,    \* which of "token" and "scheduler" were stopped
          refused,  \* the run of the timer was refused (a history)
          arrived, completed,  \* CallbackState
          call      \* call of the callback |-> none, first, over

spawned == <<co, future, refusing>>
sleep   == <<claimed, result, timer, hook, stops, refused>>
calling == <<arrived, completed, call>>
vars == <<co, future, refusing, kind, at, resumes, answer, claimed, result, timer, hook, stops,
          refused, arrived, completed, call>>

Init ==
    /\ co = "new" /\ future = "pending" /\ refusing = FALSE
    /\ kind \in {"sleep", "callback", "hop"} /\ at = "none"
    /\ resumes = 0 /\ answer = "none"
    /\ claimed = "nobody" /\ result = FALSE /\ timer = "none" /\ hook = "none" /\ stops = {}
    /\ refused = FALSE
    /\ arrived = FALSE /\ completed = FALSE /\ call = [c \in Calls |-> "none"]

-----------------------------------------------------------------------------
\* spawn(): the start is posted, or the future says it was rejected.
Spawn ==
    /\ co = "new"
    /\ IF refusing THEN co' = "none" /\ future' = "rejected" ELSE co' = "queued" /\ UNCHANGED future
    /\ UNCHANGED <<refusing, kind, at, resumes, answer, sleep, calling>>
\* The executor starts it, or drops it with its promise when it is destroyed.
Started ==
    /\ co = "queued" /\ co' = "running"
    /\ UNCHANGED <<future, refusing, kind, at, resumes, answer, sleep, calling>>
Discarded ==
    /\ co = "queued" /\ refusing
    /\ co' = "none" /\ future' = "broken"
    /\ UNCHANGED <<refusing, kind, at, resumes, answer, sleep, calling>>
\* The end of runSpawned().
Ends ==
    /\ co = "running" /\ answer # "none"
    /\ co' = "ended" /\ future' = "value"
    /\ UNCHANGED <<refusing, kind, at, resumes, answer, sleep, calling>>
Refuse ==
    /\ ~refusing /\ refusing' = TRUE
    /\ UNCHANGED <<co, future, kind, at, resumes, answer, sleep, calling>>

Yes(b) == IF b THEN "yes" ELSE "no"
\* co_await: the coroutine is suspended, and await_suspend() begins.
Await ==
    /\ co = "running" /\ at = "none"
    /\ co' = "suspended" /\ at' = "begun"
    /\ UNCHANGED <<future, refusing, kind, resumes, answer, sleep, calling>>
\* await_suspend() returned false: nobody resumes, the coroutine goes on at once.
GoOn(outcome) == co' = "running" /\ answer' = Yes(outcome) /\ at' = "left"
\* handle.resume(), on the thread that calls it, or on the executor if that takes it.
ResumeHere(outcome) ==
    /\ resumes' = resumes + 1
    /\ co' = "running" /\ answer' = Yes(outcome)
ResumeOn(outcome) ==
    IF refusing THEN ResumeHere(outcome)
    ELSE resumes' = resumes + 1 /\ co' = "posted" /\ UNCHANGED answer
\* await_resume() on the executor.  Of a sleep it waits for a callback that is running.
Outcome == IF kind = "sleep" THEN result ELSE TRUE
Resumed ==
    /\ co = "posted" /\ hook # "claimed"
    /\ co' = "running" /\ answer' = Yes(Outcome)
    /\ UNCHANGED <<future, refusing, kind, at, resumes, sleep, calling>>

-----------------------------------------------------------------------------
\* ResumeOnAwaiter::await_suspend().
Hop ==
    /\ kind = "hop" /\ at = "begun"
    /\ IF refusing THEN GoOn(FALSE) /\ UNCHANGED resumes
       ELSE at' = "left" /\ ResumeOn(TRUE)
    /\ UNCHANGED <<future, refusing, kind, sleep, calling>>

\* SleepAwaiter::await_suspend(): the token is looked at, then the timer is scheduled,
\* which the scheduler refuses when it is stopped; from then on it may fire.
Check ==
    /\ kind = "sleep" /\ at = "begun"
    /\ IF "token" \in stops THEN GoOn(FALSE) ELSE at' = "checked" /\ UNCHANGED <<co, answer>>
    /\ UNCHANGED <<future, refusing, kind, resumes, sleep, calling>>
Schedule ==
    /\ at = "checked"
    /\ IF "scheduler" \in stops THEN GoOn(FALSE) /\ UNCHANGED timer
       ELSE timer' = "armed" /\ at' = "armed" /\ UNCHANGED <<co, answer>>
    /\ UNCHANGED <<future, refusing, kind, resumes, claimed, result, hook, stops, refused, calling>>
\* The stop callback is made, unless no stop is possible; when stop was requested before
\* it runs there and then.  It goes with the state, when await_resume() was there already.
HookBegin ==
    /\ at = "armed" /\ at' \in {"hooking", "left"}
    /\ UNCHANGED <<spawned, kind, resumes, answer, sleep, calling>>
HookEnd ==
    /\ at = "hooking" /\ at' = "left"
    /\ hook' = IF "token" \in stops THEN "running" ELSE IF answer = "none" THEN "set" ELSE "over"
    /\ UNCHANGED <<spawned, kind, resumes, answer, claimed, result, timer, stops, refused, calling>>

\* The world stops the token, which runs the callback, or the scheduler.
StopToken ==
    /\ "token" \notin stops /\ stops' = stops \cup {"token"}
    /\ hook' = IF hook = "set" THEN "running" ELSE hook
    /\ UNCHANGED <<spawned, kind, at, resumes, answer, claimed, result, timer, refused, calling>>
StopScheduler ==
    /\ "scheduler" \notin stops /\ stops' = stops \cup {"scheduler"}
    /\ timer' = IF timer = "armed" THEN "dropping" ELSE timer
    /\ UNCHANGED <<spawned, kind, at, resumes, answer, claimed, result, hook, refused, calling>>
\* popDue() takes the timer out of the queue, under the lock; then dispatch() posts its
\* run, and a run that is refused is dropped there and then.
Fire ==
    /\ timer = "armed" /\ timer' = "due"
    /\ UNCHANGED <<spawned, kind, at, resumes, answer, claimed, result, hook, stops, refused, calling>>
Dispatch ==
    /\ timer = "due" /\ timer' = (IF refusing THEN "dropping" ELSE "firing")
    /\ refused' = refusing
    /\ UNCHANGED <<spawned, kind, at, resumes, answer, claimed, result, hook, stops, calling>>

\* A mutated form: claimed is not looked at.
Unclaimed == TRUE
\* finishSleep(): of those that find `claimed` unset only one sets it, and it resumes.
Free == claimed = "nobody"
FinishSleep ==
    /\ timer \in {"firing", "dropping"}
    /\ IF Free
       THEN claimed' = "timer" /\ timer' = "won" /\ result' = (timer = "firing")
       ELSE timer' = "over" /\ UNCHANGED <<claimed, result>>
    /\ UNCHANGED <<spawned, kind, at, resumes, answer, hook, stops, refused, calling>>
\* await_resume() follows: it takes the callback back, or waits for it.
TimerResumes ==
    /\ timer = "won" /\ timer' = "over"
    /\ hook # "running" /\ hook' = IF hook = "set" THEN "over" ELSE hook
    /\ ResumeHere(result)
    /\ UNCHANGED <<future, refusing, kind, at, claimed, result, stops, refused, calling>>

\* abortSleep(), in two steps: the claim and the timer, then the resumption.
AbortSleep ==
    /\ hook = "running"
    /\ IF Free
       THEN /\ claimed' = "stop" /\ hook' = "claimed" /\ result' = FALSE
            /\ timer' = IF timer = "armed" THEN "over" ELSE timer
       ELSE hook' = "over" /\ UNCHANGED <<claimed, result, timer>>
    /\ UNCHANGED <<spawned, kind, at, resumes, answer, stops, refused, calling>>
\* A mutated form: a refusal goes unnoticed.
PostOnly(outcome) == IF refusing THEN UNCHANGED <<co, resumes, answer>> ELSE ResumeOn(outcome)
PostOrResume(outcome) == ResumeOn(outcome)
AbortResumes ==
    /\ hook = "claimed" /\ hook' = "over"
    /\ PostOrResume(FALSE)
    /\ UNCHANGED <<future, refusing, kind, at, claimed, result, timer, stops, refused, calling>>

-----------------------------------------------------------------------------
\* CallbackAwaiter::await_suspend(): the starter gives the callback away; at its end
\* whoever comes second sees that the other was there.
GiveCallback ==
    /\ kind = "callback" /\ at = "begun" /\ at' = "given"
    /\ UNCHANGED <<spawned, kind, resumes, answer, sleep, calling>>
Suspends ==
    /\ at = "given" /\ arrived' = TRUE
    /\ IF arrived THEN GoOn(TRUE) ELSE at' = "left" /\ UNCHANGED <<co, answer>>
    /\ UNCHANGED <<future, refusing, kind, resumes, sleep, completed, call>>

\* A mutated form: a second call is not ignored.
Unanswered == TRUE
FirstCall == ~completed
\* completeCallback(): the first call sets the value; then it resumes if await_suspend()
\* has ended, and leaves that to await_suspend() otherwise.
Call(c) ==
    /\ kind = "callback" /\ at \in {"given", "left"} /\ call[c] = "none"
    /\ completed' = TRUE
    /\ call' = [call EXCEPT ![c] = IF FirstCall THEN "first" ELSE "over"]
    /\ UNCHANGED <<spawned, kind, at, resumes, answer, sleep, arrived>>
\* A mutated form: the call resumes whether or not await_suspend() has ended.
ArrivedAnyway == TRUE
SecondHere == arrived
CallArrives(c) ==
    /\ call[c] = "first" /\ call' = [call EXCEPT ![c] = "over"]
    /\ arrived' = TRUE
    /\ IF SecondHere THEN ResumeOn(TRUE) ELSE UNCHANGED <<co, resumes, answer>>
    /\ UNCHANGED <<future, refusing, kind, at, sleep, completed>>

-----------------------------------------------------------------------------
GoesOn ==
    \/ Spawn \/ Started \/ Ends \/ Await \/ Resumed \/ Hop
    \/ Check \/ Schedule \/ HookBegin \/ HookEnd \/ Fire \/ Dispatch \/ FinishSleep
    \/ TimerResumes
    \/ AbortSleep \/ AbortResumes \/ GiveCallback \/ Suspends
    \/ \E c \in Calls : Call(c) \/ CallArrives(c)
Next == GoesOn \/ Discarded \/ Refuse \/ StopToken \/ StopScheduler

\* Every thread goes on, timers fire and callbacks are called.
Fairness == WF_vars(GoesOn)
Spec == Init /\ [][Next]_vars /\ Fairness

-----------------------------------------------------------------------------
TypeOK ==
    /\ co \in {"new", "queued", "running", "suspended", "posted", "ended", "none"}
    /\ future \in {"pending", "value", "rejected", "broken"}
    /\ at \in {"none", "begun", "checked", "armed", "hooking", "given", "left"}
    /\ claimed \in {"nobody", "timer", "stop"} /\ answer \in {"none", "yes", "no"}

\* A suspension is ended once, whoever else tries: nobody resumes a coroutine that runs
\* or has gone (SleepState::claimed, CallbackState::arrived and completed).
ResumedOnce ==
    /\ resumes <= 1
    /\ answer # "none" => co # "suspended"
    /\ timer = "won" \/ hook = "claimed" => co = "suspended"

\* A sleep says it was slept out when its timer ended it and the run was accepted;
\* otherwise one of the two was stopped, or the executor refused the run.
AnswerHonest ==
    kind = "sleep" =>
        /\ answer = "yes" => claimed = "timer" /\ ~refused
        /\ answer = "no" => stops # {} \/ refused
        /\ answer = "no" /\ claimed = "timer" => "scheduler" \in stops \/ refused

\* The future of spawn() gets the value when the task has ended, and not before.
FutureFollows == (future = "value" <=> co = "ended") /\ (future \in {"rejected", "broken"} <=> co = "none")

Inv == TypeOK /\ ResumedOnce /\ AnswerHonest /\ FutureFollows

\* Every task that was spawned ends, or its future says why not.
Settled == co \in {"ended", "none"}
EventuallySettled == <>[]Settled

\* await_resume() resets the stop callback, await_suspend() makes it: never both at once.
HookAlone == at = "hooking" => answer = "none"
=============================================================================

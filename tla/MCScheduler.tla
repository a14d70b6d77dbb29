----------------------------- MODULE MCScheduler -----------------------------
\* Model-checking instances of Scheduler: timer kinds for the .cfg files and
\* symmetry of the thread sets.
EXTENDS Scheduler, TLC

CONSTANTS t1, t2, t3

OneOneShot  == (t1 :> "oneshot")
TwoOneShots == (t1 :> "oneshot" @@ t2 :> "oneshot")
OneOfEach   == (t1 :> "oneshot" @@ t2 :> "rate" @@ t3 :> "delay")

\* SchedulerOptions: the defaults; a timer thread in any case; any at all.
Default    == [useTimerThread |-> TRUE, ownPool |-> TRUE]
Defaults   == {Default}
WithThread == [useTimerThread : {TRUE}, ownPool : BOOLEAN]
AnyOptions == [useTimerThread : BOOLEAN, ownPool : BOOLEAN]

Symmetry == Permutations(Users) \cup Permutations(Workers)
=============================================================================

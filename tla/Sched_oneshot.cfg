\* Two one-shots, one with an onDrop, on the scheduler's own pool: schedule,
\* cancel, cancelAndWait and stop against the timer thread and the workers.
SPECIFICATION Spec
CONSTANTS
    t1 = t1
    t2 = t2
    t3 = t3
    Timers = {t1, t2}
    Kind <- TwoOneShots
    HasDrop = {t1}
    Users = {u1, u2}
    Workers = {w1, w2}
    TimerThread = TimerThread
    Options <- Defaults
    Calls = {"schedule", "cancel", "cancelAndWait", "stop"}
    Period = 1
    MaxTime = 1
    MaxReady = 1
    MaxTimers = 2
    NoTimer = NoTimer
SYMMETRY Symmetry
INVARIANTS TypeOK OneShotOnce QuietAfterWait StopQuiesces DrainedAfterStop FiresInOrder
CHECK_DEADLOCK FALSE

\* cancel() while stop() is reporting what it discarded.
SPECIFICATION Spec
CONSTANTS
    t1 = t1
    t2 = t2
    t3 = t3
    Timers = {t1, t2}
    Kind <- TwoOneShots
    HasDrop = {t1}
    Users = {u1, u2}
    Workers = {w1}
    TimerThread = TimerThread
    Options <- Defaults
    Calls = {"schedule", "cancel", "stop"}
    Period = 1
    MaxTime = 1
    MaxReady = 1
    MaxTimers = 2
    NoTimer = NoTimer
SYMMETRY Symmetry
INVARIANTS DroppedNotCancelled
CHECK_DEADLOCK FALSE

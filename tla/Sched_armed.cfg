\* One timer of any kind, with any options and every call, also from its own
\* callback; the owner of the executor may close it.
SPECIFICATION Spec
CONSTANTS
    t1 = t1
    t2 = t2
    t3 = t3
    Timers = {t1, t2, t3}
    Kind <- OneOfEach
    HasDrop = {t1}
    Users = {u1}
    Workers = {w1, w2}
    TimerThread = TimerThread
    Options <- AnyOptions
    Calls = {"schedule", "cancel", "cancelAndWait", "runDue", "post", "stop", "close", "callback"}
    Period = 2
    MaxTime = 3
    MaxReady = 1
    MaxTimers = 1
    NoTimer = NoTimer
SYMMETRY Symmetry
INVARIANTS NeverArmedTwice NeverForgotten CancelledLeavesQueue RanOrDropped
PROPERTIES RateOnGrid
CHECK_DEADLOCK FALSE

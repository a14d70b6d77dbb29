\* Fair threads: waiters are told, and stop() and cancelAndWait() return.
SPECIFICATION FairSpec
CONSTANTS
    t1 = t1
    t2 = t2
    t3 = t3
    Timers = {t1}
    Kind <- OneOneShot
    HasDrop = {t1}
    Users = {u1, u2}
    Workers = {w1, w2}
    TimerThread = TimerThread
    Options <- WithThread
    Calls = {"schedule", "cancel", "cancelAndWait", "stop", "close", "callback"}
    Period = 1
    MaxTime = 1
    MaxReady = 1
    MaxTimers = 1
    NoTimer = NoTimer
PROPERTIES Settled CallsReturn
CHECK_DEADLOCK FALSE

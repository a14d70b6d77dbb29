SPECIFICATION Spec
CONSTANTS
    Posters = {p1, p2}
    Drainers = {d1, d2}
    BaseMayClose = TRUE
    Workers = {w1, w2}
    Clients = {u1}
    SpawnMayFail = TRUE
    Callbacks = {c1, c2, c3}
    Pumps = {p1, p2}
    LoopCallbacks = {c1, c2}
    MaxRestarts = 1
    NoCallback = NoCallback
    Unused = Unused
INVARIANTS OneResponsible AcceptedInOrder NoLostWakeup
PROPERTIES ImplementsExecutor CallsReturn
CHECK_DEADLOCK FALSE

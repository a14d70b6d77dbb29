\* Two threads, nested callbacks that throw, a handler, a handled event and
\* the debug topic that reports who leaves it.
SPECIFICATION Spec
CONSTANTS
    t1 = t1
    t2 = t2
    Threads = {t1, t2}
    Events = {"asked", "handled_event_unsubscribed"}
    Handled = {"asked"}
    Handlers = {"open"}
    Owners = {m, Anonymous}
    Nobody = Nobody
    MayThrow = TRUE
    MaxIds = 2
    MaxEntries = 2
    MaxDepth <- OneNests
INVARIANTS Inv DebugReported
PROPERTY SnapshotExact
SYMMETRY OwnerSymmetry
CHECK_DEADLOCK FALSE

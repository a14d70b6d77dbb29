\* A handler, a cached handle to it, and two threads.
SPECIFICATION Spec
CONSTANTS
    t1 = t1
    t2 = t2
    Threads = {t1, t2}
    Events = {}
    Handled = {}
    Handlers = {"open"}
    Owners = {m, Anonymous}
    Nobody = Nobody
    MayThrow = FALSE
    MaxIds = 0
    MaxEntries = 2
    MaxDepth <- OneNests
PROPERTY NoCallAfterUnregister
SYMMETRY OwnerSymmetry
CHECK_DEADLOCK FALSE

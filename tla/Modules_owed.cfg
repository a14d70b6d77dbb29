\* The console unloads and reloads whatever it likes.
SPECIFICATION Spec
CONSTANTS
    a = a
    b = b
    c = c
    Modules = {a, b, c}
    Graphs <- Chain
    MaxOwed = 3
INVARIANT ShutdownOwed

\* A chain, a fork, a join and a cycle of dependencies over three modules.
SPECIFICATION Spec
CONSTANTS
    a = a
    b = b
    c = c
    Modules = {a, b, c}
    Graphs <- Shapes
    MaxOwed = 2
INVARIANTS Inv DependenciesStarted DependenciesOutlive
PROPERTIES StopAllStopsAll SkipIsolates

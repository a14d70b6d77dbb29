SPECIFICATION Spec
CONSTANTS
    None = None
    Requests = {r1, r2}
    Timed = {r1}
    Incoming = Incoming
    User = User
    Reader = Reader
    MaxFrames = 2
    MaxPayload = 2
    MaxPiece = 6
    MaxChunks = 2
    Writers = {w1, w2, w3}
    MaxQueue = 1
    Callers = {c1, c2}
    OneAtATime = TRUE
    Sections = {"A", "B"}
    Keys = {"k"}
    Values = {0, 1}
    MaxLines = 3
    MaxSets = 2
    Modes = {"Regenerate"}
    SetsWhileSaving = FALSE
    MaxText = 5
    Devices = {d1, d2}
    Refreshing = {f1}
    MaxPlugs = 2
    MaxStarts = 1
    MaxFailures = 1
    Logcats = {p1, p2}
    MaxOutput = 1
    Calls = {1, 2}
    MaxItems = 2
    Workers = 2
INVARIANTS AnsweredOnce ProcessesSafe BridgeSafe TextsKept
PROPERTY ProcessesRest
CHECK_DEADLOCK FALSE

SPECIFICATION Spec
CONSTANTS
    None = None
    Callers = {c1, c2}
    MaxWindows = 1
    MaxQueue = 1
    AutoHandle = TRUE
    LateCalls = FALSE
    OnControl = FALSE
    FramesInFlight = 2
    Images = {1, 2}
    NoImage = 0
    HandleSets = {1}
    Sizes = {0, 1, 2}
    MaxResizes = 1
    MaxFailures = 1
    Surfaces = {s1}
    White = white
    Textures = {t1}
    MaxSets = 1
    MaxVertices = 2
    MaxPanels = 2
    WindowSizes = {4, 6}
    Pixels = {3}
    MaxChanges = 2
    Widths = {1, 2, 3}
    MaxText = 5
    TickBetween = TRUE
    MaxItems = 3
    MaxVisible = 2
    MaxExtent = 3
    ToolWindows = {v1, v2}
    Serial = serial
    MaxClicks = 4
    MaxHasty = 3
    MaxLines = 1
INVARIANTS WindowsSafe ScreenExact ToolSafe
PROPERTY InterfaceRests
CHECK_DEADLOCK FALSE

SPECIFICATION Spec
CONSTANTS
    Transfers = {t1, t2}
    Idempotent = {t2}
    MayCancel = {t1}
    Bodied = {t2}
    Conns = {c1, c2}
    None = None
    MaxPerHost = 1
    MaxParts = 1
    PipeSize = 2
    MaxChunk = 2
    MaxBytes = 5
    Fetches = {f1}
    Interceptors = {i1, i2}
    Origins = {o1, o2}
    Home = o1
    MaxRedirects = 1
    Calls = {k1, k2}
    NoCall = NoCall
    MaxTrust = 2
    Addresses = 2
    Users = {u1, u2}
    MaxText = 5
    MaxPath = 6
    MaxLiteral = 7
    MaxHead = 16
    MaxFields = 2
    MaxLine = 3
    MaxInput = 4
    MaxPiece = 3
INVARIANTS ExchangesSafe ConnectionsSafe RequestsSafe TextsExact
PROPERTY NetworkRests
CHECK_DEADLOCK FALSE

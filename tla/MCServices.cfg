SPECIFICATION Composed
CONSTANTS
    c1 = c1  p1 = p1  e1 = e1  q3 = q3  w1 = w1  w2 = w2  x1 = x1  x2 = x2
    y1 = y1  y2 = y2
    Processes = {p1}
    NoProcess = NoProcess
    Calls = {c1}
    Revokes = {x1, x2}
    LiveTtl = 1
    RevokedTtl = 1
    ReadTime = 1
    MaxTime = 3
    Rows = {x1, x2}
    Machines = {y1, y2}
    MaxKek = 3
    Readers = {x1, x2, q3}
    Ceiling = 2
    Window = 1
    LastTick = 2
    Requests = {x1, x2, q3}
    Captures = {w1, w2}
    Names = {y1, y2}
    Operations = {"store", "capture", "rotate", "add", "delete", "restore"}
    Procs = {p1}
    Kind = "payment"
    MaxEndpoint = 1
    MaxFaults = 1
    Senders = {x1, x2}
    Events = {e1}
    Waits = 2
    MaxAttempts = 6
    MaxCrashes = 1
    Parts = {"egress", "rewrap", "limit", "store", "sync", "delivery"}
SYMMETRY Interchangeable
INVARIANTS
    TypeOK
    MintedIsAudited
    ToldIsRevoked
    RevokedOnce
    StaleServiceIsBounded
    RotationSafe
    RetrievalsBounded
PROPERTIES
    CapturesSafe
    WebhooksSafe
CHECK_DEADLOCK FALSE

SPECIFICATION Composed
CONSTANTS
    p1 = p1  p2 = p2  p3 = p3  k1 = k1  k2 = k2  t1 = t1  t2 = t2
    Nodes = {p1, p2}
    MaxMoves = 3
    MaxErrors = 1
    Calls = {1, 2}
    MaxTurns = 3
    Actions = {k1, k2, p1, p2}
    NoAction = NoAction
    Controls <- MCControls
    Sites <- MCSites
    Terms = {t1, t2}
    MaxApprovals = 2
    Ttl = 2
    Budget = 1
    MaxTime = 3
    MaxCalls = 3
    MaxFaults = 1
    ConfirmFaults = FALSE
    StaleRefs = FALSE
    NewTerms = FALSE
    MaxSteps = 2
    MaxJev = 2
    StaleLimit = 2
    DeadLimit = 2
    OcclusionLimit = 2
    Seconds = 1
    MaxDrift = 1
    MaxDrives = 1
    Parts = {"drive", "login", "lease", "release", "click"}
INVARIANTS
    SignInSafe
    ReleaseSafe
    ClickSafe
PROPERTIES
    DriveSafe
CHECK_DEADLOCK FALSE

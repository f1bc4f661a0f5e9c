SPECIFICATION Composed
CONSTANTS
    k1 = k1  k2 = k2  k3 = k3  bare = bare  proxied = proxied  c1 = c1  c3 = c3  f1 = f1
    f2 = f2  drop = drop  d1 = d1  s1 = s1  s2 = s2
    Pids = {1, 2, 3}
    Managed = TRUE
    Scoped = TRUE
    Legacy = TRUE
    StartLimit = 2
    MaxOthers = 1
    MaxFaults = 2
    Calls = {k1, k2, k3}
    Daemon = Daemon
    MaxChromes = 2
    MaxCrashes = 1
    CloseMayFail = TRUE
    Forcers = {f1}
    MaxFailures = 2
    Starts = {s1}
    Drives = {d1}
    Commands = {}
    Closes = {f1}
    MaxConns = 3
    Operations = {c1, c3}
    Logins = {c3}
    Finishes = {f1, f2}
    Drop = drop
    SlowClose = TRUE
    MayLose = TRUE
    Viewers = {c1, c3}
    Tabs = {s1, s2}
    MaxShares = 2
    MaxInputs = 1
    MaxCommands = 2
    MaxMoves = 1
    MayFail = FALSE
    Wants <- MCWants
    Hosts <- MCHosts
    Parts = {"custody", "sessions", "forward", "takeover", "process", "live"}
INVARIANTS
    ElectionSafe
PROPERTIES
    SessionsSafe
    CustodySafe
    ForwardSafe
    ProcessSafe
CHECK_DEADLOCK FALSE

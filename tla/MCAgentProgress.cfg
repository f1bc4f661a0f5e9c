SPECIFICATION FairlyComposed
CONSTANTS
    k1 = k1  k2 = k2  bare = bare  proxied = proxied  f1 = f1  drop = drop  s1 = s1  d1 = d1
    g1 = g1  g2 = g2  g3 = g3  a1 = a1  p1 = p1  Unset = Unset  NoCall = NoCall
    Wants <- MCWants
    Calls = {k1, k2}
    Daemon = Daemon
    MaxChromes = 2
    MaxCrashes = 1
    CloseMayFail = TRUE
    Parts = {"custody", "sessions", "forward", "election", "drive", "login", "lease", "pairing", "process", "click", "live"}
INVARIANTS
    NoSiblingLoses
PROPERTIES
    AgentSettles
CHECK_DEADLOCK FALSE

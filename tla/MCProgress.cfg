SPECIFICATION FairlyComposed
CONSTANTS
    s1 = s1  k1 = k1  ca = ca  NoSession = NoSession  NoCard = NoCard  NoCand = NoCand  n1 = n1  a1 = a1
    c1 = c1  c2 = c2  l1 = l1  l2 = l2  p1 = p1  e1 = e1  x1 = x1  x2 = x2
    Approvals = {a1}
    Requests = {x1, x2}
    Credentials = {c1, c2}
    Labels = {l1, l2}
    Ttl = 1
    MaxTime = 2
    Parts = {"payment", "fetch", "mutation", "sync", "delivery"}
PROPERTIES
    MutationSafe
    LapsedIsSettled
CHECK_DEADLOCK FALSE

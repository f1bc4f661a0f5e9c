SPECIFICATION Composed
CONSTANTS
    n1 = n1  a1 = a1  f1 = f1  f2 = f2  x1 = x1  x2 = x2
    Requests = {x1, x2}
    Fields = {n1}
    Ttl = 1
    MaxTime = 2
    CardApprovals = {a1}
    Pages = {x1, x2}
    Faces = {f1, f2}
    EditTtl = 1
    LastTick = 2
    Parts = {"fetch", "card"}
SYMMETRY Interchangeable
PROPERTIES
    FetchSafe
    FetchIsOneTime
    EditsSafe
CHECK_DEADLOCK FALSE

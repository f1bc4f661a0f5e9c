SPECIFICATION Spec
CONSTANTS
    c1 = c1  g1 = g1  a1 = a1  p1 = p1  p2 = p2
    Codes = {c1}
    Pages = {g1}
    Accounts = {a1}
    Polls = {p1, p2}
    None = None
    Apps = {c1}
    Overlap = TRUE
INVARIANTS
    DeliveredOnce
CHECK_DEADLOCK FALSE

SPECIFICATION Spec
CONSTANTS
    s1 = s1  s2 = s2  k1 = k1  k2 = k2  ca = ca  cb = cb  cc = cc  cf = cf
    r1 = r1  r2 = r2
    Sessions = {s1, s2}
    NoSession = NoSession
    Cards = {k1}
    NoCard = NoCard
    Candidates = {ca}
    NoCand = NoCand
    CardOf <- MCCardOf
    Signed <- MCSigned
    Requests = {r1, r2}
    TtlCard = 1
    TtlCardless = 2
    MaxTime = 4
    MaxLedger = 1
INVARIANTS
    OutcomeReportedOnce
CHECK_DEADLOCK FALSE

SPECIFICATION Spec
CONSTANTS
    s1 = s1  s2 = s2  k1 = k1  k2 = k2  ca = ca  cb = cb  cc = cc  cf = cf
    r1 = r1  r2 = r2
    Sessions = {s1, s2}
    NoSession = NoSession
    Cards = {k1, k2}
    NoCard = NoCard
    Candidates = {ca, cb, cc, cf}
    NoCand = NoCand
    CardOf <- MCCardOf
    Signed <- MCSigned
    Requests = {r1, r2}
    TtlCard = 1
    TtlCardless = 2
    MaxTime = 2
    MaxLedger = 1
INVARIANTS
    TypeOK
    DecisionIsExclusive
    ApprovedIsSigned
    NothingStagedOnceDecided
    SealedHeldByAppOnly
    SweptWasAudited
    ClaimServedOnce
    ClaimNotWasted
PROPERTIES
    CandidateIsWriteOnce
    ClosedStaysClosed
    ImplementsDecision
CHECK_DEADLOCK FALSE

SPECIFICATION Composed
CONSTANTS
    a1 = a1  a2 = a2  c1 = c1  c2 = c2  g1 = g1  g2 = g2  p1 = p1  s1 = s1
    s2 = s2  s3 = s3  t1 = t1  t2 = t2
    Codes = {c1}
    Pages = {g1, g2}
    Accounts = {a1, a2}
    Polls = {p1}
    Apps = {c1}
    Overlap = FALSE
    Tabs = {t1, t2, c1}
    Identities = {g1, g2}
    Emails = {a1, a2}
    Existing = {}
    SignupsDisabled = FALSE
    MaxGen = 2
    Nobody = Nobody
    Checkouts = {c1, c2}
    Hooks = {p1, t1}
    NoCheckout = NoCheckout
    MaxEvents = 4
    Skills = {s1, s2, s3}
    Clients = {t1, t2}
    Strikes = 2
    MaxCalls = 4
    Retires = TRUE
    Replays = TRUE
    None = None
    EmailOf <- MCEmailOf
    Entry <- MCEntry
    Parts = {"pairing", "signIn", "billing", "registry"}
INVARIANTS
    PairingSafe
    BillingSafe
PROPERTIES
    AccountsSafe
    SkillsSafe
CHECK_DEADLOCK FALSE

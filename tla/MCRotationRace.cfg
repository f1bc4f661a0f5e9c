SPECIFICATION RotationSpec
CONSTANTS
    r1 = r1  r2 = r2  m1 = m1  m2 = m2
    Rows = {r1, r2}
    Machines = {m1, m2}
    MaxKek = 2
INVARIANTS
    WritesSurviveRewrap
CHECK_DEADLOCK FALSE

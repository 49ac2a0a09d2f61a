\* Two requests: three rows and a provider that may fail, or four rows of one login.
CONSTANTS
    Sid = {s1, s2, s3, s4}
    Last = s4
    Req = {r1, r2}
    None = None
    Outages = TRUE
SYMMETRY SymIds
SPECIFICATION MCSpec
CHECK_DEADLOCK FALSE
INVARIANTS TypeOK SignOutHolds OneLiveToken
PROPERTY ReasonIsFinal

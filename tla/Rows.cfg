\* One-time codes and what rests on rows beside them, one component at a time.
CONSTANTS
    Req = {r1, r2}
    MaxAttempts = 2
    MaxIssues = 2
    Addr = {a1, a2}
    NoAddr = NoAddr
    Email = {e1, e2, e3}
    Instance = {i1, i2}
    Ttl = 2
    User = {u1, u2, u3}
    Person = {p1, p2}
    Key = {k1}
    MaxClock = 3
SPECIFICATION RowsSpec
CHECK_DEADLOCK FALSE
SYMMETRY SymIds
CONSTRAINT Bounds
INVARIANTS RowsTypeOK
    GuessBudget OneAcceptancePerIssue
    OnlyProvenAddress RevocationHolds MirrorAgrees
    StoresAgree
    StaleAtMostTtl
    CountMatches OwnerRules
    HiddenForGood
PROPERTY WithdrawnStaysOut

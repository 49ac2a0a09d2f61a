\* The conversation exists but the session's update fails.
CONSTANTS
    User = {u1, u2}
    Proc = {p1}
    MaxSessions = 1
    MaxJoins = 1
    None = None
    Failures = {"publish"}
SPECIFICATION FairSpec
CHECK_DEADLOCK FALSE
PROPERTY MatchResolved

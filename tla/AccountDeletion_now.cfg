\* An administrator purges a due account while a sweep is at it.
CONSTANTS
    Proc = {p1, p2, p3}
    MaxAttempts = 2
    Staff = {{"purgeNow"}}
SPECIFICATION Spec
CHECK_DEADLOCK FALSE
PROPERTY PurgeOnlyAfterWindow

\* The owner, the sweep and what administrators do; and a match, whatever the
\* two people and the conversation service do.  One component at a time.
CONSTANTS
    Proc = {p1, p2}
    MaxAttempts = 2
    Staff <- Choices
    Person = {u1, u2}
    Handler = {h1, h2}
    MaxSessions = 1
    MaxJoins = 1
    None = None
    Failures = {"conversation"}
SPECIFICATION SweepsSpec
CHECK_DEADLOCK FALSE
INVARIANTS TypeOK NoPurgedShell WindowIsRecoverable
PROPERTIES SweepKeepsWindow PurgedOrParked
    MatchResolved ChatTornDown KeepsToLife

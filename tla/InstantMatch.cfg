\* Two people and every failure; three people whose searches race.
CONSTANTS
    User = {u1, u2, u3}
    Proc = {p1, p2}
    MaxSessions = 2
    MaxJoins = 2
    None = None
    Failures = {"conversation", "publish", "close", "queue", "crash"}
SPECIFICATION Spec
CHECK_DEADLOCK FALSE
SYMMETRY SymIds
CONSTRAINT Scenes
INVARIANTS TypeOK OneAgreedConversation EntryUsedOnce
PROPERTIES EndedChatStaysEnded

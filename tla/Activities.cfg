\* One invitee and one other for the one seat beside the host's.
CONSTANTS
    User = {u1, u2}
    Invitee = {u1}
    Proc = {p1, p2}
    Ops = {"join", "answer", "invite", "revoke", "show", "close", "list"}
    MaxMembers = 2
SPECIFICATION Spec
CHECK_DEADLOCK FALSE
SYMMETRY SymIds
INVARIANTS TypeOK OversubscriptionBounded RevokedStaysOut
PROPERTIES ClosedStaysClosed OutcomeKept

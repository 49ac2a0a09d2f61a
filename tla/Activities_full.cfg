\* Two joins for one seat.
CONSTANTS
    User = {u1, u2}
    Invitee = {}
    Proc = {p1, p2}
    Ops = {"join", "answer", "invite", "revoke", "show", "close"}
    MaxMembers = 2
SPECIFICATION Spec
CHECK_DEADLOCK FALSE
INVARIANT NeverOversubscribed

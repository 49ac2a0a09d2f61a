\* The lock, presence and unanswered invitations, one component at a time.
CONSTANTS
    a1 = a1  a2 = a2  b1 = b1
    ia = ia  ib = ib
    Call <- Calls
    Home <- Homes
    Ttl = 2
    MaxRun = 0
    None = None
    Socket = {s1, s2}
    User = {u1}
    Proc = {p1, p2}
    Ops = {"invite", "close"}
    MaxMembers = 2
SPECIFICATION ServicesSpec
CHECK_DEADLOCK FALSE
INVARIANTS ServicesTypeOK OneDmPerPair
PROPERTIES KeepsPromise CallsServed
    ConnectedIsOnline GoneShowsOffline UnansweredExpires

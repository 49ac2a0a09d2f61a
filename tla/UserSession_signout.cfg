\* A sign-out of all devices between the two writes of a recovery.
CONSTANTS
    Sid = {s1, s2, s3}
    Req = {r1, r2}
    None = None
    Outages = FALSE
SPECIFICATION AllAtOnceSpec
CHECK_DEADLOCK FALSE
INVARIANT SignedOutMeansOut

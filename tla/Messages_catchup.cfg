\* A message is cleared on one device; another reconnects and asks what it missed.
CONSTANTS
    User = {u1, u2}
    Handler = {h1}
    Key = {k1}
    MaxClock = 2
SPECIFICATION Spec
CHECK_DEADLOCK FALSE
INVARIANT CatchupHidesCleared

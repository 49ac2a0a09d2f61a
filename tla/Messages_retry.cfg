\* The socket stores a message, the answer is late, the client sends it again.
CONSTANTS
    User = {u1, u2}
    Handler = {h1, h2}
    Key = {k1}
    MaxClock = 2
SPECIFICATION Spec
CHECK_DEADLOCK FALSE
INVARIANT RetryOnce

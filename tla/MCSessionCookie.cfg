CONSTANTS
    Tokens = {k1, k2}
    Clients = {c1}
    Threads = {th1, th2}
    Settings <- ShortAndLong
    DefaultSettings <- Long
    NoRow = NoRow
    Idle = Idle
    Never = Never
    MaxTime = 2
    MaxSaves = 2
SPECIFICATION TimeoutsSpec
INVARIANT SessionKeepsCookie
CHECK_DEADLOCK FALSE

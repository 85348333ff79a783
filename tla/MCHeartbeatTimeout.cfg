CONSTANTS
    Tokens = {k1, k2}
    Clients = {c1}
    Threads = {th1, th2}
    Settings <- ShortAndLong
    DefaultSettings <- Short
    NoRow = NoRow
    Idle = Idle
    Never = Never
    MaxTime = 2
    MaxSaves = 2
SPECIFICATION TimeoutsSpec
INVARIANT HeartbeatTimeoutInForce
CHECK_DEADLOCK FALSE

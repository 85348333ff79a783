CONSTANTS
    Clients = {c1}
    Packages = {p1}
    NoPackage = NoPackage
    NoReport = NoReport
    Reports <- AgentBodies
    MaxBatches = 1
    MaxDownloads = 2
    MaxDeletions = 0
    MaxAttempts = 1
    MaxFaults <- TwoRequestsLost
SPECIFICATION SystemSpec
INVARIANT SuccessNotRecordedFailed
CHECK_DEADLOCK FALSE

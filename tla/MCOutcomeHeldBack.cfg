CONSTANTS
    Clients = {c1}
    Packages = {p1}
    NoPackage = NoPackage
    NoReport = NoReport
    Reports <- AgentBodies
    MaxBatches = 1
    MaxDownloads = 2
    MaxDeletions = 0
    MaxAttempts = 1
    MaxFaults <- ReplyAndRequestLost
SPECIFICATION FairSystemSpec
PROPERTY QueuedOutcomeArrives
CHECK_DEADLOCK FALSE

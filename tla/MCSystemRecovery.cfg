CONSTANTS
    Clients = {c1}
    Packages = {p1}
    NoPackage = NoPackage
    NoReport = NoReport
    Reports <- AgentBodies
    MaxBatches = 2
    MaxDownloads = 4
    MaxDeletions = 0
    MaxAttempts = 2
    MaxFaults <- ManyLost
SPECIFICATION FairSystemSpec
PROPERTY TargetsEndOrAreHeldBack
CHECK_DEADLOCK FALSE

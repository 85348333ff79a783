CONSTANTS
    Clients = {c1}
    Packages = {p1}
    NoPackage = NoPackage
    NoReport = NoReport
    Reports <- AgentBodies
    MaxBatches = 2
    MaxDownloads = 3
    MaxDeletions = 1
    MaxAttempts = 1
    MaxFaults <- EveryFault
SPECIFICATION SystemSpec
CONSTRAINT FewFaults
INVARIANTS
    SystemTypeOK
    OutcomesHappened
    NoLeftoverOutcome
    InstallingAfterDownload
    NoOutcomeLost
    NoTargetStranded
    UnstartedRunIsQueued
    FlushesOldestFirst
    OldestIsDue
CHECK_DEADLOCK FALSE

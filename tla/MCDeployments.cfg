CONSTANTS
    Clients = {c1, c2}
    Packages = {p1}
    NoPackage = NoPackage
    Unset = Unset
    Reports <- MixedBodies
    MaxBatches = 2
    MaxDownloads = 1
    MaxDeletions = 1
SPECIFICATION Spec
CONSTRAINT FewDownloads
SYMMETRY Symmetric
INVARIANTS
    TypeOK
    OneActivePerClient
    OutcomeOnRecord
    OutcomeAuditedOnce
    HistoryShowsActive
    SummaryAgrees
PROPERTY ImplementsLifecycle
CHECK_DEADLOCK FALSE

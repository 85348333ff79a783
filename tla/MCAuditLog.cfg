CONSTANTS
    Clients = {c1}
    NoClient = NoClient
    Unset = Unset
    PageSize = 2
    SecondsPerDay = 2
    MaxRows = 5
    MaxTime = 2
SPECIFICATION AuditLogSpec
INVARIANTS
    AuditLogTypeOK
    NothingSkipped
PROPERTY HistoryIsKept
CHECK_DEADLOCK FALSE

CONSTANTS
    Keys = {k1, k2}
    Guids = {g1, g2}
    NoRow = NoRow
    AuditedEvents = {"CLIENT_KEY_PROVISIONED", "CLIENT_REGISTERED", "CLIENT_DELETED"}
    Editor = Editor
    Runtime = Runtime
    V1 = V1
    V2 = V2
    Blank = Blank
    Installations <- WithBlank
    Scanned = {g1}
    MaxUploads = 2
    MaxLosses = 1
SPECIFICATION FairInventorySpec
INVARIANTS
    InventoryTypeOK
    KeyClaimedOnce
    DeletedStaysDeleted
    OneScanPerClient
PROPERTY InventoryConverges

CONSTANTS
    Editor = Editor
    Viewer = Viewer
    VendorA = VendorA
    VendorB = VendorB
    Nightly = Nightly
    NoPublisher = NoPublisher
    NoUpload = NoUpload
    Unparseable <- UnparseableVersions
    Uploads <- SampleUploads
    Records <- InventoryRecords
    Base = 16
    MaxSegments = 3
    MaxPackages = 3
    MaxFiles = 4
    MaxConflicts = 1
SPECIFICATION RepositorySpec
INVARIANTS
    RepositoryTypeOK
    OneApprovedPerIdentity
    InstallerComplete
    ApprovalAudited
    NoUpdateMissed
PROPERTY ImplementsApprovals
CHECK_DEADLOCK FALSE

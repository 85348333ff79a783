CONSTANTS
    Entries <- SampleEntries
    Absent = Absent
    Torn = Torn
SPECIFICATION ReportFileSpec
CONSTRAINT FewVersions
INVARIANTS
    ReportFileTypeOK
    FileIsTrusted
PROPERTY ImplementsQueue
CHECK_DEADLOCK FALSE

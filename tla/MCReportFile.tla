---------------------------- MODULE MCReportFile ----------------------------
(* ReportFile with two reports of one target and two of another.           *)
EXTENDS ReportFile, FiniteSets

SampleEntries == [target : {"t1", "t2"}, status : {"Downloading", "Completed"}]

\* Bound: how many versions of the file have not reached the disk.
FewVersions == Cardinality(onDisk) =< 3

=============================================================================

------------------------- MODULE PackageRepository --------------------------
(***************************************************************************)
(* The installer repository: RepositoryService.upload_package and          *)
(* deactivate_package, RepositoryPackageRepository, and the installer      *)
(* files of utils/file_storage.py; and VersionComparisonService, which     *)
(* reads the approved packages.                                            *)
(*                                                                         *)
(* An upload is one `async def` handler that never awaits, so no other     *)
(* handler runs while `upload` is set; it takes several steps here because *)
(* the process can stop between them.  The rows and audit rows of one      *)
(* handler are committed together.                                         *)
(***************************************************************************)
EXTENDS VersionCompare, FiniteSets

CONSTANTS
    Uploads,     \* [name, publisher, version] an administrator may upload
    Records,     \* [name, publisher, version] an agent may find installed
    Base,        \* more than any segment of those versions
    MaxSegments, \* as many segments as any of them has
    NoUpload,    \* stands for "no upload is being handled" and "no row"
    MaxPackages, \* bound: how many rows are created
    MaxFiles,    \* bound: how many files the repository directory holds
    MaxConflicts \* bound: how many rejected duplicates are audited

Packages == 1..MaxPackages
Files == 1..MaxFiles
NoFile == 0

ASSUME RepositoryAssumption ==
    /\ NoUpload \notin Uploads
    /\ MaxPackages \in Nat
    /\ MaxFiles \in Nat
    /\ MaxConflicts \in Nat

\* Versions that fit the bounds.  Both version columns hold 100 characters
\* (String(100), and max_length=100 in the schemas): 10^100 and 100 would do.
Versions == {v \in Seq(0..Base-1) : Len(v) =< MaxSegments}

ASSUME VersionAssumption ==
    /\ Base \in Nat \ {0}
    /\ MaxSegments \in Nat
    /\ \A r \in Uploads \cup Records : r.version \in Versions \cup Unparseable

Events == {"REPOSITORY_PACKAGE_UPLOADED", "REPOSITORY_PACKAGE_SUPERSEDED",
           "REPOSITORY_PACKAGE_DEACTIVATED"}

VARIABLES
    metadata, \* name, publisher and version of each row, NoUpload before it exists
    approval, \* approval_status of each row, "Absent" before it exists
    installer,\* installer_filename of each row
    content,  \* what each file of the repository directory holds
    upload,   \* the upload being handled
    written,  \* the file it is writing or has written
    audit,    \* how many audit rows of each event each package has
    conflicts \* how many REPOSITORY_UPLOAD_CONFLICT audit rows there are

tableVars == <<metadata, approval, installer, audit, conflicts>>
repositoryVars == <<tableVars, content, upload, written>>

RepositoryTypeOK ==
    /\ metadata \in [Packages -> Uploads \cup {NoUpload}]
    /\ approval \in [Packages -> {"Absent", "Approved", "Inactive"}]
    /\ installer \in [Packages -> Files \cup {NoFile}]
    /\ content \in [Files -> {"none", "partial", "complete"}]
    /\ upload \in Uploads \cup {NoUpload}
    /\ written \in Files \cup {NoFile}
    /\ audit \in [Events \X Packages -> Nat]
    /\ conflicts \in 0..MaxConflicts
    /\ \A p \in Packages : approval[p] = "Absent" <=> metadata[p] = NoUpload
    /\ upload = NoUpload <=> written = NoFile
    /\ upload # NoUpload => content[written] # "none"

RepositoryInit ==
    /\ metadata = [p \in Packages |-> NoUpload]
    /\ approval = [p \in Packages |-> "Absent"]
    /\ installer = [p \in Packages |-> NoFile]
    /\ content = [f \in Files |-> "none"]
    /\ upload = NoUpload
    /\ written = NoFile
    /\ audit = [r \in Events \X Packages |-> 0]
    /\ conflicts = 0

-----------------------------------------------------------------------------
(* Queries of RepositoryPackageRepository.                                 *)

list_approved == {p \in Packages : approval[p] = "Approved"}

\* Mutant: supersede only older versions.
OlderApprovedForIdentity(u) ==
    {p \in list_approved : /\ software_identity_matches(u, metadata[p])
                           /\ compare_versions(metadata[p].version, u.version) = "older"}

list_approved_for_identity(u) ==
    {p \in list_approved : software_identity_matches(u, metadata[p])}

get_active_conflict(u) ==
    {p \in list_approved_for_identity(u) : same_version(u.version, metadata[p].version)}

-----------------------------------------------------------------------------
(* Upload.                                                                 *)

\* A duplicate of an approved package is audited and rejected.
RejectDuplicate(u) ==
    /\ upload = NoUpload
    /\ get_active_conflict(u) # {}
    /\ conflicts < MaxConflicts
    /\ conflicts' = conflicts + 1
    /\ UNCHANGED <<metadata, approval, installer, audit, content, upload, written>>

\* A file with a name of its own is opened and written.
BeginUpload(u) ==
    /\ upload = NoUpload
    /\ get_active_conflict(u) = {}
    /\ \E p \in Packages : approval[p] = "Absent"
    /\ \E f \in Files :
            /\ content[f] = "none"
            /\ \A g \in 1..f-1 : content[g] # "none"
            /\ content' = [content EXCEPT ![f] = "partial"]
            /\ written' = f
    /\ upload' = u
    /\ UNCHANGED tableVars

\* Mutant: the error is swallowed and the upload goes on without its file.
RefuseFileAndGoOn ==
    /\ upload # NoUpload
    /\ content[written] = "partial"
    /\ content' = [content EXCEPT ![written] = "none"]
    /\ UNCHANGED <<tableVars, upload, written>>

\* The file is too large or empty: it is removed again, and nothing is audited.
RefuseFile ==
    /\ upload # NoUpload
    /\ content[written] = "partial"
    /\ content' = [content EXCEPT ![written] = "none"]
    /\ upload' = NoUpload
    /\ written' = NoFile
    /\ UNCHANGED tableVars

\* The whole file is on disk, within the limit and not empty.
StoreFile ==
    /\ upload # NoUpload
    /\ content[written] = "partial"
    /\ content' = [content EXCEPT ![written] = "complete"]
    /\ UNCHANGED <<tableVars, upload, written>>

\* Mutant: the row is committed whatever became of the file.
FileWritten == upload # NoUpload
FileStored == upload # NoUpload /\ content[written] = "complete"

\* Row p is created Approved, the packages it supersedes become Inactive.
CommitUpload(p) ==
    /\ FileStored
    /\ approval[p] = "Absent"
    /\ \A q \in 1..p-1 : approval[q] # "Absent"
    /\ LET superseded == list_approved_for_identity(upload)
       IN  /\ approval' = [q \in Packages |->
                    IF q = p THEN "Approved"
                    ELSE IF q \in superseded THEN "Inactive" ELSE approval[q]]
           /\ audit' = [r \in Events \X Packages |->
                    IF \/ r = <<"REPOSITORY_PACKAGE_UPLOADED", p>>
                       \/ r[1] = "REPOSITORY_PACKAGE_SUPERSEDED" /\ r[2] \in superseded
                    THEN audit[r] + 1 ELSE audit[r]]
    /\ metadata' = [metadata EXCEPT ![p] = upload]
    /\ installer' = [installer EXCEPT ![p] = written]
    /\ upload' = NoUpload
    /\ written' = NoFile
    /\ UNCHANGED <<content, conflicts>>

\* The process stops, or the commit fails: what is on disk stays there.
AbandonUpload ==
    /\ upload # NoUpload
    /\ upload' = NoUpload
    /\ written' = NoFile
    /\ UNCHANGED <<tableVars, content>>

-----------------------------------------------------------------------------
(* Deactivation, which may be repeated.                                    *)

\* Mutant: the audit row is written every time.
AuditsDeactivationAlways(p) == TRUE
AuditsDeactivation(p) == approval[p] # "Inactive"

\* Mutant: the request toggles the status.
TogglePackage(p) ==
    /\ upload = NoUpload
    /\ approval[p] # "Absent"
    /\ approval' = [approval EXCEPT ![p] = IF @ = "Inactive" THEN "Approved" ELSE "Inactive"]
    /\ UNCHANGED <<metadata, installer, audit, conflicts, content, upload, written>>

DeactivatePackage(p) ==
    /\ upload = NoUpload
    /\ approval[p] # "Absent"
    /\ approval' = [approval EXCEPT ![p] = "Inactive"]
    /\ audit' = IF AuditsDeactivation(p)
                THEN [audit EXCEPT ![<<"REPOSITORY_PACKAGE_DEACTIVATED", p>>] = @ + 1]
                ELSE audit
    /\ UNCHANGED <<metadata, installer, conflicts, content, upload, written>>

RepositoryNext ==
    \/ \E u \in Uploads : RejectDuplicate(u) \/ BeginUpload(u)
    \/ RefuseFile
    \/ StoreFile
    \/ AbandonUpload
    \/ \E p \in Packages : CommitUpload(p) \/ DeactivatePackage(p)

RepositorySpec == RepositoryInit /\ [][RepositoryNext]_repositoryVars

-----------------------------------------------------------------------------
(* VersionComparisonService: the status of one inventory record.           *)

\* Mutant: the first package found, whatever its version.
AnyMatch(record) == list_approved_for_identity(record)

\* The candidates _select_best_match may return: those with the highest
\* version, or all of them when none has a version that can be parsed.
BestMatches(record) ==
    LET candidates == list_approved_for_identity(record)
        parseable == {p \in candidates : metadata[p].version \notin Unparseable}
    IN  IF parseable = {} THEN candidates
        ELSE {p \in parseable : \A q \in parseable :
                ~TupleLess(metadata[p].version, metadata[q].version)}

\* The update status of an inventory record whose best match is p.
StatusAgainst(record, p) ==
    CASE compare_versions(record.version, metadata[p].version) = "None"  -> "NOT_MANAGED"
      [] compare_versions(record.version, metadata[p].version) = "older" -> "UPDATE_AVAILABLE"
      [] OTHER -> "UP_TO_DATE"

\* The update statuses the service may give a record.
Classify(record) ==
    IF BestMatches(record) = {} THEN {"NOT_MANAGED"}
    ELSE {StatusAgainst(record, p) : p \in BestMatches(record)}

-----------------------------------------------------------------------------
(* Properties.                                                             *)

\* Repository identity: no two approved packages match as the same software,
\* although matching is not transitive (a package without a publisher
\* matches those of every vendor): _supersede_previous_approved.
OneApprovedPerIdentity ==
    \A p, q \in list_approved :
        p # q => ~software_identity_matches(metadata[p], metadata[q])

\* Every package, approved or not, has an installer file of its own that was
\* written completely, and the upload in progress does not touch it: a
\* refused, interrupted or later upload never damages what a deployment
\* downloads (save_and_hash, upload_package).
InstallerComplete ==
    \A p \in Packages : approval[p] # "Absent" =>
        /\ installer[p] \in Files \ {written}
        /\ content[installer[p]] = "complete"
        /\ \A q \in Packages \ {p} : installer[q] # installer[p]

\* The audit trail explains the approval status: a package was uploaded once
\* when it exists, and left the approved ones once, superseded or
\* deactivated, when it is inactive; repeated deactivations add nothing.
ApprovalAudited ==
    \A p \in Packages :
        /\ audit[<<"REPOSITORY_PACKAGE_UPLOADED", p>>] = IF approval[p] = "Absent" THEN 0 ELSE 1
        /\ audit[<<"REPOSITORY_PACKAGE_SUPERSEDED", p>>] + audit[<<"REPOSITORY_PACKAGE_DEACTIVATED", p>>]
                = IF approval[p] = "Inactive" THEN 1 ELSE 0

\* A version as a number, its segments the digits in this base.
Value(v) ==
    LET sum[n \in 0..MaxSegments] ==
            IF n = 0 THEN 0 ELSE Base * sum[n - 1] + Segment(v, n)
    IN  sum[MaxSegments]

\* A record is up to date or has an update exactly when it and some approved
\* package of its identity can be compared, and an update exactly when one of
\* these is newer.
JudgedByValue(record) ==
    LET comparable == {p \in list_approved :
            /\ software_identity_matches(record, metadata[p])
            /\ {metadata[p].version, record.version} \cap Unparseable = {}}
    IN  Classify(record) =
            {IF comparable = {} THEN "NOT_MANAGED"
             ELSE IF \E p \in comparable : Value(metadata[p].version) > Value(record.version)
             THEN "UPDATE_AVAILABLE" ELSE "UP_TO_DATE"}

\* FR-007, against the numeric value of versions: no update is missed, and
\* none invented, because the service compared a record with another of its
\* candidates (VersionComparisonService._select_best_match, _classify).
NoUpdateMissed == \A record \in Records : JudgedByValue(record)

\* The deployment tables as they stand before any client or batch exists.
Deploying == INSTANCE Deployments WITH
    Clients <- {}, NoPackage <- NoFile, Reports <- {},
    MaxBatches <- 0, MaxDownloads <- 0, MaxDeletions <- 0,
    registered <- {}, batches <- 0, packageOf <- <<>>, status <- <<>>,
    exitCode <- <<>>, errorMessage <- <<>>, completionTime <- <<>>, audit <- <<>>

\* The repository does to the approval statuses what the deployment service's
\* model lets its environment do: a package is approved once, by its upload,
\* and an inactive package is never approved again.
ImplementsApprovals ==
    Deploying!Init /\ [][\E p \in Packages :
        \/ Deploying!DeactivatePackage(p)
        \/ \E superseded \in SUBSET Packages : Deploying!UploadPackage(p, superseded)]_approval

=============================================================================

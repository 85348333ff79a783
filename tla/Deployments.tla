---------------------------- MODULE Deployments ----------------------------
(***************************************************************************)
(* The server's deployment tables and the operations on them:              *)
(* DeploymentService and DeploymentRepository behind the routers           *)
(* api/routers/deployments.py (administrator) and api/routers/agent.py     *)
(* (Client Agent), and the deletion of a client, which removes rows of     *)
(* these tables.                                                           *)
(*                                                                         *)
(* Every handler is an `async def` that never awaits before it has         *)
(* committed, so one handler is one step.  A client is authenticated in a  *)
(* dependency that runs earlier, on another thread: the client named by a  *)
(* request may have been deleted since, so the agent's operations are not  *)
(* guarded by `registered`.                                                *)
(*                                                                         *)
(* A DeploymentTarget row is identified by its (deployment, client) pair,  *)
(* which the table declares unique; deployments are numbered in the order  *)
(* they are created.                                                       *)
(***************************************************************************)
EXTENDS DeploymentStatus, Naturals

CONSTANTS
    Clients,     \* client machines
    Packages,    \* repository packages
    NoPackage,   \* stands for "no such batch yet"
    Reports,     \* the status reports clients send
    MaxBatches,  \* bound: how many batches are created
    MaxDownloads,\* bound: how often each download request is audited
    MaxDeletions \* bound: how often a client is deleted

\* The exit_code of a report or of a row: nothing, 0 or an error code.
ExitCodes == {"none", "zero", "nonzero"}

\* The request bodies the schema lets through: a Failed report has an
\* error_message; any report may have one, and an exit_code.
AllReports ==
    {r \in [status : CLIENT_REPORTABLE_STATUSES, exitCode : ExitCodes, error : BOOLEAN] :
        r.status = "Failed" => r.error}

ASSUME ConstantsAssumption ==
    /\ NoPackage \notin Packages
    /\ Reports \subseteq AllReports
    /\ MaxBatches \in Nat
    /\ MaxDownloads \in Nat
    /\ MaxDeletions \in Nat

Batches == 1..MaxBatches
Targets == Batches \X Clients
BatchOf(t) == t[1]
ClientOf(t) == t[2]

\* Mutant: a copied line that was not adapted.
OutcomeEventCopied == [Completed |-> "DEPLOYMENT_COMPLETED",
                       Failed    |-> "DEPLOYMENT_COMPLETED",
                       Cancelled |-> "DEPLOYMENT_CANCELLED"]

\* The audit event that records how a target ended.
OutcomeEvent == [Completed |-> "DEPLOYMENT_COMPLETED",
                 Failed    |-> "DEPLOYMENT_FAILED",
                 Cancelled |-> "DEPLOYMENT_CANCELLED"]

\* What an audit row is about: a target, a batch or a client.
TargetEvents == {"DEPLOYMENT_COMPLETED", "DEPLOYMENT_FAILED",
                 "DEPLOYMENT_CANCELLED", "INSTALLER_DOWNLOAD"}
ClientEvents == {"INSTALLER_DOWNLOAD_REJECTED", "INSTALLER_FILE_MISSING",
                 "CLIENT_DELETED"}
AuditRows == (TargetEvents \X Targets) \cup (ClientEvents \X Clients)
                \cup ({"DEPLOYMENT_CREATED"} \X Batches)

VARIABLES
    registered,      \* the clients that have a row in `clients`
    approval,        \* approval_status of each package, "Absent" before upload
    batches,         \* number of Deployment rows created so far
    packageOf,       \* repository_id of each batch
    status,          \* status of each target, "NoRow" where there is no row
    exitCode,        \* exit_code of each target
    errorMessage,    \* does the target have an error_message?
    completionTime,  \* does the target have a completion_time?
    audit            \* how many audit_logs rows of each kind there are

rowVars == <<status, exitCode, errorMessage, completionTime>>
vars == <<registered, approval, batches, packageOf, rowVars, audit>>

TypeOK ==
    /\ registered \subseteq Clients
    /\ approval \in [Packages -> {"Absent", "Approved", "Inactive"}]
    /\ batches \in 0..MaxBatches
    /\ packageOf \in [Batches -> Packages \cup {NoPackage}]
    /\ status \in [Targets -> Statuses \cup {"NoRow"}]
    /\ exitCode \in [Targets -> ExitCodes]
    /\ errorMessage \in [Targets -> BOOLEAN]
    /\ completionTime \in [Targets -> BOOLEAN]
    /\ audit \in [AuditRows -> Nat]

Init ==
    /\ registered = {}
    /\ approval = [p \in Packages |-> "Absent"]
    /\ batches = 0
    /\ packageOf = [b \in Batches |-> NoPackage]
    /\ status = [t \in Targets |-> "NoRow"]
    /\ exitCode = [t \in Targets |-> "none"]
    /\ errorMessage = [t \in Targets |-> FALSE]
    /\ completionTime = [t \in Targets |-> FALSE]
    /\ audit = [r \in AuditRows |-> 0]

-----------------------------------------------------------------------------
(* Queries of DeploymentRepository.                                        *)

TargetsOf(c) == {t \in Targets : ClientOf(t) = c /\ status[t] # "NoRow"}

ActiveTargetsOf(c) == {t \in TargetsOf(c) : status[t] \in ACTIVE_DEPLOYMENT_STATUSES}

\* The oldest Pending target of c, as a set of at most one target.
PendingTargetOf(c) ==
    LET pending == {t \in TargetsOf(c) : status[t] = "Pending"}
    IN  {t \in pending : \A u \in pending : BatchOf(t) =< BatchOf(u)}

-----------------------------------------------------------------------------
(* The environment of the deployment tables: registration of clients and   *)
(* the package repository, as far as the deployment service reads them.    *)

RegisterClient(c) ==
    /\ c \notin registered
    /\ registered' = registered \cup {c}
    /\ UNCHANGED <<approval, batches, packageOf, rowVars, audit>>

\* An upload approves p and supersedes the older packages of its identity;
\* which packages share an identity is not decided here.
UploadPackage(p, superseded) ==
    /\ approval[p] = "Absent"
    /\ \A q \in superseded : approval[q] = "Approved"
    /\ approval' = [q \in Packages |->
                        IF q = p THEN "Approved"
                        ELSE IF q \in superseded THEN "Inactive" ELSE approval[q]]
    /\ UNCHANGED <<registered, batches, packageOf, rowVars, audit>>

DeactivatePackage(p) ==
    /\ approval[p] = "Approved"
    /\ approval' = [approval EXCEPT ![p] = "Inactive"]
    /\ UNCHANGED <<registered, batches, packageOf, rowVars, audit>>

-----------------------------------------------------------------------------
(* Administrator operations.                                               *)

Audited(row) == audit' = [audit EXCEPT ![row] = @ + 1]

\* Business Rule 9 as the service checks it before it creates a batch.
PendingCheckOnly(clients) == \A c \in clients : PendingTargetOf(c) = {}  \* mutant
NoActiveDeployments(clients) == \A c \in clients : ActiveTargetsOf(c) = {}

CreateDeployment(p, clients) ==
    /\ batches < MaxBatches
    /\ approval[p] = "Approved"
    /\ clients # {} /\ clients \subseteq registered
    /\ NoActiveDeployments(clients)
    /\ batches' = batches + 1
    /\ packageOf' = [packageOf EXCEPT ![batches + 1] = p]
    /\ status' = [t \in Targets |->
                    IF BatchOf(t) = batches + 1 /\ ClientOf(t) \in clients
                    THEN "Pending" ELSE status[t]]
    /\ Audited(<<"DEPLOYMENT_CREATED", batches + 1>>)
    /\ UNCHANGED <<registered, approval, exitCode, errorMessage, completionTime>>

CancellableWhileActive(t) == status[t] \in ACTIVE_DEPLOYMENT_STATUSES  \* mutant
Cancellable(t) == status[t] = "Pending"

\* Mutant: a status written as the schema does not spell it.
CancelMisspelt(t) ==
    /\ Cancellable(t)
    /\ status' = [status EXCEPT ![t] = "Canceled"]
    /\ UNCHANGED <<registered, approval, batches, packageOf,
                   exitCode, errorMessage, completionTime, audit>>

CancelDeploymentTarget(t) ==
    /\ Cancellable(t)
    /\ status' = [status EXCEPT ![t] = "Cancelled"]
    /\ Audited(<<OutcomeEvent.Cancelled, t>>)
    /\ UNCHANGED <<registered, approval, batches, packageOf,
                   exitCode, errorMessage, completionTime>>

\* Mutant: no cascade.
DeleteClientOnly(c) ==
    /\ c \in registered
    /\ audit[<<"CLIENT_DELETED", c>>] < MaxDeletions
    /\ registered' = registered \ {c}
    /\ Audited(<<"CLIENT_DELETED", c>>)
    /\ UNCHANGED <<approval, batches, packageOf, rowVars>>

\* The ORM cascade of Client.deployment_targets deletes the client's target
\* rows with it; its audit rows stay.
DeleteClient(c) ==
    /\ c \in registered
    /\ audit[<<"CLIENT_DELETED", c>>] < MaxDeletions
    /\ registered' = registered \ {c}
    /\ status' = [t \in Targets |-> IF ClientOf(t) = c THEN "NoRow" ELSE status[t]]
    /\ exitCode' = [t \in Targets |-> IF ClientOf(t) = c THEN "none" ELSE exitCode[t]]
    /\ errorMessage' = [t \in Targets |-> ClientOf(t) # c /\ errorMessage[t]]
    /\ completionTime' = [t \in Targets |-> ClientOf(t) # c /\ completionTime[t]]
    /\ Audited(<<"CLIENT_DELETED", c>>)
    /\ UNCHANGED <<approval, batches, packageOf>>

-----------------------------------------------------------------------------
(* Client Agent operations.  poll_pending_deployment only reads; it is     *)
(* PendingTargetOf.                                                        *)

\* 404: no such target for this client.  The audit row names the client, so
\* it cannot be written once the client's own row is gone.
RejectDownload(c, t) ==
    /\ t \notin TargetsOf(c)
    /\ c \in registered
    /\ audit[<<"INSTALLER_DOWNLOAD_REJECTED", c>>] < MaxDownloads
    /\ Audited(<<"INSTALLER_DOWNLOAD_REJECTED", c>>)
    /\ UNCHANGED <<registered, approval, batches, packageOf, rowVars>>

Downloadable(c, t) == t \in TargetsOf(c) /\ status[t] \in DOWNLOADABLE_STATUSES

\* 500: the installer file is not in the repository directory.
FailDownload(c, t) ==
    /\ Downloadable(c, t)
    /\ audit[<<"INSTALLER_FILE_MISSING", c>>] < MaxDownloads
    /\ Audited(<<"INSTALLER_FILE_MISSING", c>>)
    /\ UNCHANGED <<registered, approval, batches, packageOf, rowVars>>

ServeDownload(c, t) ==
    /\ Downloadable(c, t)
    /\ audit[<<"INSTALLER_DOWNLOAD", t>>] < MaxDownloads
    /\ Audited(<<"INSTALLER_DOWNLOAD", t>>)
    /\ UNCHANGED <<registered, approval, batches, packageOf, rowVars>>

\* Mutant: any reportable status is taken, whatever came before.
AcceptsAnyReport(c, t, s) == t \in TargetsOf(c)

\* The report is answered 200: it repeats the current status or is a legal
\* transition from it.
AcceptsReport(c, t, s) ==
    /\ t \in TargetsOf(c)
    /\ \/ s = status[t]
       \/ /\ status[t] \notin TERMINAL_DEPLOYMENT_STATUSES
          /\ s \in NextStatuses(status[t])

\* A report r that changes the row.  Values it does not carry are left as
\* they are.
ReportStatus(c, t, r) ==
    /\ AcceptsReport(c, t, r.status) /\ r.status # status[t]
    /\ status' = [status EXCEPT ![t] = r.status]
    /\ exitCode' = [exitCode EXCEPT ![t] = IF r.exitCode = "none" THEN @ ELSE r.exitCode]
    /\ errorMessage' = [errorMessage EXCEPT ![t] = r.error \/ @]
    /\ completionTime' = [completionTime EXCEPT
                            ![t] = r.status \in {"Completed", "Failed"} \/ @]
    /\ IF r.status \in {"Completed", "Failed"}
       THEN Audited(<<OutcomeEvent[r.status], t>>)
       ELSE UNCHANGED audit
    /\ UNCHANGED <<registered, approval, batches, packageOf>>

-----------------------------------------------------------------------------
AdminNext ==
    \/ \E p \in Packages, clients \in SUBSET Clients : CreateDeployment(p, clients)
    \/ \E t \in Targets : CancelDeploymentTarget(t)
    \/ \E c \in Clients : DeleteClient(c)

AgentNext ==
    \E c \in Clients, t \in Targets :
        \/ RejectDownload(c, t)
        \/ FailDownload(c, t)
        \/ ServeDownload(c, t)
        \/ \E r \in Reports : ReportStatus(c, t, r)

EnvironmentNext ==
    \/ \E c \in Clients : RegisterClient(c)
    \/ \E p \in Packages, superseded \in SUBSET Packages : UploadPackage(p, superseded)
    \/ \E p \in Packages : DeactivatePackage(p)

Next == AdminNext \/ AgentNext \/ EnvironmentNext

Spec == Init /\ [][Next]_vars

-----------------------------------------------------------------------------
(* Properties.                                                             *)

\* Business Rule 9: a client never has two targets that are still being
\* processed, whatever batches, reports, cancellations and deletions came
\* before (_validate_no_active_deployments and the batch it guards).
OneActivePerClient ==
    \A c \in Clients : \A t, u \in ActiveTargetsOf(c) : t = u

\* The row and the audit trail tell the same story: a target has exactly the
\* one outcome audit row of its terminal status and none before, a completion
\* time exactly when it finished on the client, and an error if it Failed.
OutcomeOnRecord ==
    \A t \in Targets :
        status[t] # "NoRow" =>
            /\ \A s \in TERMINAL_DEPLOYMENT_STATUSES :
                    audit[<<OutcomeEvent[s], t>>] = IF status[t] = s THEN 1 ELSE 0
            /\ completionTime[t] <=> status[t] \in {"Completed", "Failed"}
            /\ status[t] = "Failed" => errorMessage[t]

\* How many outcomes of each target the audit trail holds.
Outcomes == [t \in Targets |-> audit[<<"DEPLOYMENT_COMPLETED", t>>]
                                + audit[<<"DEPLOYMENT_FAILED", t>>]
                                + audit[<<"DEPLOYMENT_CANCELLED", t>>]]

Lifecycle == INSTANCE TargetLifecycle WITH
    phase <- status, opened <- 1..batches, published <- Outcomes

\* Seen through its rows and its audit trail, the deployment service keeps the
\* promise of TargetLifecycle: every handler is one abstract step or none.
ImplementsLifecycle == Lifecycle!Spec

\* No target's outcome is audited twice, not even when the client's rows were
\* deleted and its agent still reports: the audit trail can be counted.
OutcomeAuditedOnce == Lifecycle!PublishedOnce

=============================================================================

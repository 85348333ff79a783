-------------------------- MODULE DeploymentsProofs --------------------------
(* What holds of Deployments for every set of clients and packages, every   *)
(* set of reports and every bound.                                          *)
EXTENDS DeploymentMonitor, FiniteSetTheorems, TLAPS

-----------------------------------------------------------------------------
(* Type correctness.                                                        *)

LEMMA InitType == Init => TypeOK
BY ConstantsAssumption DEF Init, TypeOK, ExitCodes

\* An audit row is counted by adding one to a natural number.
LEMMA AuditedType ==
    ASSUME audit \in [AuditRows -> Nat], NEW row \in AuditRows, Audited(row)
    PROVE  audit' \in [AuditRows -> Nat]
BY DEF Audited

LEMMA RowsOfTheLog ==
    /\ \A e \in TargetEvents, t \in Targets : <<e, t>> \in AuditRows
    /\ \A e \in ClientEvents, c \in Clients : <<e, c>> \in AuditRows
    /\ \A b \in Batches : <<"DEPLOYMENT_CREATED", b>> \in AuditRows
BY DEF AuditRows

LEMMA NextType == TypeOK /\ [Next]_vars => TypeOK'
<1> SUFFICES ASSUME TypeOK, [Next]_vars PROVE TypeOK'
  OBVIOUS
<1> USE DEF TypeOK
<1>1. ASSUME NEW p \in Packages, NEW clients \in SUBSET Clients,
             CreateDeployment(p, clients)
      PROVE  TypeOK'
  <2>1. batches + 1 \in Batches /\ batches' \in 0..MaxBatches
    BY <1>1, ConstantsAssumption DEF CreateDeployment, Batches
  <2>2. audit' \in [AuditRows -> Nat]
    BY <1>1, <2>1, RowsOfTheLog, AuditedType DEF CreateDeployment
  <2>3. packageOf' \in [Batches -> Packages \cup {NoPackage}]
    BY <1>1 DEF CreateDeployment
  <2>4. status' \in [Targets -> Statuses \cup {"NoRow"}]
    BY <1>1 DEF CreateDeployment, Statuses, ACTIVE_DEPLOYMENT_STATUSES
  <2> QED
    BY <1>1, <2>1, <2>2, <2>3, <2>4 DEF CreateDeployment
<1>2. ASSUME NEW t \in Targets, CancelDeploymentTarget(t) PROVE TypeOK'
  <2>1. audit' \in [AuditRows -> Nat]
    BY <1>2, RowsOfTheLog, AuditedType
       DEF CancelDeploymentTarget, TargetEvents, OutcomeEvent
  <2> QED
    BY <1>2, <2>1 DEF CancelDeploymentTarget, Statuses, TERMINAL_DEPLOYMENT_STATUSES
<1>3. ASSUME NEW c \in Clients, DeleteClient(c) PROVE TypeOK'
  <2>1. audit' \in [AuditRows -> Nat]
    BY <1>3, RowsOfTheLog, AuditedType DEF DeleteClient, ClientEvents
  <2>2. status' \in [Targets -> Statuses \cup {"NoRow"}]
    BY <1>3 DEF DeleteClient
  <2>3. exitCode' \in [Targets -> ExitCodes]
    BY <1>3 DEF DeleteClient, ExitCodes
  <2>4. errorMessage' \in [Targets -> BOOLEAN] /\ completionTime' \in [Targets -> BOOLEAN]
    BY <1>3 DEF DeleteClient
  <2> QED
    BY <1>3, <2>1, <2>2, <2>3, <2>4 DEF DeleteClient
<1>4. ASSUME NEW c \in Clients, NEW t \in Targets,
             RejectDownload(c, t) \/ FailDownload(c, t) \/ ServeDownload(c, t)
      PROVE  TypeOK'
  <2>1. audit' \in [AuditRows -> Nat]
    BY <1>4, RowsOfTheLog, AuditedType
       DEF RejectDownload, FailDownload, ServeDownload, ClientEvents, TargetEvents
  <2> QED
    BY <1>4, <2>1 DEF RejectDownload, FailDownload, ServeDownload, rowVars
<1>5. ASSUME NEW c \in Clients, NEW t \in Targets, NEW r \in Reports, ReportStatus(c, t, r)
      PROVE  TypeOK'
  <2>1. r.status \in Statuses /\ r.exitCode \in ExitCodes /\ r.error \in BOOLEAN
    BY ConstantsAssumption
       DEF AllReports, CLIENT_REPORTABLE_STATUSES, Statuses,
           ACTIVE_DEPLOYMENT_STATUSES, TERMINAL_DEPLOYMENT_STATUSES
  <2>2. audit' \in [AuditRows -> Nat]
    <3>1. CASE r.status \in {"Completed", "Failed"}
      <4>1. OutcomeEvent[r.status] \in TargetEvents
        BY <3>1 DEF OutcomeEvent, TargetEvents
      <4> QED
        BY <1>5, <3>1, <4>1, RowsOfTheLog, AuditedType DEF ReportStatus
    <3>2. CASE r.status \notin {"Completed", "Failed"}
      BY <1>5, <3>2 DEF ReportStatus
    <3> QED
      BY <3>1, <3>2
  <2>3. status' \in [Targets -> Statuses \cup {"NoRow"}]
    BY <1>5, <2>1 DEF ReportStatus
  <2>4. exitCode' \in [Targets -> ExitCodes]
    BY <1>5, <2>1 DEF ReportStatus
  <2>5. errorMessage' \in [Targets -> BOOLEAN] /\ completionTime' \in [Targets -> BOOLEAN]
    BY <1>5, <2>1 DEF ReportStatus
  <2> QED
    BY <1>5, <2>2, <2>3, <2>4, <2>5 DEF ReportStatus
<1>6. ASSUME EnvironmentNext PROVE TypeOK'
  BY <1>6 DEF EnvironmentNext, RegisterClient, UploadPackage, DeactivatePackage, rowVars
<1>7. CASE UNCHANGED vars
  BY <1>7 DEF vars, rowVars
<1> QED
  BY <1>1, <1>2, <1>3, <1>4, <1>5, <1>6, <1>7 DEF Next, AdminNext, AgentNext

\* In every reachable state the tables hold values of their declared types.
THEOREM TypeCorrect == Spec => []TypeOK
<1>1. Init => TypeOK
  BY InitType
<1>2. TypeOK /\ [Next]_vars => TypeOK'
  BY NextType
<1> QED
  BY <1>1, <1>2, PTL DEF Spec

-----------------------------------------------------------------------------
(* Business Rule 9.                                                         *)

\* A target is active when its row is in an active status.
LEMMA ActiveTargets ==
    \A c \in Clients, t \in Targets :
        t \in ActiveTargetsOf(c) <=>
            ClientOf(t) = c /\ status[t] \in ACTIVE_DEPLOYMENT_STATUSES
BY DEF ActiveTargetsOf, TargetsOf, ACTIVE_DEPLOYMENT_STATUSES

\* A step that makes no target active keeps the rule.
LEMMA NoNewActive ==
    ASSUME OneActivePerClient,
           \A t \in Targets : status'[t] \in ACTIVE_DEPLOYMENT_STATUSES
                                => status[t] \in ACTIVE_DEPLOYMENT_STATUSES
    PROVE  OneActivePerClient'
BY DEF OneActivePerClient, ActiveTargetsOf, TargetsOf, ACTIVE_DEPLOYMENT_STATUSES

LEMMA NextOneActive ==
    TypeOK /\ OneActivePerClient /\ [Next]_vars => OneActivePerClient'
<1> SUFFICES ASSUME TypeOK, OneActivePerClient, [Next]_vars PROVE OneActivePerClient'
  OBVIOUS
<1>1. ASSUME NEW p \in Packages, NEW clients \in SUBSET Clients,
             CreateDeployment(p, clients)
      PROVE  OneActivePerClient'
  <2> SUFFICES ASSUME NEW t \in Targets, NEW u \in Targets, ClientOf(t) = ClientOf(u),
                      status'[t] \in ACTIVE_DEPLOYMENT_STATUSES,
                      status'[u] \in ACTIVE_DEPLOYMENT_STATUSES
               PROVE  t = u
    BY DEF OneActivePerClient, ActiveTargetsOf, TargetsOf
  <2>1. ClientOf(t) \in Clients
    BY DEF Targets, ClientOf
  <2>2. CASE ClientOf(t) \in clients
    <3>1. status[t] \notin ACTIVE_DEPLOYMENT_STATUSES
      BY <1>1, <2>1, <2>2, ActiveTargets DEF CreateDeployment, NoActiveDeployments
    <3>2. status[u] \notin ACTIVE_DEPLOYMENT_STATUSES
      BY <1>1, <2>1, <2>2, ActiveTargets DEF CreateDeployment, NoActiveDeployments
    <3>3. BatchOf(t) = batches + 1 /\ BatchOf(u) = batches + 1
      BY <1>1, <3>1, <3>2 DEF CreateDeployment
    <3> QED
      BY <3>3 DEF Targets, BatchOf, ClientOf
  <2>3. CASE ClientOf(t) \notin clients
    <3>1. status'[t] = status[t] /\ status'[u] = status[u]
      BY <1>1, <2>3 DEF CreateDeployment
    <3> QED
      BY <2>1, <3>1, ActiveTargets DEF OneActivePerClient
  <2> QED
    BY <2>2, <2>3
<1>2. ASSUME NEW t \in Targets, CancelDeploymentTarget(t) PROVE OneActivePerClient'
  BY <1>2, NoNewActive DEF CancelDeploymentTarget, Cancellable, TypeOK, ACTIVE_DEPLOYMENT_STATUSES
<1>3. ASSUME NEW c \in Clients, DeleteClient(c) PROVE OneActivePerClient'
  BY <1>3, NoNewActive DEF DeleteClient, ACTIVE_DEPLOYMENT_STATUSES
<1>4. ASSUME NEW c \in Clients, NEW t \in Targets, NEW r \in Reports, ReportStatus(c, t, r)
      PROVE  OneActivePerClient'
  <2>1. status[t] \in ACTIVE_DEPLOYMENT_STATUSES
    BY <1>4 DEF ReportStatus, AcceptsReport, NextStatuses, STATUS_TRANSITIONS,
                ACTIVE_DEPLOYMENT_STATUSES
  <2> QED
    BY <1>4, <2>1, NoNewActive DEF ReportStatus, TypeOK
<1>5. ASSUME UNCHANGED status PROVE OneActivePerClient'
  BY <1>5, NoNewActive
<1> QED
  BY <1>1, <1>2, <1>3, <1>4, <1>5
     DEF Next, AdminNext, AgentNext, EnvironmentNext, RejectDownload, FailDownload,
         ServeDownload, RegisterClient, UploadPackage, DeactivatePackage, vars, rowVars

\* Business Rule 9, for any number of clients and batches: no client ever has
\* two targets that are still being processed.
THEOREM BusinessRule9 == Spec => []OneActivePerClient
<1>1. Init => OneActivePerClient
  BY DEF Init, OneActivePerClient, ActiveTargetsOf, TargetsOf
<1>2. TypeOK /\ OneActivePerClient /\ [Next]_vars => OneActivePerClient'
  BY NextOneActive
<1> QED
  BY <1>1, <1>2, TypeCorrect, PTL DEF Spec

-----------------------------------------------------------------------------
(* The rows and the audit trail agree.  OutcomeOnRecord alone is not        *)
(* inductive: it says nothing of a target before it has a row, and a row    *)
(* must not inherit a completion time or an outcome when it is created.     *)

Untouched(t) ==
    /\ ~completionTime[t]
    /\ \A s \in TERMINAL_DEPLOYMENT_STATUSES : audit[<<OutcomeEvent[s], t>>] = 0

UnopenedUntouched ==
    \A t \in Targets : BatchOf(t) > batches => status[t] = "NoRow" /\ Untouched(t)

RecordInv == OutcomeOnRecord /\ UnopenedUntouched

LEMMA OutcomeRows ==
    \A t \in Targets, s \in TERMINAL_DEPLOYMENT_STATUSES :
        <<OutcomeEvent[s], t>> \in AuditRows
BY DEF AuditRows, TargetEvents, OutcomeEvent, TERMINAL_DEPLOYMENT_STATUSES

\* Auditing one row leaves the count of every other row alone.
LEMMA AuditedOther ==
    ASSUME audit \in [AuditRows -> Nat], NEW row \in AuditRows, Audited(row)
    PROVE  /\ audit'[row] = audit[row] + 1
           /\ \A r \in AuditRows : r # row => audit'[r] = audit[r]
BY DEF Audited

\* An event that is not an outcome of t disturbs no outcome of t.
LEMMA OtherEvent ==
    ASSUME audit \in [AuditRows -> Nat], NEW row \in AuditRows, Audited(row),
           row[1] \notin {"DEPLOYMENT_COMPLETED", "DEPLOYMENT_FAILED", "DEPLOYMENT_CANCELLED"}
    PROVE  \A t \in Targets, s \in TERMINAL_DEPLOYMENT_STATUSES :
                audit'[<<OutcomeEvent[s], t>>] = audit[<<OutcomeEvent[s], t>>]
<1>1. \A t \in Targets, s \in TERMINAL_DEPLOYMENT_STATUSES : <<OutcomeEvent[s], t>> # row
  BY DEF OutcomeEvent, TERMINAL_DEPLOYMENT_STATUSES
<1> QED
  BY <1>1, AuditedOther, OutcomeRows

\* Concluding t with outcome o disturbs no other outcome.
LEMMA OwnOutcome ==
    ASSUME audit \in [AuditRows -> Nat], NEW t \in Targets,
           NEW o \in TERMINAL_DEPLOYMENT_STATUSES, Audited(<<OutcomeEvent[o], t>>)
    PROVE  \A u \in Targets, s \in TERMINAL_DEPLOYMENT_STATUSES :
                audit'[<<OutcomeEvent[s], u>>] =
                    IF u = t /\ s = o THEN audit[<<OutcomeEvent[s], u>>] + 1
                                      ELSE audit[<<OutcomeEvent[s], u>>]
<1> TAKE u \in Targets, s \in TERMINAL_DEPLOYMENT_STATUSES
<1>1. <<OutcomeEvent[s], u>> = <<OutcomeEvent[o], t>> <=> u = t /\ s = o
  BY DEF OutcomeEvent, TERMINAL_DEPLOYMENT_STATUSES
<1> QED
  BY <1>1, AuditedOther, OutcomeRows

\* A step that gives an active target its outcome, with the audit row, the
\* completion time and the error that belong to it, keeps the agreement.
LEMMA Concluded ==
    ASSUME TypeOK, RecordInv, NEW t \in Targets, status[t] \in ACTIVE_DEPLOYMENT_STATUSES,
           NEW o \in TERMINAL_DEPLOYMENT_STATUSES, Audited(<<OutcomeEvent[o], t>>),
           status' = [status EXCEPT ![t] = o], batches' = batches,
           completionTime'[t] <=> o \in {"Completed", "Failed"},
           \A u \in Targets : u # t => completionTime'[u] = completionTime[u],
           o = "Failed" => errorMessage'[t],
           \A u \in Targets : u # t => errorMessage'[u] = errorMessage[u]
    PROVE  RecordInv'
<1> USE DEF RecordInv, OutcomeOnRecord, UnopenedUntouched, Untouched
<1>1. /\ status'[t] = o
      /\ \A u \in Targets : u # t => status'[u] = status[u]
  BY DEF TypeOK
<1>2. \A u \in Targets, s \in TERMINAL_DEPLOYMENT_STATUSES :
            audit'[<<OutcomeEvent[s], u>>] =
                IF u = t /\ s = o THEN audit[<<OutcomeEvent[s], u>>] + 1
                                  ELSE audit[<<OutcomeEvent[s], u>>]
  BY OwnOutcome DEF TypeOK
<1>3. status[t] # "NoRow" /\ status[t] \notin TERMINAL_DEPLOYMENT_STATUSES
  BY DEF ACTIVE_DEPLOYMENT_STATUSES, TERMINAL_DEPLOYMENT_STATUSES
<1>4. \A s \in TERMINAL_DEPLOYMENT_STATUSES : audit[<<OutcomeEvent[s], t>>] = 0
  BY <1>3
<1>5. \A s \in TERMINAL_DEPLOYMENT_STATUSES :
            audit'[<<OutcomeEvent[s], t>>] = IF status'[t] = s THEN 1 ELSE 0
  BY <1>1, <1>2, <1>4
<1>6. ASSUME NEW u \in Targets, status'[u] # "NoRow", u # t
      PROVE  /\ \A s \in TERMINAL_DEPLOYMENT_STATUSES :
                    audit'[<<OutcomeEvent[s], u>>] = IF status'[u] = s THEN 1 ELSE 0
             /\ completionTime'[u] <=> status'[u] \in {"Completed", "Failed"}
             /\ status'[u] = "Failed" => errorMessage'[u]
  BY <1>1, <1>2, <1>6
<1>7. OutcomeOnRecord'
  BY <1>1, <1>5, <1>6
<1>8. UnopenedUntouched'
  BY <1>1, <1>2, <1>3
<1> QED
  BY <1>7, <1>8

LEMMA NextRecord == TypeOK /\ RecordInv /\ [Next]_vars => RecordInv'
<1> SUFFICES ASSUME TypeOK, RecordInv, [Next]_vars PROVE RecordInv'
  OBVIOUS
<1> USE DEF RecordInv, OutcomeOnRecord, UnopenedUntouched, Untouched
<1>0. audit \in [AuditRows -> Nat]
  BY DEF TypeOK
<1>1. ASSUME NEW p \in Packages, NEW clients \in SUBSET Clients,
             CreateDeployment(p, clients)
      PROVE  RecordInv'
  <2>1. batches + 1 \in Batches /\ batches \in Nat
    BY <1>1, ConstantsAssumption DEF CreateDeployment, Batches, TypeOK
  <2>2. \A t \in Targets, s \in TERMINAL_DEPLOYMENT_STATUSES :
            audit'[<<OutcomeEvent[s], t>>] = audit[<<OutcomeEvent[s], t>>]
    BY <1>0, <1>1, <2>1, OtherEvent, RowsOfTheLog DEF CreateDeployment
  <2>3. \A t \in Targets : BatchOf(t) \in Nat
    BY ConstantsAssumption DEF Targets, Batches, BatchOf
  <2> QED
    BY <1>1, <2>1, <2>2, <2>3 DEF CreateDeployment, TERMINAL_DEPLOYMENT_STATUSES
<1>2. ASSUME NEW t \in Targets, CancelDeploymentTarget(t) PROVE RecordInv'
  <2>1. status[t] = "Pending"
    BY <1>2 DEF CancelDeploymentTarget, Cancellable
  <2>2. Audited(<<OutcomeEvent["Cancelled"], t>>)
    BY <1>2 DEF CancelDeploymentTarget, OutcomeEvent
  <2>3. status' = [status EXCEPT ![t] = "Cancelled"]
        /\ UNCHANGED <<batches, errorMessage, completionTime>>
    BY <1>2 DEF CancelDeploymentTarget, Cancellable
  <2> QED
    BY <2>1, <2>2, <2>3, Concluded DEF TERMINAL_DEPLOYMENT_STATUSES, ACTIVE_DEPLOYMENT_STATUSES
<1>3. ASSUME NEW c \in Clients, DeleteClient(c) PROVE RecordInv'
  <2>1. \A t \in Targets, s \in TERMINAL_DEPLOYMENT_STATUSES :
            audit'[<<OutcomeEvent[s], t>>] = audit[<<OutcomeEvent[s], t>>]
    BY <1>0, <1>3, OtherEvent, RowsOfTheLog DEF DeleteClient, ClientEvents
  <2>2. ASSUME NEW t \in Targets
        PROVE  IF ClientOf(t) = c
               THEN status'[t] = "NoRow" /\ ~completionTime'[t]
               ELSE status'[t] = status[t] /\ (completionTime'[t] <=> completionTime[t])
                        /\ (errorMessage'[t] <=> errorMessage[t])
    BY <1>3 DEF DeleteClient
  <2>3. OutcomeOnRecord'
    BY <2>1, <2>2
  <2>4. UnopenedUntouched'
    BY <1>3, <2>1, <2>2 DEF DeleteClient
  <2> QED
    BY <2>3, <2>4
<1>4. ASSUME NEW c \in Clients, NEW t \in Targets,
             RejectDownload(c, t) \/ FailDownload(c, t) \/ ServeDownload(c, t)
      PROVE  RecordInv'
  <2>1. \A u \in Targets, s \in TERMINAL_DEPLOYMENT_STATUSES :
            audit'[<<OutcomeEvent[s], u>>] = audit[<<OutcomeEvent[s], u>>]
    BY <1>0, <1>4, OtherEvent, RowsOfTheLog
       DEF RejectDownload, FailDownload, ServeDownload, ClientEvents, TargetEvents
  <2> QED
    BY <1>4, <2>1 DEF RejectDownload, FailDownload, ServeDownload, rowVars
<1>5. ASSUME NEW c \in Clients, NEW t \in Targets, NEW r \in Reports, ReportStatus(c, t, r)
      PROVE  RecordInv'
  <2>1. /\ r.status \in CLIENT_REPORTABLE_STATUSES
        /\ r.status = "Failed" => r.error
        /\ r.error \in BOOLEAN
    BY ConstantsAssumption DEF AllReports
  <2>2. status[t] \in ACTIVE_DEPLOYMENT_STATUSES
    BY <1>5 DEF ReportStatus, AcceptsReport, NextStatuses, STATUS_TRANSITIONS,
                ACTIVE_DEPLOYMENT_STATUSES
  <2>3. ~completionTime[t]
        /\ \A s \in TERMINAL_DEPLOYMENT_STATUSES : audit[<<OutcomeEvent[s], t>>] = 0
    BY <2>2 DEF ACTIVE_DEPLOYMENT_STATUSES, TERMINAL_DEPLOYMENT_STATUSES
  <2>4. CASE r.status \in {"Completed", "Failed"}
    <3>1. r.status \in TERMINAL_DEPLOYMENT_STATUSES
          /\ Audited(<<OutcomeEvent[r.status], t>>)
      BY <1>5, <2>4 DEF ReportStatus, TERMINAL_DEPLOYMENT_STATUSES
    <3>2. /\ status' = [status EXCEPT ![t] = r.status] /\ batches' = batches
          /\ completionTime'[t] /\ r.status \in {"Completed", "Failed"}
          /\ r.status = "Failed" => errorMessage'[t]
      BY <1>5, <2>1, <2>4 DEF ReportStatus, TypeOK
    <3>3. \A u \in Targets : u # t => /\ completionTime'[u] = completionTime[u]
                                     /\ errorMessage'[u] = errorMessage[u]
      BY <1>5 DEF ReportStatus, TypeOK
    <3> HIDE DEF RecordInv
    <3> QED
      BY <2>2, <3>1, <3>2, <3>3, Concluded
  <2>5. CASE r.status \notin {"Completed", "Failed"}
    <3>1. /\ audit' = audit /\ batches' = batches /\ status' = [status EXCEPT ![t] = r.status]
          /\ r.status \notin TERMINAL_DEPLOYMENT_STATUSES /\ r.status # "NoRow"
      BY <1>5, <2>1, <2>5
         DEF ReportStatus, TERMINAL_DEPLOYMENT_STATUSES, CLIENT_REPORTABLE_STATUSES
    <3>2. /\ ~completionTime'[t]
          /\ \A u \in Targets : u # t => /\ completionTime'[u] = completionTime[u]
                                         /\ errorMessage'[u] = errorMessage[u]
      BY <1>5, <2>3, <2>5 DEF ReportStatus, TypeOK
    <3>3. /\ status'[t] = r.status /\ status[t] # "NoRow"
          /\ \A u \in Targets : u # t => status'[u] = status[u]
      BY <2>2, <3>1 DEF TypeOK, ACTIVE_DEPLOYMENT_STATUSES
    <3> QED
      BY <2>3, <2>5, <3>1, <3>2, <3>3 DEF TERMINAL_DEPLOYMENT_STATUSES
  <2> QED
    BY <2>4, <2>5
<1>6. ASSUME EnvironmentNext PROVE RecordInv'
  BY <1>6 DEF EnvironmentNext, RegisterClient, UploadPackage, DeactivatePackage, rowVars
<1>7. CASE UNCHANGED vars
  BY <1>7 DEF vars, rowVars
<1> QED
  BY <1>1, <1>2, <1>3, <1>4, <1>5, <1>6, <1>7 DEF Next, AdminNext, AgentNext

LEMMA InitRecord == Init => RecordInv
BY DEF Init, RecordInv, OutcomeOnRecord, UnopenedUntouched, Untouched, AuditRows,
       TargetEvents, OutcomeEvent, TERMINAL_DEPLOYMENT_STATUSES

\* Whatever reports, cancellations and deletions happen, a target's status,
\* completion time and outcome audit rows never contradict each other.
THEOREM OutcomesAreOnRecord == Spec => []OutcomeOnRecord
<1>1. Init => RecordInv
  BY InitRecord
<1>2. TypeOK /\ RecordInv /\ [Next]_vars => RecordInv'
  BY NextRecord
<1>3. RecordInv => OutcomeOnRecord
  BY DEF RecordInv
<1> QED
  BY <1>1, <1>2, <1>3, TypeCorrect, PTL DEF Spec

-----------------------------------------------------------------------------
(* Deployments implements TargetLifecycle.                                  *)

\* An event that is no outcome publishes nothing.
LEMMA NothingPublished ==
    ASSUME audit \in [AuditRows -> Nat], NEW row \in AuditRows, Audited(row),
           row[1] \notin {"DEPLOYMENT_COMPLETED", "DEPLOYMENT_FAILED", "DEPLOYMENT_CANCELLED"}
    PROVE  Outcomes' = Outcomes
<1>1. \A t \in Targets :
        /\ audit'[<<"DEPLOYMENT_COMPLETED", t>>] = audit[<<"DEPLOYMENT_COMPLETED", t>>]
        /\ audit'[<<"DEPLOYMENT_FAILED", t>>] = audit[<<"DEPLOYMENT_FAILED", t>>]
        /\ audit'[<<"DEPLOYMENT_CANCELLED", t>>] = audit[<<"DEPLOYMENT_CANCELLED", t>>]
  BY OtherEvent DEF OutcomeEvent, TERMINAL_DEPLOYMENT_STATUSES
<1> QED
  BY <1>1 DEF Outcomes

\* Auditing an outcome of t publishes one more outcome of t and of no other.
LEMMA OnePublished ==
    ASSUME audit \in [AuditRows -> Nat], NEW t \in Targets,
           NEW o \in TERMINAL_DEPLOYMENT_STATUSES, Audited(<<OutcomeEvent[o], t>>)
    PROVE  Outcomes' = [Outcomes EXCEPT ![t] = @ + 1]
<1>1. \A u \in Targets, s \in TERMINAL_DEPLOYMENT_STATUSES :
            /\ audit'[<<OutcomeEvent[s], u>>] =
                    IF u = t /\ s = o THEN audit[<<OutcomeEvent[s], u>>] + 1
                                      ELSE audit[<<OutcomeEvent[s], u>>]
            /\ audit[<<OutcomeEvent[s], u>>] \in Nat
  BY OwnOutcome, OutcomeRows
<1>2. ASSUME NEW u \in Targets
      PROVE  Outcomes'[u] = IF u = t THEN Outcomes[u] + 1 ELSE Outcomes[u]
  <2>1. /\ OutcomeEvent["Completed"] = "DEPLOYMENT_COMPLETED"
        /\ OutcomeEvent["Failed"] = "DEPLOYMENT_FAILED"
        /\ OutcomeEvent["Cancelled"] = "DEPLOYMENT_CANCELLED"
    BY DEF OutcomeEvent
  <2> QED
    BY <1>1, <2>1 DEF Outcomes, TERMINAL_DEPLOYMENT_STATUSES
<1>3. Outcomes' = [u \in Targets |-> Outcomes'[u]] /\ Outcomes = [u \in Targets |-> Outcomes[u]]
  BY DEF Outcomes
<1> QED
  BY <1>2, <1>3

LEMMA InitRefines == Init => Lifecycle!Init
<1> SUFFICES ASSUME Init PROVE Lifecycle!Init
  OBVIOUS
<1>1. ASSUME NEW t \in Targets
      PROVE  /\ <<"DEPLOYMENT_COMPLETED", t>> \in AuditRows
             /\ <<"DEPLOYMENT_FAILED", t>> \in AuditRows
             /\ <<"DEPLOYMENT_CANCELLED", t>> \in AuditRows
  BY DEF AuditRows, TargetEvents
<1>2. \A row \in AuditRows : audit[row] = 0
  BY DEF Init
<1>3. Outcomes = [t \in Targets |-> 0]
  BY <1>1, <1>2 DEF Outcomes
<1> QED
  BY <1>3 DEF Init, Lifecycle!Init, Lifecycle!Targets, Targets

LEMMA NextRefines == TypeOK /\ [Next]_vars => [Lifecycle!Next]_(Lifecycle!lifecycleVars)
<1> SUFFICES ASSUME TypeOK, [Next]_vars PROVE [Lifecycle!Next]_(Lifecycle!lifecycleVars)
  OBVIOUS
<1>0. audit \in [AuditRows -> Nat] /\ Lifecycle!Targets = Targets
  BY DEF TypeOK, Lifecycle!Targets, Targets
<1>1. ASSUME NEW p \in Packages, NEW clients \in SUBSET Clients,
             CreateDeployment(p, clients)
      PROVE  Lifecycle!Next
  <2>1. batches + 1 \in Batches /\ batches \in Nat
    BY <1>1, ConstantsAssumption DEF CreateDeployment, Batches, TypeOK
  <2>2. Outcomes' = Outcomes
    BY <1>0, <1>1, <2>1, NothingPublished, RowsOfTheLog DEF CreateDeployment
  <2>3. batches + 1 \notin 1..batches /\ 1..batches' = (1..batches) \cup {batches + 1}
    BY <1>1, <2>1 DEF CreateDeployment
  <2>4. ASSUME NEW c \in clients, NEW t \in Targets, t[2] = c
        PROVE  status[t] \notin Lifecycle!ACTIVE_DEPLOYMENT_STATUSES
    <3>1. ActiveTargetsOf(c) = {} /\ c \in Clients
      BY <1>1 DEF CreateDeployment, NoActiveDeployments
    <3> QED
      BY <2>4, <3>1, ActiveTargets
         DEF ClientOf, ACTIVE_DEPLOYMENT_STATUSES, Lifecycle!ACTIVE_DEPLOYMENT_STATUSES
  <2>5. status' = [t \in Targets |->
                     IF t[1] = batches + 1 /\ t[2] \in clients THEN "Pending" ELSE status[t]]
    BY <1>1 DEF CreateDeployment, BatchOf, ClientOf
  <2>6. Lifecycle!Open(batches + 1, clients)
    BY <1>0, <2>2, <2>3, <2>4, <2>5 DEF Lifecycle!Open, Lifecycle!Busy
  <2> QED
    BY <2>1, <2>6 DEF Lifecycle!Next
<1>2. ASSUME NEW t \in Targets, CancelDeploymentTarget(t) PROVE Lifecycle!Next
  <2>1. "Cancelled" \in TERMINAL_DEPLOYMENT_STATUSES
    BY DEF TERMINAL_DEPLOYMENT_STATUSES
  <2>2. Audited(<<OutcomeEvent["Cancelled"], t>>)
    BY <1>2 DEF CancelDeploymentTarget, OutcomeEvent
  <2>3. Outcomes' = [Outcomes EXCEPT ![t] = @ + 1]
    BY <1>0, <2>1, <2>2, OnePublished
  <2>4. Lifecycle!Conclude(t, "Cancelled")
    BY <1>2, <2>3 DEF CancelDeploymentTarget, Cancellable, Lifecycle!Conclude,
                      ACTIVE_DEPLOYMENT_STATUSES, Lifecycle!ACTIVE_DEPLOYMENT_STATUSES
  <2> QED
    BY <1>0, <2>1, <2>4 DEF Lifecycle!Next, Lifecycle!TERMINAL_DEPLOYMENT_STATUSES,
                            TERMINAL_DEPLOYMENT_STATUSES
<1>3. ASSUME NEW c \in Clients, DeleteClient(c) PROVE Lifecycle!Next
  <2>1. Outcomes' = Outcomes
    BY <1>0, <1>3, NothingPublished, RowsOfTheLog DEF DeleteClient, ClientEvents
  <2>2. Lifecycle!Erase(c)
    BY <1>0, <1>3, <2>1 DEF DeleteClient, Lifecycle!Erase, ClientOf
  <2> QED
    BY <2>2 DEF Lifecycle!Next
<1>4. ASSUME NEW c \in Clients, NEW t \in Targets,
             RejectDownload(c, t) \/ FailDownload(c, t) \/ ServeDownload(c, t)
      PROVE  UNCHANGED Lifecycle!lifecycleVars
  <2>1. Outcomes' = Outcomes
    BY <1>0, <1>4, NothingPublished, RowsOfTheLog
       DEF RejectDownload, FailDownload, ServeDownload, ClientEvents, TargetEvents
  <2> QED
    BY <1>4, <2>1 DEF RejectDownload, FailDownload, ServeDownload, rowVars,
                      Lifecycle!lifecycleVars
<1>5. ASSUME NEW c \in Clients, NEW t \in Targets, NEW r \in Reports, ReportStatus(c, t, r)
      PROVE  Lifecycle!Next
  <2>1. r.status \in CLIENT_REPORTABLE_STATUSES
    BY ConstantsAssumption DEF AllReports
  <2>2. /\ status[t] \in ACTIVE_DEPLOYMENT_STATUSES
        /\ r.status = "Downloading" => status[t] = "Pending"
        /\ r.status = "Installing" => status[t] = "Downloading"
        /\ r.status = "Completed" => status[t] = "Installing"
    BY <1>5 DEF ReportStatus, AcceptsReport, NextStatuses, STATUS_TRANSITIONS,
                ACTIVE_DEPLOYMENT_STATUSES
  <2>3. CASE r.status \in {"Completed", "Failed"}
    <3>1. r.status \in TERMINAL_DEPLOYMENT_STATUSES /\ Audited(<<OutcomeEvent[r.status], t>>)
      BY <1>5, <2>3 DEF ReportStatus, TERMINAL_DEPLOYMENT_STATUSES
    <3>2. Outcomes' = [Outcomes EXCEPT ![t] = @ + 1]
      BY <1>0, <3>1, OnePublished
    <3>3. Lifecycle!Conclude(t, r.status)
      BY <1>5, <2>2, <2>3, <3>2 DEF ReportStatus, Lifecycle!Conclude,
                ACTIVE_DEPLOYMENT_STATUSES, Lifecycle!ACTIVE_DEPLOYMENT_STATUSES
    <3> QED
      BY <1>0, <3>1, <3>3 DEF Lifecycle!Next, Lifecycle!TERMINAL_DEPLOYMENT_STATUSES,
                              TERMINAL_DEPLOYMENT_STATUSES
  <2>4. CASE r.status \in {"Downloading", "Installing"}
    <3>1. Outcomes' = Outcomes
      BY <1>5, <2>4 DEF ReportStatus, Outcomes
    <3>2. Lifecycle!Advance(t)
      BY <1>5, <2>2, <2>4, <3>1 DEF ReportStatus, Lifecycle!Advance
    <3> QED
      BY <1>0, <3>2 DEF Lifecycle!Next
  <2> QED
    BY <2>1, <2>3, <2>4 DEF CLIENT_REPORTABLE_STATUSES
<1>6. ASSUME EnvironmentNext \/ UNCHANGED vars PROVE UNCHANGED Lifecycle!lifecycleVars
  BY <1>6 DEF EnvironmentNext, RegisterClient, UploadPackage, DeactivatePackage, vars, rowVars,
              Outcomes, Lifecycle!lifecycleVars
<1> QED
  BY <1>1, <1>2, <1>3, <1>4, <1>5, <1>6 DEF Next, AdminNext, AgentNext

\* Every behaviour of the deployment service is one of the abstract lifecycle:
\* batches open once and only for idle clients, targets move one stage at a
\* time, and each outcome is published in the step that reaches it.
THEOREM DeploymentsImplementLifecycle == Spec => ImplementsLifecycle
<1>1. Init => Lifecycle!Init
  BY InitRefines
<1>2. TypeOK /\ [Next]_vars => [Lifecycle!Next]_(Lifecycle!lifecycleVars)
  BY NextRefines
<1> QED
  BY <1>1, <1>2, TypeCorrect, PTL DEF Spec, ImplementsLifecycle, Lifecycle!Spec

-----------------------------------------------------------------------------
(* What the abstract lifecycle promises: no outcome is published twice.     *)

\* PublishedOnce alone is not inductive.  A target that can still end has
\* published nothing, and a batch that is yet to open has left no trace.
PublishInv ==
    \A t \in Targets :
        /\ Outcomes[t] \in {0, 1}
        /\ status[t] \in ACTIVE_DEPLOYMENT_STATUSES => Outcomes[t] = 0
        /\ t[1] \notin 1..batches => Outcomes[t] = 0 /\ status[t] = "NoRow"

LifecycleType ==
    /\ status \in [Targets -> Statuses \cup {"NoRow"}]
    /\ Outcomes \in [Targets -> Nat]

LEMMA LifecycleConstants ==
    /\ Lifecycle!Targets = Targets
    /\ Lifecycle!ACTIVE_DEPLOYMENT_STATUSES = ACTIVE_DEPLOYMENT_STATUSES
    /\ Lifecycle!TERMINAL_DEPLOYMENT_STATUSES = TERMINAL_DEPLOYMENT_STATUSES
BY DEF Lifecycle!Targets, Targets, Lifecycle!ACTIVE_DEPLOYMENT_STATUSES,
       ACTIVE_DEPLOYMENT_STATUSES, Lifecycle!TERMINAL_DEPLOYMENT_STATUSES,
       TERMINAL_DEPLOYMENT_STATUSES

LEMMA InitPublish == Lifecycle!Init => LifecycleType /\ PublishInv
BY LifecycleConstants DEF Lifecycle!Init, LifecycleType, PublishInv, ACTIVE_DEPLOYMENT_STATUSES

LEMMA NextPublish ==
    LifecycleType /\ PublishInv /\ [Lifecycle!Next]_(Lifecycle!lifecycleVars)
        => LifecycleType' /\ PublishInv'
<1> SUFFICES ASSUME LifecycleType, PublishInv, [Lifecycle!Next]_(Lifecycle!lifecycleVars)
             PROVE  LifecycleType' /\ PublishInv'
  OBVIOUS
<1> USE LifecycleConstants DEF LifecycleType, PublishInv
<1>1. ASSUME NEW b \in Batches, NEW clients \in SUBSET Clients, Lifecycle!Open(b, clients)
      PROVE  LifecycleType' /\ PublishInv'
  BY <1>1 DEF Lifecycle!Open, Statuses, ACTIVE_DEPLOYMENT_STATUSES
<1>2. ASSUME NEW t \in Targets, Lifecycle!Advance(t) PROVE LifecycleType' /\ PublishInv'
  BY <1>2 DEF Lifecycle!Advance, Statuses, ACTIVE_DEPLOYMENT_STATUSES
<1>3. ASSUME NEW t \in Targets, NEW o \in TERMINAL_DEPLOYMENT_STATUSES, Lifecycle!Conclude(t, o)
      PROVE  LifecycleType' /\ PublishInv'
  <2>1. o \notin ACTIVE_DEPLOYMENT_STATUSES /\ "NoRow" \notin ACTIVE_DEPLOYMENT_STATUSES
    BY DEF ACTIVE_DEPLOYMENT_STATUSES, TERMINAL_DEPLOYMENT_STATUSES
  <2>2. /\ status[t] \in ACTIVE_DEPLOYMENT_STATUSES
        /\ status' = [status EXCEPT ![t] = o] /\ Outcomes' = [Outcomes EXCEPT ![t] = @ + 1]
        /\ 1..batches' = 1..batches
    BY <1>3 DEF Lifecycle!Conclude
  <2>3. LifecycleType'
    BY <2>2 DEF Statuses
  <2>4. /\ Outcomes'[t] = 1 /\ status'[t] = o /\ status[t] # "NoRow"
        /\ \A u \in Targets \ {t} : Outcomes'[u] = Outcomes[u] /\ status'[u] = status[u]
    BY <2>1, <2>2
  <2>5. PublishInv'
    BY <2>1, <2>2, <2>4
  <2> QED
    BY <2>3, <2>5
<1>4. ASSUME NEW c \in Clients, Lifecycle!Erase(c) PROVE LifecycleType' /\ PublishInv'
  BY <1>4 DEF Lifecycle!Erase, ACTIVE_DEPLOYMENT_STATUSES
<1>5. CASE UNCHANGED Lifecycle!lifecycleVars
  BY <1>5 DEF Lifecycle!lifecycleVars
<1> QED
  BY <1>1, <1>2, <1>3, <1>4, <1>5 DEF Lifecycle!Next

\* Whatever is erased in between, the lifecycle concludes a target at most once.
THEOREM ConcludedOnce == Lifecycle!Spec => []Lifecycle!PublishedOnce
<1>1. LifecycleType /\ PublishInv => Lifecycle!PublishedOnce
  BY LifecycleConstants DEF PublishInv, Lifecycle!PublishedOnce
<1> QED
  BY <1>1, InitPublish, NextPublish, PTL DEF Lifecycle!Spec

\* The lifecycle's promise holds of the tables: the audit trail has at most one
\* outcome of each target, whatever is deleted in between.
THEOREM OutcomesAuditedOnce == Spec => []OutcomeAuditedOnce
BY DeploymentsImplementLifecycle, ConcludedOnce, PTL DEF ImplementsLifecycle, OutcomeAuditedOnce
-----------------------------------------------------------------------------
(* What the dashboard shows.                                                *)

\* The rows of the table join with their batch, package and client, and a
\* client's active target is its newest: these make the pages agree with the
\* tables they count.
MonitorInv ==
    /\ \A t \in Targets : status[t] # "NoRow" => ClientOf(t) \in registered
    /\ \A b \in 1..batches : packageOf[b] \in Packages
    /\ \A c \in Clients : \A t \in ActiveTargetsOf(c), u \in TargetsOf(c) :
            BatchOf(u) =< BatchOf(t)

LEMMA TargetParts ==
    \A t \in Targets : /\ BatchOf(t) \in Batches /\ BatchOf(t) \in Nat \ {0}
                       /\ ClientOf(t) \in Clients /\ t = <<BatchOf(t), ClientOf(t)>>
BY ConstantsAssumption DEF Targets, Batches, BatchOf, ClientOf

LEMMA RowsOf ==
    \A c \in Clients, t \in Targets :
        t \in TargetsOf(c) <=> ClientOf(t) = c /\ status[t] # "NoRow"
BY DEF TargetsOf

\* A step that makes no row and no active target keeps the active one newest.
LEMMA NoNewRows ==
    ASSUME MonitorInv,
           \A t \in Targets :
               /\ status'[t] # "NoRow" => status[t] # "NoRow"
               /\ status'[t] \in ACTIVE_DEPLOYMENT_STATUSES
                    => status[t] \in ACTIVE_DEPLOYMENT_STATUSES
    PROVE  \A c \in Clients : \A t \in ActiveTargetsOf(c)', u \in TargetsOf(c)' :
                BatchOf(u) =< BatchOf(t)
BY DEF MonitorInv, ActiveTargetsOf, TargetsOf

LEMMA NextMonitor == TypeOK /\ RecordInv /\ MonitorInv /\ [Next]_vars => MonitorInv'
<1> SUFFICES ASSUME TypeOK, RecordInv, MonitorInv, [Next]_vars PROVE MonitorInv'
  OBVIOUS
<1>1. ASSUME NEW p \in Packages, NEW clients \in SUBSET Clients,
             CreateDeployment(p, clients)
      PROVE  MonitorInv'
  <2>1. /\ batches \in Nat /\ batches + 1 \in Batches
        /\ \A t \in Targets : status[t] # "NoRow" => BatchOf(t) =< batches
    BY <1>1, ConstantsAssumption, TargetParts
       DEF CreateDeployment, Batches, TypeOK, RecordInv, UnopenedUntouched
  <2>2. \A t \in Targets : status'[t] # "NoRow" => ClientOf(t) \in registered'
    BY <1>1 DEF CreateDeployment, MonitorInv
  <2>3. \A b \in 1..batches' : packageOf'[b] \in Packages
    <3> SUFFICES ASSUME NEW b \in 1..batches' PROVE packageOf'[b] \in Packages
      OBVIOUS
    <3>1. b \in 1..batches \/ b = batches + 1
      BY <1>1, <2>1 DEF CreateDeployment
    <3> QED
      BY <1>1, <2>1, <3>1 DEF CreateDeployment, MonitorInv, TypeOK
  <2>4. ASSUME NEW c \in Clients, NEW t \in ActiveTargetsOf(c)', NEW u \in TargetsOf(c)'
        PROVE  BatchOf(u) =< BatchOf(t)
    <3>1. /\ t \in Targets /\ ClientOf(t) = c /\ status'[t] \in ACTIVE_DEPLOYMENT_STATUSES
          /\ u \in Targets /\ ClientOf(u) = c /\ status'[u] # "NoRow"
      BY DEF ActiveTargetsOf, TargetsOf
    <3>2. CASE c \in clients
      <4>1. status[t] \notin ACTIVE_DEPLOYMENT_STATUSES
        BY <1>1, <3>1, <3>2, ActiveTargets DEF CreateDeployment, NoActiveDeployments
      <4>2. BatchOf(t) = batches + 1
        BY <1>1, <3>1, <4>1 DEF CreateDeployment
      <4>3. status[u] # "NoRow" \/ BatchOf(u) = batches + 1
        BY <1>1, <3>1 DEF CreateDeployment
      <4> QED
        BY <2>1, <3>1, <4>2, <4>3, TargetParts
    <3>3. CASE c \notin clients
      <4>1. status'[t] = status[t] /\ status'[u] = status[u]
        BY <1>1, <3>1, <3>3 DEF CreateDeployment
      <4> QED
        BY <3>1, <4>1, ActiveTargets, RowsOf DEF MonitorInv
    <3> QED
      BY <3>2, <3>3
  <2> QED
    BY <2>2, <2>3, <2>4 DEF MonitorInv
<1>2. ASSUME NEW t \in Targets, CancelDeploymentTarget(t) PROVE MonitorInv'
  BY <1>2, NoNewRows DEF CancelDeploymentTarget, Cancellable, TypeOK, MonitorInv,
                         ACTIVE_DEPLOYMENT_STATUSES
<1>3. ASSUME NEW c \in Clients, DeleteClient(c) PROVE MonitorInv'
  BY <1>3, NoNewRows DEF DeleteClient, MonitorInv, ACTIVE_DEPLOYMENT_STATUSES
<1>4. ASSUME NEW c \in Clients, NEW t \in Targets, NEW r \in Reports, ReportStatus(c, t, r)
      PROVE  MonitorInv'
  <2>1. status[t] \in ACTIVE_DEPLOYMENT_STATUSES /\ status[t] # "NoRow"
    BY <1>4 DEF ReportStatus, AcceptsReport, NextStatuses, STATUS_TRANSITIONS,
                ACTIVE_DEPLOYMENT_STATUSES
  <2> QED
    BY <1>4, <2>1, NoNewRows DEF ReportStatus, TypeOK, MonitorInv
<1>5. ASSUME UNCHANGED <<batches, packageOf, status>>, registered \subseteq registered'
      PROVE  MonitorInv'
  BY <1>5, NoNewRows DEF MonitorInv
<1> QED
  BY <1>1, <1>2, <1>3, <1>4, <1>5
     DEF Next, AdminNext, AgentNext, EnvironmentNext, RejectDownload, FailDownload,
         ServeDownload, RegisterClient, UploadPackage, DeactivatePackage, vars, rowVars

LEMMA MonitorInvariant == Spec => [](TypeOK /\ RecordInv /\ MonitorInv)
<1>1. Init => TypeOK /\ RecordInv /\ MonitorInv
  <2>1. Init => MonitorInv
    BY DEF Init, MonitorInv, ActiveTargetsOf, TargetsOf
  <2> QED
    BY <2>1, InitType, InitRecord
<1> QED
  BY <1>1, NextType, NextRecord, NextMonitor, PTL DEF Spec

\* A row is in the table without filters, and stays under filters it passes.
LEMMA RowsJoin ==
    ASSUME TypeOK, RecordInv, MonitorInv, NEW t \in Targets, status[t] # "NoRow",
           NEW s \in {Unset, status[t]}, NEW c \in {Unset, ClientOf(t)}
    PROVE  t \in Joined(s, c, Unset)
<1>1. BatchOf(t) \in 1..batches
  BY TargetParts DEF RecordInv, UnopenedUntouched, TypeOK
<1> QED
  BY <1>1 DEF Joined, MonitorInv

\* Nothing of its client is newer than the active target, so no limit cuts it off.
LEMMA ActiveIsShown ==
    ASSUME MonitorInv, NEW c \in Clients, NEW t \in ActiveTargetsOf(c),
           NEW rows \in SUBSET TargetsOf(c), t \in rows, NEW limit \in Nat \ {0}
    PROVE  t \in NewestFirst(rows, limit)
<1>1. ASSUME NEW u \in rows PROVE ~(BatchOf(u) > BatchOf(t))
  BY TargetParts DEF MonitorInv, ActiveTargetsOf, TargetsOf
<1>2. {u \in rows : BatchOf(u) > BatchOf(t)} = {}
  BY <1>1
<1> QED
  BY <1>2, FS_EmptySet DEF NewestFirst

\* However short the page and whichever status it is filtered by, the dashboard
\* shows the target a client is working on.
THEOREM ActiveIsNeverCutOff == Spec => []HistoryShowsActive
<1>1. TypeOK /\ RecordInv /\ MonitorInv => HistoryShowsActive
  <2> SUFFICES ASSUME TypeOK, RecordInv, MonitorInv, NEW c \in registered,
                      NEW limit \in 1..MaxBatches, NEW t \in ActiveTargetsOf(c)
               PROVE  t \in History(c, limit) /\ t \in MonitoringPage(status[t], c, limit)
    BY DEF HistoryShowsActive
  <2>1. /\ c \in Clients /\ c # Unset /\ limit \in Nat \ {0}
        /\ t \in Targets /\ ClientOf(t) = c /\ status[t] # "NoRow"
    BY ConstantsAssumption, MonitorAssumption DEF TypeOK, ActiveTargetsOf, TargetsOf
  <2>2. \A s : Joined(s, c, Unset) \in SUBSET TargetsOf(c)
    BY <2>1 DEF Joined, TargetsOf
  <2>3. t \in Joined(Unset, c, Unset) /\ t \in Joined(status[t], c, Unset)
    BY <2>1, RowsJoin
  <2>4. /\ t \in NewestFirst(Joined(Unset, c, Unset), limit)
        /\ t \in NewestFirst(Joined(status[t], c, Unset), limit)
    BY <2>1, <2>2, <2>3, ActiveIsShown
  <2> QED
    BY <2>4 DEF History, MonitoringPage, get_deployment_monitoring
<1> QED
  BY <1>1, MonitorInvariant, PTL

\* Sets of targets are finite, and those with different statuses disjoint.
LEMMA TargetsFinite == IsFiniteSet(Targets) /\ \A S \in SUBSET Targets : IsFiniteSet(S)
<1>1. IsFiniteSet(Batches) /\ IsFiniteSet(Clients)
  BY ConstantsAssumption, MonitorAssumption, FS_Interval DEF Batches
<1>2. IsFiniteSet(Targets)
  BY <1>1, FS_Product DEF Targets
<1> QED
  BY <1>2, FS_Subset

LEMMA Disjoint ==
    ASSUME NEW S \in SUBSET Targets, NEW T \in SUBSET Targets, S \cap T = {}
    PROVE  Cardinality(S \cup T) = Cardinality(S) + Cardinality(T)
<1>1. IsFiniteSet(S) /\ IsFiniteSet(T)
  BY TargetsFinite
<1>2. Cardinality(S) \in Nat /\ Cardinality(T) \in Nat
  BY <1>1, FS_CardinalityType
<1>3. Cardinality(S \cup T) = Cardinality(S) + Cardinality(T) - Cardinality(S \cap T)
  BY <1>1, FS_Union
<1> QED
  BY <1>2, <1>3, FS_EmptySet

\* Every client with an active target has exactly one.
LEMMA ActiveClients ==
    ASSUME TypeOK, OneActivePerClient, MonitorInv
    PROVE  Cardinality({t \in Targets : status[t] \in ACTIVE_DEPLOYMENT_STATUSES})
               = Cardinality({c \in registered : ActiveTargetsOf(c) # {}})
<1> DEFINE Active == {t \in Targets : status[t] \in ACTIVE_DEPLOYMENT_STATUSES}
           Busy == {c \in registered : ActiveTargetsOf(c) # {}}
           f == [t \in Active |-> ClientOf(t)]
<1>1. \A t \in Active : ClientOf(t) \in Busy /\ t \in ActiveTargetsOf(ClientOf(t))
  BY ActiveTargets, TargetParts DEF MonitorInv, ACTIVE_DEPLOYMENT_STATUSES
<1>2. \A t, u \in Active : ClientOf(t) = ClientOf(u) => t = u
  BY <1>1, TargetParts DEF OneActivePerClient
<1>3. \A c \in Busy : \E t \in Active : ClientOf(t) = c
  BY DEF ActiveTargetsOf, TargetsOf
<1>4. f \in Injection(Active, Busy)
  BY <1>1, <1>2 DEF Injection, IsInjective
<1>5. f \in Surjection(Active, Busy)
  BY <1>1, <1>3 DEF Surjection
<1>6. IsFiniteSet(Busy)
  BY MonitorAssumption, FS_Subset DEF TypeOK
<1> HIDE DEF Active, Busy, f
<1>7. Cardinality(Active) = Cardinality(Busy)
  BY <1>4, <1>5, <1>6, FS_Injection
<1> QED
  BY <1>7 DEF Active, Busy

\* The numbers above the deployment table are those of the table: nothing is
\* counted that cannot be joined, and nothing in progress is counted twice.
THEOREM CountsAgree == Spec => []SummaryAgrees
<1>1. TypeOK /\ RecordInv /\ MonitorInv /\ OneActivePerClient => SummaryAgrees
  <2> SUFFICES ASSUME TypeOK, RecordInv, MonitorInv, OneActivePerClient PROVE SummaryAgrees
    OBVIOUS
  <2> DEFINE With(s) == {t \in Targets : status[t] = s}
             Active == {t \in Targets : status[t] \in ACTIVE_DEPLOYMENT_STATUSES}
             Ended == {t \in Targets : status[t] \in TERMINAL_DEPLOYMENT_STATUSES}
  <2>1. \A s : With(s) \in SUBSET Targets /\ CountOf(s) = Cardinality(With(s))
    BY DEF CountOf
  <2>2. Cardinality(Active) = CountOf("Pending") + CountOf("Downloading") + CountOf("Installing")
    <3>1. Active = (With("Pending") \cup With("Downloading")) \cup With("Installing")
      BY DEF ACTIVE_DEPLOYMENT_STATUSES
    <3>2. Cardinality(With("Pending") \cup With("Downloading"))
            = Cardinality(With("Pending")) + Cardinality(With("Downloading"))
      BY Disjoint
    <3>3. Cardinality(Active) = Cardinality(With("Pending") \cup With("Downloading"))
                                    + Cardinality(With("Installing"))
      BY <3>1, Disjoint
    <3> QED
      BY <2>1, <3>2, <3>3
  <2>3. Cardinality(Ended) = CountOf("Completed") + CountOf("Failed") + CountOf("Cancelled")
    <3>1. Ended = (With("Completed") \cup With("Failed")) \cup With("Cancelled")
      BY DEF TERMINAL_DEPLOYMENT_STATUSES
    <3>2. Cardinality(With("Completed") \cup With("Failed"))
            = Cardinality(With("Completed")) + Cardinality(With("Failed"))
      BY Disjoint
    <3>3. Cardinality(Ended) = Cardinality(With("Completed") \cup With("Failed"))
                                   + Cardinality(With("Cancelled"))
      BY <3>1, Disjoint
    <3> QED
      BY <2>1, <3>2, <3>3
  <2>4. Joined(Unset, Unset, Unset) = Active \cup Ended
    <3>1. \A t \in Targets : status[t] # "NoRow" => t \in Joined(Unset, Unset, Unset)
      BY RowsJoin
    <3>2. \A t \in Targets : status[t] # "NoRow" <=> t \in Active \cup Ended
      BY DEF TypeOK, Statuses, ACTIVE_DEPLOYMENT_STATUSES, TERMINAL_DEPLOYMENT_STATUSES
    <3> QED
      BY <3>1, <3>2 DEF Joined
  <2>5. Cardinality(Active \cup Ended) = Cardinality(Active) + Cardinality(Ended)
    BY Disjoint DEF ACTIVE_DEPLOYMENT_STATUSES, TERMINAL_DEPLOYMENT_STATUSES
  <2>6. Cardinality(Active) = Cardinality({c \in registered : ActiveTargetsOf(c) # {}})
    BY ActiveClients
  <2>7. \A s : CountOf(s) \in Nat
    BY <2>1, TargetsFinite, FS_CardinalityType
  <2> HIDE DEF Active, Ended
  <2> QED
    BY <2>2, <2>3, <2>4, <2>5, <2>6, <2>7 DEF SummaryAgrees, Summary
<1> QED
  BY <1>1, MonitorInvariant, BusinessRule9, PTL

=============================================================================

-------------------------- MODULE DeploymentStatus --------------------------
(***************************************************************************)
(* The per-client deployment status values and the rules written over them *)
(* (backend/models/enums.py, backend/repositories/deployment_repository.py,*)
(* backend/services/deployment_service.py).  The agent uses the same       *)
(* strings (agent/deployment/manager.py).                                  *)
(***************************************************************************)

\* DeploymentTarget rows whose client is still processing them.
ACTIVE_DEPLOYMENT_STATUSES == {"Pending", "Downloading", "Installing"}

\* Once here, a target "must never be transitioned again".
TERMINAL_DEPLOYMENT_STATUSES == {"Completed", "Failed", "Cancelled"}

Statuses == ACTIVE_DEPLOYMENT_STATUSES \cup TERMINAL_DEPLOYMENT_STATUSES

\* Statuses from which the installer of a target may be requested.
DOWNLOADABLE_STATUSES == {"Pending", "Downloading"}

\* The statuses a Client Agent may name in a report.
CLIENT_REPORTABLE_STATUSES == {"Downloading", "Installing", "Completed", "Failed"}

\* The legal forward transitions, keyed by the current status.
STATUS_TRANSITIONS ==
    [Pending     |-> {"Downloading", "Failed"},
     Downloading |-> {"Installing", "Failed"},
     Installing  |-> {"Completed", "Failed"}]

\* A status without an entry allows no transition.
NextStatuses(s) ==
    IF s \in DOMAIN STATUS_TRANSITIONS THEN STATUS_TRANSITIONS[s] ELSE {}

=============================================================================

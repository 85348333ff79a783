--------------------------- MODULE MCDeployments ---------------------------
(* Deployments with symmetric clients, and reports as the project's own     *)
(* agent sends them or any other holder of a client key may.                *)
EXTENDS DeploymentMonitor, FiniteSets, TLC

Symmetric == Permutations(Clients) \cup Permutations(Packages)

\* The bodies agent/deployment/manager.py sends.
AgentBodies ==
    {[status |-> s, exitCode |-> "none", error |-> FALSE] : s \in {"Downloading", "Installing"}}
    \cup {[status |-> "Completed", exitCode |-> "zero", error |-> FALSE]}
    \cup {[status |-> "Failed", exitCode |-> x, error |-> TRUE] : x \in {"none", "nonzero"}}

\* And two that it does not: progress with the marks of a failure, and a
\* success without an exit code.
MixedBodies ==
    AgentBodies \cup {[status |-> "Downloading", exitCode |-> "nonzero", error |-> TRUE],
                      [status |-> "Completed", exitCode |-> "none", error |-> FALSE]}

DownloadEvents == {"INSTALLER_DOWNLOAD", "INSTALLER_DOWNLOAD_REJECTED", "INSTALLER_FILE_MISSING"}

\* Bound: at most one download is audited, and none where there are two
\* batches.  Downloads change nothing but the audit trail.
FewDownloads ==
    LET audited == {row \in AuditRows : row[1] \in DownloadEvents /\ audit[row] > 0}
    IN  Cardinality(audited) =< IF batches < 2 THEN 1 ELSE 0

=============================================================================

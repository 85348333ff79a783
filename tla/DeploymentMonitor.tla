------------------------- MODULE DeploymentMonitor -------------------------
(***************************************************************************)
(* What the dashboard shows of the deployment tables                       *)
(* (DashboardService.get_deployment_summary and get_deployment_monitoring  *)
(* with the queries of DeploymentRepository): the counts of all targets    *)
(* and a table of the newest ones.  Both only read.  The targets of one    *)
(* client are taken to be created in different seconds, so that `batches`  *)
(* orders them.                                                            *)
(***************************************************************************)
EXTENDS Deployments, FiniteSets

CONSTANT Unset  \* a filter that is not set

ASSUME MonitorAssumption ==
    /\ Unset \notin Statuses /\ Unset \notin Clients /\ Unset \notin Batches
    /\ IsFiniteSet(Clients)

\* count_targets_by_status
CountOf(s) == Cardinality({t \in Targets : status[t] = s})

\* get_deployment_summary, which also shows CountOf of each status.
Summary ==
    [total_batches |-> batches,
     total_targets |-> CountOf("Pending") + CountOf("Downloading") + CountOf("Installing")
                        + CountOf("Completed") + CountOf("Failed") + CountOf("Cancelled"),
     active |-> CountOf("Pending") + CountOf("Downloading") + CountOf("Installing")]

\* The rows of list_target_details: those whose batch, package and client can
\* be joined and that pass the filters.
Joined(s, c, b) ==
    {t \in Targets :
        /\ status[t] # "NoRow"
        /\ BatchOf(t) =< batches /\ packageOf[BatchOf(t)] \in Packages
        /\ ClientOf(t) \in registered
        /\ s \in {Unset, status[t]} /\ c \in {Unset, ClientOf(t)} /\ b \in {Unset, BatchOf(t)}}

OldestFirst(rows, limit) ==  \* mutant
    {t \in rows : Cardinality({u \in rows : BatchOf(u) < BatchOf(t)}) < limit}

\* ORDER BY created_at DESC and LIMIT.  Of the targets of one batch, which are
\* created together, the database may leave out any when the limit cuts
\* through them; these are the rows that may be shown.
NewestFirst(rows, limit) ==
    {t \in rows : Cardinality({u \in rows : BatchOf(u) > BatchOf(t)}) < limit}

get_deployment_monitoring(s, c, b, limit) ==
    [summary |-> Summary, targets |-> NewestFirst(Joined(s, c, b), limit)]

\* The monitoring page, for one client and perhaps one status.
MonitoringPage(s, c, limit) == get_deployment_monitoring(s, c, Unset, limit).targets

\* get_client_detail: the deployment history on the page of client c.
History(c, limit) == get_deployment_monitoring(Unset, c, Unset, limit).targets

-----------------------------------------------------------------------------
(* Properties.                                                             *)

\* The history of a client's page and the monitoring page of one client are cut
\* to the newest targets, the latter after its status filter.  The target under
\* way is never cut off, however short the page is.
HistoryShowsActive ==
    \A c \in registered, limit \in 1..MaxBatches : \A t \in ActiveTargetsOf(c) :
        /\ t \in History(c, limit)
        /\ t \in MonitoringPage(status[t], c, limit)

\* The counts, which are taken from the targets alone, and the table, which
\* joins them with batches, packages and clients, agree; and `active` is the
\* number of clients that have something in progress.
SummaryAgrees ==
    /\ Summary.total_targets = Cardinality(Joined(Unset, Unset, Unset))
    /\ Summary.active = Cardinality({c \in registered : ActiveTargetsOf(c) # {}})

=============================================================================

# Centralized Patch Management System: TLA+ models and proofs

A server keeps client machines, their software, a repository of installer
packages and the deployments of packages to clients. A Client Agent on every
machine polls the server, installs what it is given and reports how it went.
This directory models the parts of the system where two views can disagree: the
deployment tables on the server and the agent's workflow with its queue of
undelivered reports; the repository's rows and its files; the keys and clients;
the software on a machine and the inventory the server has of it; the sessions
and timeouts requests have read and those saved since; the report queue and the
file that is to survive a crash; the audit log and the pages an administrator
reads of it.

Run a model with `tlc -workers 2 -config <X>.cfg <Module>`, a proof with
`tlapm <Module>.tla`.

## 1. Inventory

| Component | State it keeps | Operations | Interacts with |
|---|---|---|---|
| Deployment service (`backend/services/deployment_service.py`, `backend/repositories/deployment_repository.py`) | tables `deployments`, `deployment_targets`, rows in `audit_logs` | create a batch, cancel a target, poll (read), download, report a status | administrator routes (`api/routers/deployments.py`), agent routes (`api/routers/agent.py`), packages, clients |
| Agent workflow (`agent/deployment/manager.py`, `agent/communication/deployment_client.py`, `agent/installer/`) | the job being carried out, in memory only | flush the queue, poll, report, download, verify, install | the deployment service by HTTP; the report store |
| Report store (`agent/deployment/status_report_store.py`) | a JSON file: the reports that could not be delivered | load, enqueue, acknowledge | agent workflow |
| Registration and deletion (`backend/services/client_service.py`) | table `clients` | register, re-register, delete | keys; deletion cascades to deployment targets and inventory |
| Keys and authentication (`backend/services/client_auth_service.py`) | table `client_provisioning_keys`, key hashes in `clients` | issue a key, resolve a key | every agent request; registration |
| Package repository (`backend/services/repository_service.py`) | table `repository_packages`, installer files | upload (supersedes), deactivate | deployments, version comparison |
| Inventory (`backend/services/inventory_service.py`, `agent/scanner/`) | table `software_inventory` | upload (replace by name) | version comparison |
| Version comparison (`backend/utils/version_compare.py`, `backend/services/version_comparison_service.py`) | none | compare, classify | inventory, repository |
| Administrator sessions (`backend/services/auth_service.py`) | table `administrator_sessions` | log in, validate (extends), log out | every administrator request; settings |
| System configuration (`backend/services/system_configuration_service.py`) | one row | read effective settings, save | session timeout, heartbeat timeout, upload size |
| Heartbeat and status (`backend/services/heartbeat_service.py`, `dashboard_service.py`) | `last_heartbeat`, `status` of a client | heartbeat; status derived on read | dashboard |
| Audit log (`backend/repositories/audit_log_repository.py`, `dashboard_service.py`) | table `audit_logs` | write a row, count and list a page | every operation writes it; deleting a client clears its reference; the viewer reads it page by page |
| Dashboard and monitoring pages (`backend/api/routers/dashboard.py`) | none | summaries, lists, histories | read the tables of all the others |

What is hard:

* **Concurrency on the server.** Every handler is an `async def` that calls its
  synchronous service and commits without awaiting, so handlers run one after
  another on the event loop. Dependencies (the database session,
  authentication) are plain functions that run earlier, on a thread pool. So
  the client a handler works for may have been deleted since it was
  authenticated; the loaded object is still usable, because sessions do not
  expire objects on commit.
* **The network.** A report or a download may be lost, or its answer, or be
  handled after the agent gave up. The agent treats a refusal (404, 409, 401)
  exactly like an unreachable server.
* **The queue.** Undelivered reports are sent again in the next cycle, before
  the poll, and the first one that fails blocks the rest of its target.
* **Crashes.** The agent remembers nothing but the queue file. A target that
  was installing when the agent died is not handed out again. The file itself is
  saved in steps, any of which may fail or be the last.
* **Reading while others write.** A page of the audit log is cut by an offset
  and counted by another query; rows are written between two pages, and by a
  dependency on another thread even between the two queries.
* **Order.** The server's view (status), the agent's view (job, queue) and what
  happened (installer runs) move at different moments.
* **Files and rows.** An installer file is written before its row is committed,
  and the process may stop in between. Nothing cleans up afterwards.
* **Identity.** Two pieces of software are the same when their normalized names
  agree and their publishers agree or one is missing. This is not transitive,
  so one upload can supersede several packages.

What makes each part correct. Deployments: Business Rule 9 (one active
deployment per client), a row that agrees with the audit trail, forward-only
transitions, no outcome on record that did not happen, no finished job without
an outcome sent or queued, no target left under way with nobody to end it,
reports of a target in order and never too early, every target ends.
Repository: one approved package per identity, a whole installer file for every
package, no update missed. Registration: a claimed key belongs to one client for
ever, a deleted client stays deleted. Inventory: one whole scan, in the end the
latest. Sessions: a token is good from its login to its logout, each audited
once, and expires by the timeout in force. Heartbeats: a client counts as online
by the timeout in force. The queue's file: always a whole queue, as the last
operation left it. The audit log: rows survive what they are about, and a reader
who pages through skips none. Monitoring: what is in progress is shown.

## 2. Modules

| Module | Models |
|---|---|
| `DeploymentStatus` | the status values, the sets made of them and the transition table |
| `Deployments` | the deployment tables and every operation on them |
| `TargetLifecycle` | what the deployment service promises, without tables or requests |
| `DeploymentMonitor` | the dashboard's summary, list and history of the deployment tables, as operators |
| `StatusReportStore` | the agent's queue, as operators on its content |
| `ReportQueue` | what the queue's file promises: a queue that changes by whole operations |
| `ReportFile` | how the file is saved, step by step, with errors, crashes and power losses |
| `DeploymentSystem` | agents, one per client, running against `Deployments` over a faulty network |
| `VersionCompare` | software identity and version order, as operators |
| `PackageRepository` | the installer repository, its files, and the update status of inventory records |
| `ClientRegistry` | client API keys, registration and deletion |
| `ClientInventory` | the agent's scans and uploads and the server's inventory, over `ClientRegistry` |
| `ServerTimeouts` | administrator sessions, the saved timeouts, and the client status derived from heartbeats |
| `AuditLog` | the audit log and an administrator who pages through it |
| `MCDeployments`, `MCDeploymentSystem`, `MCReportFile`, `MCPackageRepository`, `MCClientInventory`, `MCServerTimeouts`, `MCAuditLog` | constants for TLC |
| `DeploymentsProofs` | theorems about the deployment tables, the lifecycle they implement and the pages that show them |
| `DeploymentSystemProofs`, `StatusReportStoreProofs` | theorems about agents, network and server together; the lemmas on the queue they need |
| `ReportFileProofs`, `AuditLogProofs`, `PackageRepositoryProofs`, `ClientInventoryProofs`, `ServerTimeoutsProofs` | theorems about the module of that name |

### `Deployments`

A target is a pair of a batch and a client, which the table declares unique.
Batches are numbered in creation order, which stands for the `created_at` order
of the poll. `status[t]` is `"NoRow"` where there is no row; `exitCode`,
`errorMessage`, `completionTime` are the other columns, reduced to what the
code tells apart. `audit` counts the `audit_logs` rows by event and subject.

| Action | Code |
|---|---|
| `CreateDeployment(p, clients)` | `create_deployment`, with its validation of package, clients and Business Rule 9 |
| `CancelDeploymentTarget(t)` | `cancel_deployment_target` |
| `DeleteClient(c)` | `ClientService.delete_client` and the ORM cascade of `Client.deployment_targets` |
| `RejectDownload`, `FailDownload`, `ServeDownload` | the three audited ends of `prepare_installer_download` |
| `ReportStatus(c, t, r)` | `report_status` when it changes the row; `AcceptsReport` is the condition for an answer of 200 |
| `RegisterClient`, `UploadPackage`, `DeactivatePackage` | the environment: all that deployments read of clients and packages |

Rejected requests that change nothing (404, 409, 400) and the poll are not
actions. The agent's operations are not guarded by `registered`, for the reason
given above.

### `DeploymentMonitor`

`CountOf` and `Summary` are `count_targets_by_status` and
`get_deployment_summary`; `Joined` is the query of `list_target_details` before
its `LIMIT`, `NewestFirst` its order and limit. `MonitoringPage` and `History`
are the two pages that show it, for one client.

### `TargetLifecycle`

Batches open once, for clients with nothing in progress; a target advances one
stage at a time; it is concluded from an active stage, as Completed only from
Installing and as Cancelled only from Pending; an erased client loses its
targets and nothing else. `published` counts outcomes. `Deployments` implements
it with `phase <- status`, `opened <- 1..batches` and `published <-` the
number of outcome audit rows of the target.

### `StatusReportStore` and `DeploymentSystem`

`pc[c]` is where the agent of `c` is; `idle` means that its process is not
running. A request, its handler and its answer are one step when nothing goes
wrong, because the agent waits for the answer before it does anything else. What
can go wrong is a step of its own:

| Fault | Steps | Meaning |
|---|---|---|
| `lost_request` | `LoseRequest`, `PollFails`, `DownloadLost` | the server never sees it |
| `lost_reply` | `LoseReply`, `DownloadLost`, `DownloadDamaged` | the server commits, the agent sees an error (or a damaged file) |
| `late_request` | `DelayRequest`, `HandleLate` | the agent times out; the server handles it later, between any two other steps |
| `no_disk` | in `StartCycle`, `Delivered`, `NotDelivered` | the queue file cannot be read or replaced |
| `crash` | `Crash` | the process dies; only the file survives; the installer may have run |

`Deliver` and `Refuse` are the answers of a working network. After the last
attempt `NotDelivered` queues a report of the job, or makes the flush skip the
rest of its target. `runs[t]` is a history of the installer runs that happened,
for the properties only. A refused, undelivered or damaged download ends in a
Failed report without a run.

A report is `[target, status, exitCode, cause]`. `cause` stands for the error
message; `Body` drops it to the yes or no that the server distinguishes. The
store's entry ids are left out: `enqueue` refuses a report equal to a queued
one, so the content identifies the entry.

### `ReportFile` and `ReportQueue`

One save is `mkdir`, `create`, `write`, `sync`, `replace` and, whatever came
before, `unlink` of a temporary file that is left. Each step may raise an
`OSError` instead (`SaveRaises`), after each the process may die (`Crash`), and
a power loss may come at any time (`PowerLoss`). `onDisk` is the set of contents
the file may have after one: the content is flushed before the rename, but the
directory is not, so a replacement may be undone. `trusted` is the queue after
the operations that returned. `ReportFile` implements `ReportQueue` with
`queue <- Load(file)`. One agent process runs at a time; temporary files left by
a crash are never removed, and change nothing. In `DeploymentSystem` the same
operations are one step each, that works or not.

### `VersionCompare` and `PackageRepository`

A name is a sequence: the words of the name as one element, then the suffixes
that `normalize_software_name` removes. A version is the sequence of its
segments, or one of the strings `parse_version` rejects. `Value` is the number a
version stands for when its segments are digits. `compare_versions` pads with
zeros; `TupleLess` is Python's order on tuples, by which
`_select_best_match` picks a candidate and which does not pad.

| Action | Code |
|---|---|
| `RejectDuplicate(u)` | `upload_package` up to `REPOSITORY_UPLOAD_CONFLICT` |
| `BeginUpload(u)`, `StoreFile`, `RefuseFile` | `save_and_hash`: the file is opened, written whole, or too large or empty and removed |
| `CommitUpload(p)` | the rest of `upload_package`: row `p`, `_supersede_previous_approved`, the audit rows, one commit |
| `AbandonUpload` | the process stops or the commit fails; the file stays as it is |
| `DeactivatePackage(p)` | `deactivate_package`, which may be repeated |

An upload is one handler that never awaits, so nothing else happens while
`upload` is set; it is several steps because the process may stop between them.
Rows are numbered in creation order. `content` says of each file whether it is
absent, half-written or whole. `BestMatches` and `Classify` are
`VersionComparisonService`; the choice among equal candidates is left open.

`ImplementsApprovals` ties the module to `Deployments`: the approval statuses
move only as the environment actions `UploadPackage` and `DeactivatePackage`
there let them.

### `ClientRegistry` and `ClientInventory`

A client row is its key and its Agent GUID, which are never changed. `audit` is
the set of audit rows there is at least one of. `Register` is the claim of a
provisioned key by a new GUID, `UpdateRegistration` the repeated registration of
a client, `RejectUnknownKey` and `RejectConflict` the refusals, `DeleteClient`
the deletion.

`uploads` holds the inventory uploads between the agent and the server. Each
is authenticated first and handled afterwards, for the client it was
authenticated as, and a registration or deletion may come in between:
`RejectUpload` (401), `RefuseUpload` (422), `AuthenticateUpload`, `HandleUpload`
(`InventoryService.upload_inventory`) and `FailUpload` (the client is gone and a
foreign key fails). The agent keeps nothing between runs, and a run that gave up
leaves its upload in `uploads`, so a later run can overtake it. `Synced` is the
server's synchronisation: the items are written one by one (`Written`: a row is
updated, or created), then the rows whose name was not among them are removed. The
order of an upload is that of the registry, so any of the versions of a program
may come last and stay. `ScanRows`, for the properties only, says what rows one scan
amounts to. The machine's own software changes as it likes (`ChangeSoftware`).

### `ServerTimeouts`

| Action | Code |
|---|---|
| `BeginRequest(th, purpose, k)` | `get_auth_service`: the request reads the session timeout |
| `FindSession`, `RejectRequest`, `Touch`, `TouchFails` | `require_administrator` with `validate_session`: the lookup, the 401, and the update of the row, which fails when a logout deleted the row in between |
| `Login`, `RefuseLogin`, `Logout`, `SaveSettings`, `ServePage` | the handlers: `login`, `logout`, `update_settings`, and any other for data |
| `OpenPage(th)` | a page route: `_resolve_administrator_or_none` finds and extends the session inside the handler |
| `RecordHeartbeat(c)` | `HeartbeatService.record_heartbeat` |
| `Tick` | the clock |

A thread carries one request at a time, and any other thread may take a step
between two of its steps. `EffectiveStatus` is what the dashboard derives.
`version`, how often the settings had been saved when a request read its
timeout, is a history field for `SessionTimeoutInForce`. A token is random, so
it is issued at most once. `cookies` is until when the browser keeps the session
and CSRF cookies of a token; every login is from a browser of its own. A request
was sent while its cookie was there and may reach the server at any time after
that, so `BeginRequest` does not ask for it. A login is one step, although it
commits its audit row before its session; a process that dies in between is left
out, as are `delete_expired`, which nothing calls, and the heartbeats of deleted
clients.

### `AuditLog`

| Action | Code |
|---|---|
| `AuditEvent(client)` | `AuditLogRepository.create`, by any operation |
| `AuditRefusedKey` | `ClientAuthService.authenticate` on a dependency's thread, between the two queries of a page |
| `DeleteClient(c)` | `ClientService.delete_client`: it writes its audit row, and the deletion clears `client_id` in all rows of the client |
| `OpenLog(f)`, `NextPage` | `audit_log_page` up to `count_logs`, for the first page under filter `f` and for the Next link of the template |
| `ListLogs` | `list_log_details`, the second query |
| `Leave`, `Tick` | the administrator goes away; the database's clock |

`log` is the table in the order of writing, a row being its second and its
client. Rows of one second are listed in either order, the same for all pages of
one reading. `seen` and `wanted` are histories of the reading: the rows shown,
and the rows there were when it began. `slipped` counts the rows written between
the two queries of the page, the only ones that can push a row off the last page.

## 3. Runs

| Run | Checks | Shows |
|---|---|---|
| `MCDeployments` | `TypeOK`, `OneActivePerClient`, `OutcomeOnRecord`, `OutcomeAuditedOnce`, `ImplementsLifecycle`, `HistoryShowsActive`, `SummaryAgrees` | two clients, one package, two batches, deletion and re-registration; the agent's report bodies and two that mix their fields; `FewDownloads` keeps the states with at most one audited download, and that only of one batch |
| `MCSystem` | `SystemTypeOK`, `OutcomesHappened`, `NoLeftoverOutcome`, `InstallingAfterDownload`, `NoOutcomeLost`, `NoTargetStranded`, `UnstartedRunIsQueued`, `FlushesOldestFirst`, `OldestIsDue` | an agent over two batches with every kind of fault and the client deleted, as many together as `FewFaults` allows |
| `MCSystemRecovery` | `TargetsEndOrAreHeldBack` | two attempts per report, two batches, up to three lost requests, one lost reply and one late request, which is enough to queue two reports of one target |
| `MCReportFile` | `ReportFileTypeOK`, `FileIsTrusted`, `ImplementsQueue` | two reports of each of two targets, an `OSError`, a crash and a power loss at every step |
| `MCPackageRepository` | `RepositoryTypeOK`, `OneApprovedPerIdentity`, `InstallerComplete`, `ApprovalAudited`, `NoUpdateMissed`, `ImplementsApprovals` | nine different uploads of two products, three packages, four files, one audited conflict; records of three names, five versions, two publishers or none; versions of up to three segments below 16 |
| `MCClientInventory` | `InventoryTypeOK`, `KeyClaimedOnce`, `DeletedStaysDeleted`, `OneScanPerClient`, `InventoryConverges` | two keys, two GUIDs, one scanning machine, two uploads per client under way, one lost |
| `MCServerTimeouts` | `TimeoutsTypeOK`, `SessionUntilLogout`, `SessionTimeoutInForce` | two tokens, two requests at a time, two values of each timeout, two saves, the clock to 2 |
| `MCAuditLog` | `AuditLogTypeOK`, `NothingSkipped`, `HistoryIsKept` | up to five rows on three pages of two, days of two seconds, every filter by client and days, one client that may be deleted |

Runs whose property the code does not keep, each a statement of the
repository's own documentation:

| Run | Property | Disagreement |
|---|---|---|
| `MCSystemSuccess` | `SuccessNotRecordedFailed` | a job whose reports are all queued is polled and run again; the second run's failure is recorded |
| `MCOutcomeHeldBack` | `QueuedOutcomeArrives` | a Downloading report whose answer was lost is refused in every flush once the target is Installing, and the outcome queued behind it is never sent (`manager.py:312-315`, 352) |
| `MCHeartbeatTimeout` | `HeartbeatTimeoutInForce` | the dashboard resolves the saved heartbeat timeout and overwrites it with the default (`dashboard_service.py:181-190`) |
| `MCSessionCookie` | `SessionKeepsCookie` | the settings page promises expiry after inactivity (`settings.html:104-106`); the cookie is set once, at the login (`auth.py:120`), and gone after the environment's timeout, whatever the activity |

Further disagreements need no run to be seen:

* Deleting a client deletes its deployment targets (`models/client.py:66`), which
  `models/deployment_target.py:47-49` says are kept.
* A progress report writes the exit code and error it carries
  (`deployment_service.py:790`), which its description at 728-731 leaves out. The
  agent sends none, and then `NoLeftoverOutcome` holds.
* A polled job is still Pending and can be cancelled, while
  `deployment_service.py:276-279` quotes FR-021 that it can not. The docstring of
  `cancel_deployment_target` knows of it and calls the status the sole truth.
* A Downloading report whose reply was lost is refused once the target is
  Cancelled or erased, and stays in the queue for good;
  `agent/deployment/manager.py:312-315` says stale transitions are not replayed
  forever. Only a later report of the target that a flush delivers removes it.
* `agent/deployment/manager.py:310` says that reports for other targets stay in the
  queue for a later cycle when one cannot be sent. The loop goes on with them in
  the same cycle, and so does `SkipTarget`.
* The scanner collects programs without a version, which the server refuses with
  422, and the whole inventory with them (`RefuseUpload`). So convergence is
  claimed for machines whose programs all report one.
* The day filter of the audit log is to include every event of the day
  (`api/routers/dashboard.py:426-429`). SQLite stores the time without a fraction
  and compares it as text with a bound that has one, so events of the first
  second of the first day are left out. `NothingSkipped` exempts that second
  (`Described`).
* `_save` turns an `OSError` into a `StatusReportStoreError` from the temporary
  file on, not that of `mkdir` (`status_report_store.py:170`), which escapes as it is.

**Bounds.** Two clients let one batch cover several clients and let a batch be
refused for one of them; two batches let a target follow another of the same
client. Two attempts distinguish a retry from a last attempt. `MaxDownloads`
caps how often each download event is audited. In `MCSystem` `MaxFaults` allows
each kind of fault once and two lost requests, and `FewFaults` keeps four of
them, deletions included, over one batch, and over two batches two of any kind
or all of a network that is merely lossy: enough for every pair of kinds in
every order, and for reports of two targets in one queue. `FewVersions` lets up
to three versions of the report file be at risk of a power loss. `MaxDeletions`
is 1, so a client is deleted and can come back. Three packages let one upload
supersede two of different vendors, and a fourth file be left behind by an
interrupted upload; the sample uploads contain names with and without suffixes,
both vendors and none, versions that agree only after padding, and one that
cannot be parsed; segments below 16 and three of them cover every version of the
run. Two keys and two GUIDs give every conflict of registration. With timeouts
of 1 and 2 and a clock to 2, a session can expire under one setting and not
under the other; two threads are enough for a request to fall between the lookup
and the update of another, and two saves for a timeout to be read, replaced and
restored. Five rows on pages of two give three pages with the last half full,
and room for rows to be written under a reader of two full pages; days of two
seconds have a first second, a last and a boundary. `AuditedEvents` keeps the
audit rows the properties read. Deadlock is not checked for the runs whose
system may stop when its bounds are used up.

**Fairness.** `FairSystemSpec` asks that each agent goes on when it can
(`WF(AgentStep(c))`): the agent is a program run again and again that makes no
external choice but the next request. Nothing is asked of the faults, the late
requests, the administrator or the environment. Faults stop once `MaxFaults` is
reached, so "the network is back at last" is part of the bound.
`FairInventorySpec` asks that the agent of every client runs again and again,
which `agent/main.py` leaves to a scheduler outside the repository, and that the
server handles what it has received. Convergence is claimed for a machine whose
programs and registration no longer change and whose programs all report a
version.

**Outcomes that are held back.** A report that is delivered directly does not
acknowledge what is queued before it; only a flush does (`manager.py:342`). A
report the server refuses stays at the head of its target's queue and holds back
any report behind it. `OldestIsDue` says that only one kind of refusal does so
while the target is in progress: a Downloading the server had already, of a target
that is Installing by now. With an outcome queued behind it the target stays
Installing for good, and its client out of new deployments; `MCOutcomeHeldBack`
shows it with one lost answer and one lost request. `TargetsEndOrAreHeldBack` says
that nothing else of the kind can happen: a lossy network keeps no target in
progress for good in any other way. A crash after Installing does, and so may
a queue file that cannot be used; the liveness claim is for the network alone.

**An ambiguity.** An inventory record without a publisher can match approved
packages of two vendors, and which one is compared with it is a matter of their
versions; `backend/services/version_comparison_service.py:187-189` expects at
most one candidate. `NoUpdateMissed` shows that the choice does no harm to the
update status: an update is reported whenever any candidate is newer.

## 4. Theorems

Every safety property the passing runs check is a theorem for every value of
the constants.

| Theorem | Statement | Argument |
|---|---|---|
| `DeploymentsProofs!TypeCorrect` | `Spec => []TypeOK` | inductive as it stands |
| `BusinessRule9` | `Spec => []OneActivePerClient` | with `TypeOK`; a batch adds one target to clients that have none active, no other action makes a target active that was not |
| `OutcomesAreOnRecord` | `Spec => []OutcomeOnRecord` | not inductive: a new batch must find rows and audit counts untouched. `RecordInv` adds `UnopenedUntouched`, that targets of unopened batches have no outcome and empty columns |
| `DeploymentsImplementLifecycle` | `Spec => ImplementsLifecycle` | with the three invariants above, each action is one abstract step or a stutter |
| `ConcludedOnce`, `OutcomesAuditedOnce` | `PublishedOnce` of `TargetLifecycle`; `Spec => []OutcomeAuditedOnce` | `PublishInv`: nothing is published for a target that is active or was never opened; carried over along the refinement |
| `ActiveIsNeverCutOff` | `Spec => []HistoryShowsActive` | `MonitorInv`: every row's client and package exist, and a client's active target is the newest of its targets; so no row is before it in the order the page is cut by |
| `CountsAgree` | `Spec => []SummaryAgrees` | by `MonitorInv` the join loses no row; by Business Rule 9 a target's client is an injection on the active ones |
| `DeploymentSystemProofs!SystemTypeCorrect` | `SystemSpec => []SystemTypeOK` | inductive; it rests on what `acknowledge` and `enqueue` make of a queue |
| `SystemImplementsDeployments` | `SystemSpec => Spec` | each step of an agent, the network or a late request is a step of `Deployments` or leaves its tables |
| `RulesHoldOfTheSystem` | `OneActivePerClient`, `OutcomeOnRecord`, `ImplementsLifecycle`, `OutcomeAuditedOnce` of `SystemSpec` | the theorems of `Deployments` along the one before |
| `NoFalseOutcome`, `InstallingWasServed`, `NoOutcomeLeftOver` | `SystemSpec => []OutcomesHappened`, `[]InstallingAfterDownload`, `[]NoLeftoverOutcome` | the server believes what it is told, so each needs `HeldReports`: every report an agent holds, has queued or has sent late is true (its own target, a run with that result, an installer that was served), and `RunsOpened`: only targets of opened batches have been run |
| `UnstartedIsQueued` | `SystemSpec => []UnstartedRunIsQueued` | `StartedIsQueued` says it already of a target whose job is past its Downloading report, before the installer runs |
| `OldestIsFlushedFirst` | `SystemSpec => []FlushesOldestFirst` | `FlushOrder`: what is left to flush is queued, without repetition, and whatever is queued before one of its reports, of the same target, is to be flushed before it |
| `OutcomesAreKept`, `NothingIsStranded` | `SystemSpec => []NoOutcomeLost`, `[]NoTargetStranded` | `OutcomesSafe`: a target an agent was handed (it ran, the server has heard of it, or a report of it is held) has its outcome on the server, or a final report in the queue, or its job is not over; `acknowledge` removes older reports of a target only, so the flush order keeps the final one |
| `FlushIsNeverEarly` | `SystemSpec => []OldestIsDue` | `StagesInOrder`: while the server waits for a Downloading report, it is queued before all others of its target, and the same of Installing and Completed. A report that is about to be queued must keep to it, so what the agent has got past (`Installed`) is part of it |
| `ReportFileProofs!FileTypeCorrect`, `SavesAreAtomic` | `ReportFileSpec => []ReportFileTypeOK`, `[]FileIsTrusted` | not inductive: `FileInv` adds that the temporary file is the queue being saved, and flushed, before it replaces the other, and that nothing torn is on the disk |
| `FileImplementsQueue` | `ReportFileSpec => ImplementsQueue` | the queue being saved differs from the file's by one operation until the replacement; the other steps stutter |
| `AuditLogProofs!AuditLogTypeCorrect` | `AuditLogSpec => []AuditLogTypeOK` | a page is never behind the last one the log could fill: the Next link goes no further than the count, which no step makes larger than the log |
| `AuditHistoryKept` | `AuditLogSpec => HistoryIsKept` | from the types |
| `PagesSkipNothing` | `AuditLogSpec => []NothingSkipped` | `PagingInv`: of the rows there were at the start, all with fewer than `k` rows before them in the list as it is now have been seen, `k` being the rows of the pages shown; a row written meanwhile only pushes others down. The last step counts: no more rows than were left uncounted can be behind the last page |
| `PackageRepositoryProofs!RepositoryTypeCorrect` | `RepositorySpec => []RepositoryTypeOK` | inductive as it stands |
| `ApprovedOncePerIdentity` | `RepositorySpec => []OneApprovedPerIdentity` | what stays approved at a commit does not match the new package, and matching is symmetric; transitivity is not needed |
| `InstallersAreComplete` | `RepositorySpec => []InstallerComplete` | not inductive: `InstallerInv` adds that a row that does not exist has no file |
| `ApprovalsAreAudited` | `RepositorySpec => []ApprovalAudited` | inductive with the types |
| `RepositoryImplementsApprovals` | `RepositorySpec => ImplementsApprovals` | each change of an approval is an upload or a deactivation of `Deployments` |
| `NoUpdateIsMissed` | in every state of `RepositorySpec`, `JudgedByAll(record)` of any record | a greatest candidate exists and it is as new as any: what is newer after padding is greater as a tuple, and no candidate is greater than the chosen one |
| `VersionsCompareAsNumbers`, `SameVersionIsEquivalence` | `compare_versions(v, w)` is the comparison of `Value(v)` and `Value(w)`, for `v`, `w` in `Versions`; `same_version` is reflexive, symmetric and transitive, on unparseable versions too | the sums of digits agree as long as the segments do, a larger one stays larger whatever digits follow, and two versions that differ after padding differ at a first segment |
| `UpdatesAreByValue` | `RepositorySpec => []NoUpdateMissed` | the two above, for every set of records whose versions fit the bounds |
| `ClientInventoryProofs!KeysAreClaimedOnce`, `DeletedClientsStayDeleted` | `InventorySpec => []KeyClaimedOnce`, `[]DeletedStaysDeleted` | not inductive: `RegistryInv` adds that every key in the tables was issued, so a new key is none of them |
| `InventoryTypeCorrect`, `InventoryIsOneScan` | `InventorySpec => []InventoryTypeOK`, `[]OneScanPerClient` | `SyncedRows`: whatever rows there were, an upload's loop and removals leave those of its own scan. After `n` items there is exactly one row of each name among them, and it is one of the items; the rest is removed. A new client starts with no inventory rows, because a deleted one leaves none |
| `ServerTimeoutsProofs!TimeoutsTypeCorrect` | `TimeoutsSpec => []TimeoutsTypeOK` | inductive as it stands |
| `SessionsLastUntilLogout`, `SavedTimeoutsTakeEffect` | `TimeoutsSpec => []SessionUntilLogout`, `[]SessionTimeoutInForce` | not inductive: `SessionInv` adds that a token being logged in is in no other request, and that a request whose `version` is current has the timeout in force |

**The inductive invariant of the composed system.** `SystemInv` is the types,
the truth of everything the server may still be told (`HeldReports`,
`RunsOpened`, with `RecordInv` of the tables), the properties themselves, and
the order of the reports (`StartedIsQueued`, `QueuesDistinct`, `FlushesInOrder`,
`StagesInOrder`, `OutcomesSafe`). The parts need each other: an outcome that is
removed from a queue was accepted by the server only because its report was
true, of the agent's own target and, if it was not the oldest, because the ones
before it are gone. A step is looked at twice, from one row of the table (what
may have changed it) and from one report (where it may have come from), and not
action by action for each property.

**The queue.** `StatusReportStoreProofs` says what `enqueue`, `acknowledge` and
`remove` keep, drop and reorder, for queues of any length: they are defined by a
recursive function over positions, and the proofs go by the least position at
which a claim fails (`LeastNumber`), because the library's induction theorems take
an operator as a parameter, which the provers cannot be given. The loop of an
inventory upload (`MergedSteps`) is treated alike. The greatest version among
finitely many packages exists by the same argument on sets, and what is claimed of
the digits of a version is carried from one to the next by `Climb`: a set of
numbers with 0 in it that contains the successor of each up to a bound contains
them all.

**Assumptions.** The theorems hold for every value of the constants that the named
assumptions allow: `ConstantsAssumption` (`Reports` within `AllReports`, naturals
as bounds, `NoPackage` not a package), `MonitorAssumption` (finitely many clients;
the value of an unset filter is neither status, client nor batch),
`SystemAssumption` (at least one attempt per report, a bound on each kind of
fault, the bodies of the agents' reports among `Reports`), `FileAssumption` (no
file and a torn file are not queues), `RepositoryAssumption` (naturals as bounds,
`NoUpload` not an upload), `VersionAssumption` (a version is a sequence of at most
`MaxSegments` naturals below `Base`, or cannot be parsed; any bounds will do, and
the columns of 100 characters give some), `RegistryAssumption` (the audit rows of
a client's life are kept), `InventoryAssumption` (a machine has finitely many
programs), `TimeoutsAssumption` (positive timeouts, the default among the
settings, `NoRow` neither settings nor a session) and `AuditLogAssumption` (pages
and days that are not empty).

**Model-checked only.** `TargetsEndOrAreHeldBack` and `InventoryConverges`, which
are liveness under fairness and out of the proof system's reach. The four
properties of the runs that find a violation are not theorems of this code.

## 5. What could be added

A repaired queue, in which a report that is delivered directly acknowledges what
is queued before it, and the proof that nothing is held back then. A model of two
agent processes sharing one queue file, should the scheduler ever allow it.

## 6. Not modelled

The HTML of the pages and their free-text searches, the pages that only show
what another model's operators say (repository lists, a client's software), how
the Windows registry is read (a scan is one atomic step), database set-up and
migrations, logging, configuration files, error formatting and the set-up
scripts. The settings form submits every value it was loaded with, so the later
of two administrators takes back what the earlier changed; the code promises
nothing there (`system_configuration_repository.py:30-35`), and `SaveSettings`
simply saves any values. Hashes, tokens and UUIDs are taken to be distinct, and
the database keeps its unique and foreign keys. Case and white space of names,
publishers and versions are left out: what the code treats as equal is one value
here. Timestamps are kept only where the code compares them or where their
presence says something.

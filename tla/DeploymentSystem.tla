-------------------------- MODULE DeploymentSystem --------------------------
(***************************************************************************)
(* Client Agents run against the deployment service.  One agent per client *)
(* machine runs agent/deployment/manager.py: a cycle first retries the     *)
(* reports it could not deliver earlier, then polls, and carries out the   *)
(* deployment it is given, reporting each stage.                           *)
(*                                                                         *)
(* The agent waits for each answer before it goes on, so a request, its    *)
(* handler and its answer are one step when nothing goes wrong.  What can  *)
(* go wrong is a step of its own: a request is lost, or its answer is, or  *)
(* the agent gives up on a request the server still handles later.  The    *)
(* agent takes every error alike, a refusal (404, 409, 401) included.      *)
(***************************************************************************)
EXTENDS Deployments, StatusReportStore

CONSTANTS
    MaxAttempts,  \* attempts per request (status_report_ and download_max_retries)
    MaxFaults,    \* bound: how often each kind of fault happens
    NoReport

FaultKinds == {"lost_request", "lost_reply", "late_request", "no_disk", "crash"}

\* How an installer run can end: exit code 0, another one, or none (it timed
\* out, or could not be launched).
Results == {"success", "error_exit", "no_exit"}

Progress(t, s) == [target |-> t, status |-> s, exitCode |-> "none", cause |-> "none"]

\* The installer was never run: the download failed, its checksum was wrong,
\* or the silent command could not be used.  `cause` stands for the
\* error_message.
NotRun(t) == [target |-> t, status |-> "Failed", exitCode |-> "none", cause |-> "not_run"]

\* Mutant: the exit code is not looked at.
FinalUnlessTimedOut(t, result) ==
    [target |-> t, status |-> IF result = "no_exit" THEN "Failed" ELSE "Completed",
     exitCode |-> IF result = "no_exit" THEN "none" ELSE "zero",
     cause |-> IF result = "no_exit" THEN result ELSE "none"]

\* The final report of a finished installer run.
Final(t, result) ==
    [target |-> t,
     status |-> IF result = "success" THEN "Completed" ELSE "Failed",
     exitCode |-> CASE result = "success" -> "zero"
                    [] result = "error_exit" -> "nonzero"
                    [] result = "no_exit" -> "none",
     cause |-> IF result = "success" THEN "none" ELSE result]

AgentReports ==
    UNION {{Progress(t, s) : s \in {"Downloading", "Installing"}} \cup {NotRun(t)}
              \cup {Final(t, result) : result \in Results} : t \in Targets}

\* The request body of a report.
Body(r) == [status |-> r.status, exitCode |-> r.exitCode, error |-> r.cause # "none"]

ASSUME SystemAssumption ==
    /\ MaxAttempts \in Nat \ {0}
    /\ MaxFaults \in [FaultKinds -> Nat]
    /\ \A r \in AgentReports : Body(r) \in Reports
    /\ NoReport \notin AgentReports

VARIABLES
    pc,       \* where each agent is: idle (not running), flush, poll, report, download, execute
    queue,    \* each agent's status report file
    toFlush,  \* the reports the running flush has still to send
    current,  \* the report an agent is sending; its target is the job
    attempt,  \* attempts made of the current request, this one included
    late,     \* report requests agents gave up on that the server may still handle
    runs,     \* results of the installer runs of each target, in order
    faults    \* how often each kind of fault has happened

agentVars == <<pc, queue, toFlush, current, attempt>>
systemVars == <<vars, agentVars, late, runs, faults>>

SystemTypeOK ==
    /\ TypeOK
    /\ pc \in [Clients -> {"idle", "flush", "poll", "report", "download", "execute"}]
    /\ queue \in [Clients -> Seq(AgentReports)]
    /\ toFlush \in [Clients -> Seq(AgentReports)]
    /\ current \in [Clients -> AgentReports \cup {NoReport}]
    /\ attempt \in [Clients -> 1..MaxAttempts]
    /\ late \subseteq Clients \X AgentReports
    /\ runs \in [Targets -> Seq(Results)]
    /\ faults \in [FaultKinds -> Nat]
    /\ \A c \in Clients :
        /\ pc[c] = "flush" <=> toFlush[c] # <<>>
        /\ pc[c] \in {"report", "download", "execute"} <=> current[c] # NoReport

SystemInit ==
    /\ Init
    /\ pc = [c \in Clients |-> "idle"]
    /\ queue = [c \in Clients |-> <<>>]
    /\ toFlush = [c \in Clients |-> <<>>]
    /\ current = [c \in Clients |-> NoReport]
    /\ attempt = [c \in Clients |-> 1]
    /\ late = {}
    /\ runs = [t \in Targets |-> <<>>]
    /\ faults = [k \in FaultKinds |-> 0]

\* A step in which these kinds of fault happen; Faults({}) is one without.
Faults(kinds) ==
    /\ \A k \in kinds : faults[k] < MaxFaults[k]
    /\ faults' = [k \in FaultKinds |-> IF k \in kinds THEN faults[k] + 1 ELSE faults[k]]

\* The queue file can be used in a step, or not.
Disk == {{}, {"no_disk"}}

-----------------------------------------------------------------------------
(* Steps of the agent's program.                                           *)

\* Mutant: the job is not forgotten.
FinishKeepingJob(c) ==
    /\ pc' = [pc EXCEPT ![c] = "idle"]
    /\ attempt' = [attempt EXCEPT ![c] = 1]
    /\ UNCHANGED current

\* The cycle ends: main() returns.
Finish(c) ==
    /\ pc' = [pc EXCEPT ![c] = "idle"]
    /\ current' = [current EXCEPT ![c] = NoReport]
    /\ attempt' = [attempt EXCEPT ![c] = 1]

\* Start sending report r, the next thing the job does.
Report(c, r) ==
    /\ pc' = [pc EXCEPT ![c] = "report"]
    /\ current' = [current EXCEPT ![c] = r]
    /\ attempt' = [attempt EXCEPT ![c] = 1]

\* What follows a report of the job, delivered or not.
AfterReport(c) ==
    CASE current[c].status = "Downloading" ->
            /\ pc' = [pc EXCEPT ![c] = "download"]
            /\ attempt' = [attempt EXCEPT ![c] = 1]
            /\ UNCHANGED current
      [] current[c].status = "Installing" ->
            /\ pc' = [pc EXCEPT ![c] = "execute"]
            /\ attempt' = [attempt EXCEPT ![c] = 1]
            /\ UNCHANGED current
      [] OTHER -> Finish(c)

\* The flush goes on with the reports `rest`, and then the cycle with a poll.
ContinueFlush(c, rest) ==
    /\ toFlush' = [toFlush EXCEPT ![c] = rest]
    /\ pc' = [pc EXCEPT ![c] = IF rest = <<>> THEN "poll" ELSE "flush"]
    /\ attempt' = [attempt EXCEPT ![c] = 1]
    /\ UNCHANGED current

\* Mutant: the cycle begins with the poll.
StartCycleAtPoll(c) ==
    /\ pc[c] = "idle"
    /\ ContinueFlush(c, <<>>)
    /\ UNCHANGED <<vars, queue, late, runs, faults>>

\* A cycle starts.  A queue that cannot be loaded is left alone this time.
StartCycle(c) ==
    /\ pc[c] = "idle"
    /\ \/ ContinueFlush(c, queue[c]) /\ Faults({})
       \/ queue[c] # <<>> /\ ContinueFlush(c, <<>>) /\ Faults({"no_disk"})
    /\ UNCHANGED <<vars, queue, late, runs>>

-----------------------------------------------------------------------------
(* Delivery of a report, from the queue or from the job.                   *)

Sending(c) == pc[c] \in {"flush", "report"}

Outgoing(c) == IF pc[c] = "flush" THEN Head(toFlush[c]) ELSE current[c]

Accepted(c, r) == AcceptsReport(c, r.target, r.status)

\* The server's side of an accepted report: a repetition changes nothing.
Handle(c, r) ==
    IF r.status = status[r.target] THEN UNCHANGED vars
    ELSE ReportStatus(c, r.target, Body(r))

\* The agent got a 200.  A flushed report leaves the queue, unless the file
\* cannot be read or replaced.
Delivered(c) ==
    \/ /\ pc[c] = "flush"
       /\ ContinueFlush(c, Tail(toFlush[c]))
       /\ \E disk \in Disk :
            /\ queue' = IF disk = {} THEN [queue EXCEPT ![c] = Acknowledge(@, Outgoing(c))]
                                   ELSE queue
            /\ Faults(disk)
    \/ /\ pc[c] = "report"
       /\ AfterReport(c)
       /\ Faults({})
       /\ UNCHANGED <<queue, toFlush>>

\* Is there another attempt at the current request?
Retries(c) == attempt[c] < MaxAttempts

\* What a flush that could not deliver its report goes on with: the reports of
\* its other targets.  The mutant goes on with the next report.
SkipReport(c) == Tail(toFlush[c])
SkipTarget(c) == Without(Tail(toFlush[c]), OfTarget(toFlush[c], Outgoing(c).target))

\* An attempt failed, as far as the agent can tell, because of the faults
\* `kinds`.  After the last one a flush skips the rest of that target, and a
\* new report is written to the queue, or lost if that fails too.
NotDelivered(c, kinds) ==
    \/ /\ Retries(c)
       /\ attempt' = [attempt EXCEPT ![c] = @ + 1]
       /\ Faults(kinds)
       /\ UNCHANGED <<pc, queue, toFlush, current>>
    \/ /\ ~Retries(c) /\ pc[c] = "flush"
       /\ ContinueFlush(c, SkipTarget(c))
       /\ Faults(kinds)
       /\ UNCHANGED queue
    \/ /\ ~Retries(c) /\ pc[c] = "report"
       /\ AfterReport(c)
       /\ \E disk \in Disk :
            /\ queue' = IF disk = {} THEN [queue EXCEPT ![c] = Enqueue(@, Outgoing(c))]
                                   ELSE queue
            /\ Faults(kinds \cup disk)
       /\ UNCHANGED toFlush

Deliver(c) ==
    /\ Sending(c) /\ Accepted(c, Outgoing(c))
    /\ Handle(c, Outgoing(c)) /\ Delivered(c)
    /\ UNCHANGED <<late, runs>>

\* Mutant: a refusal is an answer, and the report is done with.
RefuseAndForget(c) ==
    /\ Sending(c) /\ ~Accepted(c, Outgoing(c))
    /\ Delivered(c)
    /\ UNCHANGED <<vars, late, runs>>

\* The server refuses the report: no such target, or not a legal transition.
Refuse(c) ==
    /\ Sending(c) /\ ~Accepted(c, Outgoing(c))
    /\ NotDelivered(c, {})
    /\ UNCHANGED <<vars, late, runs>>

LoseRequest(c) ==
    /\ Sending(c) /\ NotDelivered(c, {"lost_request"})
    /\ UNCHANGED <<vars, late, runs>>

\* The server commits the report, and the agent never learns.
LoseReply(c) ==
    /\ Sending(c) /\ Accepted(c, Outgoing(c))
    /\ Handle(c, Outgoing(c)) /\ NotDelivered(c, {"lost_reply"})
    /\ UNCHANGED <<late, runs>>

\* The agent times out on a request the server has not handled yet.
DelayRequest(c) ==
    /\ Sending(c) /\ NotDelivered(c, {"late_request"})
    /\ late' = late \cup {<<c, Outgoing(c)>>}
    /\ UNCHANGED <<vars, runs>>

\* Mutant: a refused report has already written its columns.
HandleLateWritingFirst(c, r) ==
    /\ <<c, r>> \in late
    /\ late' = late \ {<<c, r>>}
    /\ \/ Accepted(c, r) /\ Handle(c, r)
       \/ /\ ~Accepted(c, r)
          /\ exitCode' = [exitCode EXCEPT ![r.target] = r.exitCode]
          /\ UNCHANGED <<registered, approval, batches, packageOf, status,
                         errorMessage, completionTime, audit>>
    /\ UNCHANGED <<agentVars, runs, faults>>

\* The server handles a request nobody waits for any more.
HandleLate(c, r) ==
    /\ <<c, r>> \in late
    /\ late' = late \ {<<c, r>>}
    /\ IF Accepted(c, r) THEN Handle(c, r) ELSE UNCHANGED vars
    /\ UNCHANGED <<agentVars, runs, faults>>

-----------------------------------------------------------------------------
(* The rest of the cycle.                                                  *)

PollFinds(c, t) ==
    /\ pc[c] = "poll" /\ t \in PendingTargetOf(c)
    /\ Report(c, Progress(t, "Downloading"))
    /\ UNCHANGED <<vars, queue, toFlush, late, runs, faults>>

PollFindsNothing(c) ==
    /\ pc[c] = "poll" /\ PendingTargetOf(c) = {}
    /\ Finish(c)
    /\ UNCHANGED <<vars, queue, toFlush, late, runs, faults>>

PollFails(c) ==
    /\ pc[c] = "poll" /\ Faults({"lost_request"})
    /\ Finish(c)
    /\ UNCHANGED <<vars, queue, toFlush, late, runs>>

\* The installer arrives and has the right checksum.
Download(c) ==
    /\ pc[c] = "download"
    /\ ServeDownload(c, current[c].target)
    /\ Report(c, Progress(current[c].target, "Installing"))
    /\ UNCHANGED <<queue, toFlush, late, runs, faults>>

\* Mutant: the installation goes on without the download.
DownloadIgnored(c) ==
    /\ pc[c] = "download"
    /\ Report(c, Progress(current[c].target, "Installing"))
    /\ UNCHANGED <<queue, toFlush, late, runs>>

\* A failed download is retried, and given up after the last attempt.
DownloadNotDone(c) ==
    /\ pc[c] = "download"
    /\ IF Retries(c)
       THEN attempt' = [attempt EXCEPT ![c] = @ + 1] /\ UNCHANGED <<pc, current>>
       ELSE Report(c, NotRun(current[c].target))
    /\ UNCHANGED <<queue, toFlush, late, runs>>

\* 404, 500, 409, or 401 once the client is deleted.
DownloadRefused(c) ==
    /\ DownloadNotDone(c)
    /\ LET t == current[c].target
       IN  \/ RejectDownload(c, t)
           \/ FailDownload(c, t)
           \/ ~Downloadable(c, t) /\ (t \in TargetsOf(c) \/ c \notin registered) /\ UNCHANGED vars
    /\ UNCHANGED faults

DownloadLost(c) ==
    /\ DownloadNotDone(c)
    /\ \/ Faults({"lost_request"}) /\ UNCHANGED vars
       \/ Faults({"lost_reply"}) /\ ServeDownload(c, current[c].target)

\* It arrives damaged: ChecksumMismatchError, which is not retried.
DownloadDamaged(c) ==
    /\ pc[c] = "download"
    /\ ServeDownload(c, current[c].target) /\ Faults({"lost_reply"})
    /\ Report(c, NotRun(current[c].target))
    /\ UNCHANGED <<queue, toFlush, late, runs>>

\* build_command raises, after Installing has been reported.
CommandUnusable(c) ==
    /\ pc[c] = "execute"
    /\ Report(c, NotRun(current[c].target))
    /\ UNCHANGED <<vars, queue, toFlush, late, runs, faults>>

RunInstaller(c, result) ==
    /\ pc[c] = "execute"
    /\ runs' = [runs EXCEPT ![current[c].target] = Append(@, result)]
    /\ Report(c, Final(current[c].target, result))
    /\ UNCHANGED <<vars, queue, toFlush, late, faults>>

\* The agent's process dies: only the queue file survives.  Its installer may
\* have run.
Crash(c) ==
    /\ pc[c] # "idle" /\ Faults({"crash"})
    /\ Finish(c)
    /\ toFlush' = [toFlush EXCEPT ![c] = <<>>]
    /\ \/ UNCHANGED runs
       \/ /\ pc[c] = "execute"
          /\ \E result \in Results :
                runs' = [runs EXCEPT ![current[c].target] = Append(@, result)]
    /\ UNCHANGED <<vars, queue, late>>

-----------------------------------------------------------------------------
\* The administrator and the environment act beside the agents.
ServerNext == (AdminNext \/ EnvironmentNext) /\ UNCHANGED <<agentVars, late, runs, faults>>

\* What the agent of c and the server do when nothing goes wrong between them.
AgentStep(c) ==
    \/ StartCycle(c)
    \/ Deliver(c)
    \/ Refuse(c)
    \/ \E t \in Targets : PollFinds(c, t)
    \/ PollFindsNothing(c)
    \/ Download(c)
    \/ DownloadRefused(c)
    \/ CommandUnusable(c)
    \/ \E result \in Results : RunInstaller(c, result)

FaultStep(c) ==
    \/ LoseRequest(c)
    \/ LoseReply(c)
    \/ DelayRequest(c)
    \/ PollFails(c)
    \/ DownloadLost(c)
    \/ DownloadDamaged(c)
    \/ Crash(c)

SystemNext ==
    \/ ServerNext
    \/ \E c \in Clients : AgentStep(c) \/ FaultStep(c)
    \/ \E m \in late : HandleLate(m[1], m[2])

SystemSpec == SystemInit /\ [][SystemNext]_systemVars

\* Every agent is run again and again, and goes on when it can; faults stop
\* when MaxFaults is reached.
FairSystemSpec == SystemSpec /\ \A c \in Clients : WF_systemVars(AgentStep(c))

-----------------------------------------------------------------------------
(* Properties.                                                             *)

Job(c, t) == current[c] # NoReport /\ current[c].target = t

Ran(t, result) == \E i \in DOMAIN runs[t] : runs[t][i] = result

QueuedFor(t) == {i \in DOMAIN queue[ClientOf(t)] : queue[ClientOf(t)][i].target = t}

\* Whatever is lost, late, refused or crashes, the server does not record an
\* outcome that did not happen: Completed says that the installer of this very
\* target exited with 0, and an error code that it exited with one.
OutcomesHappened ==
    \A t \in Targets :
        /\ status[t] = "Completed" => exitCode[t] = "zero" /\ Ran(t, "success")
        /\ exitCode[t] = "nonzero" => Ran(t, "error_exit")

\* A target is never seen installing before its installer has been served,
\* although the reports and the download are separate requests.
InstallingAfterDownload ==
    \A t \in Targets :
        status[t] \in {"Installing", "Completed"} => audit[<<"INSTALLER_DOWNLOAD", t>>] > 0

\* A row is never half an outcome: a target that is waiting, under way or
\* cancelled has neither exit code nor error, and one that was Completed has no
\* error, although report_status keeps whatever an earlier report left.
NoLeftoverOutcome ==
    \A t \in Targets :
        /\ status[t] \in ACTIVE_DEPLOYMENT_STATUSES \cup {"Cancelled"} => exitCode[t] = "none"
        /\ errorMessage[t] => status[t] = "Failed"

\* _report_status_with_retries: when the agent has finished a job whose
\* installer ran, the server knows an outcome or the queue holds one, unless
\* the agent died or could not write the queue.
NoOutcomeLost ==
    faults["crash"] = 0 /\ faults["no_disk"] = 0 =>
        \A t \in Targets :
            runs[t] # <<>> /\ ~Job(ClientOf(t), t)
                => \/ status[t] \in TERMINAL_DEPLOYMENT_STATUSES \cup {"NoRow"}
                   \/ \E i \in QueuedFor(t) :
                        queue[ClientOf(t)][i].status \in {"Completed", "Failed"}

\* A target seen under way is under way: the agent is at the job, or has queued
\* how it ended, unless it died or could not write the queue.  A target that
\* neither poll nor cancel_deployment_target would ever pick up again is not
\* left Downloading or Installing by lost, late and refused reports alone
\* (_report_status_with_retries, _report_final_status).
NoTargetStranded ==
    faults["crash"] = 0 /\ faults["no_disk"] = 0 =>
        \A t \in Targets :
            status[t] \in {"Downloading", "Installing"}
                => \/ Job(ClientOf(t), t)
                   \/ \E i \in QueuedFor(t) :
                        queue[ClientOf(t)][i].status \in {"Completed", "Failed"}

\* A target whose installer ran is Pending, to be installed a second time, or
\* Cancelled, only while the report that it was started is still in the queue:
\* otherwise neither the poll nor cancel_deployment_target mistakes it for new.
UnstartedRunIsQueued ==
    faults["no_disk"] = 0 =>
        \A t \in Targets :
            status[t] \in {"Pending", "Cancelled"} /\ runs[t] # <<>>
                => Queued(queue[ClientOf(t)], Progress(t, "Downloading"))

\* _flush_pending_status_reports: the report being retried is the oldest one
\* queued for its target, because the server may need that one first.
FlushesOldestFirst ==
    faults["no_disk"] = 0 =>
        \A c \in Clients :
            pc[c] = "flush" =>
                \A i \in QueuedFor(Outgoing(c).target) :
                    \E j \in 1..i : queue[c][j] = Outgoing(c)

\* _flush_pending_status_reports: a target still in progress is never held back
\* because the server waits for an earlier report.  The oldest one queued is
\* accepted, but for one refusal: Downloading, when the server had it already
\* and the target is Installing.
OldestIsDue ==
    faults["no_disk"] = 0 =>
        \A t \in Targets : \A i \in QueuedFor(t) :
            LET s == queue[ClientOf(t)][i].status
            IN  /\ status[t] \in ACTIVE_DEPLOYMENT_STATUSES
                /\ \A j \in QueuedFor(t) : i =< j
                => \/ AcceptsReport(ClientOf(t), t, s)
                   \/ s = "Downloading" /\ status[t] = "Installing"

\* Claimed by _report_final_status: "a failed status report must never cause a
\* successful installation to be recorded as failed".
SuccessNotRecordedFailed ==
    \A t \in Targets : Ran(t, "success") => status[t] # "Failed"

\* That one refusal never goes away, and an outcome queued behind it is never
\* sent.
HeldBack(t) ==
    LET q == queue[ClientOf(t)]
    IN  /\ status[t] = "Installing"
        /\ \E i \in QueuedFor(t) :
             /\ q[i] = Progress(t, "Downloading")
             /\ \E j \in QueuedFor(t) : i < j /\ q[j].status \in {"Completed", "Failed"}

\* Whatever is lost and late, in the end a target is in progress no more, or
\* its outcome is held back: retries, the queue and repeated reports see to
\* every other case (_flush_pending_status_reports).
TargetsEndOrAreHeldBack ==
    \A t \in Targets :
        <>[](status[t] \in ACTIVE_DEPLOYMENT_STATUSES => HeldBack(t))

\* Claimed by _report_status_with_retries, "FR-012 requires a failed report to
\* survive the current communication cycle and be retried during a later cycle",
\* and by _flush_pending_status_reports, which "covers lost HTTP responses
\* without replaying stale transitions forever": a queued outcome gets through.
QueuedOutcomeArrives ==
    \A t \in Targets :
        /\ status[t] \in ACTIVE_DEPLOYMENT_STATUSES
        /\ \E i \in QueuedFor(t) : queue[ClientOf(t)][i].status \in {"Completed", "Failed"}
        ~> status[t] \notin ACTIVE_DEPLOYMENT_STATUSES

=============================================================================

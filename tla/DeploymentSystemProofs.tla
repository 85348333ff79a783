----------------------- MODULE DeploymentSystemProofs ------------------------
(* What holds of the agents and the server together, for every set of       *)
(* clients and packages, every number of attempts and any number of faults. *)
EXTENDS DeploymentSystem, DeploymentsProofs, StatusReportStoreProofs

-----------------------------------------------------------------------------
(* The reports an agent makes.                                              *)

LEMMA ReportsMade ==
    ASSUME NEW t \in Targets
    PROVE  /\ \A s \in {"Downloading", "Installing"} : Progress(t, s) \in AgentReports
           /\ NotRun(t) \in AgentReports
           /\ \A result \in Results : Final(t, result) \in AgentReports
BY DEF AgentReports

LEMMA ReportShape ==
    ASSUME NEW r \in AgentReports
    PROVE  /\ r.target \in Targets
           /\ \/ \E s \in {"Downloading", "Installing"} : r = Progress(r.target, s)
              \/ r = NotRun(r.target)
              \/ \E result \in Results : r = Final(r.target, result)
<1>1. PICK t \in Targets : \/ \E s \in {"Downloading", "Installing"} : r = Progress(t, s)
                           \/ r = NotRun(t)
                           \/ \E result \in Results : r = Final(t, result)
  BY DEF AgentReports
<1>2. r.target = t
  BY <1>1 DEF Progress, NotRun, Final
<1> QED
  BY <1>1, <1>2

\* The fields of a report belong together.
LEMMA ReportFields ==
    ASSUME NEW r \in AgentReports
    PROVE  /\ r.target \in Targets
           /\ r.status \in CLIENT_REPORTABLE_STATUSES
           /\ r.status \in {"Downloading", "Installing"} =>
                r = Progress(r.target, r.status) /\ r.exitCode = "none" /\ r.cause = "none"
           /\ r.status = "Completed" => r.exitCode = "zero" /\ r.cause = "none"
           /\ r.status = "Failed" => r.exitCode \in {"none", "nonzero"} /\ r.cause # "none"
           /\ Body(r) \in Reports
           /\ Body(r).status = r.status /\ Body(r).exitCode = r.exitCode
           /\ Body(r).error <=> r.cause # "none"
<1>1. /\ Body(r) \in Reports
      /\ Body(r).status = r.status /\ Body(r).exitCode = r.exitCode
      /\ Body(r).error <=> r.cause # "none"
  BY SystemAssumption DEF Body
<1> SUFFICES /\ r.status \in CLIENT_REPORTABLE_STATUSES
             /\ r.status \in {"Downloading", "Installing"} =>
                    r = Progress(r.target, r.status) /\ r.exitCode = "none" /\ r.cause = "none"
             /\ r.status = "Completed" => r.exitCode = "zero" /\ r.cause = "none"
             /\ r.status = "Failed" => r.exitCode \in {"none", "nonzero"} /\ r.cause # "none"
  BY <1>1, ReportShape
<1>2. ASSUME NEW t, NEW s \in {"Downloading", "Installing"}, r = Progress(t, s)
      PROVE  r.target = t /\ r.status = s /\ r.exitCode = "none" /\ r.cause = "none"
  BY <1>2 DEF Progress
<1>3. ASSUME NEW t, r = NotRun(t)
      PROVE  r.status = "Failed" /\ r.exitCode = "none" /\ r.cause # "none"
  BY <1>3 DEF NotRun
<1>4. ASSUME NEW t, NEW result \in Results, r = Final(t, result)
      PROVE  \/ r.status = "Completed" /\ r.exitCode = "zero" /\ r.cause = "none"
             \/ r.status = "Failed" /\ r.exitCode \in {"none", "nonzero"} /\ r.cause # "none"
  BY <1>4 DEF Final, Results
<1> QED
  BY <1>2, <1>3, <1>4, ReportShape DEF CLIENT_REPORTABLE_STATUSES

LEMMA Outgoings ==
    ASSUME SystemTypeOK, NEW c \in Clients, Sending(c)
    PROVE  /\ Outgoing(c) \in AgentReports
           /\ pc[c] = "flush" => toFlush[c] # <<>> /\ Outgoing(c) = Head(toFlush[c])
                                   /\ Tail(toFlush[c]) \in Seq(AgentReports)
           /\ pc[c] = "report" => Outgoing(c) = current[c] /\ toFlush[c] = <<>>
<1>1. CASE pc[c] = "flush"
  <2>1. toFlush[c] \in Seq(AgentReports) /\ toFlush[c] # <<>>
    BY <1>1 DEF SystemTypeOK
  <2> QED
    BY <1>1, <2>1 DEF Outgoing
<1>2. CASE pc[c] = "report"
  BY <1>2 DEF SystemTypeOK, Outgoing
<1> QED
  BY <1>1, <1>2 DEF Sending

\* The job an agent downloads or installs is of a target.
LEMMA Jobs ==
    ASSUME SystemTypeOK, NEW c \in Clients, pc[c] \in {"report", "download", "execute"}
    PROVE  current[c] \in AgentReports /\ current[c].target \in Targets
<1>1. current[c] \in AgentReports
  BY DEF SystemTypeOK
<1> QED
  BY <1>1, ReportFields

\* The reports of c that may still reach the server.
HeldBy(c, r) ==
    Queued(queue[c], r) \/ Queued(toFlush[c], r) \/ current[c] = r \/ <<c, r>> \in late

LEMMA OutgoingHeld ==
    ASSUME SystemTypeOK, NEW c \in Clients, Sending(c)
    PROVE  HeldBy(c, Outgoing(c))
<1>1. CASE pc[c] = "flush"
  <2>1. toFlush[c] \in Seq(AgentReports) /\ toFlush[c] # <<>>
    BY <1>1 DEF SystemTypeOK
  <2>2. 1 \in DOMAIN toFlush[c] /\ toFlush[c][1] = Head(toFlush[c])
    BY <2>1
  <2> QED
    BY <1>1, <2>2 DEF HeldBy, Queued, Outgoing
<1>2. CASE pc[c] = "report"
  BY <1>2 DEF HeldBy, Outgoing
<1> QED
  BY <1>1, <1>2 DEF Sending

\* Faults are counted and never forgotten.
LEMMA FaultsCounted ==
    ASSUME SystemTypeOK, NEW kinds \in SUBSET FaultKinds, Faults(kinds)
    PROVE  /\ faults' \in [FaultKinds -> Nat]
           /\ \A k \in FaultKinds : faults'[k] >= faults[k]
           /\ \A k \in kinds : faults'[k] > 0
BY DEF Faults, SystemTypeOK

-----------------------------------------------------------------------------
(* What an agent's step does, apart from the server's side of it.  There    *)
(* are many actions and few things they do with a report.                   *)

Stays(c) == UNCHANGED <<pc, queue, toFlush, current>>

StartsFlush(c) ==
    /\ pc[c] = "idle"
    /\ \/ ContinueFlush(c, queue[c])
       \/ ContinueFlush(c, <<>>) /\ faults'["no_disk"] > 0
    /\ UNCHANGED queue

FlushesReport(c) ==
    /\ pc[c] = "flush"
    /\ Accepted(c, Outgoing(c)) /\ Handle(c, Outgoing(c))
    /\ ContinueFlush(c, Tail(toFlush[c]))
    /\ \/ queue' = [queue EXCEPT ![c] = Acknowledge(@, Outgoing(c))]
       \/ UNCHANGED queue /\ faults'["no_disk"] > 0

SkipsReports(c) ==
    /\ pc[c] = "flush"
    /\ ContinueFlush(c, SkipTarget(c))
    /\ UNCHANGED queue

EndsReport(c) ==
    /\ pc[c] = "report" /\ AfterReport(c)
    /\ \/ Accepted(c, current[c]) /\ Handle(c, current[c]) /\ UNCHANGED queue
       \/ queue' = [queue EXCEPT ![c] = Enqueue(@, current[c])]
       \/ UNCHANGED queue /\ faults'["no_disk"] > 0
    /\ UNCHANGED toFlush

\* The reports a job makes, and what it has done for them.
Fresh(c, r) ==
    \/ /\ pc[c] = "poll" /\ UNCHANGED vars
       /\ \E t \in PendingTargetOf(c) : r = Progress(t, "Downloading")
    \/ /\ pc[c] = "download" /\ ServeDownload(c, current[c].target)
       /\ r = Progress(current[c].target, "Installing")
    \/ pc[c] \in {"download", "execute"} /\ r = NotRun(current[c].target)
    \/ /\ pc[c] = "execute" /\ UNCHANGED vars
       /\ \E result \in Results :
            /\ r = Final(current[c].target, result)
            /\ runs' = [runs EXCEPT ![current[c].target] = Append(@, result)]

StartsReport(c) ==
    /\ \E r : Report(c, r) /\ Fresh(c, r)
    /\ UNCHANGED <<queue, toFlush>>

FindsNothing(c) ==
    /\ pc[c] = "poll" /\ Finish(c)
    /\ UNCHANGED <<queue, toFlush>>

Dies(c) ==
    /\ Finish(c) /\ faults'["crash"] > 0
    /\ toFlush' = [toFlush EXCEPT ![c] = <<>>]
    /\ UNCHANGED queue

Moves(c) ==
    \/ Stays(c) \/ StartsFlush(c) \/ FlushesReport(c) \/ SkipsReports(c) \/ EndsReport(c)
    \/ StartsReport(c) \/ FindsNothing(c) \/ Dies(c)

\* What else it does: attempts and faults are counted, a request may be left
\* to the server, an installer may be run.
Counts(c) ==
    /\ attempt' \in [Clients -> 1..MaxAttempts]
    /\ faults' \in [FaultKinds -> Nat] /\ \A k \in FaultKinds : faults'[k] >= faults[k]
    /\ \/ UNCHANGED late
       \/ Sending(c) /\ late' = late \cup {<<c, Outgoing(c)>>}
    /\ \/ UNCHANGED runs
       \/ /\ pc[c] = "execute" /\ UNCHANGED vars
          /\ \E result \in Results :
                runs' = [runs EXCEPT ![current[c].target] = Append(@, result)]

LEMMA AttemptsCounted ==
    ASSUME SystemTypeOK, NEW c \in Clients
    PROVE  /\ attempt' = [attempt EXCEPT ![c] = 1] => attempt' \in [Clients -> 1..MaxAttempts]
           /\ attempt' = attempt => attempt' \in [Clients -> 1..MaxAttempts]
           /\ Retries(c) /\ attempt' = [attempt EXCEPT ![c] = @ + 1]
                => attempt' \in [Clients -> 1..MaxAttempts]
<1>1. MaxAttempts \in Nat \ {0} /\ attempt \in [Clients -> 1..MaxAttempts]
  BY SystemAssumption DEF SystemTypeOK
<1> QED
  BY <1>1 DEF Retries

LEMMA NotDeliveredMoves ==
    ASSUME SystemTypeOK, NEW c \in Clients, Sending(c),
           NEW kinds \in SUBSET FaultKinds, NotDelivered(c, kinds)
    PROVE  /\ Stays(c) \/ SkipsReports(c) \/ EndsReport(c)
           /\ attempt' \in [Clients -> 1..MaxAttempts]
           /\ faults' \in [FaultKinds -> Nat] /\ \A k \in FaultKinds : faults'[k] >= faults[k]
<1>1. CASE Retries(c) /\ attempt' = [attempt EXCEPT ![c] = @ + 1] /\ Faults(kinds)
                /\ UNCHANGED <<pc, queue, toFlush, current>>
  BY <1>1, AttemptsCounted, FaultsCounted DEF Stays
<1>2. CASE pc[c] = "flush" /\ ContinueFlush(c, SkipTarget(c)) /\ Faults(kinds) /\ UNCHANGED queue
  BY <1>2, AttemptsCounted, FaultsCounted DEF SkipsReports, ContinueFlush
<1>3. ASSUME pc[c] = "report", AfterReport(c), UNCHANGED toFlush,
             NEW disk \in Disk, Faults(kinds \cup disk),
             queue' = IF disk = {} THEN [queue EXCEPT ![c] = Enqueue(@, Outgoing(c))] ELSE queue
      PROVE  /\ EndsReport(c)
             /\ attempt' \in [Clients -> 1..MaxAttempts]
             /\ faults' \in [FaultKinds -> Nat] /\ \A k \in FaultKinds : faults'[k] >= faults[k]
  <2>1. attempt' = [attempt EXCEPT ![c] = 1]
    BY <1>3 DEF AfterReport, Finish
  <2>2. Outgoing(c) = current[c]
    BY <1>3 DEF Outgoing
  <2>3. kinds \cup disk \in SUBSET FaultKinds /\ (disk # {} => "no_disk" \in kinds \cup disk)
    BY <1>3 DEF Disk, FaultKinds
  <2>4. disk # {} => faults'["no_disk"] > 0
    BY <1>3, <2>3, FaultsCounted
  <2> QED
    BY <1>3, <2>1, <2>2, <2>3, <2>4, AttemptsCounted, FaultsCounted DEF EndsReport
<1> QED
  BY <1>1, <1>2, <1>3 DEF NotDelivered

\* A step without a fault.
LEMMA NothingCounted ==
    ASSUME SystemTypeOK, NEW c \in Clients, attempt' = [attempt EXCEPT ![c] = 1],
           UNCHANGED <<late, faults>>,
           \/ UNCHANGED runs
           \/ /\ pc[c] = "execute" /\ UNCHANGED vars
              /\ \E result \in Results :
                    runs' = [runs EXCEPT ![current[c].target] = Append(@, result)]
    PROVE  Counts(c)
<1>1. faults \in [FaultKinds -> Nat]
  BY DEF SystemTypeOK
<1>2. faults' \in [FaultKinds -> Nat] /\ \A k \in FaultKinds : faults'[k] >= faults[k]
  BY <1>1
<1> QED
  BY <1>2, AttemptsCounted DEF Counts

LEMMA DeliverMoves ==
    ASSUME SystemTypeOK, NEW c \in Clients, Deliver(c)
    PROVE  /\ FlushesReport(c) \/ EndsReport(c)
           /\ Counts(c)
<1>1. UNCHANGED <<late, runs>> /\ Accepted(c, Outgoing(c)) /\ Handle(c, Outgoing(c)) /\ Delivered(c)
  BY DEF Deliver
<1>2. ASSUME pc[c] = "flush", ContinueFlush(c, Tail(toFlush[c])), NEW disk \in Disk, Faults(disk),
             queue' = IF disk = {} THEN [queue EXCEPT ![c] = Acknowledge(@, Outgoing(c))] ELSE queue
      PROVE  FlushesReport(c) /\ Counts(c)
  <2>1. disk \in SUBSET FaultKinds /\ (disk # {} => "no_disk" \in disk)
    BY <1>2 DEF Disk, FaultKinds
  <2>2. disk # {} => faults'["no_disk"] > 0
    BY <1>2, <2>1, FaultsCounted
  <2>3. Counts(c)
    BY <1>1, <1>2, <2>1, AttemptsCounted, FaultsCounted DEF Counts, ContinueFlush
  <2> QED
    BY <1>1, <1>2, <2>2, <2>3 DEF FlushesReport
<1>3. ASSUME pc[c] = "report", AfterReport(c), Faults({}), UNCHANGED <<queue, toFlush>>
      PROVE  EndsReport(c) /\ Counts(c)
  <2>1. attempt' = [attempt EXCEPT ![c] = 1]
    BY <1>3 DEF AfterReport, Finish
  <2>2. Outgoing(c) = current[c]
    BY <1>3 DEF Outgoing
  <2>3. Counts(c)
    BY <1>1, <1>3, <2>1, AttemptsCounted, FaultsCounted DEF Counts
  <2> QED
    BY <1>1, <1>3, <2>2, <2>3 DEF EndsReport
<1> QED
  BY <1>1, <1>2, <1>3 DEF Delivered

\* A request that fails, as far as the agent can tell.
LEMMA FailedSendMoves ==
    ASSUME SystemTypeOK, NEW c \in Clients,
           Refuse(c) \/ LoseRequest(c) \/ LoseReply(c) \/ DelayRequest(c)
    PROVE  Moves(c) /\ Counts(c)
<1>1. Sending(c) /\ \E kinds \in SUBSET FaultKinds : NotDelivered(c, kinds)
  BY DEF Refuse, LoseRequest, LoseReply, DelayRequest, FaultKinds
<1>2. UNCHANGED runs /\ (late' = late \/ late' = late \cup {<<c, Outgoing(c)>>})
  BY DEF Refuse, LoseRequest, LoseReply, DelayRequest
<1> QED
  BY <1>1, <1>2, NotDeliveredMoves DEF Moves, Counts

LEMMA DownloadMoves ==
    ASSUME SystemTypeOK, NEW c \in Clients,
           \/ Download(c) \/ DownloadRefused(c) \/ DownloadLost(c) \/ DownloadDamaged(c)
    PROVE  Moves(c) /\ Counts(c)
<1>1. CASE Download(c)
  <2>1. StartsReport(c)
    BY <1>1 DEF Download, StartsReport, Fresh
  <2>2. Counts(c)
    BY <1>1, NothingCounted DEF Download, Report
  <2> QED
    BY <2>1, <2>2 DEF Moves
<1>2. ASSUME DownloadNotDone(c)
      PROVE  /\ Stays(c) \/ StartsReport(c)
             /\ attempt' \in [Clients -> 1..MaxAttempts]
  <2>1. CASE Retries(c) /\ attempt' = [attempt EXCEPT ![c] = @ + 1]
    BY <1>2, <2>1, AttemptsCounted DEF DownloadNotDone, Stays
  <2>2. CASE ~Retries(c)
    BY <1>2, <2>2, AttemptsCounted DEF DownloadNotDone, StartsReport, Fresh, Report
  <2> QED
    BY <1>2, <2>1, <2>2 DEF DownloadNotDone
<1>3. CASE DownloadRefused(c)
  <2>1. DownloadNotDone(c) /\ UNCHANGED <<late, runs, faults>>
    BY <1>3 DEF DownloadRefused, DownloadNotDone
  <2> QED
    BY <1>2, <2>1 DEF Moves, Counts, SystemTypeOK
<1>4. ASSUME UNCHANGED <<late, runs>>, NEW k \in FaultKinds, Faults({k}),
             attempt' \in [Clients -> 1..MaxAttempts]
      PROVE  Counts(c)
  BY <1>4, FaultsCounted DEF Counts
<1>5. CASE DownloadLost(c)
  BY <1>2, <1>4, <1>5 DEF DownloadLost, DownloadNotDone, FaultKinds, Moves
<1>6. CASE DownloadDamaged(c)
  <2>1. StartsReport(c)
    BY <1>6 DEF DownloadDamaged, StartsReport, Fresh
  <2>2. attempt' \in [Clients -> 1..MaxAttempts]
    BY <1>6, AttemptsCounted DEF DownloadDamaged, Report
  <2> QED
    BY <1>4, <1>6, <2>1, <2>2 DEF DownloadDamaged, FaultKinds, Moves
<1> QED
  BY <1>1, <1>3, <1>5, <1>6

LEMMA AgentMoves ==
    ASSUME SystemTypeOK, NEW c \in Clients, AgentStep(c) \/ FaultStep(c)
    PROVE  Moves(c) /\ Counts(c)
<1> USE DEF Moves
<1>1. CASE StartCycle(c)
  <2>1. UNCHANGED <<queue, late, runs>> /\ pc[c] = "idle"
    BY <1>1 DEF StartCycle
  <2>2. CASE ContinueFlush(c, queue[c]) /\ Faults({})
    <3>1. StartsFlush(c)
      BY <2>1, <2>2 DEF StartsFlush
    <3>2. Counts(c)
      BY <2>1, <2>2, FaultsCounted, AttemptsCounted DEF Counts, ContinueFlush
    <3> QED
      BY <3>1, <3>2
  <2>3. CASE ContinueFlush(c, <<>>) /\ Faults({"no_disk"})
    <3>1. {"no_disk"} \in SUBSET FaultKinds
      BY DEF FaultKinds
    <3>2. StartsFlush(c)
      BY <2>1, <2>3, <3>1, FaultsCounted DEF StartsFlush
    <3>3. Counts(c)
      BY <2>1, <2>3, <3>1, FaultsCounted, AttemptsCounted DEF Counts, ContinueFlush
    <3> QED
      BY <3>2, <3>3
  <2> QED
    BY <1>1, <2>2, <2>3 DEF StartCycle
<1>2. CASE Deliver(c)
  BY <1>2, DeliverMoves
<1>3. CASE Refuse(c) \/ LoseRequest(c) \/ LoseReply(c) \/ DelayRequest(c)
  BY <1>3, FailedSendMoves
<1>4. ASSUME NEW t \in Targets, PollFinds(c, t) PROVE Moves(c) /\ Counts(c)
  <2>1. StartsReport(c)
    BY <1>4 DEF PollFinds, StartsReport, Fresh
  <2>2. Counts(c)
    BY <1>4, NothingCounted DEF PollFinds, Report
  <2> QED
    BY <2>1, <2>2
<1>5. CASE PollFindsNothing(c)
  <2>1. FindsNothing(c)
    BY <1>5 DEF PollFindsNothing, FindsNothing
  <2>2. Counts(c)
    BY <1>5, NothingCounted DEF PollFindsNothing, Finish
  <2> QED
    BY <2>1, <2>2
<1>6. CASE Download(c) \/ DownloadRefused(c) \/ DownloadLost(c) \/ DownloadDamaged(c)
  BY <1>6, DownloadMoves
<1>7. CASE CommandUnusable(c)
  <2>1. StartsReport(c)
    BY <1>7 DEF CommandUnusable, StartsReport, Fresh
  <2>2. Counts(c)
    BY <1>7, NothingCounted DEF CommandUnusable, Report
  <2> QED
    BY <2>1, <2>2
<1>8. ASSUME NEW result \in Results, RunInstaller(c, result) PROVE Moves(c) /\ Counts(c)
  <2>1. StartsReport(c)
    BY <1>8 DEF RunInstaller, StartsReport, Fresh
  <2>2. Counts(c)
    BY <1>8, NothingCounted DEF RunInstaller, Report
  <2> QED
    BY <2>1, <2>2
<1>9. CASE PollFails(c)
  <2>1. FindsNothing(c) /\ {"lost_request"} \in SUBSET FaultKinds /\ Faults({"lost_request"})
    BY <1>9 DEF PollFails, FindsNothing, FaultKinds
  <2>2. Counts(c)
    BY <1>9, <2>1, FaultsCounted, AttemptsCounted DEF PollFails, Counts, Finish
  <2> QED
    BY <2>1, <2>2
<1>10. CASE Crash(c)
  <2>1. {"crash"} \in SUBSET FaultKinds /\ Faults({"crash"})
    BY <1>10 DEF Crash, FaultKinds
  <2>2. Dies(c)
    BY <1>10, <2>1, FaultsCounted DEF Crash, Dies
  <2>3. Counts(c)
    BY <1>10, <2>1, FaultsCounted, AttemptsCounted DEF Crash, Counts, Finish
  <2> QED
    BY <2>2, <2>3
<1> QED
  BY <1>1, <1>2, <1>3, <1>4, <1>5, <1>6, <1>7, <1>8, <1>9, <1>10 DEF AgentStep, FaultStep

-----------------------------------------------------------------------------
(* The server's side: every step of the system is one of Deployments, and   *)
(* the reports it handles are among those the agents hold.                  *)

ServerSide ==
    \/ UNCHANGED vars
    \/ AdminNext \/ EnvironmentNext
    \/ \E c \in Clients, t \in Targets :
            RejectDownload(c, t) \/ FailDownload(c, t) \/ ServeDownload(c, t)
    \/ \E c \in Clients, r \in AgentReports :
            HeldBy(c, r) /\ ReportStatus(c, r.target, Body(r))

LEMMA SystemServerSide ==
    ASSUME SystemTypeOK, SystemNext
    PROVE  ServerSide
<1>1. ASSUME NEW c \in Clients, NEW r \in AgentReports, HeldBy(c, r), Handle(c, r)
      PROVE  ServerSide
  BY <1>1 DEF Handle, ServerSide
<1>2. CASE ServerNext
  BY <1>2 DEF ServerNext, ServerSide
<1>3. ASSUME NEW c \in Clients, Deliver(c) \/ LoseReply(c) PROVE ServerSide
  BY <1>1, <1>3, Outgoings, OutgoingHeld DEF Deliver, LoseReply
<1>4. ASSUME NEW c \in Clients,
             Download(c) \/ DownloadRefused(c) \/ DownloadLost(c) \/ DownloadDamaged(c)
      PROVE  ServerSide
  <2>1. current[c].target \in Targets
    BY <1>4, Jobs DEF Download, DownloadRefused, DownloadLost, DownloadDamaged, DownloadNotDone
  <2> QED
    BY <1>4, <2>1 DEF Download, DownloadRefused, DownloadLost, DownloadDamaged, ServerSide
<1>5. ASSUME NEW c \in Clients, AgentStep(c) \/ FaultStep(c) PROVE ServerSide
  <2>1. ASSUME \/ StartCycle(c) \/ Refuse(c) \/ \E t \in Targets : PollFinds(c, t)
               \/ PollFindsNothing(c) \/ CommandUnusable(c)
               \/ \E result \in Results : RunInstaller(c, result)
               \/ LoseRequest(c) \/ DelayRequest(c) \/ PollFails(c) \/ Crash(c)
        PROVE  UNCHANGED vars
    BY <2>1 DEF StartCycle, Refuse, PollFinds, PollFindsNothing, CommandUnusable, RunInstaller,
                LoseRequest, DelayRequest, PollFails, Crash
  <2> QED
    BY <1>3, <1>4, <1>5, <2>1 DEF AgentStep, FaultStep, ServerSide
<1>6. ASSUME NEW m \in late, HandleLate(m[1], m[2]) PROVE ServerSide
  <2>1. m[1] \in Clients /\ m[2] \in AgentReports /\ m = <<m[1], m[2]>>
    BY DEF SystemTypeOK
  <2>2. HeldBy(m[1], m[2])
    BY <2>1 DEF HeldBy
  <2> QED
    BY <1>1, <1>6, <2>1, <2>2 DEF HandleLate, ServerSide
<1> QED
  BY <1>2, <1>5, <1>6 DEF SystemNext

LEMMA ServerSteps ==
    ASSUME SystemTypeOK, [SystemNext]_systemVars
    PROVE  [Next]_vars
<1>1. CASE SystemNext
  <2>1. \A r \in AgentReports : r.target \in Targets /\ Body(r) \in Reports
    BY ReportFields
  <2> QED
    BY <1>1, <2>1, SystemServerSide DEF ServerSide, Next, AgentNext
<1>2. CASE UNCHANGED systemVars
  BY <1>2 DEF systemVars
<1> QED
  BY <1>1, <1>2

-----------------------------------------------------------------------------
(* Type correctness.                                                        *)

AgentType(c) ==
    /\ queue[c] \in Seq(AgentReports)
    /\ toFlush[c] \in Seq(AgentReports)
    /\ current[c] \in AgentReports \cup {NoReport}
    /\ pc[c] \in {"idle", "flush", "poll", "report", "download", "execute"}
    /\ pc[c] = "flush" <=> toFlush[c] # <<>>
    /\ pc[c] \in {"report", "download", "execute"} <=> current[c] # NoReport

\* One agent moves; the state of the others is theirs.
Apart(c) ==
    /\ DOMAIN pc' = Clients /\ DOMAIN queue' = Clients
    /\ DOMAIN toFlush' = Clients /\ DOMAIN current' = Clients
    /\ pc' = [d \in Clients |-> pc'[d]] /\ queue' = [d \in Clients |-> queue'[d]]
    /\ toFlush' = [d \in Clients |-> toFlush'[d]] /\ current' = [d \in Clients |-> current'[d]]
    /\ \A d \in Clients \ {c} : /\ pc'[d] = pc[d] /\ queue'[d] = queue[d]
                               /\ toFlush'[d] = toFlush[d] /\ current'[d] = current[d]

LEMMA AgentTypes == SystemTypeOK => \A c \in Clients : AgentType(c)
BY DEF SystemTypeOK, AgentType

LEMMA AfterReportCases ==
    ASSUME NEW c \in Clients, AfterReport(c)
    PROVE  \/ /\ current[c].status = "Downloading" /\ pc' = [pc EXCEPT ![c] = "download"]
              /\ UNCHANGED current
           \/ /\ current[c].status = "Installing" /\ pc' = [pc EXCEPT ![c] = "execute"]
              /\ UNCHANGED current
           \/ /\ current[c].status \notin {"Downloading", "Installing"} /\ Finish(c)
BY DEF AfterReport

LEMMA MovesApart ==
    ASSUME SystemTypeOK, NEW c \in Clients, Moves(c)
    PROVE  Apart(c)
<1>1. /\ pc \in [Clients -> {"idle", "flush", "poll", "report", "download", "execute"}]
      /\ queue \in [Clients -> Seq(AgentReports)] /\ toFlush \in [Clients -> Seq(AgentReports)]
      /\ current \in [Clients -> AgentReports \cup {NoReport}]
  BY DEF SystemTypeOK
<1>2. /\ \/ UNCHANGED pc \/ \E v : pc' = [pc EXCEPT ![c] = v]
      /\ \/ UNCHANGED queue \/ \E v : queue' = [queue EXCEPT ![c] = v]
      /\ \/ UNCHANGED toFlush \/ \E v : toFlush' = [toFlush EXCEPT ![c] = v]
      /\ \/ UNCHANGED current \/ \E v : current' = [current EXCEPT ![c] = v]
  <2>1. CASE Stays(c) \/ StartsFlush(c) \/ FlushesReport(c) \/ SkipsReports(c)
    BY <2>1 DEF Stays, StartsFlush, FlushesReport, SkipsReports, ContinueFlush
  <2>2. CASE EndsReport(c)
    BY <2>2, AfterReportCases DEF EndsReport, Finish
  <2>3. CASE StartsReport(c) \/ FindsNothing(c) \/ Dies(c)
    BY <2>3 DEF StartsReport, FindsNothing, Dies, Report, Finish
  <2> QED
    BY <2>1, <2>2, <2>3 DEF Moves
<1> QED
  BY <1>1, <1>2 DEF Apart

LEMMA SkippedType ==
    ASSUME SystemTypeOK, NEW c \in Clients, pc[c] = "flush"
    PROVE  /\ SkipTarget(c) \in Seq(AgentReports)
           /\ InOrderOf(SkipTarget(c), Tail(toFlush[c]))
           /\ \A r : Queued(SkipTarget(c), r) <=>
                Queued(Tail(toFlush[c]), r) /\ r \notin OfTarget(toFlush[c], Outgoing(c).target)
<1>1. Tail(toFlush[c]) \in Seq(AgentReports)
  BY Outgoings DEF Sending
<1> DEFINE tail == Tail(toFlush[c])
           dropped == OfTarget(toFlush[c], Outgoing(c).target)
<1>2. SkipTarget(c) = Without(tail, dropped)
  BY DEF SkipTarget
<1> HIDE DEF tail, dropped
<1>3. /\ Without(tail, dropped) \in Seq(AgentReports)
      /\ InOrderOf(Without(tail, dropped), tail)
      /\ \A r : Queued(Without(tail, dropped), r) <=> Queued(tail, r) /\ r \notin dropped
  BY <1>1, WithoutProperties DEF tail
<1> QED
  BY <1>2, <1>3 DEF tail, dropped

LEMMA MovesType ==
    ASSUME SystemTypeOK, NEW c \in Clients, Moves(c)
    PROVE  AgentType(c)'
<1>1. /\ pc \in [Clients -> {"idle", "flush", "poll", "report", "download", "execute"}]
      /\ queue \in [Clients -> Seq(AgentReports)] /\ toFlush \in [Clients -> Seq(AgentReports)]
      /\ current \in [Clients -> AgentReports \cup {NoReport}]
      /\ AgentType(c)
  BY AgentTypes DEF SystemTypeOK
<1>2. ASSUME NEW rest \in Seq(AgentReports), ContinueFlush(c, rest), pc[c] \in {"idle", "flush"},
             queue'[c] \in Seq(AgentReports)
      PROVE  AgentType(c)'
  BY <1>1, <1>2 DEF AgentType, ContinueFlush
<1>3. ASSUME NEW r \in AgentReports, Report(c, r), UNCHANGED <<queue, toFlush>>, pc[c] # "flush"
      PROVE  AgentType(c)'
  BY <1>1, <1>3, SystemAssumption DEF AgentType, Report
<1>4. ASSUME Finish(c), toFlush'[c] = <<>>, queue'[c] \in Seq(AgentReports)
      PROVE  AgentType(c)'
  BY <1>1, <1>4 DEF AgentType, Finish
<1>5. CASE Stays(c)
  BY <1>1, <1>5 DEF Stays, AgentType
<1>6. CASE StartsFlush(c)
  <2>1. queue'[c] \in Seq(AgentReports) /\ queue[c] \in Seq(AgentReports)
        /\ <<>> \in Seq(AgentReports)
    BY <1>1, <1>6 DEF StartsFlush
  <2>2. CASE ContinueFlush(c, queue[c])
    BY <1>2, <1>6, <2>1, <2>2 DEF StartsFlush
  <2>3. CASE ContinueFlush(c, <<>>)
    BY <1>2, <1>6, <2>1, <2>3 DEF StartsFlush
  <2> QED
    BY <1>6, <2>2, <2>3 DEF StartsFlush
<1>7. CASE FlushesReport(c)
  <2>1. Tail(toFlush[c]) \in Seq(AgentReports)
    BY <1>7, Outgoings DEF FlushesReport, Sending
  <2>2. queue'[c] \in Seq(AgentReports)
    <3>1. queue[c] \in Seq(AgentReports)
      BY <1>1
    <3>2. Acknowledge(queue[c], Outgoing(c)) \in Seq(AgentReports)
      BY <3>1, AcknowledgeProperties
    <3> QED
      BY <1>1, <1>7, <3>1, <3>2 DEF FlushesReport
  <2> QED
    BY <1>2, <1>7, <2>1, <2>2 DEF FlushesReport
<1>8. CASE SkipsReports(c)
  BY <1>1, <1>2, <1>8, SkippedType DEF SkipsReports
<1>9. CASE EndsReport(c)
  <2>1. current[c] \in AgentReports /\ toFlush'[c] = <<>>
    BY <1>1, <1>9 DEF AgentType, EndsReport
  <2>2. queue'[c] \in Seq(AgentReports)
    BY <1>1, <1>9, <2>1, EnqueueProperties DEF EndsReport
  <2>3. CASE Finish(c)
    BY <1>4, <2>1, <2>2, <2>3
  <2>4. CASE pc' = [pc EXCEPT ![c] = "download"] /\ UNCHANGED current
    BY <1>1, <2>1, <2>2, <2>4, SystemAssumption DEF AgentType
  <2>5. CASE pc' = [pc EXCEPT ![c] = "execute"] /\ UNCHANGED current
    BY <1>1, <2>1, <2>2, <2>5, SystemAssumption DEF AgentType
  <2> QED
    BY <1>9, <2>3, <2>4, <2>5, AfterReportCases DEF EndsReport
<1>10. CASE StartsReport(c)
  <2>1. PICK r : Report(c, r) /\ Fresh(c, r)
    BY <1>10 DEF StartsReport
  <2>2. pc[c] \in {"poll", "download", "execute"}
    BY <2>1 DEF Fresh
  <2>3. pc[c] # "poll" => current[c].target \in Targets
    BY <2>2, Jobs
  <2>4. r \in AgentReports
    BY <2>1, <2>3, ReportsMade DEF Fresh, PendingTargetOf, TargetsOf
  <2> QED
    BY <1>3, <1>10, <2>1, <2>2, <2>4 DEF StartsReport
<1>11. CASE FindsNothing(c)
  BY <1>1, <1>4, <1>11 DEF FindsNothing, AgentType
<1>12. CASE Dies(c)
  BY <1>1, <1>4, <1>12 DEF Dies
<1> QED
  BY <1>5, <1>6, <1>7, <1>8, <1>9, <1>10, <1>11, <1>12 DEF Moves

LEMMA SystemNextType ==
    ASSUME SystemTypeOK, [SystemNext]_systemVars
    PROVE  SystemTypeOK'
<1>1. TypeOK'
  <2>1. TypeOK
    BY DEF SystemTypeOK
  <2> QED
    BY <2>1, ServerSteps, NextType
<1>2. ASSUME NEW c \in Clients, AgentStep(c) \/ FaultStep(c) PROVE SystemTypeOK'
  <2>1. Moves(c) /\ Counts(c)
    BY <1>2, AgentMoves
  <2>2. Apart(c) /\ AgentType(c)'
    BY <2>1, MovesApart, MovesType
  <2>3. ASSUME NEW d \in Clients PROVE AgentType(d)'
    BY <2>2, AgentTypes DEF Apart, AgentType
  <2>4. late' \subseteq Clients \X AgentReports
    <3>1. late \subseteq Clients \X AgentReports
      BY DEF SystemTypeOK
    <3>2. CASE UNCHANGED late
      BY <3>1, <3>2
    <3>3. CASE Sending(c) /\ late' = late \cup {<<c, Outgoing(c)>>}
      <4>1. Outgoing(c) \in AgentReports
        BY <3>3, Outgoings
      <4> QED
        BY <3>1, <3>3, <4>1
    <3> QED
      BY <2>1, <3>2, <3>3 DEF Counts
  <2>5. runs' \in [Targets -> Seq(Results)]
    <3>1. runs \in [Targets -> Seq(Results)]
      BY DEF SystemTypeOK
    <3>2. CASE pc[c] = "execute" /\ \E result \in Results :
                    runs' = [runs EXCEPT ![current[c].target] = Append(@, result)]
      <4>1. current[c].target \in Targets
        BY <3>2, Jobs
      <4> QED
        BY <3>1, <3>2, <4>1
    <3> QED
      BY <2>1, <3>1, <3>2 DEF Counts
  <2>6. /\ pc' \in [Clients -> {"idle", "flush", "poll", "report", "download", "execute"}]
        /\ queue' \in [Clients -> Seq(AgentReports)] /\ toFlush' \in [Clients -> Seq(AgentReports)]
        /\ current' \in [Clients -> AgentReports \cup {NoReport}]
    BY <2>2, <2>3 DEF Apart, AgentType
  <2> QED
    BY <1>1, <2>1, <2>3, <2>4, <2>5, <2>6 DEF Counts, AgentType, SystemTypeOK
<1>3. ASSUME UNCHANGED <<agentVars, runs, faults>>, late' \subseteq late PROVE SystemTypeOK'
  BY <1>1, <1>3 DEF SystemTypeOK, agentVars
<1> QED
  BY <1>2, <1>3 DEF SystemNext, ServerNext, HandleLate, systemVars

LEMMA SystemInitType == SystemInit => SystemTypeOK
<1> SUFFICES ASSUME SystemInit PROVE SystemTypeOK
  OBVIOUS
<1>1. TypeOK
  BY InitType DEF SystemInit
<1>2. 1 \in 1..MaxAttempts
  BY SystemAssumption
<1> QED
  BY <1>1, <1>2 DEF SystemInit, SystemTypeOK

\* In every reachable state the agents' queues hold reports the agents make, a
\* flush has something to send, and an agent that works has a job.
THEOREM SystemTypeCorrect == SystemSpec => []SystemTypeOK
<1>1. SystemTypeOK /\ [SystemNext]_systemVars => SystemTypeOK'
  BY SystemNextType
<1> QED
  BY <1>1, SystemInitType, PTL DEF SystemSpec

\* The server behind the agents behaves as Deployments says, although it is the
\* agents that decide which requests it gets.
THEOREM SystemImplementsDeployments == SystemSpec => Spec
<1>1. SystemInit => Init
  BY DEF SystemInit
<1>2. SystemTypeOK /\ [SystemNext]_systemVars => [Next]_vars
  BY ServerSteps
<1> QED
  BY <1>1, <1>2, SystemTypeCorrect, PTL DEF SystemSpec, Spec

-----------------------------------------------------------------------------
(* What the reports say is true.                                            *)

\* What an agent may claim: its own target, an outcome the installer of that
\* target had, an installation whose installer was served.
Truthful(c, r) ==
    /\ ClientOf(r.target) = c
    /\ BatchOf(r.target) =< batches
    /\ r.status = "Completed" => Ran(r.target, "success")
    /\ r.exitCode = "nonzero" => Ran(r.target, "error_exit")
    /\ r.status = "Installing" => audit[<<"INSTALLER_DOWNLOAD", r.target>>] > 0

HeldReports == \A c \in Clients, r \in AgentReports : HeldBy(c, r) => Truthful(c, r)

RunsOpened == \A t \in Targets : runs[t] # <<>> => BatchOf(t) =< batches

\* A row that is gone has no exit code left.
NoRowNoOutcome == \A t \in Targets : status[t] = "NoRow" => exitCode[t] = "none"

-----------------------------------------------------------------------------
(* The order of the reports.                                                *)

\* An agent has got past the report that t was started.
Started(t) ==
    \/ runs[t] # <<>>
    \/ /\ Job(ClientOf(t), t)
       /\ pc[ClientOf(t)] = "report" => current[ClientOf(t)].status # "Downloading"

StartedIsQueued ==
    faults["no_disk"] = 0 =>
        \A t \in Targets :
            status[t] \in {"Pending", "Cancelled"} /\ Started(t)
                => Queued(queue[ClientOf(t)], Progress(t, "Downloading"))

\* The reports still to flush are among the queued ones, and whatever is queued
\* before one of them for the same target is to be flushed before it.
FlushOrder(rest, all) ==
    /\ Distinct(rest)
    /\ \A k \in DOMAIN rest : Queued(all, rest[k])
    /\ \A k \in DOMAIN rest, i, j \in DOMAIN all :
            all[j] = rest[k] /\ all[i].target = all[j].target /\ i < j
                => \E h \in DOMAIN rest : h < k /\ rest[h] = all[i]

QueuesDistinct == \A c \in Clients : Distinct(queue[c])

FlushesInOrder == faults["no_disk"] = 0 => \A c \in Clients : FlushOrder(toFlush[c], queue[c])

\* The outcome of a target is on its way: the server has one, the queue holds
\* one, or the agent is still at the job.
OutcomeSafe(t) ==
    \/ status[t] \in TERMINAL_DEPLOYMENT_STATUSES \cup {"NoRow"}
    \/ \E i \in QueuedFor(t) : queue[ClientOf(t)][i].status \in {"Completed", "Failed"}
    \/ Job(ClientOf(t), t)

\* An agent has been given t: its installer ran, the server has heard of it, or
\* a report of it may still reach the server.
HandedOut(t) ==
    \/ runs[t] # <<>>
    \/ status[t] \in {"Downloading", "Installing"}
    \/ \E r \in AgentReports : r.target = t /\ HeldBy(ClientOf(t), r)

OutcomesSafe ==
    faults["crash"] = 0 /\ faults["no_disk"] = 0 =>
        \A t \in Targets : HandedOut(t) => OutcomeSafe(t)

\* x is queued, and y behind it.
Ahead(all, x, y) == \E i, j \in DOMAIN all : i < j /\ all[i] = x /\ all[j] = y

\* The reports of t are queued in the order of its stages: Downloading before
\* all others, as long as the server still waits for it, and Installing before
\* Completed likewise.  A report that is about to be queued will keep to it.
DownloadingFirst(t) ==
    LET all == queue[ClientOf(t)]
        first == Progress(t, "Downloading")
    IN  \A x \in AgentReports :
            x.target = t =>
                /\ ~Ahead(all, x, first)
                /\ pc[ClientOf(t)] = "report" /\ current[ClientOf(t)] = first /\ Queued(all, x)
                    => Queued(all, first)
                /\ status[t] = "Pending" /\ Queued(all, x) /\ x # first => Ahead(all, first, x)

\* The agent has got past reporting that it installs t.
Installed(t) ==
    Job(ClientOf(t), t)
        /\ (pc[ClientOf(t)] = "execute" \/ current[ClientOf(t)].status = "Completed")

InstallingSecond(t) ==
    LET all == queue[ClientOf(t)]
        second == Progress(t, "Installing")
    IN  status[t] \in {"Pending", "Downloading"} =>
            /\ Installed(t) => Queued(all, second)
            /\ \A x \in AgentReports :
                    x.target = t /\ x.status = "Completed" /\ Queued(all, x) => Ahead(all, second, x)

StagesInOrder ==
    faults["no_disk"] = 0 => \A t \in Targets : DownloadingFirst(t) /\ InstallingSecond(t)

-----------------------------------------------------------------------------
(* Steps of the system, seen from one row and from one report.              *)

\* One agent moves, or none does.
LEMMA SystemSteps ==
    ASSUME SystemTypeOK, [SystemNext]_systemVars
    PROVE  \/ \E c \in Clients : Moves(c) /\ Counts(c) /\ Apart(c)
           \/ UNCHANGED <<agentVars, runs, faults>> /\ late' \subseteq late
<1>1. ASSUME NEW c \in Clients, AgentStep(c) \/ FaultStep(c)
      PROVE  Moves(c) /\ Counts(c) /\ Apart(c)
  BY <1>1, AgentMoves, MovesApart
<1> QED
  BY <1>1 DEF SystemNext, ServerNext, HandleLate, systemVars

\* What a step of the server makes of the row of t.
RowKept(t) == status'[t] = status[t] /\ exitCode'[t] = exitCode[t]
                /\ errorMessage'[t] = errorMessage[t]
RowCreated(t) == BatchOf(t) = batches + 1 /\ status'[t] = "Pending"
                /\ exitCode'[t] = exitCode[t] /\ errorMessage'[t] = errorMessage[t]
RowCancelled(t) == status[t] = "Pending" /\ status'[t] = "Cancelled"
                /\ exitCode'[t] = exitCode[t] /\ errorMessage'[t] = errorMessage[t]
RowDeleted(t) == status'[t] = "NoRow" /\ exitCode'[t] = "none" /\ ~errorMessage'[t]
RowReported(t) ==
    \E c \in Clients, r \in AgentReports :
        /\ HeldBy(c, r) /\ r.target = t
        /\ AcceptsReport(c, t, r.status) /\ r.status # status[t]
        /\ status'[t] = r.status
        /\ exitCode'[t] = IF r.exitCode = "none" THEN exitCode[t] ELSE r.exitCode
        /\ errorMessage'[t] <=> r.cause # "none" \/ errorMessage[t]

RowStep(t) == RowKept(t) \/ RowCreated(t) \/ RowCancelled(t) \/ RowDeleted(t) \/ RowReported(t)

LEMMA RowSteps ==
    ASSUME SystemTypeOK, [SystemNext]_systemVars, NEW t \in Targets
    PROVE  RowStep(t)
<1>0. /\ status \in [Targets -> Statuses \cup {"NoRow"}] /\ exitCode \in [Targets -> ExitCodes]
      /\ errorMessage \in [Targets -> BOOLEAN]
  BY DEF SystemTypeOK, TypeOK
<1>1. CASE UNCHANGED <<status, exitCode, errorMessage>>
  BY <1>1 DEF RowStep, RowKept
<1>2. ASSUME NEW p, NEW clients, CreateDeployment(p, clients) PROVE RowStep(t)
  BY <1>0, <1>2 DEF CreateDeployment, RowStep, RowKept, RowCreated
<1>3. ASSUME NEW u \in Targets, CancelDeploymentTarget(u) PROVE RowStep(t)
  BY <1>0, <1>3 DEF CancelDeploymentTarget, Cancellable, RowStep, RowKept, RowCancelled
<1>4. ASSUME NEW c \in Clients, DeleteClient(c) PROVE RowStep(t)
  BY <1>0, <1>4 DEF DeleteClient, RowStep, RowKept, RowDeleted
<1>5. ASSUME NEW c \in Clients, NEW r \in AgentReports, HeldBy(c, r),
             ReportStatus(c, r.target, Body(r))
      PROVE  RowStep(t)
  <2>1. /\ Body(r).status = r.status /\ Body(r).exitCode = r.exitCode
        /\ Body(r).error <=> r.cause # "none"
        /\ r.target \in Targets
    BY ReportFields
  <2>2. /\ AcceptsReport(c, r.target, r.status) /\ r.status # status[r.target]
        /\ status' = [status EXCEPT ![r.target] = r.status]
        /\ exitCode' = [exitCode EXCEPT ![r.target] =
                            IF r.exitCode = "none" THEN @ ELSE r.exitCode]
        /\ errorMessage' = [errorMessage EXCEPT ![r.target] = Body(r).error \/ @]
    BY <1>5, <2>1 DEF ReportStatus
  <2>3. CASE r.target # t
    BY <1>0, <2>1, <2>2, <2>3 DEF RowStep, RowKept
  <2>4. CASE r.target = t
    <3>1. errorMessage'[t] <=> r.cause # "none" \/ errorMessage[t]
      BY <1>0, <2>1, <2>2, <2>4
    <3>2. /\ status'[t] = r.status
          /\ exitCode'[t] = IF r.exitCode = "none" THEN exitCode[t] ELSE r.exitCode
      BY <1>0, <2>2, <2>4
    <3> QED
      BY <1>5, <2>2, <2>4, <3>1, <3>2 DEF RowStep, RowReported
  <2> QED
    BY <2>3, <2>4
<1>6. ASSUME NEW c, NEW u, RejectDownload(c, u) \/ FailDownload(c, u) \/ ServeDownload(c, u)
      PROVE  UNCHANGED <<status, exitCode, errorMessage>>
  BY <1>6 DEF RejectDownload, FailDownload, ServeDownload, rowVars
<1>7. CASE EnvironmentNext
  BY <1>1, <1>7 DEF EnvironmentNext, RegisterClient, UploadPackage, DeactivatePackage, rowVars
<1>8. CASE UNCHANGED vars
  BY <1>1, <1>8 DEF vars, rowVars
<1>9. CASE SystemNext
  BY <1>1, <1>2, <1>3, <1>4, <1>5, <1>6, <1>7, <1>8, <1>9, SystemServerSide
  DEF ServerSide, AdminNext
<1> QED
  BY <1>8, <1>9 DEF systemVars

\* Batches and served downloads are counted and never forgotten.
LEMMA Grows ==
    ASSUME TypeOK, [Next]_vars
    PROVE  /\ batches' >= batches
           /\ \A t \in Targets :
                audit'[<<"INSTALLER_DOWNLOAD", t>>] >= audit[<<"INSTALLER_DOWNLOAD", t>>]
<1>1. \A row \in AuditRows : audit[row] \in Nat
  BY DEF TypeOK
<1>2. batches \in Nat /\ batches' \in Nat
  BY NextType, ConstantsAssumption DEF TypeOK
<1>3. ASSUME UNCHANGED audit \/ \E row : Audited(row)
      PROVE  \A row \in AuditRows : audit'[row] >= audit[row]
  <2>1. audit \in [AuditRows -> Nat]
    BY DEF TypeOK
  <2>2. CASE UNCHANGED audit
    BY <1>1, <2>2
  <2>3. ASSUME NEW row, Audited(row) PROVE \A x \in AuditRows : audit'[x] >= audit[x]
    <3>1. \A x \in AuditRows : audit'[x] = IF x = row THEN audit[x] + 1 ELSE audit[x]
      BY <2>1, <2>3 DEF Audited
    <3> QED
      BY <1>1, <3>1
  <2> QED
    BY <1>3, <2>2, <2>3
<1>4. UNCHANGED audit \/ \E row : Audited(row)
  <2>1. ASSUME AdminNext PROVE \E row : Audited(row)
    <3>1. ASSUME NEW p \in Packages, NEW chosen \in SUBSET Clients, CreateDeployment(p, chosen)
          PROVE  \E row : Audited(row)
      BY <3>1 DEF CreateDeployment
    <3>2. ASSUME NEW t \in Targets, CancelDeploymentTarget(t) PROVE \E row : Audited(row)
      BY <3>2 DEF CancelDeploymentTarget
    <3>3. ASSUME NEW c \in Clients, DeleteClient(c) PROVE \E row : Audited(row)
      BY <3>3 DEF DeleteClient
    <3> QED
      BY <2>1, <3>1, <3>2, <3>3 DEF AdminNext
  <2>2. ASSUME AgentNext PROVE UNCHANGED audit \/ \E row : Audited(row)
    <3>1. ASSUME NEW c \in Clients, NEW t \in Targets,
                 RejectDownload(c, t) \/ FailDownload(c, t) \/ ServeDownload(c, t)
          PROVE  \E row : Audited(row)
      BY <3>1 DEF RejectDownload, FailDownload, ServeDownload
    <3>2. ASSUME NEW c \in Clients, NEW t \in Targets, NEW r \in Reports, ReportStatus(c, t, r)
          PROVE  UNCHANGED audit \/ \E row : Audited(row)
      BY <3>2 DEF ReportStatus
    <3> QED
      BY <2>2, <3>1, <3>2 DEF AgentNext
  <2>3. ASSUME EnvironmentNext PROVE UNCHANGED audit
    BY <2>3 DEF EnvironmentNext, RegisterClient, UploadPackage, DeactivatePackage, rowVars
  <2>4. CASE UNCHANGED vars
    BY <2>4 DEF vars
  <2> QED
    BY <2>1, <2>2, <2>3, <2>4 DEF Next
<1>5. batches' = batches \/ batches' = batches + 1
  <2>1. ASSUME AdminNext PROVE batches' = batches \/ batches' = batches + 1
    <3>1. ASSUME NEW p \in Packages, NEW chosen \in SUBSET Clients, CreateDeployment(p, chosen)
          PROVE  batches' = batches + 1
      BY <3>1 DEF CreateDeployment
    <3>2. ASSUME NEW t \in Targets, CancelDeploymentTarget(t) PROVE batches' = batches
      BY <3>2 DEF CancelDeploymentTarget
    <3>3. ASSUME NEW c \in Clients, DeleteClient(c) PROVE batches' = batches
      BY <3>3 DEF DeleteClient
    <3> QED
      BY <2>1, <3>1, <3>2, <3>3 DEF AdminNext
  <2>2. ASSUME AgentNext PROVE batches' = batches
    BY <2>2 DEF AgentNext, RejectDownload, FailDownload, ServeDownload, ReportStatus, rowVars
  <2>3. ASSUME EnvironmentNext PROVE batches' = batches
    BY <2>3 DEF EnvironmentNext, RegisterClient, UploadPackage, DeactivatePackage, rowVars
  <2>4. CASE UNCHANGED vars
    BY <2>4 DEF vars, rowVars
  <2> QED
    BY <2>1, <2>2, <2>3, <2>4 DEF Next
<1> QED
  BY <1>2, <1>3, <1>4, <1>5, RowsOfTheLog DEF TargetEvents

\* An installer run is recorded at the job whose command is executed, and stays
\* recorded.
LEMMA RunsKept ==
    ASSUME SystemTypeOK, [SystemNext]_systemVars, NEW t \in Targets
    PROVE  /\ \A result : Ran(t, result) => Ran(t, result)'
           /\ runs[t] # <<>> => runs'[t] # <<>>
           /\ runs'[t] # <<>> => runs[t] # <<>> \/ \E c \in Clients : pc[c] = "execute" /\ Job(c, t)
<1>1. CASE UNCHANGED runs
  BY <1>1 DEF Ran
<1>2. ASSUME NEW c \in Clients, pc[c] = "execute", NEW result \in Results,
             runs' = [runs EXCEPT ![current[c].target] = Append(@, result)]
      PROVE  /\ \A x : Ran(t, x) => Ran(t, x)'
             /\ runs[t] # <<>> => runs'[t] # <<>>
             /\ runs'[t] # <<>> => runs[t] # <<>> \/ \E d \in Clients : pc[d] = "execute" /\ Job(d, t)
  <2>1. runs \in [Targets -> Seq(Results)] /\ current[c].target \in Targets /\ current[c] # NoReport
    BY <1>2, Jobs DEF SystemTypeOK
  <2>2. CASE t # current[c].target
    BY <1>2, <2>1, <2>2 DEF Ran
  <2>3. CASE t = current[c].target
    <3>1. runs[t] \in Seq(Results) /\ runs'[t] = Append(runs[t], result)
      BY <1>2, <2>1, <2>3
    <3>2. /\ DOMAIN runs[t] \subseteq DOMAIN runs'[t]
          /\ \A i \in DOMAIN runs[t] : runs'[t][i] = runs[t][i]
          /\ runs'[t] # <<>>
      BY <3>1
    <3>3. Job(c, t)
      BY <2>1, <2>3 DEF Job
    <3> QED
      BY <1>2, <3>2, <3>3 DEF Ran
  <2> QED
    BY <2>2, <2>3
<1>3. UNCHANGED runs \/ \E c \in Clients : Counts(c)
  BY SystemSteps
<1> QED
  BY <1>1, <1>2, <1>3 DEF Counts

\* A report that is held after a step was held before it, or the step made it.
LEMMA HeldSteps ==
    ASSUME SystemTypeOK, [SystemNext]_systemVars,
           NEW d \in Clients, NEW r \in AgentReports, HeldBy(d, r)'
    PROVE  HeldBy(d, r) \/ (StartsReport(d) /\ Report(d, r) /\ Fresh(d, r))
<1>1. CASE UNCHANGED <<agentVars, runs, faults>> /\ late' \subseteq late
  BY <1>1 DEF HeldBy, agentVars, Queued
<1>2. ASSUME NEW c \in Clients, Moves(c), Counts(c), Apart(c), c # d
      PROVE  HeldBy(d, r)
  BY <1>2 DEF Apart, HeldBy, Queued, Counts
<1>3. ASSUME Moves(d), Counts(d), Apart(d), ~HeldBy(d, r)
      PROVE  StartsReport(d) /\ Report(d, r) /\ Fresh(d, r)
  <2>1. /\ queue \in [Clients -> Seq(AgentReports)] /\ toFlush \in [Clients -> Seq(AgentReports)]
        /\ current \in [Clients -> AgentReports \cup {NoReport}]
        /\ queue[d] \in Seq(AgentReports) /\ toFlush[d] \in Seq(AgentReports)
    BY DEF SystemTypeOK
  <2>2. <<d, r>> \notin late'
    <3>1. CASE Sending(d) /\ late' = late \cup {<<d, Outgoing(d)>>}
      BY <1>3, <3>1, OutgoingHeld DEF HeldBy
    <3> QED
      BY <1>3, <3>1 DEF Counts, HeldBy
  <2>3. r # NoReport
    BY SystemAssumption
  <2>4. CASE Stays(d)
    BY <1>3, <2>2, <2>4 DEF Stays, HeldBy, Queued
  <2>5. CASE StartsFlush(d)
    <3>1. ~Queued(<<>>, r)
      BY DEF Queued
    <3>2. toFlush'[d] = queue[d] \/ toFlush'[d] = <<>>
      BY <2>1, <2>5 DEF StartsFlush, ContinueFlush
    <3>3. queue'[d] = queue[d] /\ current'[d] = current[d]
      BY <2>5 DEF StartsFlush, ContinueFlush
    <3> QED
      BY <1>3, <2>2, <3>1, <3>2, <3>3 DEF HeldBy, Queued
  <2>6. CASE FlushesReport(d) \/ SkipsReports(d)
    <3>1. pc[d] = "flush" /\ toFlush[d] # <<>> /\ current'[d] = current[d]
      BY <2>6, Outgoings DEF FlushesReport, SkipsReports, ContinueFlush, Sending
    <3>2. \A x : Queued(Tail(toFlush[d]), x) => Queued(toFlush[d], x)
      <4>1. \A i \in DOMAIN Tail(toFlush[d]) :
                i + 1 \in DOMAIN toFlush[d] /\ Tail(toFlush[d])[i] = toFlush[d][i + 1]
        BY <2>1, <3>1
      <4> QED
        BY <4>1 DEF Queued
    <3>3. toFlush'[d] = Tail(toFlush[d]) \/ toFlush'[d] = SkipTarget(d)
      BY <2>1, <2>6 DEF FlushesReport, SkipsReports, ContinueFlush
    <3>4. Queued(toFlush'[d], r) => Queued(toFlush[d], r)
      BY <3>1, <3>2, <3>3, SkippedType
    <3>5. queue'[d] = queue[d] \/ queue'[d] = Acknowledge(queue[d], Outgoing(d))
      BY <2>1, <2>6 DEF FlushesReport, SkipsReports
    <3>6. Queued(queue'[d], r) => Queued(queue[d], r)
      <4>1. Queued(Acknowledge(queue[d], Outgoing(d)), r) => Queued(queue[d], r)
        BY <2>1, AcknowledgeProperties
      <4> QED
        BY <3>5, <4>1
    <3> QED
      BY <1>3, <2>2, <3>1, <3>4, <3>6 DEF HeldBy, Queued
  <2>7. CASE EndsReport(d)
    <3>1. current[d] \in AgentReports /\ current[d] # r
      BY <1>3, <2>7, Jobs DEF EndsReport, HeldBy
    <3>2. queue'[d] = queue[d] \/ queue'[d] = Enqueue(queue[d], current[d])
      BY <2>1, <2>7 DEF EndsReport
    <3>3. Queued(queue'[d], r) => Queued(queue[d], r)
      <4>1. Queued(Enqueue(queue[d], current[d]), r) => Queued(queue[d], r)
        BY <2>1, <3>1, EnqueueProperties
      <4> QED
        BY <3>2, <4>1
    <3>4. current'[d] = current[d] \/ current'[d] = NoReport
      BY <2>1, <2>7, AfterReportCases DEF EndsReport, Finish
    <3> QED
      BY <1>3, <2>2, <2>3, <2>7, <3>3, <3>4 DEF HeldBy, EndsReport, Queued
  <2>8. CASE StartsReport(d)
    <3>1. PICK x : Report(d, x) /\ Fresh(d, x)
      BY <2>8 DEF StartsReport
    <3>2. current'[d] = x
      BY <2>1, <3>1 DEF Report
    <3>3. ~Queued(queue[d], r)' /\ ~Queued(toFlush[d], r)'
      BY <1>3, <2>8 DEF StartsReport, HeldBy, Queued
    <3>4. r = x
      BY <2>2, <3>2, <3>3 DEF HeldBy
    <3> QED
      BY <2>8, <3>1, <3>4
  <2>9. CASE FindsNothing(d) \/ Dies(d)
    <3>1. current'[d] = NoReport /\ queue'[d] = queue[d]
          /\ (toFlush'[d] = toFlush[d] \/ toFlush'[d] = <<>>)
      BY <2>1, <2>9 DEF FindsNothing, Dies, Finish
    <3>2. ~Queued(<<>>, r)
      BY DEF Queued
    <3> QED
      BY <1>3, <2>2, <2>3, <3>1, <3>2 DEF HeldBy, Queued
  <2> QED
    BY <1>3, <2>4, <2>5, <2>6, <2>7, <2>8, <2>9 DEF Moves
<1> QED
  BY <1>1, <1>2, <1>3, SystemSteps

-----------------------------------------------------------------------------
(* The reports held are true in every reachable state.                      *)

LEMMA TruthKept ==
    ASSUME SystemTypeOK, [SystemNext]_systemVars,
           NEW c \in Clients, NEW r \in AgentReports, Truthful(c, r)
    PROVE  Truthful(c, r)'
<1>1. TypeOK /\ [Next]_vars /\ r.target \in Targets
  BY ServerSteps, ReportFields DEF SystemTypeOK
<1>2. batches \in Nat /\ batches' \in Nat /\ BatchOf(r.target) \in Nat
  BY <1>1, NextType, ConstantsAssumption DEF TypeOK, Targets, Batches, BatchOf
<1>3. <<"INSTALLER_DOWNLOAD", r.target>> \in AuditRows
  BY <1>1, RowsOfTheLog DEF TargetEvents
<1>4. audit[<<"INSTALLER_DOWNLOAD", r.target>>] \in Nat
      /\ audit'[<<"INSTALLER_DOWNLOAD", r.target>>] \in Nat
  BY <1>1, <1>3, NextType DEF TypeOK
<1>5. batches' >= batches
      /\ audit'[<<"INSTALLER_DOWNLOAD", r.target>>] >= audit[<<"INSTALLER_DOWNLOAD", r.target>>]
  BY <1>1, Grows
<1>6. /\ Ran(r.target, "success") => Ran(r.target, "success")'
      /\ Ran(r.target, "error_exit") => Ran(r.target, "error_exit")'
  BY <1>1, RunsKept
<1> QED
  BY <1>2, <1>4, <1>5, <1>6 DEF Truthful

LEMMA NextHeld ==
    ASSUME SystemTypeOK, RecordInv, HeldReports, [SystemNext]_systemVars
    PROVE  HeldReports'
<1> SUFFICES ASSUME NEW c \in Clients, NEW r \in AgentReports, HeldBy(c, r)'
             PROVE  Truthful(c, r)'
  BY DEF HeldReports
<1>1. CASE HeldBy(c, r)
  BY <1>1, TruthKept DEF HeldReports
<1>2. CASE Fresh(c, r)
  <2>1. ASSUME pc[c] # "poll", pc[c] \in {"download", "execute"}, r.target = current[c].target,
               r.status = "Completed" => Ran(r.target, "success")',
               r.exitCode = "nonzero" => Ran(r.target, "error_exit")',
               r.status = "Installing" => audit'[<<"INSTALLER_DOWNLOAD", r.target>>] > 0
        PROVE  Truthful(c, r)'
    <3>1. PICK job \in AgentReports : job = current[c]
      BY <2>1, Jobs
    <3>2. Truthful(c, job)
      BY <3>1 DEF HeldReports, HeldBy
    <3>3. Truthful(c, job)'
      BY <3>2, TruthKept
    <3> QED
      BY <2>1, <3>1, <3>3 DEF Truthful
  <2>2. CASE pc[c] = "poll" /\ \E t \in PendingTargetOf(c) : r = Progress(t, "Downloading")
    <3>1. PICK t \in PendingTargetOf(c) : r = Progress(t, "Downloading")
      BY <2>2
    <3>2. /\ t \in Targets /\ ClientOf(t) = c /\ status[t] # "NoRow"
          /\ r.target = t /\ r.status = "Downloading" /\ r.exitCode = "none"
      BY <3>1 DEF PendingTargetOf, TargetsOf, Progress
    <3>3. ~(BatchOf(t) > batches) /\ BatchOf(t) \in Nat /\ batches \in Nat
      BY <3>2, ConstantsAssumption
      DEF RecordInv, UnopenedUntouched, SystemTypeOK, TypeOK, Targets, Batches, BatchOf
    <3>4. Truthful(c, r)
      BY <3>2, <3>3 DEF Truthful
    <3> QED
      BY <3>4, TruthKept
  <2>3. CASE pc[c] = "download" /\ ServeDownload(c, current[c].target)
                /\ r = Progress(current[c].target, "Installing")
    <3>1. current[c].target \in Targets
      BY <2>3, Jobs
    <3>2. <<"INSTALLER_DOWNLOAD", current[c].target>> \in AuditRows /\ audit \in [AuditRows -> Nat]
      BY <3>1, RowsOfTheLog DEF TargetEvents, SystemTypeOK, TypeOK
    <3>3. audit'[<<"INSTALLER_DOWNLOAD", current[c].target>>] > 0
      BY <2>3, <3>2 DEF ServeDownload, Audited
    <3> QED
      BY <2>1, <2>3, <3>3 DEF Progress
  <2>4. CASE pc[c] \in {"download", "execute"} /\ r = NotRun(current[c].target)
    BY <2>1, <2>4 DEF NotRun
  <2>5. ASSUME pc[c] = "execute", NEW result \in Results, r = Final(current[c].target, result),
               runs' = [runs EXCEPT ![current[c].target] = Append(@, result)]
        PROVE  Truthful(c, r)'
    <3>1. PICK t \in Targets : t = current[c].target
      BY <2>5, Jobs
    <3>2. runs'[t] = Append(runs[t], result) /\ runs[t] \in Seq(Results)
      BY <2>5, <3>1 DEF SystemTypeOK
    <3>3. Len(runs[t]) + 1 \in DOMAIN runs'[t] /\ runs'[t][Len(runs[t]) + 1] = result
      BY <3>2
    <3>4. Ran(t, result)'
      BY <3>3 DEF Ran
    <3>5. /\ r.target = t
          /\ r.status = IF result = "success" THEN "Completed" ELSE "Failed"
          /\ r.exitCode = "nonzero" => result = "error_exit"
      BY <2>5, <3>1 DEF Final, Results
    <3> QED
      BY <2>1, <2>5, <3>1, <3>4, <3>5
  <2> QED
    BY <1>2, <2>2, <2>3, <2>4, <2>5 DEF Fresh
<1> QED
  BY <1>1, <1>2, HeldSteps

LEMMA NextRunsOpened ==
    ASSUME SystemTypeOK, HeldReports, RunsOpened, [SystemNext]_systemVars
    PROVE  RunsOpened'
<1> SUFFICES ASSUME NEW t \in Targets, runs'[t] # <<>> PROVE BatchOf(t) =< batches'
  BY DEF RunsOpened
<1>1. /\ batches' >= batches /\ batches \in Nat /\ batches' \in Nat /\ BatchOf(t) \in Nat
  <2>1. TypeOK /\ [Next]_vars
    BY ServerSteps DEF SystemTypeOK
  <2>2. TypeOK' /\ batches' >= batches
    BY <2>1, NextType, Grows
  <2>3. batches \in Nat /\ batches' \in Nat
    BY <2>1, <2>2, ConstantsAssumption DEF TypeOK
  <2>4. BatchOf(t) \in Nat
    BY ConstantsAssumption DEF Targets, Batches, BatchOf
  <2> QED
    BY <2>2, <2>3, <2>4
<1>2. ASSUME NEW c \in Clients, pc[c] = "execute", Job(c, t) PROVE BatchOf(t) =< batches
  <2>1. current[c] \in AgentReports /\ HeldBy(c, current[c]) /\ current[c].target = t
    BY <1>2, Jobs DEF HeldBy, Job
  <2> QED
    BY <2>1 DEF HeldReports, Truthful
<1> QED
  BY <1>1, <1>2, RunsKept DEF RunsOpened

\* What the server has been told is true, and so is what it may still be told.
Truth == RecordInv /\ HeldReports /\ RunsOpened

LEMMA NextTruth == SystemTypeOK /\ Truth /\ [SystemNext]_systemVars => Truth'
<1> SUFFICES ASSUME SystemTypeOK, Truth, [SystemNext]_systemVars PROVE Truth'
  OBVIOUS
<1>1. TypeOK /\ [Next]_vars
  BY ServerSteps DEF SystemTypeOK
<1> QED
  BY <1>1, NextRecord, NextHeld, NextRunsOpened DEF Truth

LEMMA InitTruth == SystemInit => Truth
<1> SUFFICES ASSUME SystemInit PROVE Truth
  OBVIOUS
<1>1. RecordInv
  BY DEF SystemInit, Init, RecordInv, OutcomeOnRecord, UnopenedUntouched, Untouched, AuditRows,
         TargetEvents, OutcomeEvent, TERMINAL_DEPLOYMENT_STATUSES
<1>2. HeldReports
  BY SystemAssumption DEF SystemInit, HeldReports, HeldBy, Queued
<1> QED
  BY <1>1, <1>2 DEF SystemInit, Truth, RunsOpened

-----------------------------------------------------------------------------
(* What the rows say.                                                       *)

\* A row that is created did not exist.
LEMMA CreatedHadNoRow ==
    ASSUME SystemTypeOK, RecordInv, NEW t \in Targets, RowCreated(t)
    PROVE  status[t] = "NoRow" /\ BatchOf(t) > batches
<1>1. batches \in Nat /\ BatchOf(t) = batches + 1
  BY ConstantsAssumption DEF RowCreated, SystemTypeOK, TypeOK
<1> QED
  BY <1>1 DEF RecordInv, UnopenedUntouched

LEMMA NextNoLeftover ==
    SystemTypeOK /\ RecordInv /\ NoLeftoverOutcome /\ NoRowNoOutcome /\ [SystemNext]_systemVars
        => NoLeftoverOutcome' /\ NoRowNoOutcome'
<1> SUFFICES ASSUME SystemTypeOK, RecordInv, NoLeftoverOutcome, NoRowNoOutcome,
                    [SystemNext]_systemVars, NEW t \in Targets
             PROVE  /\ status'[t] \in ACTIVE_DEPLOYMENT_STATUSES \cup {"Cancelled", "NoRow"}
                        => exitCode'[t] = "none"
                    /\ errorMessage'[t] => status'[t] = "Failed"
  BY DEF NoLeftoverOutcome, NoRowNoOutcome
<1>1. /\ status[t] \in ACTIVE_DEPLOYMENT_STATUSES \cup {"Cancelled", "NoRow"}
            => exitCode[t] = "none"
      /\ errorMessage[t] => status[t] = "Failed"
  BY DEF NoLeftoverOutcome, NoRowNoOutcome
<1> USE DEF ACTIVE_DEPLOYMENT_STATUSES
<1>2. CASE RowKept(t) \/ RowCancelled(t) \/ RowDeleted(t)
  BY <1>1, <1>2 DEF RowKept, RowCancelled, RowDeleted
<1>3. CASE RowCreated(t)
  <2>1. status[t] = "NoRow"
    BY <1>3, CreatedHadNoRow
  <2> QED
    BY <1>1, <1>3, <2>1 DEF RowCreated
<1>4. CASE RowReported(t)
  <2>1. PICK r \in AgentReports :
            /\ status[t] \notin TERMINAL_DEPLOYMENT_STATUSES /\ r.status \in NextStatuses(status[t])
            /\ status'[t] = r.status
            /\ exitCode'[t] = IF r.exitCode = "none" THEN exitCode[t] ELSE r.exitCode
            /\ errorMessage'[t] <=> r.cause # "none" \/ errorMessage[t]
    BY <1>4 DEF RowReported, AcceptsReport
  <2>2. status[t] \in ACTIVE_DEPLOYMENT_STATUSES
    BY <2>1 DEF NextStatuses, STATUS_TRANSITIONS
  <2> QED
    BY <1>1, <2>1, <2>2, ReportFields DEF CLIENT_REPORTABLE_STATUSES
<1> QED
  BY <1>2, <1>3, <1>4, RowSteps DEF RowStep

LEMMA NextOutcomes ==
    SystemTypeOK /\ Truth /\ OutcomesHappened /\ [SystemNext]_systemVars => OutcomesHappened'
<1> SUFFICES ASSUME SystemTypeOK, Truth, OutcomesHappened, [SystemNext]_systemVars,
                    NEW t \in Targets
             PROVE  /\ status'[t] = "Completed" => exitCode'[t] = "zero" /\ Ran(t, "success")'
                    /\ exitCode'[t] = "nonzero" => Ran(t, "error_exit")'
  BY DEF OutcomesHappened
<1>1. /\ Ran(t, "success") => Ran(t, "success")'
      /\ Ran(t, "error_exit") => Ran(t, "error_exit")'
  BY RunsKept
<1>2. /\ status[t] = "Completed" => exitCode[t] = "zero" /\ Ran(t, "success")
      /\ exitCode[t] = "nonzero" => Ran(t, "error_exit")
  BY DEF OutcomesHappened
<1>3. CASE RowKept(t) \/ RowCreated(t) \/ RowCancelled(t) \/ RowDeleted(t)
  BY <1>1, <1>2, <1>3 DEF RowKept, RowCreated, RowCancelled, RowDeleted
<1>4. CASE RowReported(t)
  <2>1. PICK c \in Clients, r \in AgentReports :
            /\ HeldBy(c, r) /\ r.target = t /\ status'[t] = r.status
            /\ exitCode'[t] = IF r.exitCode = "none" THEN exitCode[t] ELSE r.exitCode
    BY <1>4 DEF RowReported
  <2>2. /\ r.status = "Completed" => Ran(t, "success") /\ r.exitCode = "zero"
        /\ r.exitCode = "nonzero" => Ran(t, "error_exit")
    BY <2>1, ReportFields DEF Truth, HeldReports, Truthful
  <2> QED
    BY <1>1, <1>2, <2>1, <2>2
<1> QED
  BY <1>3, <1>4, RowSteps DEF RowStep

LEMMA NextServed ==
    SystemTypeOK /\ Truth /\ InstallingAfterDownload /\ [SystemNext]_systemVars
        => InstallingAfterDownload'
<1> SUFFICES ASSUME SystemTypeOK, Truth, InstallingAfterDownload, [SystemNext]_systemVars,
                    NEW t \in Targets, status'[t] \in {"Installing", "Completed"}
             PROVE  audit'[<<"INSTALLER_DOWNLOAD", t>>] > 0
  BY DEF InstallingAfterDownload
<1>1. /\ audit'[<<"INSTALLER_DOWNLOAD", t>>] >= audit[<<"INSTALLER_DOWNLOAD", t>>]
      /\ audit'[<<"INSTALLER_DOWNLOAD", t>>] \in Nat /\ audit[<<"INSTALLER_DOWNLOAD", t>>] \in Nat
  <2>1. <<"INSTALLER_DOWNLOAD", t>> \in AuditRows
    BY RowsOfTheLog DEF TargetEvents
  <2> QED
    BY <2>1, ServerSteps, NextType, Grows DEF SystemTypeOK, TypeOK
<1> SUFFICES audit[<<"INSTALLER_DOWNLOAD", t>>] > 0
  BY <1>1
<1>2. CASE status[t] \in {"Installing", "Completed"}
  BY <1>2 DEF InstallingAfterDownload
<1>3. CASE RowReported(t) /\ status[t] \notin {"Installing", "Completed"}
  <2>1. PICK c \in Clients, r \in AgentReports :
            /\ HeldBy(c, r) /\ r.target = t /\ status'[t] = r.status
            /\ r.status \in NextStatuses(status[t])
    BY <1>3 DEF RowReported, AcceptsReport
  <2>2. r.status = "Installing"
    BY <1>3, <2>1 DEF NextStatuses, STATUS_TRANSITIONS
  <2> QED
    BY <2>1, <2>2 DEF Truth, HeldReports, Truthful
<1> QED
  BY <1>2, <1>3, RowSteps DEF RowStep, RowKept, RowCreated, RowCancelled, RowDeleted

-----------------------------------------------------------------------------
(* The report that a target was started is not overtaken.                   *)

\* A report the server handles is the row's status afterwards.
LEMMA HandledStatus ==
    ASSUME SystemTypeOK, NEW c \in Clients, NEW r \in AgentReports, Accepted(c, r), Handle(c, r)
    PROVE  status'[r.target] = r.status
<1>1. status \in [Targets -> Statuses \cup {"NoRow"}] /\ r.target \in Targets
      /\ Body(r).status = r.status
  BY ReportFields DEF SystemTypeOK, TypeOK
<1>2. CASE r.status = status[r.target]
  BY <1>1, <1>2 DEF Handle, vars, rowVars
<1>3. CASE r.status # status[r.target]
  BY <1>1, <1>3 DEF Handle, ReportStatus
<1> QED
  BY <1>2, <1>3

LEMMA NoDiskCounted ==
    ASSUME SystemTypeOK, [SystemNext]_systemVars
    PROVE  \A k \in FaultKinds : faults'[k] = 0 => faults[k] = 0
<1>1. \A k \in FaultKinds : faults[k] \in Nat
  BY DEF SystemTypeOK
<1>2. UNCHANGED faults \/ \E c \in Clients : Counts(c)
  BY SystemSteps
<1>3. CASE UNCHANGED faults
  BY <1>1, <1>3
<1>4. ASSUME NEW c \in Clients, Counts(c) PROVE \A k \in FaultKinds : faults'[k] = 0 => faults[k] = 0
  BY <1>1, <1>4 DEF Counts
<1> QED
  BY <1>2, <1>3, <1>4

\* A job is at a target of its own agent, in a batch that was created.
LEMMA JobsOpened ==
    ASSUME SystemTypeOK, Truth, NEW t \in Targets, NEW c \in Clients, Job(c, t)
    PROVE  ClientOf(t) = c /\ BatchOf(t) =< batches
<1>1. current[c] \in AgentReports /\ HeldBy(c, current[c]) /\ current[c].target = t
  BY DEF SystemTypeOK, Job, HeldBy
<1> QED
  BY <1>1 DEF Truth, HeldReports, Truthful

LEMMA StartedOpened ==
    ASSUME SystemTypeOK, Truth, NEW t \in Targets, Started(t)
    PROVE  ~RowCreated(t)
<1>1. BatchOf(t) =< batches
  <2>1. ClientOf(t) \in Clients
    BY DEF Targets, ClientOf
  <2> QED
    BY <2>1, JobsOpened DEF Started, Truth, RunsOpened
<1> QED
  BY <1>1, ConstantsAssumption DEF RowCreated, SystemTypeOK, TypeOK

\* An agent gets past the first report of a target when it ends that report.
LEMMA StartedSteps ==
    ASSUME SystemTypeOK, Truth, [SystemNext]_systemVars, NEW t \in Targets, NEW c \in Clients,
           c = ClientOf(t), Started(t)', ~Started(t)
    PROVE  EndsReport(c) /\ current[c] = Progress(t, "Downloading")
<1>2. /\ runs'[t] = <<>>
      /\ current'[c] # NoReport /\ current'[c].target = t
      /\ pc'[c] = "report" => current'[c].status # "Downloading"
  BY RunsKept, JobsOpened DEF Started, Job
<1>3. /\ Job(c, t) => pc[c] = "report" /\ current[c].status = "Downloading"
  BY DEF Started
<1>4. ~(pc[c] = pc'[c] /\ current[c] = current'[c])
  BY <1>2, <1>3 DEF Job
<1>5. Moves(c) /\ Counts(c)
  BY <1>4, SystemSteps DEF Apart, agentVars
<1>6. /\ pc \in [Clients -> {"idle", "flush", "poll", "report", "download", "execute"}]
      /\ current \in [Clients -> AgentReports \cup {NoReport}]
      /\ pc'[c] \in {"report", "download", "execute"} <=> current'[c] # NoReport
  BY SystemNextType DEF SystemTypeOK
<1>7. ~Stays(c) /\ ~FindsNothing(c) /\ ~Dies(c)
  BY <1>2, <1>4, <1>6 DEF Stays, FindsNothing, Dies, Finish
<1>8. ~StartsFlush(c) /\ ~FlushesReport(c) /\ ~SkipsReports(c)
  BY <1>2, <1>6 DEF StartsFlush, FlushesReport, SkipsReports, ContinueFlush
<1>9. CASE StartsReport(c)
  <2>1. PICK r : Report(c, r) /\ Fresh(c, r)
    BY <1>9 DEF StartsReport
  <2>2. pc'[c] = "report" /\ current'[c] = r
    BY <1>6, <2>1 DEF Report
  <2>3. r.status # "Downloading" /\ r.target = t
    BY <1>2, <2>2
  <2>4. pc[c] \in {"download", "execute"} /\ r.target = current[c].target
    BY <2>1, <2>3 DEF Fresh, Progress, NotRun, Final
  <2>5. Job(c, t)
    BY <1>6, <2>3, <2>4, Jobs, SystemAssumption DEF Job
  <2> QED
    BY <1>3, <2>4, <2>5
<1>10. CASE EndsReport(c)
  <2>1. current'[c] = current[c]
    BY <1>2, <1>6, <1>10, AfterReportCases DEF EndsReport, Finish
  <2>2. current[c] \in AgentReports /\ current[c].target = t /\ current[c].status = "Downloading"
    BY <1>2, <1>3, <1>6, <2>1 DEF Job
  <2> QED
    BY <1>10, <2>2, ReportFields
<1> QED
  BY <1>5, <1>7, <1>8, <1>9, <1>10 DEF Moves

LEMMA NextStarted ==
    SystemTypeOK /\ Truth /\ StartedIsQueued /\ [SystemNext]_systemVars => StartedIsQueued'
<1> SUFFICES ASSUME SystemTypeOK, Truth, StartedIsQueued, [SystemNext]_systemVars,
                    faults'["no_disk"] = 0,
                    NEW t \in Targets, status'[t] \in {"Pending", "Cancelled"}, Started(t)'
             PROVE  Queued(queue[ClientOf(t)], Progress(t, "Downloading"))'
  BY DEF StartedIsQueued
<1>1. PICK c \in Clients : c = ClientOf(t)
  BY DEF Targets, ClientOf
<1>2. PICK first \in AgentReports :
            first = Progress(t, "Downloading") /\ first.target = t /\ first.status = "Downloading"
  BY ReportsMade DEF Progress
<1>3. faults["no_disk"] = 0
  BY NoDiskCounted DEF FaultKinds
<1>4. queue \in [Clients -> Seq(AgentReports)] /\ queue[c] \in Seq(AgentReports)
  BY DEF SystemTypeOK
<1>5. CASE Started(t)
  <2>1. status[t] \in {"Pending", "Cancelled"}
    BY <1>5, RowSteps, StartedOpened, ReportFields
    DEF RowStep, RowKept, RowCancelled, RowDeleted, RowReported, CLIENT_REPORTABLE_STATUSES
  <2>2. Queued(queue[c], first)
    BY <1>1, <1>2, <1>3, <1>5, <2>1 DEF StartedIsQueued
  <2>3. CASE FlushesReport(c)
    <3>1. Outgoing(c) \in AgentReports /\ Accepted(c, Outgoing(c)) /\ Handle(c, Outgoing(c))
      BY <2>3, Outgoings DEF FlushesReport, Sending
    <3>2. Outgoing(c).target # t
      BY <3>1, HandledStatus, ReportFields DEF CLIENT_REPORTABLE_STATUSES
    <3>3. queue'[c] = queue[c] \/ queue'[c] = Acknowledge(queue[c], Outgoing(c))
      BY <1>4, <2>3 DEF FlushesReport
    <3>4. Queued(Acknowledge(queue[c], Outgoing(c)), first)
      <4>1. \A x : Queued(queue[c], x) /\ x.target # Outgoing(c).target
                    => Queued(Acknowledge(queue[c], Outgoing(c)), x)
        BY <1>4, AcknowledgeProperties
      <4> QED
        BY <1>2, <2>2, <3>2, <4>1
    <3> QED
      BY <1>1, <1>2, <2>2, <3>3, <3>4
  <2>4. CASE EndsReport(c)
    <3>1. current[c] \in AgentReports
      BY <2>4, Jobs DEF EndsReport
    <3>2. queue'[c] = queue[c] \/ queue'[c] = Enqueue(queue[c], current[c])
      BY <1>4, <2>4 DEF EndsReport
    <3>3. Queued(Enqueue(queue[c], current[c]), first)
      BY <1>4, <2>2, <3>1, EnqueueProperties
    <3> QED
      BY <1>1, <1>2, <2>2, <3>2, <3>3
  <2>5. CASE queue'[c] = queue[c]
    BY <1>1, <1>2, <2>2, <2>5
  <2>6. queue'[c] = queue[c] \/ FlushesReport(c) \/ EndsReport(c)
    BY SystemSteps
    DEF Apart, agentVars, Moves, Stays, StartsFlush, SkipsReports, StartsReport, FindsNothing, Dies
  <2> QED
    BY <2>3, <2>4, <2>5, <2>6
<1>6. CASE ~Started(t)
  <2>1. EndsReport(c) /\ current[c] = first
    BY <1>1, <1>2, <1>6, StartedSteps
  <2>2. ~(Accepted(c, first) /\ Handle(c, first))
    BY <1>2, HandledStatus
  <2>3. queue'[c] = Enqueue(queue[c], first)
    BY <1>4, <2>1, <2>2 DEF EndsReport
  <2> QED
    BY <1>1, <1>2, <1>4, <2>3, EnqueueProperties
<1> QED
  BY <1>5, <1>6

-----------------------------------------------------------------------------
(* A flush goes through the queue in order.                                 *)

LEMMA Behind ==
    ASSUME NEW S, NEW s \in Seq(S), s # <<>>
    PROVE  /\ 1 \in DOMAIN s /\ Head(s) = s[1] /\ Tail(s) \in Seq(S)
           /\ \A k \in DOMAIN Tail(s) : k + 1 \in DOMAIN s /\ Tail(s)[k] = s[k + 1]
           /\ \A k \in DOMAIN s : k # 1 => k - 1 \in DOMAIN Tail(s) /\ Tail(s)[k - 1] = s[k]
           /\ \A k \in DOMAIN s : k \in Nat /\ k >= 1
OBVIOUS

LEMMA FlushStarts ==
    ASSUME NEW S, NEW all \in Seq(S), Distinct(all)
    PROVE  FlushOrder(all, all) /\ FlushOrder(<<>>, all)
<1>1. FlushOrder(<<>>, all)
  BY DEF FlushOrder, Distinct
<1>2. FlushOrder(all, all)
  BY DEF FlushOrder, Distinct, Queued
<1> QED
  BY <1>1, <1>2

\* Nothing queued for the target of the next report is older than it.
LEMMA NextIsOldest ==
    ASSUME NEW S, NEW all \in Seq(S), NEW rest \in Seq(S), rest # <<>>, FlushOrder(rest, all)
    PROVE  /\ Queued(all, Head(rest))
           /\ \A i, j \in DOMAIN all :
                all[j] = Head(rest) /\ all[i].target = Head(rest).target => j =< i
<1>1. 1 \in DOMAIN rest /\ Head(rest) = rest[1] /\ \A h \in DOMAIN rest : ~(h < 1)
  BY Behind
<1>2. ASSUME NEW i \in DOMAIN all, NEW j \in DOMAIN all, all[j] = rest[1],
             all[i].target = rest[1].target, i < j
      PROVE  FALSE
  BY <1>1, <1>2 DEF FlushOrder
<1>3. \A i \in DOMAIN all : i \in Nat
  OBVIOUS
<1> QED
  BY <1>1, <1>2, <1>3 DEF FlushOrder

LEMMA FlushAcknowledged ==
    ASSUME NEW S, NEW all \in Seq(S), NEW rest \in Seq(S), rest # <<>>, Distinct(all),
           FlushOrder(rest, all)
    PROVE  FlushOrder(Tail(rest), Acknowledge(all, Head(rest)))
<1> DEFINE r == Head(rest)
           later == Tail(rest)
           left == Acknowledge(all, r)
<1>1. /\ 1 \in DOMAIN rest /\ r = rest[1] /\ later \in Seq(S)
      /\ \A k \in DOMAIN later : k + 1 \in DOMAIN rest /\ later[k] = rest[k + 1]
      /\ \A k \in DOMAIN rest : k # 1 => k - 1 \in DOMAIN later /\ later[k - 1] = rest[k]
      /\ \A k \in DOMAIN later : k \in Nat /\ k >= 1
      /\ \A k \in DOMAIN rest : k \in Nat /\ k >= 1
  BY Behind
<1>2. PICK at \in DOMAIN all : all[at] = r
  BY <1>1 DEF FlushOrder, Queued
<1>3. \A i \in DOMAIN all : i \in Nat
  OBVIOUS
<1>4. /\ left \in Seq(S) /\ InOrderOf(left, all)
      /\ \A x : Queued(left, x) => Queued(all, x)
      /\ \A x : Queued(all, x) /\ x.target # r.target => Queued(left, x)
      /\ ~Queued(left, r)
      /\ \A i \in DOMAIN all : at < i => Queued(left, all[i])
  BY <1>2, AcknowledgeProperties
<1>5. \A i \in DOMAIN all : all[i].target = r.target => at =< i
  BY <1>2, NextIsOldest
<1> HIDE DEF r, later, left
<1>6. Distinct(later)
  <2> SUFFICES ASSUME NEW i \in DOMAIN later, NEW j \in DOMAIN later, later[i] = later[j]
               PROVE  i = j
    BY DEF Distinct
  <2>1. /\ i + 1 \in DOMAIN rest /\ rest[i + 1] = later[i] /\ i \in Nat
        /\ j + 1 \in DOMAIN rest /\ rest[j + 1] = later[j] /\ j \in Nat
    BY <1>1
  <2>2. i + 1 = j + 1
    BY <2>1 DEF FlushOrder, Distinct
  <2> QED
    BY <2>1, <2>2
<1>7. ASSUME NEW k \in DOMAIN later PROVE Queued(left, later[k])
  <2>1. k + 1 \in DOMAIN rest /\ later[k] = rest[k + 1] /\ k + 1 # 1
    BY <1>1
  <2>2. later[k] # r /\ Queued(all, later[k])
    BY <1>1, <2>1 DEF FlushOrder, Distinct
  <2>3. PICK i \in DOMAIN all : all[i] = later[k]
    BY <2>2 DEF Queued
  <2>4. CASE later[k].target = r.target
    <3>1. at < i
      BY <1>2, <1>3, <1>5, <2>2, <2>3, <2>4
    <3> QED
      BY <1>4, <2>3, <3>1
  <2> QED
    BY <1>4, <2>2, <2>4
<1>8. ASSUME NEW k \in DOMAIN later, NEW i \in DOMAIN left, NEW j \in DOMAIN left,
             left[j] = later[k], left[i].target = left[j].target, i < j
      PROVE  \E h \in DOMAIN later : h < k /\ later[h] = left[i]
  <2>1. k + 1 \in DOMAIN rest /\ later[k] = rest[k + 1]
    BY <1>1
  <2>2. PICK a \in DOMAIN all, b \in DOMAIN all : a < b /\ all[a] = left[i] /\ all[b] = left[j]
    BY <1>4, <1>8 DEF InOrderOf
  <2>3. PICK h \in DOMAIN rest : h < k + 1 /\ rest[h] = all[a]
    BY <1>8, <2>1, <2>2 DEF FlushOrder
  <2>4. h # 1
    BY <1>1, <1>4, <2>2, <2>3 DEF Queued
  <2>5. h - 1 \in DOMAIN later /\ later[h - 1] = left[i] /\ h - 1 < k
    <3>1. h - 1 \in DOMAIN later /\ later[h - 1] = rest[h]
      BY <1>1, <2>3, <2>4
    <3>2. h \in Nat /\ k \in Nat
      BY <1>1
    <3> QED
      BY <2>2, <2>3, <3>1, <3>2
  <2> QED
    BY <2>5
<1>9. FlushOrder(later, left)
  BY <1>6, <1>7, <1>8 DEF FlushOrder
<1> QED
  BY <1>9 DEF r, later, left

LEMMA FlushSkips ==
    ASSUME NEW S, NEW all \in Seq(S), NEW rest \in Seq(S), rest # <<>>, Distinct(all),
           FlushOrder(rest, all)
    PROVE  FlushOrder(Without(Tail(rest), OfTarget(rest, Head(rest).target)), all)
<1> DEFINE skipped == OfTarget(rest, Head(rest).target)
           later == Tail(rest)
           left == Without(later, skipped)
<1>1. /\ 1 \in DOMAIN rest /\ Head(rest) = rest[1] /\ later \in Seq(S)
      /\ \A k \in DOMAIN later : k + 1 \in DOMAIN rest /\ later[k] = rest[k + 1]
      /\ \A k \in DOMAIN rest : k # 1 => k - 1 \in DOMAIN later /\ later[k - 1] = rest[k]
      /\ \A k \in DOMAIN later : k \in Nat /\ k >= 1
      /\ \A k \in DOMAIN rest : k \in Nat /\ k >= 1
  BY Behind
<1>2. \A k \in DOMAIN rest : rest[k] \in skipped <=> rest[k].target = Head(rest).target
  BY DEF OfTarget
<1>3. /\ left \in Seq(S) /\ InOrderOf(left, later)
      /\ \A x : Queued(left, x) <=> Queued(later, x) /\ x \notin skipped
  <2>1. later \in Seq(S)
    BY <1>1
  <2> HIDE DEF skipped, later
  <2> QED
    BY <2>1, WithoutProperties
<1> HIDE DEF skipped, later, left
<1>4. \A k \in DOMAIN left : k \in Nat
  BY <1>3
<1>5. Distinct(later)
  <2> SUFFICES ASSUME NEW i \in DOMAIN later, NEW j \in DOMAIN later, later[i] = later[j]
               PROVE  i = j
    BY DEF Distinct
  <2>1. /\ i + 1 \in DOMAIN rest /\ rest[i + 1] = later[i] /\ i \in Nat
        /\ j + 1 \in DOMAIN rest /\ rest[j + 1] = later[j] /\ j \in Nat
    BY <1>1
  <2>2. i + 1 = j + 1
    BY <2>1 DEF FlushOrder, Distinct
  <2> QED
    BY <2>1, <2>2
<1>6. Distinct(left)
  BY <1>1, <1>3, <1>5, DistinctInOrder
<1>7. ASSUME NEW k \in DOMAIN left
      PROVE  \E m \in DOMAIN rest : m # 1 /\ rest[m] = left[k] /\ left[k] \notin skipped
  <2>1. Queued(later, left[k]) /\ left[k] \notin skipped
    BY <1>3 DEF Queued
  <2>2. PICK i \in DOMAIN later : later[i] = left[k]
    BY <2>1 DEF Queued
  <2>3. i + 1 \in DOMAIN rest /\ rest[i + 1] = left[k] /\ i + 1 # 1
    BY <1>1, <2>2
  <2> QED
    BY <2>1, <2>3
<1>8. ASSUME NEW k \in DOMAIN left, NEW i \in DOMAIN all, NEW j \in DOMAIN all,
             all[j] = left[k], all[i].target = all[j].target, i < j
      PROVE  \E g \in DOMAIN left : g < k /\ left[g] = all[i]
  <2>1. PICK m \in DOMAIN rest : m # 1 /\ rest[m] = left[k] /\ left[k] \notin skipped
    BY <1>7
  <2>2. PICK h \in DOMAIN rest : h < m /\ rest[h] = all[i]
    BY <1>8, <2>1 DEF FlushOrder
  <2>3. rest[h] \notin skipped /\ h # 1
    <3>1. rest[m].target # Head(rest).target
      BY <1>2, <2>1
    <3>2. rest[h].target = rest[m].target
      BY <1>8, <2>1, <2>2
    <3> QED
      BY <1>1, <1>2, <3>1, <3>2
  <2>4. Queued(left, all[i])
    <3>1. h - 1 \in DOMAIN later /\ later[h - 1] = all[i]
      BY <1>1, <2>2, <2>3
    <3>2. Queued(later, all[i]) /\ all[i] \notin skipped
      BY <2>2, <2>3, <3>1 DEF Queued
    <3> QED
      BY <1>3, <3>2
  <2>5. PICK g \in DOMAIN left : left[g] = all[i]
    BY <2>4 DEF Queued
  <2>6. g # k
    BY <2>1, <2>2, <2>5, <1>1 DEF FlushOrder, Distinct
  <2>7. ASSUME k < g PROVE FALSE
    <3>1. PICK a \in DOMAIN later, b \in DOMAIN later :
                a < b /\ later[a] = left[k] /\ later[b] = left[g]
      BY <1>3, <2>7 DEF InOrderOf
    <3>2. /\ a + 1 \in DOMAIN rest /\ rest[a + 1] = rest[m]
          /\ b + 1 \in DOMAIN rest /\ rest[b + 1] = rest[h]
      BY <1>1, <2>1, <2>2, <2>5, <3>1
    <3>3. a + 1 = m /\ b + 1 = h
      BY <3>2 DEF FlushOrder, Distinct
    <3>4. a \in Nat /\ b \in Nat
      BY <1>1
    <3>5. a + 1 < b + 1
      BY <3>1, <3>4
    <3>6. m < h /\ m \in Nat /\ h \in Nat
      BY <1>1, <3>3, <3>5
    <3> QED
      BY <2>2, <3>6
  <2> QED
    BY <1>4, <2>5, <2>6, <2>7
<1>9. FlushOrder(left, all)
  BY <1>6, <1>7, <1>8 DEF FlushOrder
<1> QED
  BY <1>9 DEF skipped, later, left

LEMMA NextQueues ==
    SystemTypeOK /\ QueuesDistinct /\ [SystemNext]_systemVars => QueuesDistinct'
<1> SUFFICES ASSUME SystemTypeOK, QueuesDistinct, [SystemNext]_systemVars, NEW c \in Clients
             PROVE  Distinct(queue'[c])
  BY DEF QueuesDistinct
<1>1. queue \in [Clients -> Seq(AgentReports)] /\ queue[c] \in Seq(AgentReports)
      /\ Distinct(queue[c])
  BY DEF SystemTypeOK, QueuesDistinct
<1>2. CASE FlushesReport(c)
  <2>1. queue'[c] = queue[c] \/ queue'[c] = Acknowledge(queue[c], Outgoing(c))
    BY <1>1, <1>2 DEF FlushesReport
  <2>2. /\ Acknowledge(queue[c], Outgoing(c)) \in Seq(AgentReports)
        /\ InOrderOf(Acknowledge(queue[c], Outgoing(c)), queue[c])
    BY <1>1, AcknowledgeProperties
  <2>3. Distinct(Acknowledge(queue[c], Outgoing(c)))
    BY <1>1, <2>2, DistinctInOrder
  <2> QED
    BY <1>1, <2>1, <2>3
<1>3. CASE EndsReport(c)
  <2>1. current[c] \in AgentReports
    BY <1>3, Jobs DEF EndsReport
  <2>2. queue'[c] = queue[c] \/ queue'[c] = Enqueue(queue[c], current[c])
    BY <1>1, <1>3 DEF EndsReport
  <2>3. Distinct(Enqueue(queue[c], current[c]))
    BY <1>1, <2>1, EnqueueProperties
  <2> QED
    BY <1>1, <2>2, <2>3
<1>4. queue'[c] = queue[c] \/ FlushesReport(c) \/ EndsReport(c)
  BY SystemSteps
  DEF Apart, agentVars, Moves, Stays, StartsFlush, SkipsReports, StartsReport, FindsNothing, Dies
<1> QED
  BY <1>1, <1>2, <1>3, <1>4

LEMMA NextFlushes ==
    SystemTypeOK /\ QueuesDistinct /\ FlushesInOrder /\ [SystemNext]_systemVars => FlushesInOrder'
<1> SUFFICES ASSUME SystemTypeOK, QueuesDistinct, FlushesInOrder, [SystemNext]_systemVars,
                    faults'["no_disk"] = 0, NEW c \in Clients
             PROVE  FlushOrder(toFlush'[c], queue'[c])
  BY DEF FlushesInOrder
<1>1. /\ queue \in [Clients -> Seq(AgentReports)] /\ queue[c] \in Seq(AgentReports)
      /\ toFlush \in [Clients -> Seq(AgentReports)] /\ toFlush[c] \in Seq(AgentReports)
      /\ pc[c] = "flush" <=> toFlush[c] # <<>>
      /\ Distinct(queue[c])
  BY DEF SystemTypeOK, QueuesDistinct
<1>2. FlushOrder(toFlush[c], queue[c])
  BY NoDiskCounted DEF FlushesInOrder, FaultKinds
<1>3. queue'[c] \in Seq(AgentReports) /\ Distinct(queue'[c])
  BY SystemNextType, NextQueues DEF SystemTypeOK, QueuesDistinct
<1>4. FlushOrder(<<>>, queue'[c])
  BY <1>3, FlushStarts
<1>5. CASE toFlush'[c] = toFlush[c] /\ queue'[c] = queue[c]
  BY <1>2, <1>5
<1>6. CASE StartsFlush(c)
  <2>1. queue'[c] = queue[c] /\ (toFlush'[c] = queue[c] \/ toFlush'[c] = <<>>)
    BY <1>1, <1>6 DEF StartsFlush, ContinueFlush
  <2>2. FlushOrder(queue[c], queue[c])
    BY <1>1, FlushStarts
  <2> QED
    BY <1>4, <2>1, <2>2
<1>7. CASE FlushesReport(c)
  <2>1. Outgoing(c) = Head(toFlush[c]) /\ toFlush[c] # <<>>
    BY <1>1, <1>7 DEF FlushesReport, Outgoing
  <2>2. toFlush'[c] = Tail(toFlush[c]) /\ queue'[c] = Acknowledge(queue[c], Outgoing(c))
    BY <1>1, <1>7 DEF FlushesReport, ContinueFlush
  <2>3. FlushOrder(Tail(toFlush[c]), Acknowledge(queue[c], Head(toFlush[c])))
    BY <1>1, <1>2, <2>1, FlushAcknowledged
  <2> QED
    BY <2>1, <2>2, <2>3
<1>8. CASE SkipsReports(c)
  <2>1. Outgoing(c) = Head(toFlush[c]) /\ toFlush[c] # <<>>
    BY <1>1, <1>8 DEF SkipsReports, Outgoing
  <2>2. toFlush'[c] = SkipTarget(c) /\ queue'[c] = queue[c]
    BY <1>1, <1>8 DEF SkipsReports, ContinueFlush
  <2>3. FlushOrder(Without(Tail(toFlush[c]), OfTarget(toFlush[c], Head(toFlush[c]).target)),
                   queue[c])
    BY <1>1, <1>2, <2>1, FlushSkips
  <2> QED
    BY <2>1, <2>2, <2>3 DEF SkipTarget
<1>9. CASE toFlush'[c] = <<>>
  BY <1>4, <1>9
<1>10. CASE EndsReport(c)
  BY <1>1, <1>9, <1>10 DEF EndsReport
<1>11. \/ StartsFlush(c) \/ FlushesReport(c) \/ SkipsReports(c) \/ EndsReport(c)
       \/ toFlush'[c] = toFlush[c] /\ queue'[c] = queue[c]
       \/ toFlush'[c] = <<>>
  <2>1. CASE Dies(c)
    BY <1>1, <2>1 DEF Dies
  <2> QED
    BY <2>1, SystemSteps DEF Apart, agentVars, Moves, Stays, StartsReport, FindsNothing
<1> QED
  BY <1>5, <1>6, <1>7, <1>8, <1>9, <1>10, <1>11

\* A flush that keeps its order retries the oldest report of a target.
LEMMA OrderedOldest ==
    SystemTypeOK /\ Truth /\ FlushesInOrder => FlushesOldestFirst
<1> SUFFICES ASSUME SystemTypeOK, Truth, FlushesInOrder, faults["no_disk"] = 0,
                    NEW c \in Clients, pc[c] = "flush",
                    NEW i \in QueuedFor(Outgoing(c).target)
             PROVE  \E j \in 1..i : queue[c][j] = Outgoing(c)
  BY DEF FlushesOldestFirst
<1>1. /\ queue[c] \in Seq(AgentReports) /\ toFlush[c] \in Seq(AgentReports) /\ toFlush[c] # <<>>
      /\ Outgoing(c) = Head(toFlush[c]) /\ Outgoing(c) \in AgentReports
  BY Outgoings DEF SystemTypeOK, Outgoing, Sending
<1>2. ClientOf(Outgoing(c).target) = c
  BY <1>1, OutgoingHeld DEF Truth, HeldReports, Truthful, Sending
<1>3. i \in DOMAIN queue[c] /\ queue[c][i].target = Head(toFlush[c]).target
  BY <1>1, <1>2 DEF QueuedFor
<1>4. FlushOrder(toFlush[c], queue[c])
  BY DEF FlushesInOrder
<1>5. PICK j \in DOMAIN queue[c] : queue[c][j] = Head(toFlush[c])
  BY <1>1, <1>4, NextIsOldest DEF Queued
<1>6. j =< i
  BY <1>1, <1>3, <1>4, <1>5, NextIsOldest
<1>7. j \in 1..i
  BY <1>1, <1>3, <1>6
<1> QED
  BY <1>1, <1>5, <1>7

-----------------------------------------------------------------------------
(* No outcome is lost.                                                      *)

FinalQueued(t) ==
    \E r \in AgentReports : /\ r.target = t /\ r.status \in {"Completed", "Failed"}
                            /\ Queued(queue[ClientOf(t)], r)

LEMMA SafeOutcome ==
    ASSUME SystemTypeOK, NEW t \in Targets
    PROVE  OutcomeSafe(t) <=> \/ status[t] \in TERMINAL_DEPLOYMENT_STATUSES \cup {"NoRow"}
                              \/ FinalQueued(t)
                              \/ Job(ClientOf(t), t)
<1>1. queue[ClientOf(t)] \in Seq(AgentReports)
  BY DEF SystemTypeOK, Targets, ClientOf
<1>2. \A i \in DOMAIN queue[ClientOf(t)] : queue[ClientOf(t)][i] \in AgentReports
  BY <1>1
<1> QED
  BY <1>2 DEF OutcomeSafe, FinalQueued, QueuedFor, Queued

\* A report of t that the server takes is the oldest one queued for t: if it is
\* not an outcome, acknowledging it leaves the outcome in the queue.
LEMMA AcknowledgedOldest ==
    ASSUME NEW S, NEW all \in Seq(S), NEW rest \in Seq(S), rest # <<>>, Distinct(all),
           FlushOrder(rest, all), NEW r, Queued(all, r), r # Head(rest)
    PROVE  Queued(Acknowledge(all, Head(rest)), r)
<1>1. PICK i \in DOMAIN all : all[i] = r
  BY DEF Queued
<1>2. CASE r.target # Head(rest).target
  BY <1>2, AcknowledgeProperties
<1>3. CASE r.target = Head(rest).target
  <2>1. PICK at \in DOMAIN all : all[at] = Head(rest)
    BY NextIsOldest DEF Queued
  <2>2. at =< i /\ at # i
    BY <1>1, <1>3, <2>1, NextIsOldest
  <2>3. at < i
    BY <2>2
  <2> QED
    BY <1>1, <2>1, <2>3, AcknowledgeProperties
<1> QED
  BY <1>2, <1>3

LEMMA FinalStays ==
    ASSUME SystemTypeOK, QueuesDistinct, FlushesInOrder, [SystemNext]_systemVars,
           faults["no_disk"] = 0, NEW t \in Targets, FinalQueued(t)
    PROVE  status'[t] \in TERMINAL_DEPLOYMENT_STATUSES \/ FinalQueued(t)'
<1>1. PICK c \in Clients : c = ClientOf(t)
  BY DEF Targets, ClientOf
<1>2. PICK r \in AgentReports : /\ r.target = t /\ r.status \in {"Completed", "Failed"}
                                /\ Queued(queue[c], r)
  BY <1>1 DEF FinalQueued
<1>3. SUFFICES status'[t] \in TERMINAL_DEPLOYMENT_STATUSES \/ Queued(queue'[c], r)
  BY <1>1, <1>2 DEF FinalQueued
<1>4. queue \in [Clients -> Seq(AgentReports)] /\ queue[c] \in Seq(AgentReports)
  BY DEF SystemTypeOK
<1>5. CASE FlushesReport(c)
  <2>1. /\ Outgoing(c) \in AgentReports /\ Accepted(c, Outgoing(c)) /\ Handle(c, Outgoing(c))
        /\ toFlush[c] # <<>> /\ Outgoing(c) = Head(toFlush[c])
        /\ toFlush[c] \in Seq(AgentReports)
    BY <1>5, Outgoings DEF FlushesReport, Sending, SystemTypeOK
  <2>2. CASE Outgoing(c) = r
    BY <1>2, <2>1, <2>2, HandledStatus DEF TERMINAL_DEPLOYMENT_STATUSES
  <2>3. CASE Outgoing(c) # r
    <3>1. FlushOrder(toFlush[c], queue[c]) /\ Distinct(queue[c])
      BY DEF FlushesInOrder, QueuesDistinct
    <3>2. Queued(Acknowledge(queue[c], Head(toFlush[c])), r)
      BY <1>2, <1>4, <2>1, <2>3, <3>1, AcknowledgedOldest
    <3>3. queue'[c] = queue[c] \/ queue'[c] = Acknowledge(queue[c], Outgoing(c))
      BY <1>4, <1>5 DEF FlushesReport
    <3> QED
      BY <1>2, <2>1, <3>2, <3>3
  <2> QED
    BY <2>2, <2>3
<1>6. CASE EndsReport(c)
  <2>1. current[c] \in AgentReports
    BY <1>6, Jobs DEF EndsReport
  <2>2. queue'[c] = queue[c] \/ queue'[c] = Enqueue(queue[c], current[c])
    BY <1>4, <1>6 DEF EndsReport
  <2>3. Queued(Enqueue(queue[c], current[c]), r)
    BY <1>2, <1>4, <2>1, EnqueueProperties
  <2> QED
    BY <1>2, <2>2, <2>3
<1>7. queue'[c] = queue[c] \/ FlushesReport(c) \/ EndsReport(c)
  BY SystemSteps
  DEF Apart, agentVars, Moves, Stays, StartsFlush, SkipsReports, StartsReport, FindsNothing, Dies
<1> QED
  BY <1>2, <1>5, <1>6, <1>7

\* A job ends when its outcome is delivered or queued.
LEMMA JobEnds ==
    ASSUME SystemTypeOK, [SystemNext]_systemVars,
           faults'["no_disk"] = 0, faults'["crash"] = 0,
           NEW t \in Targets, NEW c \in Clients, c = ClientOf(t), Job(c, t), ~Job(c, t)'
    PROVE  status'[t] \in TERMINAL_DEPLOYMENT_STATUSES \/ FinalQueued(t)'
<1>1. /\ pc \in [Clients -> {"idle", "flush", "poll", "report", "download", "execute"}]
      /\ queue \in [Clients -> Seq(AgentReports)] /\ queue[c] \in Seq(AgentReports)
      /\ current \in [Clients -> AgentReports \cup {NoReport}]
      /\ pc[c] \in {"report", "download", "execute"}
      /\ current[c] \in AgentReports /\ current[c].target = t /\ current[c] # NoReport
  BY DEF SystemTypeOK, Job
<1>2. current'[c] # current[c]
  BY <1>1 DEF Job
<1>3. Moves(c)
  BY <1>2, SystemSteps DEF Apart, agentVars
<1>4. ~Stays(c) /\ ~StartsFlush(c) /\ ~FlushesReport(c) /\ ~SkipsReports(c)
  BY <1>1, <1>2 DEF Stays, StartsFlush, FlushesReport, SkipsReports
<1>5. ~FindsNothing(c) /\ ~Dies(c)
  BY <1>1 DEF FindsNothing, Dies
<1>6. ~StartsReport(c)
  <2> SUFFICES ASSUME NEW r, Report(c, r), Fresh(c, r) PROVE FALSE
    BY DEF StartsReport
  <2>1. r.target = t /\ current'[c] = r
    BY <1>1 DEF Report, Fresh, Progress, NotRun, Final
  <2>2. r \in AgentReports
    BY <1>1, ReportsMade DEF Fresh
  <2> QED
    BY <2>1, <2>2, SystemAssumption DEF Job
<1>7. EndsReport(c)
  BY <1>3, <1>4, <1>5, <1>6 DEF Moves
<1>8. PICK r \in AgentReports : r = current[c]
  BY <1>1
<1>9. r.target = t /\ r.status \in {"Completed", "Failed"}
  BY <1>1, <1>2, <1>7, <1>8, AfterReportCases, ReportFields
  DEF EndsReport, CLIENT_REPORTABLE_STATUSES
<1>10. CASE Accepted(c, r) /\ Handle(c, r)
  BY <1>9, <1>10, HandledStatus DEF TERMINAL_DEPLOYMENT_STATUSES
<1>11. CASE queue' = [queue EXCEPT ![c] = Enqueue(@, r)]
  <2>1. Queued(queue'[c], r)
    BY <1>1, <1>11, EnqueueProperties
  <2> QED
    BY <1>9, <2>1 DEF FinalQueued
<1> QED
  BY <1>7, <1>8, <1>10, <1>11 DEF EndsReport

\* A row that is under way, and a report that is held, are of a batch that was
\* created.
LEMMA HandedOutOpened ==
    ASSUME SystemTypeOK, Truth, NEW t \in Targets, HandedOut(t)
    PROVE  ~RowCreated(t)
<1>1. CASE status[t] \in {"Downloading", "Installing"}
  <2> SUFFICES ASSUME RowCreated(t) PROVE FALSE
    OBVIOUS
  <2>1. status[t] = "NoRow"
    BY CreatedHadNoRow DEF Truth
  <2> QED
    BY <1>1, <2>1
<1>2. CASE runs[t] # <<>>
  BY <1>2, StartedOpened DEF Started
<1>3. ASSUME NEW r \in AgentReports, r.target = t, HeldBy(ClientOf(t), r)
      PROVE  ~RowCreated(t)
  <2>1. BatchOf(t) =< batches
    BY <1>3 DEF Truth, HeldReports, Truthful, Targets, ClientOf
  <2> QED
    BY <2>1, ConstantsAssumption DEF RowCreated, SystemTypeOK, TypeOK
<1> QED
  BY <1>1, <1>2, <1>3 DEF HandedOut

\* A target is handed out by the poll that makes it a job.
LEMMA HandedOutByJob ==
    ASSUME SystemTypeOK, Truth, [SystemNext]_systemVars,
           NEW t \in Targets, NEW c \in Clients, c = ClientOf(t), HandedOut(t)', ~HandedOut(t)
    PROVE  Job(c, t)'
<1>1. \A d \in Clients, r \in AgentReports : HeldBy(d, r) /\ r.target = t => FALSE
  <2> SUFFICES ASSUME NEW d \in Clients, NEW r \in AgentReports, HeldBy(d, r), r.target = t
               PROVE  FALSE
    OBVIOUS
  <2>1. d = c
    BY DEF Truth, HeldReports, Truthful
  <2> QED
    BY <2>1 DEF HandedOut
<1>2. \A d \in Clients : ~Job(d, t)
  <2> SUFFICES ASSUME NEW d \in Clients, Job(d, t) PROVE FALSE
    OBVIOUS
  <2>1. current[d] \in AgentReports /\ HeldBy(d, current[d]) /\ current[d].target = t
    BY DEF SystemTypeOK, Job, HeldBy
  <2> QED
    BY <1>1, <2>1
<1>3. runs'[t] = <<>>
  BY <1>2, RunsKept DEF HandedOut
<1>4. status'[t] \notin {"Downloading", "Installing"}
  <2>1. ~RowReported(t)
    BY <1>1 DEF RowReported
  <2> QED
    BY <2>1, RowSteps
    DEF RowStep, RowKept, RowCreated, RowCancelled, RowDeleted, HandedOut
<1>5. PICK r \in AgentReports : r.target = t /\ HeldBy(c, r)'
  BY <1>3, <1>4 DEF HandedOut
<1>6. Report(c, r)
  BY <1>1, <1>5, HeldSteps
<1>7. current \in [Clients -> AgentReports \cup {NoReport}] /\ r # NoReport
  BY SystemAssumption DEF SystemTypeOK
<1>8. current'[c] = r
  BY <1>6, <1>7 DEF Report
<1> QED
  BY <1>5, <1>7, <1>8 DEF Job

LEMMA NextSafe ==
    ASSUME SystemTypeOK, Truth, QueuesDistinct, FlushesInOrder, OutcomesSafe,
           [SystemNext]_systemVars
    PROVE  OutcomesSafe'
<1> SUFFICES ASSUME faults'["crash"] = 0, faults'["no_disk"] = 0,
                    NEW t \in Targets, HandedOut(t)'
             PROVE  OutcomeSafe(t)'
  BY DEF OutcomesSafe
<1>1. faults["crash"] = 0 /\ faults["no_disk"] = 0
  BY NoDiskCounted DEF FaultKinds
<1>2. PICK c \in Clients : c = ClientOf(t)
  BY DEF Targets, ClientOf
<1>3. ASSUME \/ status'[t] \in TERMINAL_DEPLOYMENT_STATUSES \cup {"NoRow"}
             \/ FinalQueued(t)'
             \/ Job(c, t)'
      PROVE  OutcomeSafe(t)'
  BY <1>2, <1>3 DEF OutcomeSafe, FinalQueued, QueuedFor, Queued
<1>4. CASE Job(c, t)
  BY <1>2, <1>3, <1>4, JobEnds
<1>5. CASE HandedOut(t) /\ ~Job(c, t)
  <2>1. status[t] \in TERMINAL_DEPLOYMENT_STATUSES \cup {"NoRow"} \/ FinalQueued(t)
    BY <1>1, <1>2, <1>5, SafeOutcome DEF OutcomesSafe
  <2>2. ~RowCreated(t)
    BY <1>5, HandedOutOpened
  <2>3. CASE status[t] \in TERMINAL_DEPLOYMENT_STATUSES \cup {"NoRow"}
    <3>1. status'[t] \in TERMINAL_DEPLOYMENT_STATUSES \cup {"NoRow"}
      BY <2>2, <2>3, RowSteps
      DEF RowStep, RowKept, RowCancelled, RowDeleted, RowReported, AcceptsReport, NextStatuses,
          STATUS_TRANSITIONS, TERMINAL_DEPLOYMENT_STATUSES
    <3> QED
      BY <1>3, <3>1
  <2> QED
    BY <1>1, <1>3, <2>1, <2>3, FinalStays
<1>6. CASE ~HandedOut(t)
  BY <1>2, <1>3, <1>6, HandedOutByJob
<1> QED
  BY <1>4, <1>5, <1>6

LEMMA SafeNotLost == OutcomesSafe => NoOutcomeLost /\ NoTargetStranded
<1>1. OutcomesSafe => NoOutcomeLost
  BY DEF OutcomesSafe, OutcomeSafe, HandedOut, NoOutcomeLost
<1>2. OutcomesSafe => NoTargetStranded
  BY DEF OutcomesSafe, OutcomeSafe, HandedOut, NoTargetStranded, TERMINAL_DEPLOYMENT_STATUSES
<1> QED
  BY <1>1, <1>2

-----------------------------------------------------------------------------
(* The reports of a target are queued in the order of its stages.           *)

LEMMA AheadEnqueued ==
    ASSUME NEW S, NEW all \in Seq(S), NEW r \in S
    PROVE  /\ \A x, y : Ahead(all, x, y) => Ahead(Enqueue(all, r), x, y)
           /\ \A x : Queued(all, x) /\ ~Queued(all, r) => Ahead(Enqueue(all, r), x, r)
           /\ \A x, y : Ahead(Enqueue(all, r), x, y) /\ ~Ahead(all, x, y)
                            => y = r /\ ~Queued(all, r) /\ Queued(all, x)
<1>1. CASE Queued(all, r)
  BY <1>1 DEF Enqueue
<1>2. CASE ~Queued(all, r)
  <2> DEFINE longer == Append(all, r)
  <2>1. /\ DOMAIN all = 1..Len(all) /\ DOMAIN longer = 1..(Len(all) + 1)
        /\ Len(all) \in Nat
        /\ \A i \in 1..Len(all) : longer[i] = all[i]
        /\ longer[Len(all) + 1] = r
    OBVIOUS
  <2> HIDE DEF longer
  <2>2. \A i, j \in DOMAIN longer : i < j => i \in DOMAIN all /\ (j \in DOMAIN all \/ longer[j] = r)
    BY <2>1
  <2>3. \A i \in DOMAIN all : i \in DOMAIN longer /\ longer[i] = all[i] /\ i < Len(all) + 1
    BY <2>1
  <2>4. Len(all) + 1 \in DOMAIN longer
    BY <2>1
  <2>5. \A x, y : Ahead(all, x, y) => Ahead(longer, x, y)
    BY <2>3 DEF Ahead
  <2>6. \A x : Queued(all, x) => Ahead(longer, x, r)
    BY <2>1, <2>3, <2>4 DEF Ahead, Queued
  <2>7. \A x, y : Ahead(longer, x, y) /\ ~Ahead(all, x, y) => y = r /\ Queued(all, x)
    BY <2>2, <2>3 DEF Ahead, Queued
  <2> QED
    BY <1>2, <2>5, <2>6, <2>7 DEF Enqueue, longer
<1> QED
  BY <1>1, <1>2

\* What is acknowledged is the oldest of its target; the others keep their
\* places.
LEMMA AheadAcknowledged ==
    ASSUME NEW S, NEW all \in Seq(S), NEW rest \in Seq(S), rest # <<>>, Distinct(all),
           FlushOrder(rest, all)
    PROVE  /\ \A x, y : Ahead(Acknowledge(all, Head(rest)), x, y) => Ahead(all, x, y)
           /\ \A x, y : /\ Ahead(all, x, y) /\ x # Head(rest)
                        /\ Queued(Acknowledge(all, Head(rest)), y)
                        => Ahead(Acknowledge(all, Head(rest)), x, y)
<1> DEFINE left == Acknowledge(all, Head(rest))
<1>1. left \in Seq(S) /\ InOrderOf(left, all)
  BY AcknowledgeProperties
<1>2. \A x : Queued(all, x) /\ x # Head(rest) => Queued(left, x)
  BY AcknowledgedOldest
<1> HIDE DEF left
<1>3. \A x, y : Ahead(left, x, y) => Ahead(all, x, y)
  BY <1>1 DEF Ahead, InOrderOf
<1>4. ASSUME NEW x, NEW y, Ahead(all, x, y), x # Head(rest), Queued(left, y)
      PROVE  Ahead(left, x, y)
  <2>1. PICK a, b \in DOMAIN all : a < b /\ all[a] = x /\ all[b] = y
    BY <1>4 DEF Ahead
  <2>2. PICK i \in DOMAIN left : left[i] = x
    BY <1>2, <1>4, <2>1 DEF Queued
  <2>3. PICK j \in DOMAIN left : left[j] = y
    BY <1>4 DEF Queued
  <2>4. i \in Nat /\ j \in Nat /\ a \in Nat /\ b \in Nat
    BY <1>1
  <2>5. i # j
    BY <2>1, <2>2, <2>3, <2>4 DEF Distinct
  <2>6. ~(j < i)
    <3> SUFFICES ASSUME j < i PROVE FALSE
      OBVIOUS
    <3>1. PICK d, e \in DOMAIN all : d < e /\ all[d] = y /\ all[e] = x
      BY <1>1, <2>2, <2>3 DEF InOrderOf
    <3>2. d = b /\ e = a
      BY <2>1, <3>1 DEF Distinct
    <3> QED
      BY <2>1, <2>4, <3>1, <3>2
  <2> QED
    BY <2>2, <2>3, <2>4, <2>5, <2>6 DEF Ahead
<1> QED
  BY <1>3, <1>4 DEF left

\* What a step does to a queue while its file works.
LEMMA QueueSteps ==
    ASSUME SystemTypeOK, [SystemNext]_systemVars, faults'["no_disk"] = 0, NEW c \in Clients
    PROVE  \/ queue'[c] = queue[c]
           \/ /\ FlushesReport(c) /\ queue'[c] = Acknowledge(queue[c], Head(toFlush[c]))
              /\ toFlush[c] \in Seq(AgentReports) /\ toFlush[c] # <<>>
              /\ Head(toFlush[c]) \in AgentReports
              /\ status'[Head(toFlush[c]).target] = Head(toFlush[c]).status
              /\ current[c] = NoReport /\ current'[c] = NoReport
           \/ /\ EndsReport(c) /\ queue'[c] = Enqueue(queue[c], current[c])
              /\ pc[c] = "report" /\ current[c] \in AgentReports
<1>1. queue \in [Clients -> Seq(AgentReports)]
  BY DEF SystemTypeOK
<1>2. CASE FlushesReport(c)
  <2>1. /\ Outgoing(c) \in AgentReports /\ Accepted(c, Outgoing(c)) /\ Handle(c, Outgoing(c))
        /\ toFlush[c] # <<>> /\ Outgoing(c) = Head(toFlush[c])
        /\ toFlush[c] \in Seq(AgentReports)
    BY <1>2, Outgoings DEF FlushesReport, Sending, SystemTypeOK
  <2>2. queue'[c] = queue[c] \/ queue'[c] = Acknowledge(queue[c], Outgoing(c))
    BY <1>1, <1>2 DEF FlushesReport
  <2>3. current[c] = NoReport /\ current'[c] = current[c]
    BY <1>2 DEF FlushesReport, ContinueFlush, SystemTypeOK
  <2> QED
    BY <1>2, <2>1, <2>2, <2>3, HandledStatus
<1>3. CASE EndsReport(c)
  <2>1. current[c] \in AgentReports
    BY <1>3, Jobs DEF EndsReport
  <2>2. queue'[c] = queue[c] \/ queue'[c] = Enqueue(queue[c], current[c])
    BY <1>1, <1>3 DEF EndsReport
  <2> QED
    BY <1>3, <2>1, <2>2 DEF EndsReport
<1>4. queue'[c] = queue[c] \/ FlushesReport(c) \/ EndsReport(c)
  BY SystemSteps
  DEF Apart, agentVars, Moves, Stays, StartsFlush, SkipsReports, StartsReport, FindsNothing, Dies
<1> QED
  BY <1>2, <1>3, <1>4

\* What an agent starts to report of t first, it was given by the poll.
LEMMA FirstReported ==
    ASSUME SystemTypeOK, [SystemNext]_systemVars, NEW t \in Targets, NEW c \in Clients,
           pc'[c] = "report", current'[c] = Progress(t, "Downloading"),
           ~(pc[c] = "report" /\ current[c] = Progress(t, "Downloading"))
    PROVE  status[t] = "Pending"
<1>1. /\ pc \in [Clients -> {"idle", "flush", "poll", "report", "download", "execute"}]
      /\ current \in [Clients -> AgentReports \cup {NoReport}]
  BY DEF SystemTypeOK
<1>2. Moves(c)
  BY SystemSteps DEF Apart, agentVars
<1>3. ~Stays(c) /\ ~StartsFlush(c) /\ ~FlushesReport(c) /\ ~SkipsReports(c)
  BY <1>1 DEF Stays, StartsFlush, FlushesReport, SkipsReports, ContinueFlush
<1>4. ~EndsReport(c) /\ ~FindsNothing(c) /\ ~Dies(c)
  BY <1>1, AfterReportCases DEF EndsReport, FindsNothing, Dies, Finish
<1>5. PICK r : Report(c, r) /\ Fresh(c, r)
  BY <1>2, <1>3, <1>4 DEF Moves, StartsReport
<1>6. r = Progress(t, "Downloading")
  BY <1>1, <1>5 DEF Report
<1>7. r.target = t /\ r.status = "Downloading"
  BY <1>6 DEF Progress
<1>8. PICK u \in PendingTargetOf(c) : r = Progress(u, "Downloading")
  BY <1>5, <1>7 DEF Fresh, Progress, NotRun, Final
<1>9. u = t
  BY <1>7, <1>8 DEF Progress
<1> QED
  BY <1>8, <1>9 DEF PendingTargetOf

\* A row is Pending, or Downloading, because it was, or a report or a batch made
\* it so.
LEMMA EarlyRows ==
    ASSUME SystemTypeOK, [SystemNext]_systemVars, NEW t \in Targets
    PROVE  /\ status'[t] = "Pending" => status[t] = "Pending" \/ RowCreated(t)
           /\ status'[t] \in {"Pending", "Downloading"}
                => status[t] \in {"Pending", "Downloading"} \/ RowCreated(t)
<1>1. ASSUME RowReported(t)
      PROVE  status'[t] # "Pending" /\ (status'[t] = "Downloading" => status[t] = "Pending")
  <2>1. PICK c \in Clients, r \in AgentReports :
            AcceptsReport(c, t, r.status) /\ r.status # status[t] /\ status'[t] = r.status
    BY <1>1 DEF RowReported
  <2>2. r.status \in CLIENT_REPORTABLE_STATUSES
    BY ReportFields
  <2> QED
    BY <2>1, <2>2 DEF AcceptsReport, NextStatuses, STATUS_TRANSITIONS, CLIENT_REPORTABLE_STATUSES
<1> QED
  BY <1>1, RowSteps DEF RowStep, RowKept, RowCancelled, RowDeleted

LEMMA NextDownloadingFirst ==
    ASSUME SystemTypeOK, Truth, StartedIsQueued, QueuesDistinct, FlushesInOrder,
           [SystemNext]_systemVars, faults["no_disk"] = 0, faults'["no_disk"] = 0,
           NEW t \in Targets, DownloadingFirst(t)
    PROVE  DownloadingFirst(t)'
<1>1. PICK c \in Clients : c = ClientOf(t)
  BY DEF Targets, ClientOf
<1>2. PICK first \in AgentReports :
            first = Progress(t, "Downloading") /\ first.target = t /\ first.status = "Downloading"
  BY ReportsMade DEF Progress
<1> SUFFICES ASSUME NEW x \in AgentReports, x.target = t
             PROVE  /\ ~Ahead(queue'[c], x, first)
                    /\ pc'[c] = "report" /\ current'[c] = first /\ Queued(queue'[c], x)
                        => Queued(queue'[c], first)
                    /\ status'[t] = "Pending" /\ Queued(queue'[c], x) /\ x # first
                        => Ahead(queue'[c], first, x)
  BY <1>1, <1>2 DEF DownloadingFirst, Ahead, Queued
<1>3. /\ ~Ahead(queue[c], x, first)
      /\ pc[c] = "report" /\ current[c] = first /\ Queued(queue[c], x) => Queued(queue[c], first)
      /\ status[t] = "Pending" /\ Queued(queue[c], x) /\ x # first => Ahead(queue[c], first, x)
  BY <1>1, <1>2 DEF DownloadingFirst
<1>4. queue[c] \in Seq(AgentReports) /\ first # NoReport
  BY SystemAssumption DEF SystemTypeOK
<1>5. ASSUME status'[t] = "Pending", HeldBy(c, x) PROVE status[t] = "Pending"
  BY <1>1, <1>5, EarlyRows, HandedOutOpened DEF HandedOut
<1>6. Queued(queue[c], x) => HeldBy(c, x)
  BY DEF HeldBy
<1>7. CASE queue'[c] = queue[c]
  <2>1. ASSUME pc'[c] = "report", current'[c] = first, Queued(queue[c], x)
        PROVE  Queued(queue[c], first)
    <3>1. CASE pc[c] = "report" /\ current[c] = first
      BY <1>3, <2>1, <3>1
    <3>2. CASE ~(pc[c] = "report" /\ current[c] = first)
      <4>1. status[t] = "Pending"
        BY <1>2, <2>1, <3>2, FirstReported
      <4>2. x = first \/ Ahead(queue[c], first, x)
        BY <1>3, <2>1, <4>1
      <4> QED
        BY <2>1, <4>2 DEF Ahead, Queued
    <3> QED
      BY <3>1, <3>2
  <2> QED
    BY <1>3, <1>5, <1>6, <1>7, <2>1
<1>8. CASE /\ queue'[c] = Acknowledge(queue[c], Head(toFlush[c]))
           /\ toFlush[c] \in Seq(AgentReports) /\ toFlush[c] # <<>>
           /\ Head(toFlush[c]) \in AgentReports
           /\ status'[Head(toFlush[c]).target] = Head(toFlush[c]).status
           /\ current[c] = NoReport /\ current'[c] = NoReport
  <2>1. FlushOrder(toFlush[c], queue[c]) /\ Distinct(queue[c])
    BY DEF FlushesInOrder, QueuesDistinct
  <2>2. /\ \A y, z : Ahead(queue'[c], y, z) => Ahead(queue[c], y, z)
        /\ \A y, z : Ahead(queue[c], y, z) /\ y # Head(toFlush[c]) /\ Queued(queue'[c], z)
                        => Ahead(queue'[c], y, z)
    BY <1>4, <1>8, <2>1, AheadAcknowledged
  <2>3. Queued(queue'[c], x) => Queued(queue[c], x)
    <3>1. \A z : Queued(Acknowledge(queue[c], Head(toFlush[c])), z) => Queued(queue[c], z)
      BY <1>4, AcknowledgeProperties
    <3> QED
      BY <1>8, <3>1
  <2>4. status'[t] = "Pending" => first # Head(toFlush[c])
    BY <1>2, <1>8
  <2> QED
    BY <1>3, <1>4, <1>5, <1>6, <1>8, <2>2, <2>3, <2>4
<1>9. CASE /\ EndsReport(c) /\ queue'[c] = Enqueue(queue[c], current[c])
           /\ pc[c] = "report" /\ current[c] \in AgentReports
  <2>1. /\ \A y, z : Ahead(queue[c], y, z) => Ahead(queue'[c], y, z)
        /\ \A y : Queued(queue[c], y) /\ ~Queued(queue[c], current[c])
                        => Ahead(queue'[c], y, current[c])
        /\ \A y, z : Ahead(queue'[c], y, z) /\ ~Ahead(queue[c], y, z)
                        => z = current[c] /\ ~Queued(queue[c], current[c]) /\ Queued(queue[c], y)
    BY <1>4, <1>9, AheadEnqueued
  <2>2. Queued(queue'[c], x) => Queued(queue[c], x) \/ x = current[c]
    <3>1. PICK r \in AgentReports : r = current[c]
      BY <1>9
    <3>2. \A z : Queued(Enqueue(queue[c], r), z) <=> Queued(queue[c], z) \/ z = r
      BY <1>4, EnqueueProperties
    <3> QED
      BY <1>9, <3>1, <3>2
  <2>3. ~Ahead(queue'[c], x, first)
    BY <1>3, <1>9, <2>1
  <2>4. pc'[c] # "report"
    BY <1>9, AfterReportCases DEF EndsReport, Finish, SystemTypeOK
  <2>5. ASSUME status'[t] = "Pending", Queued(queue'[c], x), x # first
        PROVE  Ahead(queue'[c], first, x)
    <3>1. CASE Queued(queue[c], x)
      BY <1>3, <1>5, <1>6, <2>1, <2>5, <3>1
    <3>2. CASE ~Queued(queue[c], x)
      <4>1. x = current[c] /\ HeldBy(c, x) /\ status[t] = "Pending"
        BY <1>5, <2>2, <2>5, <3>2 DEF HeldBy
      <4>2. x.status # "Downloading" /\ x # NoReport
        BY <1>2, <2>5, ReportFields, SystemAssumption
      <4>3. Started(t)
        BY <1>1, <4>1, <4>2 DEF Started, Job
      <4>4. Queued(queue[c], first)
        BY <1>1, <1>2, <4>1, <4>3 DEF StartedIsQueued
      <4> QED
        BY <2>1, <3>2, <4>1, <4>4
    <3> QED
      BY <3>1, <3>2
  <2> QED
    BY <2>3, <2>4, <2>5
<1> QED
  BY <1>7, <1>8, <1>9, QueueSteps

\* An agent gets past reporting that it installs t when it ends that report.
LEMMA InstalledSteps ==
    ASSUME SystemTypeOK, Truth, [SystemNext]_systemVars, NEW t \in Targets, NEW c \in Clients,
           c = ClientOf(t), Installed(t)', ~Installed(t)
    PROVE  EndsReport(c) /\ current[c] = Progress(t, "Installing")
<1>1. /\ current'[c] # NoReport /\ current'[c].target = t
      /\ pc'[c] = "execute" \/ current'[c].status = "Completed"
  BY DEF Installed, Job
<1>2. /\ pc \in [Clients -> {"idle", "flush", "poll", "report", "download", "execute"}]
      /\ current \in [Clients -> AgentReports \cup {NoReport}]
      /\ pc[c] \in {"report", "download", "execute"} <=> current[c] # NoReport
      /\ pc'[c] \in {"report", "download", "execute"} <=> current'[c] # NoReport
  BY SystemNextType DEF SystemTypeOK
<1>3. ~(pc[c] = pc'[c] /\ current[c] = current'[c])
  BY <1>1 DEF Installed, Job
<1>4. Moves(c)
  BY <1>3, SystemSteps DEF Apart, agentVars
<1>5. ~Stays(c) /\ ~FindsNothing(c) /\ ~Dies(c)
  BY <1>1, <1>2, <1>3 DEF Stays, FindsNothing, Dies, Finish
<1>6. ~StartsFlush(c) /\ ~FlushesReport(c) /\ ~SkipsReports(c)
  BY <1>1, <1>2 DEF StartsFlush, FlushesReport, SkipsReports, ContinueFlush
<1>7. ~StartsReport(c)
  <2> SUFFICES ASSUME NEW r, Report(c, r), Fresh(c, r) PROVE FALSE
    BY DEF StartsReport
  <2>1. pc'[c] = "report" /\ current'[c] = r
    BY <1>2 DEF Report
  <2>2. r.status = "Completed" /\ r.target = t
    BY <1>1, <2>1
  <2>3. pc[c] = "execute" /\ r.target = current[c].target
    <3>1. ASSUME NEW u, r = Progress(u, "Downloading") \/ r = Progress(u, "Installing") \/ r = NotRun(u)
          PROVE  FALSE
      BY <2>2, <3>1 DEF Progress, NotRun
    <3>2. PICK result \in Results : pc[c] = "execute" /\ r = Final(current[c].target, result)
      BY <3>1 DEF Fresh
    <3> QED
      BY <3>2 DEF Final
  <2> QED
    BY <1>1, <1>2, <2>2, <2>3 DEF Installed, Job
<1>8. EndsReport(c)
  BY <1>4, <1>5, <1>6, <1>7 DEF Moves
<1>9. /\ current'[c] = current[c] /\ pc[c] = "report"
      /\ \/ current[c].status = "Downloading" /\ pc'[c] = "download"
         \/ current[c].status = "Installing"
  BY <1>1, <1>2, <1>8, AfterReportCases DEF EndsReport, Finish
<1>10. current[c] \in AgentReports /\ current[c].target = t /\ current[c].status = "Installing"
  BY <1>1, <1>2, <1>9
<1> QED
  BY <1>8, <1>10, ReportFields

LEMMA NextInstallingSecond ==
    ASSUME SystemTypeOK, Truth, QueuesDistinct, FlushesInOrder,
           [SystemNext]_systemVars, faults["no_disk"] = 0, faults'["no_disk"] = 0,
           NEW t \in Targets, InstallingSecond(t)
    PROVE  InstallingSecond(t)'
<1>1. PICK c \in Clients : c = ClientOf(t)
  BY DEF Targets, ClientOf
<1>2. PICK second \in AgentReports :
            second = Progress(t, "Installing") /\ second.target = t /\ second.status = "Installing"
  BY ReportsMade DEF Progress
<1> SUFFICES ASSUME status'[t] \in {"Pending", "Downloading"}
             PROVE  /\ Installed(t)' => Queued(queue'[c], second)
                    /\ \A x \in AgentReports :
                            x.target = t /\ x.status = "Completed" /\ Queued(queue'[c], x)
                                => Ahead(queue'[c], second, x)
  BY <1>1, <1>2 DEF InstallingSecond, Ahead, Queued
<1>3. ASSUME HandedOut(t)
      PROVE  /\ Installed(t) => Queued(queue[c], second)
             /\ \A x \in AgentReports :
                    x.target = t /\ x.status = "Completed" /\ Queued(queue[c], x)
                        => Ahead(queue[c], second, x)
  <2>1. status[t] \in {"Pending", "Downloading"}
    BY <1>3, EarlyRows, HandedOutOpened
  <2> QED
    BY <1>1, <1>2, <2>1 DEF InstallingSecond
<1>4. queue \in [Clients -> Seq(AgentReports)] /\ queue[c] \in Seq(AgentReports)
  BY DEF SystemTypeOK
<1>5. \A x \in AgentReports : x.target = t /\ HeldBy(c, x) => HandedOut(t)
  BY <1>1 DEF HandedOut
<1>6. ASSUME Installed(t) PROVE current[c] # NoReport /\ Queued(queue[c], second)
  <2>1. current[c] # NoReport /\ current[c].target = t /\ current[c] \in AgentReports
    BY <1>1, <1>6 DEF Installed, Job, SystemTypeOK
  <2>2. HandedOut(t)
    BY <1>5, <2>1 DEF HeldBy
  <2> QED
    BY <1>3, <1>6, <2>1, <2>2
<1>7. ASSUME NEW x \in AgentReports, x.target = t, x.status = "Completed", Queued(queue[c], x)
      PROVE  Ahead(queue[c], second, x)
  BY <1>3, <1>5, <1>7 DEF HeldBy
<1>8. ASSUME Installed(t)', ~Installed(t) PROVE Queued(queue'[c], second)
  <2>1. EndsReport(c) /\ current[c] = second
    BY <1>1, <1>2, <1>8, InstalledSteps
  <2>2. ~(Accepted(c, second) /\ Handle(c, second))
    BY <1>2, HandledStatus
  <2>3. queue'[c] = Enqueue(queue[c], second)
    BY <1>4, <2>1, <2>2 DEF EndsReport
  <2> QED
    BY <1>4, <2>3, EnqueueProperties
<1>9. CASE queue'[c] = queue[c]
  BY <1>6, <1>7, <1>8, <1>9
<1>10. CASE /\ queue'[c] = Acknowledge(queue[c], Head(toFlush[c]))
            /\ toFlush[c] \in Seq(AgentReports) /\ toFlush[c] # <<>>
            /\ Head(toFlush[c]) \in AgentReports
            /\ status'[Head(toFlush[c]).target] = Head(toFlush[c]).status
            /\ current[c] = NoReport /\ current'[c] = NoReport
  <2>1. FlushOrder(toFlush[c], queue[c]) /\ Distinct(queue[c])
    BY DEF FlushesInOrder, QueuesDistinct
  <2>2. second # Head(toFlush[c])
    BY <1>2, <1>10
  <2>3. \A y, z : Ahead(queue[c], y, z) /\ y # Head(toFlush[c]) /\ Queued(queue'[c], z)
                        => Ahead(queue'[c], y, z)
    BY <1>4, <1>10, <2>1, AheadAcknowledged
  <2>4. \A z : Queued(queue'[c], z) => Queued(queue[c], z)
    <3>1. \A z : Queued(Acknowledge(queue[c], Head(toFlush[c])), z) => Queued(queue[c], z)
      BY <1>4, AcknowledgeProperties
    <3> QED
      BY <1>10, <3>1
  <2>5. ~Installed(t)'
    BY <1>1, <1>10 DEF Installed, Job
  <2> QED
    BY <1>7, <2>2, <2>3, <2>4, <2>5
<1>11. CASE /\ EndsReport(c) /\ queue'[c] = Enqueue(queue[c], current[c])
            /\ pc[c] = "report" /\ current[c] \in AgentReports
  <2>1. /\ \A y, z : Ahead(queue[c], y, z) => Ahead(queue'[c], y, z)
        /\ \A y : Queued(queue[c], y) /\ ~Queued(queue[c], current[c])
                        => Ahead(queue'[c], y, current[c])
    BY <1>4, <1>11, AheadEnqueued
  <2>2. \A z : Queued(queue'[c], z) <=> Queued(queue[c], z) \/ z = current[c]
    <3>1. PICK r \in AgentReports : r = current[c]
      BY <1>11
    <3>2. \A z : Queued(Enqueue(queue[c], r), z) <=> Queued(queue[c], z) \/ z = r
      BY <1>4, EnqueueProperties
    <3> QED
      BY <1>11, <3>1, <3>2
  <2>3. ASSUME NEW x \in AgentReports, x.target = t, x.status = "Completed", x = current[c]
        PROVE  Queued(queue[c], second)
    <3>1. Installed(t)
      BY <1>1, <2>3, SystemAssumption DEF Installed, Job
    <3> QED
      BY <1>6, <3>1
  <2>4. ASSUME NEW x \in AgentReports, x.target = t, x.status = "Completed", Queued(queue'[c], x)
        PROVE  Ahead(queue'[c], second, x)
    BY <1>7, <2>1, <2>2, <2>3, <2>4
  <2> QED
    BY <1>6, <1>8, <2>2, <2>4
<1> QED
  BY <1>9, <1>10, <1>11, QueueSteps

LEMMA NextStages ==
    ASSUME SystemTypeOK, Truth, StartedIsQueued, QueuesDistinct, FlushesInOrder, StagesInOrder,
           [SystemNext]_systemVars
    PROVE  StagesInOrder'
<1> SUFFICES ASSUME faults'["no_disk"] = 0, NEW t \in Targets
             PROVE  DownloadingFirst(t)' /\ InstallingSecond(t)'
  BY DEF StagesInOrder
<1>1. faults["no_disk"] = 0
  BY NoDiskCounted DEF FaultKinds
<1>2. DownloadingFirst(t) /\ InstallingSecond(t)
  BY <1>1 DEF StagesInOrder
<1> QED
  BY <1>1, <1>2, NextDownloadingFirst, NextInstallingSecond

\* In this order the oldest report of a target is one the server waits for, or
\* has gone past.
LEMMA StagesAreDue ==
    ASSUME SystemTypeOK, QueuesDistinct, StagesInOrder
    PROVE  OldestIsDue
<1> SUFFICES ASSUME faults["no_disk"] = 0, NEW t \in Targets, NEW i \in QueuedFor(t),
                    status[t] \in ACTIVE_DEPLOYMENT_STATUSES, \A j \in QueuedFor(t) : i =< j
             PROVE  \/ AcceptsReport(ClientOf(t), t, queue[ClientOf(t)][i].status)
                    \/ queue[ClientOf(t)][i].status = "Downloading" /\ status[t] = "Installing"
  BY DEF OldestIsDue
<1>1. PICK c \in Clients : c = ClientOf(t)
  BY DEF Targets, ClientOf
<1>2. queue[c] \in Seq(AgentReports) /\ Distinct(queue[c])
  BY DEF SystemTypeOK, QueuesDistinct
<1>3. i \in DOMAIN queue[c] /\ queue[c][i] \in AgentReports /\ queue[c][i].target = t
  BY <1>1, <1>2 DEF QueuedFor
<1>4. PICK r \in AgentReports : r = queue[c][i] /\ r.target = t /\ Queued(queue[c], r)
  BY <1>3 DEF Queued
<1>5. ASSUME NEW x, x.target = t, Ahead(queue[c], x, r) PROVE FALSE
  <2>1. PICK a, b \in DOMAIN queue[c] : a < b /\ queue[c][a] = x /\ queue[c][b] = r
    BY <1>5 DEF Ahead
  <2>2. b = i /\ a \in QueuedFor(t)
    BY <1>1, <1>2, <1>3, <1>4, <1>5, <2>1 DEF Distinct, QueuedFor
  <2>3. a \in Nat /\ i \in Nat /\ i =< a
    BY <1>2, <1>3, <2>1, <2>2
  <2> QED
    BY <2>1, <2>2, <2>3
<1>6. Progress(t, "Downloading").target = t /\ Progress(t, "Installing").target = t
      /\ Progress(t, "Downloading").status = "Downloading"
  BY DEF Progress
<1>7. DownloadingFirst(t) /\ InstallingSecond(t)
  BY DEF StagesInOrder
<1>8. status[t] = "Pending" => r.status = "Downloading"
  <2>1. status[t] = "Pending" /\ r # Progress(t, "Downloading")
            => Ahead(queue[c], Progress(t, "Downloading"), r)
    BY <1>1, <1>4, <1>7 DEF DownloadingFirst
  <2> QED
    BY <1>5, <1>6, <2>1
<1>9. status[t] = "Downloading" => r.status # "Completed"
  <2>1. status[t] = "Downloading" /\ r.status = "Completed"
            => Ahead(queue[c], Progress(t, "Installing"), r)
    BY <1>1, <1>4, <1>7 DEF InstallingSecond
  <2> QED
    BY <1>5, <1>6, <2>1
<1>10. r.status \in CLIENT_REPORTABLE_STATUSES
  BY ReportFields
<1>11. t \in TargetsOf(c)
  BY <1>1 DEF TargetsOf, ACTIVE_DEPLOYMENT_STATUSES
<1>12. \/ AcceptsReport(c, t, r.status)
       \/ r.status = "Downloading" /\ status[t] = "Installing"
  BY <1>8, <1>9, <1>10, <1>11
  DEF AcceptsReport, NextStatuses, STATUS_TRANSITIONS, CLIENT_REPORTABLE_STATUSES,
      ACTIVE_DEPLOYMENT_STATUSES, TERMINAL_DEPLOYMENT_STATUSES
<1> QED
  BY <1>1, <1>4, <1>12

-----------------------------------------------------------------------------
(* The theorems.  SystemInv is inductive: the reports under way are true, a *)
(* flush follows the order of its queue, and with these two the rows tell   *)
(* what happened, no outcome is lost and the stages of a target stay in     *)
(* order.                                                                   *)

SystemInv ==
    /\ SystemTypeOK
    /\ Truth
    /\ OutcomesHappened /\ InstallingAfterDownload /\ NoLeftoverOutcome /\ NoRowNoOutcome
    /\ StartedIsQueued
    /\ QueuesDistinct /\ FlushesInOrder
    /\ OutcomesSafe
    /\ StagesInOrder

LEMMA InitInv == SystemInit => SystemInv
<1> SUFFICES ASSUME SystemInit PROVE SystemInv
  OBVIOUS
<1>1. SystemTypeOK /\ Truth
  BY SystemInitType, InitTruth
<1>2. /\ \A t \in Targets : /\ status[t] = "NoRow" /\ exitCode[t] = "none" /\ ~errorMessage[t]
                            /\ runs[t] = <<>> /\ ClientOf(t) \in Clients
      /\ \A c \in Clients : queue[c] = <<>> /\ toFlush[c] = <<>>
  BY DEF SystemInit, Init, Targets, ClientOf
<1>3. OutcomesHappened /\ InstallingAfterDownload /\ NoLeftoverOutcome /\ NoRowNoOutcome
  BY <1>2 DEF OutcomesHappened, InstallingAfterDownload, NoLeftoverOutcome, NoRowNoOutcome,
              ACTIVE_DEPLOYMENT_STATUSES
<1>4. StartedIsQueued /\ OutcomesSafe
  BY <1>2 DEF StartedIsQueued, OutcomesSafe, OutcomeSafe
<1>5. QueuesDistinct /\ FlushesInOrder
  BY <1>2 DEF QueuesDistinct, FlushesInOrder, FlushOrder, Distinct
<1>6. StagesInOrder
  <2> SUFFICES ASSUME NEW t \in Targets PROVE DownloadingFirst(t) /\ InstallingSecond(t)
    BY DEF StagesInOrder
  <2>1. queue[ClientOf(t)] = <<>> /\ status[t] = "NoRow"
    BY <1>2
  <2>2. \A x, y : ~Queued(<<>>, x) /\ ~Ahead(<<>>, x, y)
    BY DEF Queued, Ahead
  <2> QED
    BY <2>1, <2>2 DEF DownloadingFirst, InstallingSecond
<1> QED
  BY <1>1, <1>3, <1>4, <1>5, <1>6 DEF SystemInv

LEMMA NextInv == SystemInv /\ [SystemNext]_systemVars => SystemInv'
BY SystemNextType, NextTruth, NextOutcomes, NextServed, NextNoLeftover, NextStarted,
   NextQueues, NextFlushes, NextSafe, NextStages DEF SystemInv, Truth

LEMMA SystemInvariant == SystemSpec => []SystemInv
BY InitInv, NextInv, PTL DEF SystemSpec

\* Whatever is lost, late, refused or crashes, the server records an outcome only
\* if the installer of that very target had it: report_status believes the
\* agents, and the agents, their queues and late requests hold no false report.
THEOREM NoFalseOutcome == SystemSpec => []OutcomesHappened
<1>1. SystemInv => OutcomesHappened
  BY DEF SystemInv
<1> QED
  BY <1>1, SystemInvariant, PTL

\* A target is Installing or Completed only after its installer was served,
\* although the download and the reports are separate requests.
THEOREM InstallingWasServed == SystemSpec => []InstallingAfterDownload
<1>1. SystemInv => InstallingAfterDownload
  BY DEF SystemInv
<1> QED
  BY <1>1, SystemInvariant, PTL

\* No row keeps an exit code or an error that belongs to another status,
\* although report_status leaves alone what a report does not carry.
THEOREM NoOutcomeLeftOver == SystemSpec => []NoLeftoverOutcome
<1>1. SystemInv => NoLeftoverOutcome
  BY DEF SystemInv
<1> QED
  BY <1>1, SystemInvariant, PTL

\* While the queue file works, a flush retries the oldest report of a target
\* first: _flush_pending_status_reports skips the rest of a target whose report
\* fails, and acknowledge() forgets what is older than the report it acknowledges.
THEOREM OldestIsFlushedFirst == SystemSpec => []FlushesOldestFirst
<1>1. SystemInv => FlushesOldestFirst
  BY OrderedOldest DEF SystemInv
<1> QED
  BY <1>1, SystemInvariant, PTL

\* A target whose installer ran looks unstarted to the poll and to
\* cancel_deployment_target only while the report that it was started is queued.
THEOREM UnstartedIsQueued == SystemSpec => []UnstartedRunIsQueued
<1>1. SystemInv => UnstartedRunIsQueued
  BY DEF SystemInv, StartedIsQueued, UnstartedRunIsQueued, Started
<1> QED
  BY <1>1, SystemInvariant, PTL

\* Without a crash and a broken queue file, the outcome of every installer that
\* ran is with the server or in the queue once its job is over, however many
\* requests and answers are lost or late.
THEOREM OutcomesAreKept == SystemSpec => []NoOutcomeLost
<1>1. SystemInv => NoOutcomeLost
  BY SafeNotLost DEF SystemInv
<1> QED
  BY <1>1, SystemInvariant, PTL

\* Without a crash and a broken queue file, every target that is Downloading or
\* Installing is an agent's job or has its outcome queued: a lossy network
\* alone leaves no target under way with nobody to end it.
THEOREM NothingIsStranded == SystemSpec => []NoTargetStranded
<1>1. SystemInv => NoTargetStranded
  BY SafeNotLost DEF SystemInv
<1> QED
  BY <1>1, SystemInvariant, PTL

\* While the queue file works, the oldest report queued for a target in progress
\* is one the server accepts, but for a Downloading it has gone past: a flush
\* that is refused is never too early, however many reports were lost, late or
\* taken out of the queue before.
THEOREM FlushIsNeverEarly == SystemSpec => []OldestIsDue
<1>1. SystemInv => OldestIsDue
  BY StagesAreDue DEF SystemInv
<1> QED
  BY <1>1, SystemInvariant, PTL

\* Behind these agents and this network the deployment service keeps its rules:
\* Business Rule 9, the agreement of rows and audit trail, and the lifecycle, in
\* which each target is concluded once.
THEOREM RulesHoldOfTheSystem ==
    SystemSpec => /\ []OneActivePerClient /\ []OutcomeOnRecord
                  /\ ImplementsLifecycle /\ []OutcomeAuditedOnce
BY SystemImplementsDeployments, BusinessRule9, OutcomesAreOnRecord,
   DeploymentsImplementLifecycle, OutcomesAuditedOnce, PTL

=============================================================================

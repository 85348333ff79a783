---------------------------- MODULE ReportQueue ----------------------------
(***************************************************************************)
(* What the Client Agent's report store promises: a queue that changes by  *)
(* whole operations.  The machine may lose its power, and then the queue   *)
(* is one it has been since its content last reached the disk.             *)
(***************************************************************************)
EXTENDS StatusReportStore

CONSTANT Entries  \* the reports that may be queued

VARIABLES
    queue,  \* the queue
    kept    \* the queues a power loss may leave behind

Init == queue = <<>> /\ kept = {<<>>}

Change(new) == queue' = new /\ kept' = kept \cup {new}

Operation ==
    \E r \in Entries :
        Change(Enqueue(queue, r)) \/ Change(Acknowledge(queue, r)) \/ Change(Remove(queue, r))

\* The content of the queue reaches the disk.
Settle == kept' = {queue} /\ UNCHANGED queue

PowerLoss == queue' \in kept /\ kept' = {queue'}

Next == Operation \/ Settle \/ PowerLoss

Spec == Init /\ [][Next]_<<queue, kept>>

=============================================================================

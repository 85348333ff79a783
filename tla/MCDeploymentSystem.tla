------------------------- MODULE MCDeploymentSystem -------------------------
(* DeploymentSystem with the report bodies its agents send, and the faults  *)
(* of each run.                                                             *)
EXTENDS DeploymentSystem, FiniteSetsExt

AgentBodies == {Body(r) : r \in AgentReports}

Faultless == [k \in FaultKinds |-> 0]
EveryFault == [k \in FaultKinds |-> IF k = "lost_request" THEN 2 ELSE 1]
ManyLost == [Faultless EXCEPT !["lost_request"] = 3, !["lost_reply"] = 1, !["late_request"] = 1]
ReplyAndRequestLost == [Faultless EXCEPT !["lost_request"] = 1, !["lost_reply"] = 1]
TwoRequestsLost == [Faultless EXCEPT !["lost_request"] = 2]

\* Bound: any four faults over one batch, a deletion counting as one; over two
\* batches any two, or those of a network that is merely lossy.
FewFaults ==
    LET deletions == MapThenSumSet(LAMBDA c : audit[<<"CLIENT_DELETED", c>>], Clients)
        others == faults["crash"] + faults["no_disk"] + deletions
        all == MapThenSumSet(LAMBDA k : faults[k], FaultKinds) + deletions
    IN  all =< 4 /\ (batches =< 1 \/ others = 0 \/ all =< 2)

=============================================================================

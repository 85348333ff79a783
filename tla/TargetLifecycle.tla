-------------------------- MODULE TargetLifecycle --------------------------
(***************************************************************************)
(* What the deployment service promises about a target, with the tables,   *)
(* the requests and the audit trail abstracted away: batches open once,    *)
(* for clients with nothing in progress; a target moves forward one stage  *)
(* at a time and ends once; its outcome is published exactly when it ends. *)
(***************************************************************************)
EXTENDS Naturals, DeploymentStatus

CONSTANTS Batches, Clients

Targets == Batches \X Clients

VARIABLES
    phase,     \* the status of each target, "NoRow" outside its life
    opened,    \* the batches opened so far
    published  \* number of outcomes published for each target

lifecycleVars == <<phase, opened, published>>

Init ==
    /\ phase = [t \in Targets |-> "NoRow"]
    /\ opened = {}
    /\ published = [t \in Targets |-> 0]

Busy(c) == \E t \in Targets : t[2] = c /\ phase[t] \in ACTIVE_DEPLOYMENT_STATUSES

Open(b, clients) ==
    /\ b \notin opened
    /\ \A c \in clients : ~Busy(c)
    /\ opened' = opened \cup {b}
    /\ phase' = [t \in Targets |->
                    IF t[1] = b /\ t[2] \in clients THEN "Pending" ELSE phase[t]]
    /\ UNCHANGED published

Advance(t) ==
    /\ \/ phase[t] = "Pending" /\ phase' = [phase EXCEPT ![t] = "Downloading"]
       \/ phase[t] = "Downloading" /\ phase' = [phase EXCEPT ![t] = "Installing"]
    /\ UNCHANGED <<opened, published>>

Conclude(t, outcome) ==
    /\ phase[t] \in ACTIVE_DEPLOYMENT_STATUSES
    /\ outcome = "Completed" => phase[t] = "Installing"
    /\ outcome = "Cancelled" => phase[t] = "Pending"
    /\ phase' = [phase EXCEPT ![t] = outcome]
    /\ published' = [published EXCEPT ![t] = @ + 1]
    /\ UNCHANGED opened

\* The client is removed, and every record of it but the published outcomes.
Erase(c) ==
    /\ phase' = [t \in Targets |-> IF t[2] = c THEN "NoRow" ELSE phase[t]]
    /\ UNCHANGED <<opened, published>>

Next ==
    \/ \E b \in Batches, clients \in SUBSET Clients : Open(b, clients)
    \/ \E t \in Targets : Advance(t)
    \/ \E t \in Targets, outcome \in TERMINAL_DEPLOYMENT_STATUSES : Conclude(t, outcome)
    \/ \E c \in Clients : Erase(c)

Spec == Init /\ [][Next]_lifecycleVars

\* No target is concluded twice, even if its record was erased in between.
PublishedOnce == \A t \in Targets : published[t] =< 1

=============================================================================

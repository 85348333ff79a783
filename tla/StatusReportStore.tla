------------------------- MODULE StatusReportStore -------------------------
(***************************************************************************)
(* The Client Agent's persistent queue of undelivered status reports       *)
(* (agent/deployment/status_report_store.py), as operators on its content. *)
(*                                                                         *)
(* `enqueue` refuses a report equal to a queued one, so the content of an  *)
(* entry identifies it as well as the id the code gives it.                *)
(***************************************************************************)
EXTENDS Naturals, Sequences

Queued(queue, r) == \E i \in DOMAIN queue : queue[i] = r

OfTarget(queue, t) == {queue[i] : i \in {j \in DOMAIN queue : queue[j].target = t}}

\* The loop that leaves out some of the entries and keeps the order of the rest.
Without(queue, dropped) ==
    LET remaining[n \in 0..Len(queue)] ==
            IF n = 0 THEN <<>>
            ELSE IF queue[n] \in dropped THEN remaining[n - 1]
            ELSE Append(remaining[n - 1], queue[n])
    IN  remaining[Len(queue)]

\* Mutants: one report kept per target, the oldest or the newest.
EnqueueUnlessTargetQueued(queue, r) ==
    IF \E i \in DOMAIN queue : queue[i].target = r.target THEN queue ELSE Append(queue, r)
EnqueueNewestOnly(queue, r) ==
    Append(Without(queue, OfTarget(queue, r.target)), r)

\* Append a report unless an identical one is pending.
Enqueue(queue, r) == IF Queued(queue, r) THEN queue ELSE Append(queue, r)

\* r goes, and so does every older entry of its target.
Acknowledge(queue, r) ==
    IF ~Queued(queue, r) THEN queue
    ELSE LET at == CHOOSE i \in DOMAIN queue : queue[i] = r
         IN  Without(SubSeq(queue, 1, at - 1), OfTarget(queue, r.target))
                \o SubSeq(queue, at + 1, Len(queue))

\* Exactly r goes.
Remove(queue, r) == Without(queue, {r})

=============================================================================

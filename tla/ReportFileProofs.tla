-------------------------- MODULE ReportFileProofs ---------------------------
(* The file of the status report store never holds anything but whole queues, *)
(* for every set of reports, and implements an atomic queue.                  *)
EXTENDS ReportFile, StatusReportStoreProofs

\* An operation on a queue gives a queue.
LEMMA OperationsType ==
    ASSUME NEW q \in Seq(Entries), NEW r \in Entries
    PROVE  /\ Enqueue(q, r) \in Seq(Entries)
           /\ Acknowledge(q, r) \in Seq(Entries)
           /\ Remove(q, r) \in Seq(Entries)
BY EnqueueProperties, AcknowledgeProperties, RemoveProperties

\* The queue that is being saved is the one in the file, changed by a whole
\* operation.
ChangeOf(q, new) ==
    \E r \in Entries : new = Enqueue(q, r) \/ new = Acknowledge(q, r) \/ new = Remove(q, r)

\* What an operation starts.
Begins == \E new : BeginSave(new) /\ ChangeOf(Load(file), new)

LEMMA NextSteps ==
    ASSUME ReportFileNext
    PROVE  Begins \/ SaveStep \/ Crash \/ Settle \/ PowerLoss
BY DEF ReportFileNext, EnqueueReport, AcknowledgeReport, RemoveReport, Begins, ChangeOf

\* Of a file that is there and whole, and of one that is not there, load gives a
\* queue.
LEMMA Loads ==
    /\ Load(Absent) = <<>>
    /\ \A content \in Seq(Entries) : Load(content) = content
    /\ \A content \in Seq(Entries) \cup {Absent} : Load(content) \in Seq(Entries)
<1>1. \A content \in Seq(Entries) : content # Absent
  BY FileAssumption
<1>2. <<>> \in Seq(Entries)
  OBVIOUS
<1> QED
  BY <1>1, <1>2 DEF Load

LEMMA ChangesType ==
    ASSUME NEW q \in Seq(Entries), NEW new, ChangeOf(q, new)
    PROVE  new \in Seq(Entries)
BY OperationsType DEF ChangeOf

LEMMA FileInitType == ReportFileInit => ReportFileTypeOK
<1>1. <<>> \in Seq(Entries)
  OBVIOUS
<1> QED
  BY <1>1 DEF ReportFileInit, ReportFileTypeOK

LEMMA FileNextType == ReportFileTypeOK /\ [ReportFileNext]_reportFileVars => ReportFileTypeOK'
<1> SUFFICES ASSUME ReportFileTypeOK, [ReportFileNext]_reportFileVars PROVE ReportFileTypeOK'
  OBVIOUS
<1> USE DEF ReportFileTypeOK
<1>0. <<>> \in Seq(Entries)
  OBVIOUS
<1>1. CASE EndSave /\ UNCHANGED <<fileVars, trusted>>
  BY <1>0, <1>1 DEF EndSave, fileVars
<1>2. CASE Begins
  <2>1. PICK new : BeginSave(new) /\ ChangeOf(Load(file), new)
    BY <1>2 DEF Begins
  <2>2. Load(file) \in Seq(Entries)
    BY <2>1, Loads DEF BeginSave
  <2>3. new \in Seq(Entries)
    BY <2>1, <2>2, ChangesType
  <2> QED
    BY <2>1, <2>3 DEF BeginSave, fileVars
<1>3. CASE MakeDirectory \/ CreateTemporary \/ WriteTemporary \/ SyncTemporary
  <2>1. CASE MakeDirectory
    BY <2>1 DEF MakeDirectory, fileVars
  <2>2. CASE CreateTemporary
    BY <2>2 DEF CreateTemporary, fileVars
  <2>3. CASE WriteTemporary
    BY <2>3 DEF WriteTemporary, fileVars
  <2>4. CASE SyncTemporary
    BY <2>4 DEF SyncTemporary, fileVars
  <2> QED
    BY <1>3, <2>1, <2>2, <2>3, <2>4
<1>4. CASE Replace
  BY <1>0, <1>4 DEF Replace, EndSave
<1>5. CASE SaveRaises
  BY <1>1, <1>5 DEF SaveRaises, fileVars
<1>6. CASE Unlink \/ Crash
  BY <1>1, <1>6 DEF Unlink, Crash
<1>7. CASE Settle
  BY <1>7 DEF Settle, saveVars
<1>8. CASE PowerLoss
  <2>1. file' \in Seq(Entries) \cup {Absent, Torn} /\ onDisk' = {file'}
    BY <1>8 DEF PowerLoss
  <2>2. trusted' \in Seq(Entries) \cup {Torn}
    BY <1>8, <2>1, Loads, FileAssumption DEF PowerLoss, Load
  <2> QED
    BY <1>0, <1>8, <2>1, <2>2 DEF PowerLoss, EndSave
<1>9. CASE UNCHANGED reportFileVars
  BY <1>9 DEF reportFileVars, fileVars, saveVars
<1> QED
  BY <1>2, <1>3, <1>4, <1>5, <1>6, <1>7, <1>8, <1>9, NextSteps DEF SaveStep

\* The queue's file and the saves under way keep their types, and there is no
\* temporary file before the step of _save that creates it.
THEOREM FileTypeCorrect == ReportFileSpec => []ReportFileTypeOK
BY FileInitType, FileNextType, PTL DEF ReportFileSpec

-----------------------------------------------------------------------------
(* A save is atomic.  FileIsTrusted alone is not inductive: the temporary   *)
(* file must be the queue being saved, and on the disk, before it replaces  *)
(* the other one, and that queue must still be the file's, changed by one   *)
(* operation.                                                               *)

FileInv ==
    /\ ReportFileTypeOK /\ FileIsTrusted
    /\ Torn \notin onDisk
    /\ stage # "idle" => ChangeOf(Load(file), saved)
    /\ stage \in {"sync", "replace"} => temp = saved
    /\ stage = "replace" => synced

LEMMA FileInitInv == ReportFileInit => FileInv
<1> SUFFICES ASSUME ReportFileInit PROVE FileInv
  OBVIOUS
<1>1. ReportFileTypeOK
  BY FileInitType
<1>2. FileIsTrusted
  BY Loads DEF ReportFileInit, FileIsTrusted
<1> QED
  BY <1>1, <1>2, FileAssumption DEF ReportFileInit, FileInv

\* What Replace leaves behind is the queue that was saved.
LEMMA Replaced ==
    ASSUME FileInv, Replace
    PROVE  /\ saved \in Seq(Entries) /\ ChangeOf(Load(file), saved)
           /\ file' = saved /\ onDisk' = onDisk \cup {saved}
           /\ trusted' = saved /\ stage' = "idle"
<1>1. saved \in Seq(Entries) /\ stage = "replace" /\ temp = saved /\ synced
  BY DEF FileInv, ReportFileTypeOK, Replace
<1> QED
  BY <1>1 DEF FileInv, Replace, EndSave

LEMMA FileNextInv == FileInv /\ [ReportFileNext]_reportFileVars => FileInv'
<1> SUFFICES ASSUME FileInv, [ReportFileNext]_reportFileVars PROVE FileInv'
  OBVIOUS
<1>1. ReportFileTypeOK'
  BY FileNextType DEF FileInv
<1> USE DEF FileInv, FileIsTrusted
<1>2. CASE EndSave /\ UNCHANGED <<fileVars, trusted>>
  BY <1>1, <1>2 DEF EndSave, fileVars
<1>3. CASE Begins
  <2>1. PICK new : BeginSave(new) /\ ChangeOf(Load(file), new)
    BY <1>3 DEF Begins
  <2> QED
    BY <1>1, <2>1 DEF BeginSave, fileVars
<1>4. CASE MakeDirectory
  BY <1>1, <1>4 DEF MakeDirectory, fileVars
<1>5. CASE CreateTemporary
  BY <1>1, <1>5 DEF CreateTemporary, fileVars
<1>6. CASE WriteTemporary
  BY <1>1, <1>6 DEF WriteTemporary, fileVars
<1>7. CASE SyncTemporary
  BY <1>1, <1>7 DEF SyncTemporary, fileVars
<1>8. CASE Replace
  <2>1. Torn \notin onDisk' /\ Load(file') = trusted'
    BY <1>8, Replaced, Loads, FileAssumption
  <2> QED
    BY <1>1, <1>8, <2>1, Replaced
<1>9. CASE SaveRaises \/ Unlink \/ Crash
  BY <1>1, <1>2, <1>9 DEF SaveRaises, Unlink, Crash, fileVars
<1>10. CASE Settle
  BY <1>1, <1>10 DEF Settle, saveVars, ReportFileTypeOK
<1>11. CASE PowerLoss
  BY <1>1, <1>11 DEF PowerLoss, EndSave
<1>12. CASE UNCHANGED reportFileVars
  BY <1>1, <1>12 DEF reportFileVars, fileVars, saveVars
<1> QED
  BY <1>3, <1>4, <1>5, <1>6, <1>7, <1>8, <1>9, <1>10, <1>11, <1>12, NextSteps DEF SaveStep

LEMMA FileInvariant == ReportFileSpec => []FileInv
BY FileInitInv, FileNextInv, PTL DEF ReportFileSpec

\* "Writes are atomic": in every reachable state, between any two steps of _save,
\* the file holds what the last operation that returned made of the queue.
THEOREM SavesAreAtomic == ReportFileSpec => []FileIsTrusted
<1>1. FileInv => FileIsTrusted
  BY DEF FileInv
<1> QED
  BY <1>1, FileInvariant, PTL

-----------------------------------------------------------------------------
(* The refinement of ReportQueue.                                           *)

\* The operations of the abstract queue are those of the file.
LEMMA SameOperations ==
    ASSUME NEW q, NEW r
    PROVE  /\ Queue!Enqueue(q, r) = Enqueue(q, r)
           /\ Queue!Acknowledge(q, r) = Acknowledge(q, r)
           /\ Queue!Remove(q, r) = Remove(q, r)
<1>1. Queue!Queued(q, r) <=> Queued(q, r)
  BY DEF Queue!Queued, Queued
<1>2. \A s, dropped : Queue!Without(s, dropped) = Without(s, dropped)
  BY DEF Queue!Without, Without
<1>3. \A t : Queue!OfTarget(q, t) = OfTarget(q, t)
  BY DEF Queue!OfTarget, OfTarget
<1> QED
  BY <1>1, <1>2, <1>3 DEF Queue!Enqueue, Enqueue, Queue!Acknowledge, Acknowledge,
                          Queue!Remove, Remove

LEMMA FileInitRefines == ReportFileInit => Queue!Init
BY Loads DEF ReportFileInit, Queue!Init

LEMMA FileNextRefines ==
    FileInv /\ [ReportFileNext]_reportFileVars
        => [Queue!Next]_<<Load(file), {Load(content) : content \in onDisk}>>
<1> SUFFICES ASSUME FileInv, [ReportFileNext]_reportFileVars
             PROVE  \/ Queue!Next
                    \/ UNCHANGED <<Load(file), {Load(content) : content \in onDisk}>>
  OBVIOUS
<1>1. CASE UNCHANGED fileVars
  BY <1>1 DEF fileVars
<1>2. CASE Replace
  <2>1. PICK new : new = saved
    OBVIOUS
  <2>2. /\ ChangeOf(Load(file), new) /\ Load(file)' = new
        /\ {Load(content) : content \in onDisk}' = {Load(content) : content \in onDisk} \cup {new}
    BY <1>2, <2>1, Replaced, Loads
  <2>3. Queue!Change(new)
    BY <2>2 DEF Queue!Change
  <2>4. PICK r \in Entries : \/ new = Queue!Enqueue(Load(file), r)
                             \/ new = Queue!Acknowledge(Load(file), r)
                             \/ new = Queue!Remove(Load(file), r)
    BY <2>2, SameOperations DEF ChangeOf
  <2> QED
    BY <2>3, <2>4 DEF Queue!Next, Queue!Operation
<1>3. CASE Settle
  BY <1>3 DEF Settle, Queue!Next, Queue!Settle
<1>4. CASE PowerLoss
  BY <1>4 DEF PowerLoss, Queue!Next, Queue!PowerLoss
<1>5. CASE Begins \/ MakeDirectory \/ CreateTemporary \/ WriteTemporary \/ SyncTemporary
            \/ SaveRaises \/ Unlink \/ Crash
  BY <1>1, <1>5 DEF Begins, BeginSave, MakeDirectory, CreateTemporary, WriteTemporary,
                    SyncTemporary, SaveRaises, Unlink, Crash
<1> QED
  BY <1>1, <1>2, <1>3, <1>4, <1>5, NextSteps DEF SaveStep, reportFileVars

\* The store implements an atomic queue: its steps, crashes and OSErrors are
\* invisible, the replacement is the whole operation, and a power loss leaves a
\* queue that was there since the disk was last up to date.
THEOREM FileImplementsQueue == ReportFileSpec => ImplementsQueue
BY FileInitRefines, FileNextRefines, FileInvariant, PTL
   DEF ReportFileSpec, ImplementsQueue, Queue!Spec

=============================================================================

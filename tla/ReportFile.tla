----------------------------- MODULE ReportFile -----------------------------
(***************************************************************************)
(* The file in which the Client Agent keeps its undelivered reports        *)
(* (StatusReportStore in agent/deployment/status_report_store.py): every   *)
(* operation loads it, and saves the changed queue in a temporary file     *)
(* that then replaces it.                                                  *)
(*                                                                         *)
(* Each step of _save may raise an OSError, the process may die after      *)
(* any, and the machine may lose its power at any time.  A file that was   *)
(* not flushed to the disk may be torn after a power loss; a replacement   *)
(* may be undone, because the directory is not flushed.  One process uses  *)
(* the file at a time.                                                     *)
(***************************************************************************)
EXTENDS StatusReportStore

CONSTANTS
    Entries,  \* the reports that may be queued
    Absent,   \* the content of a file that does not exist
    Torn      \* the content of a file that is not a whole JSON array

ASSUME FileAssumption ==
    Absent # Torn /\ {Absent, Torn} \cap Seq(Entries) = {}

VARIABLES
    file,    \* content of the queue's file
    onDisk,  \* the contents it may have after a power loss
    stage,   \* the next step of _save, or idle
    saved,   \* the reports being saved
    temp,    \* content of the temporary file of this save
    synced,  \* has the temporary file been flushed to the disk?
    trusted  \* history: the queue after the operations that have returned

fileVars == <<file, onDisk>>
saveVars == <<stage, saved, temp, synced>>
reportFileVars == <<fileVars, saveVars, trusted>>

\* What load returns; of a torn file it raises StatusReportStoreError.
Load(content) == IF content = Absent THEN <<>> ELSE content

ReportFileTypeOK ==
    /\ file \in Seq(Entries) \cup {Absent, Torn}
    /\ onDisk \subseteq Seq(Entries) \cup {Absent, Torn} /\ file \in onDisk
    /\ stage \in {"idle", "mkdir", "create", "write", "sync", "replace", "unlink"}
    /\ saved \in Seq(Entries) /\ trusted \in Seq(Entries) \cup {Torn}
    /\ temp \in {Absent, Torn, saved}
    /\ synced \in BOOLEAN
    /\ stage \in {"idle", "mkdir", "create"} => temp = Absent /\ ~synced

ReportFileInit ==
    /\ file = Absent /\ onDisk = {Absent}
    /\ stage = "idle" /\ saved = <<>> /\ temp = Absent /\ synced = FALSE
    /\ trusted = <<>>

-----------------------------------------------------------------------------
(* An operation loads the queue and, if it changes it, saves the result.   *)

BeginSave(reports) ==
    /\ stage = "idle" /\ file # Torn
    /\ reports # Load(file)
    /\ stage' = "mkdir" /\ saved' = reports
    /\ UNCHANGED <<fileVars, temp, synced, trusted>>

EnqueueReport(r) == BeginSave(Enqueue(Load(file), r))
AcknowledgeReport(r) == BeginSave(Acknowledge(Load(file), r))
RemoveReport(r) == BeginSave(Remove(Load(file), r))

\* Mutant: the temporary file is not let go.
EndSaveKeepingTemp == stage' = "idle" /\ saved' = <<>> /\ synced' = FALSE /\ UNCHANGED temp

\* The save is over; its temporary file, if there still is one, is nobody's.
EndSave ==
    /\ stage' = "idle" /\ saved' = <<>> /\ temp' = Absent /\ synced' = FALSE

MakeDirectory ==
    /\ stage = "mkdir" /\ stage' = "create"
    /\ UNCHANGED <<fileVars, saved, temp, synced, trusted>>

CreateTemporary ==
    /\ stage = "create" /\ stage' = "write"
    /\ temp' = Torn
    /\ UNCHANGED <<fileVars, saved, synced, trusted>>

\* Mutant: the queue's own file is written.
WriteInPlace ==
    /\ stage = "write" /\ stage' = "sync"
    /\ file' = Torn /\ onDisk' = onDisk \cup {Torn} /\ temp' = saved
    /\ UNCHANGED <<saved, synced, trusted>>

WriteTemporary ==
    /\ stage = "write" /\ stage' = "sync"
    /\ temp' = saved
    /\ UNCHANGED <<fileVars, saved, synced, trusted>>

\* Mutant: no os.fsync.
SkipSync ==
    /\ stage = "sync" /\ stage' = "replace"
    /\ UNCHANGED <<fileVars, saved, temp, synced, trusted>>

SyncTemporary ==
    /\ stage = "sync" /\ stage' = "replace"
    /\ synced' = TRUE
    /\ UNCHANGED <<fileVars, saved, temp, trusted>>

\* os.replace, after which _save returns.
Replace ==
    /\ stage = "replace"
    /\ file' = temp
    /\ onDisk' = onDisk \cup {temp} \cup (IF synced THEN {} ELSE {Torn})
    /\ trusted' = saved
    /\ EndSave

\* A step of the save raises an OSError: the temporary file is to be removed.
\* That of mkdir leaves _save as it is, the others as StatusReportStoreError.
SaveRaises ==
    \/ /\ stage \in {"mkdir", "create"} /\ EndSave
       /\ UNCHANGED <<fileVars, trusted>>
    \/ /\ stage \in {"write", "sync", "replace"} /\ stage' = "unlink"
       /\ UNCHANGED <<fileVars, saved, temp, synced, trusted>>

\* unlink, whose own OSError is ignored.
Unlink == stage = "unlink" /\ EndSave /\ UNCHANGED <<fileVars, trusted>>

-----------------------------------------------------------------------------
\* The process dies in the middle of a save.  The next one finds the file.
Crash ==
    /\ stage # "idle" /\ EndSave
    /\ UNCHANGED <<fileVars, trusted>>

\* The system writes everything to the disk.
Settle ==
    /\ onDisk # {file} /\ onDisk' = {file}
    /\ UNCHANGED <<file, saveVars, trusted>>

PowerLoss ==
    /\ file' \in onDisk /\ onDisk' = {file'}
    /\ trusted' = Load(file')
    /\ EndSave

SaveStep ==
    \/ MakeDirectory \/ CreateTemporary \/ WriteTemporary \/ SyncTemporary
    \/ Replace \/ SaveRaises \/ Unlink

ReportFileNext ==
    \/ \E r \in Entries : EnqueueReport(r) \/ AcknowledgeReport(r) \/ RemoveReport(r)
    \/ SaveStep
    \/ Crash \/ Settle \/ PowerLoss

ReportFileSpec == ReportFileInit /\ [][ReportFileNext]_reportFileVars

-----------------------------------------------------------------------------
(* Properties.                                                             *)

\* "Writes are atomic": at every moment, between any two steps of a save, the
\* file holds the queue as the last operation that returned left it.  One that
\* raised or died has changed nothing, one that returned everything.
FileIsTrusted == Load(file) = trusted

Queue == INSTANCE ReportQueue WITH
    queue <- Load(file), kept <- {Load(content) : content \in onDisk}

\* The store implements an atomic queue.  In particular no power loss leaves a
\* torn file behind, which load would refuse for ever, or a queue that never
\* was: the temporary file is flushed before it replaces the old one.
ImplementsQueue == Queue!Spec

=============================================================================

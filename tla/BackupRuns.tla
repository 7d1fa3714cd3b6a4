----------------------------- MODULE BackupRuns -----------------------------
(***************************************************************************)
(* The backups the API makes of its database (apps/api                     *)
(* modules/reliability/backup.ts, pgDump.ts, runtime.ts and                *)
(* domain/reliability/backupPolicy.ts).  A run dumps to a partial file,    *)
(* renames it and records it, then removes the backups past their time.    *)
(* A timer and users start runs, so several may be under way, and the API  *)
(* may stop anywhere.  Runs are numbered by the instant they start, which  *)
(* also names their file.                                                  *)
(***************************************************************************)
EXTENDS Integers

CONSTANTS
    MaxRuns,         \* bound on runs
    Kept,            \* runs an operator marks to be kept
    MaxBackupFaults  \* bound on stops of the API and failures of a statement

Run == 1..MaxRuns

ASSUME BackupAssumption == MaxRuns \in Nat /\ MaxBackupFaults \in Nat /\ Kept \subseteq Run

VARIABLES
    backupRow,     \* BackupRun.status of each run
    dumpFile,      \* the file of each run: its name and whether it is complete
    backupJob,     \* what each run does next in the API
    expired,       \* runs up to this one are older than the retention time
    backupFaults

backupVars == <<backupRow, dumpFile, backupJob, expired, backupFaults>>

NoFile == [name |-> "none", whole |-> FALSE]
Dump   == [name |-> "dump", whole |-> TRUE]
Partials == [name : {"partial"}, whole : BOOLEAN]

NoJob == [step |-> "none"]
RemoveNext(left) == IF left = {} THEN NoJob ELSE [step |-> "unlink", left |-> left]

BackupInit ==
    /\ backupRow = [r \in Run |-> "none"]
    /\ dumpFile = [r \in Run |-> NoFile]
    /\ backupJob = [r \in Run |-> NoJob]
    /\ expired = 0
    /\ backupFaults = 0

Goes(r, job) == backupJob' = [backupJob EXCEPT ![r] = job]

StartBackup(r) ==
    /\ backupRow[r] = "none" /\ \A q \in 1..(r - 1) : backupRow[q] # "none"
    /\ backupRow' = [backupRow EXCEPT ![r] = "RUNNING"]
    /\ Goes(r, [step |-> "dump"])
    /\ UNCHANGED <<dumpFile, expired, backupFaults>>

\* runPgDump: whatever the program leaves behind, and what it says of it.
RunPgDump(r, file, ok) ==
    /\ backupJob[r].step = "dump"
    /\ dumpFile' = [dumpFile EXCEPT ![r] = file]
    /\ Goes(r, [step |-> "verify", ok |-> ok])
    /\ UNCHANGED <<backupRow, expired, backupFaults>>

\* verifyBackupArtifact: the program succeeded, the file is there and not too
\* small.
VerifyBackup(r) ==
    /\ backupJob[r].step = "verify"
    /\ IF backupJob[r].ok /\ dumpFile[r].whole
       THEN Goes(r, [step |-> "rename"]) /\ UNCHANGED backupRow
       ELSE /\ backupRow' = [backupRow EXCEPT ![r] = "FAILED"]
            /\ Goes(r, [step |-> "discard"])
    /\ UNCHANGED <<dumpFile, expired, backupFaults>>

DiscardPartial(r) ==
    /\ backupJob[r].step = "discard"
    /\ dumpFile' = [dumpFile EXCEPT ![r] = NoFile]
    /\ Goes(r, NoJob)
    /\ UNCHANGED <<backupRow, expired, backupFaults>>

RenameDump(r) ==
    /\ backupJob[r].step = "rename"
    /\ dumpFile' = [dumpFile EXCEPT ![r] = [name |-> "dump", whole |-> @.whole]]
    /\ Goes(r, [step |-> "record"])
    /\ UNCHANGED <<backupRow, expired, backupFaults>>

RecordSuccess(r) ==
    /\ backupJob[r].step = "record"
    /\ backupRow' = [backupRow EXCEPT ![r] = "SUCCESS"]
    /\ Goes(r, [step |-> "retention"])
    /\ UNCHANGED <<dumpFile, expired, backupFaults>>
-----------------------------------------------------------------------------
Successful == {r \in Run : backupRow[r] = "SUCCESS"}

\* Mutant: the newest backup is not exempt.
Expired == {r \in Successful : r \notin Kept /\ r <= expired}

\* backupsEligibleForDeletion
EligibleForDeletion ==
    {r \in Successful : r \notin Kept /\ r <= expired /\ \E q \in Successful : q > r}

\* applyRetention reads the rows once ...
ReadRetention(r) ==
    /\ backupJob[r].step = "retention"
    /\ Goes(r, RemoveNext(EligibleForDeletion))
    /\ UNCHANGED <<backupRow, dumpFile, expired, backupFaults>>

\* ... and removes them one by one from the newest on, the file first.
UnlinkDump(r) ==
    /\ backupJob[r].step = "unlink"
    /\ \E d \in backupJob[r].left :
          /\ \A e \in backupJob[r].left : e <= d
          /\ dumpFile' = [dumpFile EXCEPT ![d] = NoFile]
          /\ Goes(r, [step |-> "delete", row |-> d, left |-> backupJob[r].left \ {d}])
    /\ UNCHANGED <<backupRow, expired, backupFaults>>

\* A row another run has deleted meanwhile makes the update fail and ends it.
DeleteRow(r) ==
    /\ backupJob[r].step = "delete"
    /\ IF backupRow[backupJob[r].row] = "deleted"
       THEN Goes(r, NoJob) /\ UNCHANGED backupRow
       ELSE /\ backupRow' = [backupRow EXCEPT ![backupJob[r].row] = "deleted"]
            /\ Goes(r, RemoveNext(backupJob[r].left))
    /\ UNCHANGED <<dumpFile, expired, backupFaults>>
-----------------------------------------------------------------------------
TimePasses ==
    /\ expired < MaxRuns /\ backupRow[expired + 1] # "none"
    /\ expired' = expired + 1
    /\ UNCHANGED <<backupRow, dumpFile, backupJob, backupFaults>>

BackupFault == backupFaults < MaxBackupFaults /\ backupFaults' = backupFaults + 1

\* A statement, an audit record or the rename fails: the run ends there.
RunBreaks(r) ==
    /\ BackupFault /\ backupJob[r] # NoJob
    /\ Goes(r, NoJob)
    /\ UNCHANGED <<backupRow, dumpFile, expired>>

ApiStops ==
    /\ BackupFault
    /\ backupJob' = [r \in Run |-> NoJob]
    /\ UNCHANGED <<backupRow, dumpFile, expired>>

RunStep(r) ==
    \/ StartBackup(r)
    \/ \E file \in Partials \cup {NoFile}, ok \in BOOLEAN : RunPgDump(r, file, ok)
    \/ VerifyBackup(r) \/ DiscardPartial(r) \/ RenameDump(r) \/ RecordSuccess(r)
    \/ ReadRetention(r) \/ UnlinkDump(r) \/ DeleteRow(r)
    \/ RunBreaks(r)

BackupNext == (\E r \in Run : RunStep(r)) \/ TimePasses \/ ApiStops

BackupSpec == BackupInit /\ [][BackupNext]_backupVars
-----------------------------------------------------------------------------
\* The values of the columns, the files and the steps.
BackupTypeOK ==
    /\ backupRow \in [Run -> {"none", "RUNNING", "SUCCESS", "FAILED", "deleted"}]
    /\ dumpFile \in [Run -> {NoFile, Dump} \cup Partials]
    /\ backupJob \in [Run ->
          [step : {"none", "dump", "discard", "rename", "record", "retention"}]
          \cup [step : {"verify"}, ok : BOOLEAN]
          \cup [step : {"unlink"}, left : SUBSET Run]
          \cup [step : {"delete"}, row : Run, left : SUBSET Run]]
    /\ expired \in 0..MaxRuns
    /\ backupFaults \in 0..MaxBackupFaults

\* The backups that can be restored: recorded as verified, and on disk.
Restorable == {r \in Run : backupRow[r] = "SUCCESS" /\ dumpFile[r] = Dump}

\* docs/backup-recovery.md: retention never deletes the only known backup.
\* However many runs remove old backups at once, each from what it has read,
\* and wherever they stop, the newest one that can be restored stays until
\* there is a newer one.
NewestBackupSurvives ==
    [][\A r \in Restorable : \E q \in Restorable' : q >= r]_backupVars
=============================================================================

------------------------- MODULE Administration_proofs -------------------------
(***************************************************************************)
(* Proofs about the parts of the API that administrators work with: the    *)
(* backups, for any number of runs, whichever are kept and however often   *)
(* the API stops, and the onboarding of a customer, for any number of      *)
(* steps and every set of requests.                                        *)
(***************************************************************************)
EXTENDS BackupRuns, Onboarding, WellFoundedInduction, TLAPS

-----------------------------------------------------------------------------
(* BackupRuns                                                              *)

BackupJob ==
    [step : {"none", "dump", "discard", "rename", "record", "retention"}]
    \cup [step : {"verify"}, ok : BOOLEAN]
    \cup [step : {"unlink"}, left : SUBSET Run]
    \cup [step : {"delete"}, row : Run, left : SUBSET Run]

Removing(job) ==
    IF job.step = "unlink" THEN job.left
    ELSE IF job.step = "delete" THEN job.left \cup {job.row} ELSE {}

\* A row is RUNNING until its dump is recorded, and what is recorded is whole
\* and under its name.
BackupJobsOK ==
    \A r \in Run :
       /\ backupJob[r].step \in {"dump", "verify", "rename", "record"} => backupRow[r] = "RUNNING"
       /\ backupJob[r].step = "discard" => backupRow[r] = "FAILED"
       /\ backupJob[r].step = "verify" => dumpFile[r] # Dump
       /\ backupJob[r].step = "rename" => dumpFile[r] = [name |-> "partial", whole |-> TRUE]
       /\ backupJob[r].step = "record" => dumpFile[r] = Dump

\* What is being removed was recorded once, and a newer backup can be restored.
Superseded ==
    \A r \in Run : \A d \in Removing(backupJob[r]) :
       /\ backupRow[d] \in {"SUCCESS", "deleted"}
       /\ \E q \in Restorable : q > d

\* A row that says SUCCESS may have lost its file, to a removal that stopped
\* half-way, but only after a newer backup.
Covered == \A r \in Successful : \E q \in Restorable : q >= r

BackupInv == BackupTypeOK /\ BackupJobsOK /\ Superseded /\ Covered
-----------------------------------------------------------------------------
\* Nothing has run at the start.
LEMMA BackupInitInv == BackupInit => BackupInv
<1> SUFFICES ASSUME BackupInit PROVE BackupInv OBVIOUS
<1>1. \A r \in Run : backupRow[r] = "none" /\ backupJob[r].step = "none"
  BY DEF BackupInit, NoJob
<1>2. BackupTypeOK BY BackupAssumption DEF BackupInit, BackupTypeOK, NoJob, NoFile
<1> QED BY <1>1, <1>2 DEF BackupInv, BackupJobsOK, Superseded, Covered, Removing, Successful

\* The kinds of jobs are told apart by their step.
LEMMA JobKinds ==
    ASSUME NEW job \in BackupJob
    PROVE  /\ job.step = "unlink" => job.left \in SUBSET Run
           /\ job.step = "delete" => job.row \in Run /\ job.left \in SUBSET Run
           /\ Removing(job) \in SUBSET Run
BY DEF BackupJob, Removing

\* A partial file that is complete.
LEMMA WholePartial ==
    ASSUME NEW file \in Partials, file.whole
    PROVE  file = [name |-> "partial", whole |-> TRUE]
<1>1. file.name = "partial" /\ file.whole = TRUE BY DEF Partials
<1>2. file = [name |-> file.name, whole |-> file.whole] BY DEF Partials
<1> QED BY <1>1, <1>2

\* A step of run r that touches only its own row, before that is recorded, its
\* own file, and its own job, which then removes nothing.
LEMMA OwnStep ==
    ASSUME BackupInv, NEW r \in Run, NEW job \in BackupJob, NEW row, NEW file \in {NoFile, Dump} \cup Partials,
           backupRow[r] \notin {"SUCCESS", "deleted"},
           row \in {"RUNNING", "FAILED"} \/ (row = "SUCCESS" /\ file = Dump),
           backupRow' = [backupRow EXCEPT ![r] = row],
           dumpFile' = [dumpFile EXCEPT ![r] = file],
           Goes(r, job), Removing(job) = {},
           job.step \in {"dump", "verify", "rename", "record"} => row = "RUNNING",
           job.step = "discard" => row = "FAILED",
           job.step = "verify" => file # Dump,
           job.step = "rename" => file = [name |-> "partial", whole |-> TRUE],
           job.step = "record" => file = Dump,
           UNCHANGED <<expired, backupFaults>>
    PROVE  BackupInv' /\ Restorable \subseteq Restorable'
<1> USE DEF BackupInv
<1>1. backupRow \in [Run -> {"none", "RUNNING", "SUCCESS", "FAILED", "deleted"}]
      /\ dumpFile \in [Run -> {NoFile, Dump} \cup Partials] /\ backupJob \in [Run -> BackupJob]
  BY DEF BackupTypeOK, BackupJob
<1>2. backupRow' \in [Run -> {"none", "RUNNING", "SUCCESS", "FAILED", "deleted"}]
      /\ dumpFile' \in [Run -> {NoFile, Dump} \cup Partials] /\ backupJob' \in [Run -> BackupJob]
  BY <1>1 DEF Goes
<1>3. BackupTypeOK' BY <1>2 DEF BackupTypeOK, BackupJob
<1>4. \A q \in Run \ {r} : /\ backupRow'[q] = backupRow[q] /\ dumpFile'[q] = dumpFile[q]
                           /\ backupJob'[q] = backupJob[q]
  BY <1>1 DEF Goes
<1>5. backupRow'[r] = row /\ dumpFile'[r] = file /\ backupJob'[r] = job BY <1>1 DEF Goes
<1>6. BackupJobsOK' BY <1>4, <1>5 DEF BackupJobsOK
<1>7. r \notin Restorable /\ Restorable \subseteq Restorable'
  BY <1>4 DEF Restorable
<1>8. Superseded'
  <2> SUFFICES ASSUME NEW p \in Run, NEW d \in Removing(backupJob'[p])
               PROVE  backupRow'[d] \in {"SUCCESS", "deleted"} /\ \E q \in Restorable' : q > d
    BY DEF Superseded
  <2>1. p # r BY <1>5
  <2>2. d \in Removing(backupJob[p]) BY <2>1, <1>4
  <2>3. d \in Run BY <2>2, <1>1, JobKinds
  <2>4. backupRow[d] \in {"SUCCESS", "deleted"} /\ \E q \in Restorable : q > d
    BY <2>2 DEF Superseded
  <2> QED BY <2>3, <2>4, <1>4, <1>7
<1>9. Covered'
  <2> SUFFICES ASSUME NEW p \in Successful' PROVE \E q \in Restorable' : q >= p
    BY DEF Covered
  <2>1. CASE p = r
    <3>1. r \in Restorable' BY <2>1, <1>5 DEF Successful, Restorable
    <3>2. r >= r BY DEF Run
    <3> QED BY <2>1, <3>1, <3>2
  <2>2. CASE p # r
    <3>1. p \in Successful BY <2>2, <1>4 DEF Successful
    <3> QED BY <3>1, <1>7 DEF Covered
  <2> QED BY <2>1, <2>2
<1> QED BY <1>3, <1>6, <1>7, <1>8, <1>9

\* Only jobs go on: nothing is lost, and what they now remove is superseded.
LEMMA JobStep ==
    ASSUME BackupInv, NEW r \in Run, NEW job \in BackupJob, Goes(r, job),
           UNCHANGED <<backupRow, dumpFile>>,
           job.step \in {"none", "unlink", "retention"} \/ job = backupJob[r],
           \A d \in Removing(job) : backupRow[d] \in {"SUCCESS", "deleted"}
                                    /\ \E q \in Restorable : q > d,
           expired' \in 0..MaxRuns, backupFaults' \in 0..MaxBackupFaults
    PROVE  BackupInv' /\ Restorable' = Restorable
<1> USE DEF BackupInv
<1>1. backupJob \in [Run -> BackupJob] BY DEF BackupTypeOK, BackupJob
<1>2. backupJob' \in [Run -> BackupJob] /\ backupJob'[r] = job
      /\ \A q \in Run \ {r} : backupJob'[q] = backupJob[q]
  BY <1>1 DEF Goes
<1>3. BackupTypeOK' BY <1>2 DEF BackupTypeOK, BackupJob
<1>4. BackupJobsOK' BY <1>2 DEF BackupJobsOK
<1>5. Restorable' = Restorable /\ Successful' = Successful BY DEF Restorable, Successful
<1>6. Superseded' BY <1>2, <1>5 DEF Superseded
<1>7. Covered' BY <1>5 DEF Covered
<1> QED BY <1>3, <1>4, <1>5, <1>6, <1>7

\* The steps up to the record of a run.
LEMMA DumpingInv ==
    ASSUME BackupInv, NEW r \in Run,
           \/ StartBackup(r)
           \/ \E file \in Partials \cup {NoFile}, ok \in BOOLEAN : RunPgDump(r, file, ok)
           \/ VerifyBackup(r) \/ DiscardPartial(r) \/ RenameDump(r) \/ RecordSuccess(r)
    PROVE  BackupInv' /\ Restorable \subseteq Restorable'
<1> USE DEF BackupInv
<1>1. backupRow \in [Run -> {"none", "RUNNING", "SUCCESS", "FAILED", "deleted"}]
      /\ dumpFile \in [Run -> {NoFile, Dump} \cup Partials] /\ backupJob \in [Run -> BackupJob]
  BY DEF BackupTypeOK, BackupJob
<1>2. \A step \in {"none", "dump", "discard", "rename", "record", "retention"} :
         [step |-> step] \in BackupJob /\ Removing([step |-> step]) = {}
  BY DEF BackupJob, Removing
<1>3. CASE StartBackup(r)
  <2>1. dumpFile' = [dumpFile EXCEPT ![r] = dumpFile[r]] BY <1>1, <1>3 DEF StartBackup
  <2> DEFINE job == [step |-> "dump"]
  <2>2. job \in BackupJob /\ Removing(job) = {} BY <1>2
  <2> QED BY <1>1, <1>3, <2>1, <2>2, OwnStep DEF StartBackup
<1>4. ASSUME NEW file \in Partials \cup {NoFile}, NEW ok \in BOOLEAN, RunPgDump(r, file, ok)
      PROVE  BackupInv' /\ Restorable \subseteq Restorable'
  <2>1. backupRow[r] = "RUNNING" BY <1>4 DEF RunPgDump, BackupJobsOK
  <2>2. backupRow' = [backupRow EXCEPT ![r] = "RUNNING"] BY <1>1, <1>4, <2>1 DEF RunPgDump
  <2> DEFINE job == [step |-> "verify", ok |-> ok]
  <2>3. job \in BackupJob /\ Removing(job) = {} BY DEF BackupJob, Removing
  <2>4. file \in {NoFile, Dump} \cup Partials /\ file # Dump BY DEF Dump, NoFile, Partials
  <2> QED BY <1>4, <2>1, <2>2, <2>3, <2>4, OwnStep DEF RunPgDump
<1>5. CASE VerifyBackup(r)
  <2>1. backupRow[r] = "RUNNING" BY <1>5 DEF VerifyBackup, BackupJobsOK
  <2>2. dumpFile' = [dumpFile EXCEPT ![r] = dumpFile[r]] /\ dumpFile[r] \in {NoFile, Dump} \cup Partials
    BY <1>1, <1>5 DEF VerifyBackup
  <2>3. CASE backupJob[r].ok /\ dumpFile[r].whole
    <3> DEFINE job == [step |-> "rename"]
    <3>1. job \in BackupJob /\ Removing(job) = {} BY <1>2
    <3>2. backupRow' = [backupRow EXCEPT ![r] = "RUNNING"]
      BY <1>1, <1>5, <2>1, <2>3 DEF VerifyBackup
    <3>3. dumpFile[r] # Dump BY <1>5 DEF VerifyBackup, BackupJobsOK
    <3>4. dumpFile[r] = [name |-> "partial", whole |-> TRUE]
      <4>1. dumpFile[r] \in Partials BY <2>2, <2>3, <3>3 DEF NoFile
      <4> QED BY <2>3, <4>1, WholePartial
    <3> QED BY <1>5, <2>1, <2>2, <2>3, <3>1, <3>2, <3>4, OwnStep DEF VerifyBackup
  <2>4. CASE ~(backupJob[r].ok /\ dumpFile[r].whole)
    <3> DEFINE job == [step |-> "discard"]
    <3>1. job \in BackupJob /\ Removing(job) = {} BY <1>2
    <3> QED BY <1>5, <2>1, <2>2, <2>4, <3>1, OwnStep DEF VerifyBackup
  <2> QED BY <2>3, <2>4
<1>6. CASE DiscardPartial(r)
  <2>1. backupRow[r] = "FAILED" BY <1>6 DEF DiscardPartial, BackupJobsOK
  <2>2. backupRow' = [backupRow EXCEPT ![r] = "FAILED"] BY <1>1, <1>6, <2>1 DEF DiscardPartial
  <2>3. NoJob \in BackupJob /\ Removing(NoJob) = {} /\ NoJob.step = "none" BY <1>2 DEF NoJob
  <2> QED BY <1>6, <2>1, <2>2, <2>3, OwnStep DEF DiscardPartial
<1>7. CASE RenameDump(r)
  <2>1. backupRow[r] = "RUNNING" BY <1>7 DEF RenameDump, BackupJobsOK
  <2>2. backupRow' = [backupRow EXCEPT ![r] = "RUNNING"] BY <1>1, <1>7, <2>1 DEF RenameDump
  <2>3. dumpFile[r] = [name |-> "partial", whole |-> TRUE] BY <1>7 DEF RenameDump, BackupJobsOK
  <2>4. dumpFile' = [dumpFile EXCEPT ![r] = Dump]
    <3>1. dumpFile[r].whole = TRUE BY <2>3
    <3> QED BY <1>7, <3>1 DEF RenameDump, Dump
  <2> DEFINE job == [step |-> "record"]
  <2>5. job \in BackupJob /\ Removing(job) = {} BY <1>2
  <2>6. Goes(r, job) /\ UNCHANGED <<expired, backupFaults>> BY <1>7 DEF RenameDump
  <2>7. Dump \in {NoFile, Dump} \cup Partials OBVIOUS
  <2> QED BY <2>1, <2>2, <2>4, <2>5, <2>6, <2>7, OwnStep
<1>8. CASE RecordSuccess(r)
  <2>1. backupRow[r] = "RUNNING" /\ dumpFile[r] = Dump BY <1>8 DEF RecordSuccess, BackupJobsOK
  <2>2. dumpFile' = [dumpFile EXCEPT ![r] = Dump] BY <1>1, <1>8, <2>1 DEF RecordSuccess
  <2> DEFINE job == [step |-> "retention"]
  <2>3. job \in BackupJob /\ Removing(job) = {} BY <1>2
  <2> QED BY <1>8, <2>1, <2>2, <2>3, OwnStep DEF RecordSuccess
<1> QED BY <1>3, <1>4, <1>5, <1>6, <1>7, <1>8

\* Reading what is to be removed, and ends of runs, touch no row and no file.
LEMMA ReadingInv ==
    ASSUME BackupInv, ApiStops \/ TimePasses \/ \E r \in Run : ReadRetention(r) \/ RunBreaks(r)
    PROVE  BackupInv' /\ Restorable' = Restorable
<1> USE DEF BackupInv
<1>1. NoJob \in BackupJob /\ Removing(NoJob) = {} /\ NoJob.step = "none" BY DEF NoJob, BackupJob, Removing
<1>2. expired \in 0..MaxRuns /\ backupFaults \in 0..MaxBackupFaults BY DEF BackupTypeOK
<1>3. BackupFault => backupFaults' \in 0..MaxBackupFaults
  BY <1>2, BackupAssumption DEF BackupFault
<1>4. ASSUME NEW r \in Run, ReadRetention(r) PROVE BackupInv' /\ Restorable' = Restorable
  <2> DEFINE job == RemoveNext(EligibleForDeletion)
  <2>1. EligibleForDeletion \in SUBSET Run BY DEF EligibleForDeletion, Successful
  <2>2. job \in BackupJob /\ job.step \in {"none", "unlink"}
    BY <1>1, <2>1 DEF RemoveNext, BackupJob
  <2>3. Removing(job) \subseteq EligibleForDeletion BY <1>1 DEF RemoveNext, Removing
  <2>4. ASSUME NEW d \in EligibleForDeletion
        PROVE  backupRow[d] \in {"SUCCESS", "deleted"} /\ \E q \in Restorable : q > d
    <3>1. PICK p \in Successful : p > d BY DEF EligibleForDeletion
    <3>2. PICK q \in Restorable : q >= p BY DEF Covered
    <3>3. d \in Int /\ p \in Int /\ q \in Int
      BY DEF EligibleForDeletion, Successful, Restorable, Run
    <3>4. q > d BY <3>1, <3>2, <3>3
    <3>5. backupRow[d] = "SUCCESS" BY DEF EligibleForDeletion, Successful
    <3> QED BY <3>4, <3>5
  <2> HIDE DEF job
  <2>5. Goes(r, job) BY <1>4 DEF ReadRetention, job
  <2>6. UNCHANGED <<backupRow, dumpFile, expired, backupFaults>> BY <1>4 DEF ReadRetention
  <2> QED BY <1>2, <2>2, <2>3, <2>4, <2>5, <2>6, JobStep
<1>5. ASSUME NEW r \in Run, RunBreaks(r) PROVE BackupInv' /\ Restorable' = Restorable
  <2>1. Goes(r, NoJob) /\ UNCHANGED <<backupRow, dumpFile, expired>> /\ BackupFault
    BY <1>5 DEF RunBreaks
  <2> QED BY <1>1, <1>2, <1>3, <2>1, JobStep
<1>6. CASE ApiStops
  <2>1. \A r \in Run : backupJob'[r] = NoJob BY <1>6 DEF ApiStops
  <2>2. BackupTypeOK' BY <1>1, <1>3, <1>6 DEF ApiStops, BackupTypeOK, NoJob
  <2>3. BackupJobsOK' /\ Superseded' BY <1>1, <2>1 DEF BackupJobsOK, Superseded
  <2>4. Restorable' = Restorable /\ Successful' = Successful
    BY <1>6 DEF ApiStops, Restorable, Successful
  <2> QED BY <2>2, <2>3, <2>4 DEF Covered
<1>7. CASE TimePasses
  <2>1. UNCHANGED <<backupRow, dumpFile, backupJob, backupFaults>> BY <1>7 DEF TimePasses
  <2>2. expired' \in 0..MaxRuns BY <1>2, <1>7, BackupAssumption DEF TimePasses
  <2>3. BackupTypeOK' BY <2>1, <2>2 DEF BackupTypeOK
  <2>4. BackupJobsOK' /\ Superseded' /\ Covered' /\ Restorable' = Restorable
    BY <2>1 DEF BackupJobsOK, Superseded, Covered, Restorable, Successful
  <2> QED BY <2>3, <2>4
<1> QED BY <1>4, <1>5, <1>6, <1>7

\* A backup that is removed has a newer one that can be restored, and that one
\* takes its place as the witness of every other removal under way.
LEMMA RemovalInv ==
    ASSUME BackupInv, NEW r \in Run, UnlinkDump(r) \/ DeleteRow(r)
    PROVE  BackupInv' /\ \A p \in Restorable : \E q \in Restorable' : q >= p
<1> USE DEF BackupInv
<1>1. backupRow \in [Run -> {"none", "RUNNING", "SUCCESS", "FAILED", "deleted"}]
      /\ dumpFile \in [Run -> {NoFile, Dump} \cup Partials] /\ backupJob \in [Run -> BackupJob]
  BY DEF BackupTypeOK, BackupJob
<1>2. PICK d \in Removing(backupJob[r]), job \in BackupJob :
         /\ Goes(r, job) /\ Removing(job) \subseteq Removing(backupJob[r])
         /\ job.step \in {"none", "unlink", "delete"}
         /\ \/ dumpFile' = [dumpFile EXCEPT ![d] = NoFile] /\ UNCHANGED backupRow
            \/ backupRow' = [backupRow EXCEPT ![d] = "deleted"] /\ UNCHANGED dumpFile
         /\ UNCHANGED <<expired, backupFaults>>
  <2>1. backupJob[r] \in BackupJob BY <1>1
  <2>2. CASE UnlinkDump(r)
    <3>1. backupJob[r].step = "unlink" /\ Removing(backupJob[r]) = backupJob[r].left
      BY <2>2 DEF UnlinkDump, Removing
    <3>2. PICK d \in backupJob[r].left :
             /\ dumpFile' = [dumpFile EXCEPT ![d] = NoFile]
             /\ Goes(r, [step |-> "delete", row |-> d, left |-> backupJob[r].left \ {d}])
      BY <2>2 DEF UnlinkDump
    <3> DEFINE job == [step |-> "delete", row |-> d, left |-> backupJob[r].left \ {d}]
    <3>3. backupJob[r].left \in SUBSET Run BY <2>1, <3>1, JobKinds
    <3>4. job \in BackupJob BY <3>3 DEF BackupJob
    <3>5. Removing(job) \subseteq backupJob[r].left /\ job.step = "delete" BY DEF Removing
    <3>6. UNCHANGED <<backupRow, expired, backupFaults>> BY <2>2 DEF UnlinkDump
    <3> HIDE DEF job
    <3>7. Goes(r, job) BY <3>2 DEF job
    <3> QED BY <3>1, <3>2, <3>4, <3>5, <3>6, <3>7
  <2>3. CASE DeleteRow(r)
    <3> DEFINE d == backupJob[r].row
               job == IF backupRow[d] = "deleted" THEN NoJob ELSE RemoveNext(backupJob[r].left)
    <3>1. /\ backupJob[r].step = "delete"
          /\ Removing(backupJob[r]) = backupJob[r].left \cup {d}
          /\ d \in Removing(backupJob[r])
      BY <2>3 DEF DeleteRow, Removing
    <3>2. d \in Run /\ backupJob[r].left \in SUBSET Run BY <2>1, <3>1, JobKinds
    <3>3. job \in BackupJob /\ job.step \in {"none", "unlink"} BY <3>2 DEF BackupJob, NoJob, RemoveNext
    <3>4. Removing(job) \subseteq backupJob[r].left BY DEF Removing, NoJob, RemoveNext
    <3>5. Goes(r, job) BY <2>3 DEF DeleteRow
    <3>6. backupRow' = [backupRow EXCEPT ![d] = "deleted"] /\ UNCHANGED dumpFile
      BY <1>1, <2>3 DEF DeleteRow
    <3>7. UNCHANGED <<expired, backupFaults>> BY <2>3 DEF DeleteRow
    <3> HIDE DEF d, job
    <3> QED BY <3>1, <3>3, <3>4, <3>5, <3>6, <3>7
  <2> QED BY <2>2, <2>3
<1>3. d \in Run BY <1>1, JobKinds
<1>4. backupRow[d] \in {"SUCCESS", "deleted"} /\ \E q \in Restorable : q > d
  BY DEF Superseded
<1>5. /\ backupRow' \in [Run -> {"none", "RUNNING", "SUCCESS", "FAILED", "deleted"}]
      /\ dumpFile' \in [Run -> {NoFile, Dump} \cup Partials] /\ backupJob' \in [Run -> BackupJob]
  BY <1>1, <1>2 DEF Goes
<1>6. BackupTypeOK' BY <1>2, <1>5 DEF BackupTypeOK, BackupJob
<1>7. /\ \A q \in Run \ {d} : backupRow'[q] = backupRow[q] /\ dumpFile'[q] = dumpFile[q]
      /\ backupRow'[d] \in {"SUCCESS", "deleted"}
  BY <1>1, <1>2, <1>3, <1>4
<1>8. backupJob'[r] = job /\ \A q \in Run \ {r} : backupJob'[q] = backupJob[q]
  BY <1>1, <1>2 DEF Goes
<1>9. Restorable \ {d} \subseteq Restorable' BY <1>7 DEF Restorable
<1>10. ASSUME NEW p \in Run, \E q \in Restorable : q > p PROVE \E q \in Restorable' : q > p
  <2>1. PICK q \in Restorable : q > p BY <1>10
  <2>2. PICK n \in Restorable : n > d BY <1>4
  <2>3. p \in Int /\ q \in Int /\ n \in Int /\ d \in Int BY <1>3 DEF Restorable, Run
  <2>4. CASE q = d
    <3>1. n > p /\ n # d BY <2>1, <2>2, <2>3, <2>4
    <3> QED BY <3>1, <1>9
  <2>5. CASE q # d BY <2>1, <2>5, <1>9
  <2> QED BY <2>4, <2>5
<1>11. ASSUME NEW p \in Run, \E q \in Restorable : q >= p PROVE \E q \in Restorable' : q >= p
  <2>1. PICK q \in Restorable : q >= p BY <1>11
  <2>2. PICK n \in Restorable : n > d BY <1>4
  <2>3. p \in Int /\ q \in Int /\ n \in Int /\ d \in Int BY <1>3 DEF Restorable, Run
  <2>4. CASE q = d
    <3>1. n >= p /\ n # d BY <2>1, <2>2, <2>3, <2>4
    <3> QED BY <3>1, <1>9
  <2>5. CASE q # d BY <2>1, <2>5, <1>9
  <2> QED BY <2>4, <2>5
<1>12. BackupJobsOK'
  <2> SUFFICES ASSUME NEW q \in Run
               PROVE  /\ backupJob'[q].step \in {"dump", "verify", "rename", "record"}
                            => backupRow'[q] = "RUNNING"
                      /\ backupJob'[q].step = "discard" => backupRow'[q] = "FAILED"
                      /\ backupJob'[q].step = "verify" => dumpFile'[q] # Dump
                      /\ backupJob'[q].step = "rename"
                            => dumpFile'[q] = [name |-> "partial", whole |-> TRUE]
                      /\ backupJob'[q].step = "record" => dumpFile'[q] = Dump
    BY DEF BackupJobsOK
  <2>1. CASE q = r BY <2>1, <1>2, <1>8
  <2>2. CASE q # r /\ q = d
    <3>1. backupJob'[q].step \notin {"dump", "verify", "rename", "record", "discard"}
      BY <2>2, <1>4, <1>8 DEF BackupJobsOK
    <3> QED BY <3>1
  <2>3. CASE q # r /\ q # d BY <2>3, <1>7, <1>8 DEF BackupJobsOK
  <2> QED BY <2>1, <2>2, <2>3
<1>13. Superseded'
  <2> SUFFICES ASSUME NEW q \in Run, NEW e \in Removing(backupJob'[q])
               PROVE  backupRow'[e] \in {"SUCCESS", "deleted"} /\ \E n \in Restorable' : n > e
    BY DEF Superseded
  <2>1. e \in Removing(backupJob[q]) BY <1>2, <1>8
  <2>2. e \in Run BY <1>1, <2>1, JobKinds
  <2>3. backupRow[e] \in {"SUCCESS", "deleted"} /\ \E n \in Restorable : n > e
    BY <2>1 DEF Superseded
  <2> QED BY <2>2, <2>3, <1>7, <1>10
<1>14. Covered'
  <2> SUFFICES ASSUME NEW p \in Successful' PROVE \E q \in Restorable' : q >= p
    BY DEF Covered
  <2>1. p \in Run BY DEF Successful
  <2>2. CASE p = d
    <3>1. PICK q \in Restorable' : q > d BY <1>3, <1>4, <1>10
    <3>2. q \in Int /\ d \in Int BY <1>3 DEF Restorable, Run
    <3> QED BY <2>2, <3>1, <3>2
  <2>3. CASE p # d
    <3>1. p \in Successful BY <2>1, <2>3, <1>7 DEF Successful
    <3> QED BY <2>1, <3>1, <1>11 DEF Covered
  <2> QED BY <2>2, <2>3
<1>15. \A p \in Restorable : \E q \in Restorable' : q >= p
  <2> TAKE p \in Restorable
  <2>1. p \in Run /\ p >= p BY DEF Restorable, Run
  <2> QED BY <2>1, <1>11
<1> QED BY <1>6, <1>12, <1>13, <1>14, <1>15

\* Every step keeps the invariant, and the newest backup with it.
LEMMA BackupStepInv ==
    ASSUME BackupInv, [BackupNext]_backupVars
    PROVE  BackupInv' /\ \A p \in Restorable : \E q \in Restorable' : q >= p
<1>1. \A p \in Restorable : p >= p BY DEF Restorable, Run
<1>2. ASSUME NEW r \in Run, RunStep(r)
      PROVE  BackupInv' /\ \A p \in Restorable : \E q \in Restorable' : q >= p
  <2>1. CASE \/ StartBackup(r)
             \/ \E file \in Partials \cup {NoFile}, ok \in BOOLEAN : RunPgDump(r, file, ok)
             \/ VerifyBackup(r) \/ DiscardPartial(r) \/ RenameDump(r) \/ RecordSuccess(r)
    BY <1>1, <2>1, DumpingInv
  <2>2. CASE ReadRetention(r) \/ RunBreaks(r) BY <1>1, <2>2, ReadingInv
  <2>3. CASE UnlinkDump(r) \/ DeleteRow(r) BY <2>3, RemovalInv
  <2> QED BY <1>2, <2>1, <2>2, <2>3 DEF RunStep
<1>3. CASE ApiStops \/ TimePasses BY <1>1, <1>3, ReadingInv
<1>4. CASE UNCHANGED backupVars
  <2>1. Restorable' = Restorable BY <1>4 DEF backupVars, Restorable
  <2>2. BackupInv'
    BY <1>4 DEF backupVars, BackupInv, BackupTypeOK, BackupJobsOK, Superseded, Covered, Restorable,
                Successful
  <2> QED BY <1>1, <2>1, <2>2
<1> QED BY <1>2, <1>3, <1>4 DEF BackupNext

\* The columns, the files and the steps keep their values: BackupTypeOK for any
\* number of runs.
THEOREM BackupsAreTyped == BackupSpec => []BackupTypeOK
<1>1. BackupInv => BackupTypeOK BY DEF BackupInv
<1>2. BackupInv /\ [BackupNext]_backupVars => BackupInv' BY BackupStepInv
<1> QED BY <1>1, <1>2, BackupInitInv, PTL DEF BackupSpec

\* Retention never deletes the newest backup that can be restored:
\* NewestBackupSurvives for any number of runs that remove backups at once and
\* stop where they may.
THEOREM BackupsSurvive == BackupSpec => NewestBackupSurvives
<1>1. BackupInv /\ [BackupNext]_backupVars => BackupInv' BY BackupStepInv
<1>2. BackupInv /\ [BackupNext]_backupVars
         => [\A r \in Restorable : \E q \in Restorable' : q >= r]_backupVars
  BY BackupStepInv
<1> QED BY <1>1, <1>2, BackupInitInv, PTL DEF BackupSpec, NewestBackupSurvives

-----------------------------------------------------------------------------
(* Onboarding                                                              *)

\* Which step is the current one does not matter here.
CurrentStep == {1} \cup {frontierStep(steps) : steps \in SUBSET StepKey}

Session(statuses) ==
    [status : statuses, completedSteps : SUBSET StepKey, currentStep : CurrentStep,
     lastValidation : Finding \cup {"none"}, accepted : BOOLEAN]
AnySession == Session(OpenSession \cup {"COMPLETED", "CANCELLED"})

\* A step works on a session that was open when it was loaded, and a request
\* that is past its validation carries what that found.
CheckingStep == [op : {"check step"}, row : Session(OpenSession), step : StepKey,
                 complete : BOOLEAN, payload : {"none", "accept", "withdraw"}, found : {"none"}]
ApplyingStep == [op : {"step"}, row : Session(OpenSession), step : StepKey,
                 complete : BOOLEAN, payload : {"none", "accept", "withdraw"},
                 found : Finding \cup {"none"}]
Checking == [op : {"check", "check complete", "cancel"}, row : AnySession, found : {"none"}]
Concluding  == [op : {"validate", "complete"}, row : AnySession, found : Finding]

Request == {NoRequest} \cup CheckingStep \cup ApplyingStep \cup Checking \cup Concluding

\* COMPLETED never stands beside an error, and no request under way can write
\* that it does.
OnboardingInv ==
    /\ session \in AnySession
    /\ findings \in Finding
    /\ requests \in [OnboardingRequest -> Request]
    /\ \A q \in OnboardingRequest :
          requests[q].op = "step" /\ requests[q].step = VALIDATION => requests[q].found \in Finding
    /\ CompletedIsValidated
-----------------------------------------------------------------------------
\* No request is under way at the start, and the session is a draft.
LEMMA OnboardingInitInv == OnboardingInit => OnboardingInv
<1> SUFFICES ASSUME OnboardingInit PROVE OnboardingInv OBVIOUS
<1>1. session \in AnySession
  BY DEF OnboardingInit, AnySession, Session, OpenSession, CurrentStep
<1>2. requests \in [OnboardingRequest -> Request] BY DEF OnboardingInit, Request
<1>3. \A q \in OnboardingRequest : requests[q].op = "none" BY DEF OnboardingInit, NoRequest
<1> QED BY <1>1, <1>2, <1>3 DEF OnboardingInit, OnboardingInv, CompletedIsValidated

\* A request that goes on in order leaves all requests in order.
LEMMA ProceedsOK ==
    ASSUME OnboardingInv, NEW q \in OnboardingRequest, NEW request \in Request,
           request.op = "step" /\ request.step = VALIDATION => request.found \in Finding,
           Proceeds(q, request)
    PROVE  /\ requests' \in [OnboardingRequest -> Request]
           /\ \A p \in OnboardingRequest :
                 requests'[p].op = "step" /\ requests'[p].step = VALIDATION
                    => requests'[p].found \in Finding
BY DEF Proceeds, OnboardingInv

\* A request that ends leaves the others in order.
LEMMA EndsOK ==
    ASSUME OnboardingInv, NEW q \in OnboardingRequest, Ends(q)
    PROVE  /\ requests' \in [OnboardingRequest -> Request]
           /\ \A p \in OnboardingRequest :
                 requests'[p].op = "step" /\ requests'[p].step = VALIDATION
                    => requests'[p].found \in Finding
<1>1. NoRequest \in Request /\ NoRequest.op # "step" BY DEF Request, NoRequest
<1> QED BY <1>1, ProceedsOK DEF Ends

\* Loading a session to work on one of its steps.
LEMMA LoadStepInv ==
    ASSUME OnboardingInv, NEW q \in OnboardingRequest, NEW step \in StepKey,
           NEW complete \in BOOLEAN, NEW payload \in {"none", "accept", "withdraw"},
           LoadStep(q, step, complete, payload)
    PROVE  OnboardingInv'
<1> DEFINE request == [op |-> IF step = VALIDATION THEN "check step" ELSE "step", row |-> session,
                       step |-> step, complete |-> complete, payload |-> payload,
                       found |-> "none"]
<1>1. session \in Session(OpenSession) BY DEF LoadStep, OnboardingInv, AnySession, Session
<1>2. request \in CheckingStep \cup ApplyingStep
  BY <1>1 DEF CheckingStep, ApplyingStep
<1>3. Proceeds(q, request) BY DEF LoadStep
<1>4. request \in Request BY <1>2 DEF Request
<1>5. ~(request.op = "step" /\ request.step = VALIDATION) OBVIOUS
<1> HIDE DEF request
<1> QED BY <1>3, <1>4, <1>5, ProceedsOK DEF LoadStep, OnboardingInv, CompletedIsValidated

\* Loading a session to validate, complete or cancel it.
LEMMA LoadSessionInv ==
    ASSUME OnboardingInv, NEW q \in OnboardingRequest,
           NEW op \in {"check", "check complete", "cancel"}, LoadSession(q, op)
    PROVE  OnboardingInv'
<1> DEFINE request == [op |-> op, row |-> session, found |-> "none"]
<1>1. request \in Checking BY DEF OnboardingInv, Checking
<1>2. request \in Request BY <1>1 DEF Request
<1>3. Proceeds(q, request) BY DEF LoadSession
<1>4. request.op # "step" OBVIOUS
<1> HIDE DEF request
<1> QED BY <1>2, <1>3, <1>4, ProceedsOK DEF LoadSession, OnboardingInv, CompletedIsValidated

\* Which kind of request each operation is.
LEMMA RequestKinds ==
    ASSUME NEW request \in Request
    PROVE  /\ request.op = "check step" => request \in CheckingStep
           /\ request.op = "step" => request \in ApplyingStep
           /\ request.op \in {"check", "check complete"} => request \in Checking
           /\ request.op \in {"validate", "complete"} => request \in Concluding
<1>1. CASE request = NoRequest BY <1>1 DEF NoRequest
<1>2. CASE request \in CheckingStep
  <2>1. request.op = "check step" BY <1>2 DEF CheckingStep
  <2> QED BY <1>2, <2>1
<1>3. CASE request \in ApplyingStep
  <2>1. request.op = "step" BY <1>3 DEF ApplyingStep
  <2> QED BY <1>3, <2>1
<1>4. CASE request \in Checking
  <2>1. request.op \in {"check", "check complete", "cancel"} BY <1>4 DEF Checking
  <2> QED BY <1>4, <2>1
<1>5. CASE request \in Concluding
  <2>1. request.op \in {"validate", "complete"} BY <1>5 DEF Concluding
  <2> QED BY <1>5, <2>1
<1> QED BY <1>1, <1>2, <1>3, <1>4, <1>5 DEF Request

\* Validating the configuration puts what it found into the request, or ends
\* it; the session is not touched.
LEMMA CheckInv ==
    ASSUME OnboardingInv, NEW q \in OnboardingRequest,
           CheckStep(q) \/ CheckSession(q) \/ CheckComplete(q)
    PROVE  OnboardingInv'
<1>1. requests[q] \in Request BY DEF OnboardingInv
<1>2. findings \in Finding BY DEF OnboardingInv
<1>3. UNCHANGED <<session, findings>> BY DEF CheckStep, CheckSession, CheckComplete
<1>4. /\ requests' \in [OnboardingRequest -> Request]
      /\ \A p \in OnboardingRequest :
            requests'[p].op = "step" /\ requests'[p].step = VALIDATION
               => requests'[p].found \in Finding
  <2>1. CASE CheckStep(q)
    <3> DEFINE request == [requests[q] EXCEPT !.op = "step", !.found = findings]
    <3>1. requests[q] \in CheckingStep BY <2>1, <1>1, RequestKinds DEF CheckStep
    <3>2. request \in ApplyingStep /\ request.found = findings
      BY <3>1, <1>2 DEF CheckingStep, ApplyingStep
    <3>3. Ends(q) \/ Proceeds(q, request) BY <2>1 DEF CheckStep
    <3>4. request \in Request BY <3>2 DEF Request
    <3> HIDE DEF request
    <3> QED BY <3>2, <3>3, <3>4, <1>2, ProceedsOK, EndsOK
  <2>2. CASE CheckSession(q)
    <3> DEFINE request == [requests[q] EXCEPT !.op = "validate", !.found = findings]
    <3>1. requests[q] \in Checking BY <2>2, <1>1, RequestKinds DEF CheckSession
    <3>2. request \in Concluding /\ request.op # "step" BY <3>1, <1>2 DEF Checking, Concluding
    <3>3. Proceeds(q, request) BY <2>2 DEF CheckSession
    <3>4. request \in Request BY <3>2 DEF Request
    <3> HIDE DEF request
    <3> QED BY <3>2, <3>3, <3>4, ProceedsOK
  <2>3. CASE CheckComplete(q)
    <3> DEFINE request == [requests[q] EXCEPT !.op = "complete", !.found = findings]
    <3>1. requests[q] \in Checking BY <2>3, <1>1, RequestKinds DEF CheckComplete
    <3>2. request \in Concluding /\ request.op # "step" BY <3>1, <1>2 DEF Checking, Concluding
    <3>3. Ends(q) \/ Proceeds(q, request) BY <2>3 DEF CheckComplete
    <3>4. request \in Request BY <3>2 DEF Request
    <3> HIDE DEF request
    <3> QED BY <3>2, <3>3, <3>4, ProceedsOK, EndsOK
  <2> QED BY <2>1, <2>2, <2>3
<1> QED BY <1>3, <1>4 DEF OnboardingInv, CompletedIsValidated

\* A step that is applied leaves the session open.
LEMMA ApplyStepInv ==
    ASSUME OnboardingInv, NEW q \in OnboardingRequest, ApplyStep(q)
    PROVE  OnboardingInv'
<1> DEFINE request == requests[q]
           steps == IF request.complete THEN request.row.completedSteps \cup {request.step}
                                        ELSE request.row.completedSteps
           status == IF LastConfigStep \in steps THEN "READY_FOR_VALIDATION"
                     ELSE IF request.row.status \in {"DRAFT", "BLOCKED"} THEN "IN_PROGRESS"
                     ELSE request.row.status
           current == IF request.complete THEN frontierStep(steps) ELSE request.row.currentStep
           last == IF request.step = VALIDATION THEN request.found ELSE session.lastValidation
           accepted == Accepted(request.payload, session.accepted)
<1>1. request \in ApplyingStep BY RequestKinds DEF OnboardingInv, ApplyStep
<1>2. request.row \in Session(OpenSession) BY <1>1 DEF ApplyingStep
<1>3. steps \in SUBSET StepKey BY <1>1, <1>2 DEF ApplyingStep, Session
<1>4. current \in CurrentStep BY <1>2, <1>3 DEF Session, CurrentStep
<1>5. status \in OpenSession BY <1>2 DEF Session, OpenSession
<1>6. last \in Finding \cup {"none"} BY <1>1 DEF ApplyingStep, OnboardingInv, AnySession, Session
<1>7. accepted \in BOOLEAN BY DEF Accepted, OnboardingInv, AnySession, Session
<1>8. session' = [session EXCEPT !.completedSteps = steps, !.currentStep = current,
                     !.status = status, !.accepted = accepted, !.lastValidation = last]
  BY DEF ApplyStep
<1>9. session' \in AnySession /\ session'.status = status
  <2> HIDE DEF steps, current, status, accepted, last
  <2> QED BY <1>3, <1>4, <1>5, <1>6, <1>7, <1>8 DEF OnboardingInv, AnySession, Session
<1>10. CompletedIsValidated' BY <1>5, <1>9 DEF OpenSession, CompletedIsValidated
<1> QED BY <1>9, <1>10, EndsOK DEF ApplyStep, OnboardingInv

\* A request that writes what it found beside the status that goes with it, or
\* cancels, keeps COMPLETED away from errors.
LEMMA WriteInv ==
    ASSUME OnboardingInv, NEW q \in OnboardingRequest,
           ValidateOnboarding(q) \/ CompleteOnboarding(q) \/ CancelOnboarding(q)
    PROVE  OnboardingInv'
<1>1. requests[q].op \in {"validate", "complete"} => requests[q] \in Concluding
  BY RequestKinds DEF OnboardingInv
<1>2. Ends(q) /\ UNCHANGED findings
  BY DEF ValidateOnboarding, CompleteOnboarding, CancelOnboarding
<1>3. session' \in AnySession /\ CompletedIsValidated'
  <2>1. CASE ValidateOnboarding(q)
    BY <1>1, <2>1 DEF ValidateOnboarding, Concluding, OnboardingInv, AnySession, Session,
                      OpenSession, Finding, CompletedIsValidated
  <2>2. CASE CompleteOnboarding(q)
    BY <1>1, <2>2 DEF CompleteOnboarding, Concluding, OnboardingInv, AnySession, Session,
                      OpenSession, Finding, CompletedIsValidated
  <2>3. CASE CancelOnboarding(q)
    BY <2>3 DEF CancelOnboarding, OnboardingInv, AnySession, Session, CompletedIsValidated
  <2> QED BY <2>1, <2>2, <2>3
<1> QED BY <1>2, <1>3, EndsOK DEF OnboardingInv

\* Every step of the module keeps the invariant.
LEMMA OnboardingStepInv == OnboardingInv /\ [OnboardingNext]_onboardingVars => OnboardingInv'
<1> SUFFICES ASSUME OnboardingInv, [OnboardingNext]_onboardingVars PROVE OnboardingInv' OBVIOUS
<1>1. ASSUME NEW q \in OnboardingRequest, NEW step \in StepKey, NEW complete \in BOOLEAN,
             NEW payload \in {"none", "accept", "withdraw"}, LoadStep(q, step, complete, payload)
      PROVE  OnboardingInv'
  BY <1>1, LoadStepInv
<1>2. ASSUME NEW q \in OnboardingRequest, NEW op \in {"check", "check complete", "cancel"},
             LoadSession(q, op)
      PROVE  OnboardingInv'
  BY <1>2, LoadSessionInv
<1>3. ASSUME NEW q \in OnboardingRequest, CheckStep(q) \/ CheckSession(q) \/ CheckComplete(q)
      PROVE  OnboardingInv'
  BY <1>3, CheckInv
<1>4. ASSUME NEW q \in OnboardingRequest, ApplyStep(q) PROVE OnboardingInv'
  BY <1>4, ApplyStepInv
<1>5. ASSUME NEW q \in OnboardingRequest,
             ValidateOnboarding(q) \/ CompleteOnboarding(q) \/ CancelOnboarding(q)
      PROVE  OnboardingInv'
  BY <1>5, WriteInv
<1>6. ASSUME NEW q \in OnboardingRequest, RequestRefused(q) PROVE OnboardingInv'
  BY <1>6, EndsOK DEF RequestRefused, OnboardingInv, CompletedIsValidated
<1>7. CASE ConfigurationChanges
  BY <1>7 DEF ConfigurationChanges, OnboardingInv, CompletedIsValidated
<1>8. CASE UNCHANGED onboardingVars
  BY <1>8 DEF onboardingVars, OnboardingInv, CompletedIsValidated
<1> QED BY <1>1, <1>2, <1>3, <1>4, <1>5, <1>6, <1>7, <1>8 DEF OnboardingNext

\* Whatever requests overlap, a session marked COMPLETED has a last validation
\* without errors beside it: CompletedIsValidated for any number of steps and
\* requests.
THEOREM OnboardingIsValidated == OnboardingSpec => []CompletedIsValidated
<1>1. OnboardingInv => CompletedIsValidated BY DEF OnboardingInv
<1> QED BY <1>1, OnboardingInitInv, OnboardingStepInv, PTL DEF OnboardingSpec

-----------------------------------------------------------------------------
(* Types of onboarding                                                     *)

\* Steps are completed in their order, and the current one is the first that
\* is missing: of the session, and of every session a request has loaded, for
\* a slower request writes its steps back.  A step that is about to be
\* completed follows those the request has loaded.
InOrder(row) ==
    /\ \A s \in row.completedSteps : 1..s \subseteq row.completedSteps
    /\ row.currentStep = frontierStep(row.completedSteps)

Follows(request) ==
    request.op \in {"check step", "step"} /\ request.complete =>
        canCompleteStep(request.row.completedSteps, request.step)

OrderInv ==
    /\ OnboardingInv /\ configChanges \in 0..MaxConfigChanges
    /\ InOrder(session)
    /\ \A q \in OnboardingRequest :
          requests[q].op # "none" => InOrder(requests[q].row) /\ Follows(requests[q])

\* A set of numbers has a least one.
LEMMA LeastStep ==
    ASSUME NEW S \in SUBSET Nat, S # {}
    PROVE  \E s \in S : \A m \in S : s <= m
<1>1. PICK s \in S : \A m \in S : ~(<<m, s>> \in OpToRel(<, Nat))
   BY NatLessThanWellFounded, WFMin, Zenon
<1>2. \A m \in S : ~(m < s) BY <1>1, Zenon DEF OpToRel
<1> QED BY <1>2

\* There is a first step that is missing, unless none is.
LEMMA Frontier ==
    ASSUME NEW steps \in SUBSET StepKey
    PROVE  frontierStep(steps) \in StepKey
<1>1. LastConfigStep \in Nat BY OnboardingAssumption
<1>2. CASE steps = StepKey BY <1>1, <1>2 DEF frontierStep, StepKey, PILOT_READINESS
<1>3. CASE steps # StepKey
  <2> DEFINE missing == StepKey \ steps
  <2>1. missing # {} BY <1>3
  <2>2. StepKey \subseteq Nat BY <1>1 DEF StepKey, PILOT_READINESS
  <2>3. PICK s \in missing : \A m \in missing : s <= m
    <3>1. missing \in SUBSET Nat BY <2>2
    <3> HIDE DEF missing
    <3> QED BY <2>1, <3>1, LeastStep
  <2>4. 1..(s - 1) \subseteq steps
    <3> SUFFICES ASSUME NEW m \in 1..(s - 1) PROVE m \in steps OBVIOUS
    <3>1. m \in StepKey /\ m < s BY <1>1 DEF StepKey, PILOT_READINESS
    <3> QED BY <2>3, <3>1
  <2>5. frontierStep(steps) = CHOOSE t \in StepKey \ steps : 1..(t - 1) \subseteq steps
      BY <1>3 DEF frontierStep
  <2> QED BY <2>4, <2>5
<1> QED BY <1>2, <1>3

\* Nothing is completed at first.
LEMMA OrderStarts == OnboardingInit => OrderInv
<1> SUFFICES ASSUME OnboardingInit PROVE OrderInv OBVIOUS
<1>1. session.completedSteps = {} /\ session.currentStep = 1 /\ configChanges = 0
      /\ \A q \in OnboardingRequest : requests[q].op = "none"
    BY DEF OnboardingInit, NoRequest
<1>2. frontierStep({}) = 1
  <2>1. LastConfigStep \in Nat BY OnboardingAssumption
  <2>2. 1 \in StepKey /\ StepKey \subseteq Nat \ {0} BY <2>1 DEF StepKey, PILOT_READINESS
  <2>3. 1..(1 - 1) \subseteq {} OBVIOUS
  <2>4. \A s \in StepKey : 1..(s - 1) \subseteq {} => s = 1
    <3> SUFFICES ASSUME NEW s \in StepKey, s # 1 PROVE 1 \in 1..(s - 1) OBVIOUS
    <3> QED BY <2>2
  <2>5. frontierStep({}) = CHOOSE s \in StepKey : 1..(s - 1) \subseteq {}
      BY <2>2 DEF frontierStep
  <2> QED BY <2>2, <2>3, <2>4, <2>5
<1>3. InOrder(session) BY <1>1, <1>2 DEF InOrder
<1> QED BY <1>1, <1>3, OnboardingInitInv, OnboardingAssumption DEF OrderInv

\* A step of a request that leaves the session alone.
LEMMA RequestInOrder ==
    ASSUME OrderInv, OnboardingInv', NEW q \in OnboardingRequest, NEW request, Proceeds(q, request),
           UNCHANGED <<session, configChanges>>,
           request.op # "none" => InOrder(request.row) /\ Follows(request)
    PROVE  OrderInv'
<1>1. requests'[q] = request /\ \A p \in OnboardingRequest \ {q} : requests'[p] = requests[p]
    BY DEF Proceeds, OrderInv, OnboardingInv
<1> QED BY <1>1 DEF OrderInv

\* A step that writes the session and ends the request.
LEMMA SessionInOrder ==
    ASSUME OrderInv, OnboardingInv', NEW q \in OnboardingRequest, Ends(q), InOrder(session'),
           UNCHANGED configChanges
    PROVE  OrderInv'
<1>1. /\ requests'[q].op = "none"
      /\ \A p \in OnboardingRequest \ {q} : requests'[p] = requests[p]
    BY DEF Ends, Proceeds, OrderInv, OnboardingInv, NoRequest
<1> QED BY <1>1 DEF OrderInv

\* Loading and checking.
LEMMA ReadsInOrder ==
    ASSUME OrderInv, OnboardingInv', NEW q \in OnboardingRequest,
           \/ \E step \in StepKey, complete \in BOOLEAN, payload \in {"none", "accept", "withdraw"} :
                 LoadStep(q, step, complete, payload)
           \/ \E op \in {"check", "check complete", "cancel"} : LoadSession(q, op)
           \/ CheckStep(q) \/ CheckSession(q) \/ CheckComplete(q) \/ RequestRefused(q)
    PROVE  OrderInv'
<1>1. requests[q] \in Request BY DEF OrderInv, OnboardingInv
<1>2. NoRequest.op = "none" BY DEF NoRequest
<1>3. InOrder(session) BY DEF OrderInv
<1>4. ASSUME NEW step \in StepKey, NEW complete \in BOOLEAN,
             NEW payload \in {"none", "accept", "withdraw"}, LoadStep(q, step, complete, payload)
      PROVE  OrderInv'
  <2> DEFINE request == [op |-> IF step = VALIDATION THEN "check step" ELSE "step", row |-> session,
                         step |-> step, complete |-> complete, payload |-> payload,
                         found |-> "none"]
  <2>1. Proceeds(q, request) /\ UNCHANGED <<session, configChanges>> BY <1>4 DEF LoadStep
  <2>2. complete => canCompleteStep(session.completedSteps, step) BY <1>4 DEF LoadStep
  <2>3. request.row = session /\ request.step = step /\ request.complete = complete OBVIOUS
  <2> HIDE DEF request
  <2>4. InOrder(request.row) /\ Follows(request) BY <1>3, <2>2, <2>3 DEF Follows
  <2> QED BY <2>1, <2>4, RequestInOrder
<1>5. ASSUME NEW op \in {"check", "check complete", "cancel"}, LoadSession(q, op) PROVE OrderInv'
  <2> DEFINE request == [op |-> op, row |-> session, found |-> "none"]
  <2>1. Proceeds(q, request) /\ UNCHANGED <<session, configChanges>> BY <1>5 DEF LoadSession
  <2>2. request.row = session /\ request.op \notin {"check step", "step"} OBVIOUS
  <2> HIDE DEF request
  <2>3. InOrder(request.row) /\ Follows(request) BY <1>3, <2>2 DEF Follows
  <2> QED BY <2>1, <2>3, RequestInOrder
<1>6. ASSUME Ends(q), UNCHANGED <<session, configChanges>> PROVE OrderInv'
    BY <1>2, <1>6, RequestInOrder DEF Ends
<1>7. ASSUME NEW to, NEW found, requests[q].op # "none", to # "none",
             requests[q].op = "check step" \/ to \notin {"check step", "step"},
             Proceeds(q, [requests[q] EXCEPT !.op = to, !.found = found]),
             UNCHANGED <<session, configChanges>>
      PROVE  OrderInv'
  <2> DEFINE request == [requests[q] EXCEPT !.op = to, !.found = found]
  <2>1. /\ request.row = requests[q].row
        /\ requests[q].op = "check step" =>
              request.step = requests[q].step /\ request.complete = requests[q].complete
        /\ request.op = to
    <3>1. CASE requests[q] \in CheckingStep BY <3>1 DEF CheckingStep
    <3>2. CASE requests[q] \in ApplyingStep BY <3>2 DEF ApplyingStep
    <3>3. CASE requests[q] \in Checking BY <3>3 DEF Checking
    <3>4. CASE requests[q] \in Concluding BY <3>4 DEF Concluding
    <3>5. requests[q] \in CheckingStep \cup ApplyingStep \cup Checking \cup Concluding
        BY <1>1, <1>2, <1>7 DEF Request
    <3> HIDE DEF request
    <3> QED BY <3>1, <3>2, <3>3, <3>4, <3>5
  <2>2. InOrder(requests[q].row) /\ Follows(requests[q]) BY <1>7 DEF OrderInv
  <2>3. Proceeds(q, request) BY <1>7
  <2> HIDE DEF request
  <2>4. InOrder(request.row) /\ Follows(request) BY <1>7, <2>1, <2>2 DEF Follows
  <2> QED BY <1>7, <2>3, <2>4, RequestInOrder
<1>8. CASE CheckStep(q)
  <2>1. /\ requests[q].op = "check step" /\ UNCHANGED <<session, configChanges>>
        /\ Ends(q) \/ Proceeds(q, [requests[q] EXCEPT !.op = "step", !.found = findings])
      BY <1>8 DEF CheckStep
  <2> QED BY <1>6, <1>7, <2>1
<1>9. CASE CheckSession(q)
  <2>1. /\ requests[q].op = "check" /\ UNCHANGED <<session, configChanges>>
        /\ Proceeds(q, [requests[q] EXCEPT !.op = "validate", !.found = findings])
      BY <1>9 DEF CheckSession
  <2> QED BY <1>7, <2>1
<1>10. CASE CheckComplete(q)
  <2>1. /\ requests[q].op = "check complete" /\ UNCHANGED <<session, configChanges>>
        /\ Ends(q) \/ Proceeds(q, [requests[q] EXCEPT !.op = "complete", !.found = findings])
      BY <1>10 DEF CheckComplete
  <2> QED BY <1>6, <1>7, <2>1
<1>11. CASE RequestRefused(q) BY <1>6, <1>11 DEF RequestRefused
<1> QED BY <1>4, <1>5, <1>8, <1>9, <1>10, <1>11

\* Applying a step writes the steps that were loaded, with the step that
\* follows them.
LEMMA ApplyInOrder ==
    ASSUME OrderInv, OnboardingInv', NEW q \in OnboardingRequest, ApplyStep(q)
    PROVE  OrderInv'
<1> DEFINE request == requests[q]
           row == request.row
           steps == IF request.complete THEN row.completedSteps \cup {request.step} ELSE row.completedSteps
           current == IF request.complete THEN frontierStep(steps) ELSE row.currentStep
<1>1. request.op = "step" /\ Ends(q) /\ UNCHANGED configChanges BY DEF ApplyStep
<1>2. request \in ApplyingStep BY <1>1, RequestKinds DEF OrderInv, OnboardingInv
<1>3. InOrder(row) /\ Follows(request) BY <1>1 DEF OrderInv
<1>4. session'.completedSteps = steps /\ session'.currentStep = current
  <2>1. session \in AnySession BY DEF OrderInv, OnboardingInv
  <2> QED BY <2>1 DEF ApplyStep, AnySession, Session
<1>5. request.step \in StepKey /\ StepKey \subseteq Nat \ {0} /\ row.completedSteps \subseteq StepKey
    BY <1>2, OnboardingAssumption DEF ApplyingStep, Session, StepKey, PILOT_READINESS
<1>6. \A s \in steps : 1..s \subseteq steps
  <2>1. CASE ~request.complete BY <1>3, <2>1 DEF InOrder
  <2>2. CASE request.complete
    <3>1. 1..(request.step - 1) \subseteq row.completedSteps
        BY <1>1, <1>3, <2>2 DEF Follows, canCompleteStep
    <3>2. 1..request.step \subseteq row.completedSteps \cup {request.step}
      <4>1. request.step \in Nat \ {0} BY <1>5
      <4>2. \A k \in 1..request.step : k = request.step \/ k \in 1..(request.step - 1) BY <4>1
      <4> QED BY <3>1, <4>2
    <3>3. \A s \in row.completedSteps : 1..s \subseteq row.completedSteps BY <1>3 DEF InOrder
    <3> QED BY <2>2, <3>2, <3>3
  <2> QED BY <2>1, <2>2
<1>7. current = frontierStep(steps) BY <1>3 DEF InOrder
<1>8. InOrder(session') BY <1>4, <1>6, <1>7 DEF InOrder
<1> QED BY <1>1, <1>8, SessionInOrder

\* The other writes leave the steps as they are.
LEMMA WritesInOrder ==
    ASSUME OrderInv, OnboardingInv', NEW q \in OnboardingRequest,
           ValidateOnboarding(q) \/ CompleteOnboarding(q) \/ CancelOnboarding(q)
    PROVE  OrderInv'
<1>1. Ends(q) /\ UNCHANGED configChanges
    BY DEF ValidateOnboarding, CompleteOnboarding, CancelOnboarding
<1>2. session \in AnySession /\ InOrder(session) BY DEF OrderInv, OnboardingInv
<1>3. session'.completedSteps = session.completedSteps /\ session'.currentStep = session.currentStep
    BY <1>2 DEF ValidateOnboarding, CompleteOnboarding, CancelOnboarding, AnySession, Session
<1>4. InOrder(session') BY <1>2, <1>3 DEF InOrder
<1> QED BY <1>1, <1>4, SessionInOrder

LEMMA OrderStep == OrderInv /\ [OnboardingNext]_onboardingVars => OrderInv'
<1> SUFFICES ASSUME OrderInv, [OnboardingNext]_onboardingVars PROVE OrderInv' OBVIOUS
<1>1. OnboardingInv' BY OnboardingStepInv DEF OrderInv
<1>2. CASE UNCHANGED onboardingVars BY <1>1, <1>2 DEF onboardingVars, OrderInv
<1>3. CASE ConfigurationChanges
    BY <1>1, <1>3, OnboardingAssumption DEF ConfigurationChanges, OrderInv
<1>4. ASSUME NEW q \in OnboardingRequest,
             \/ \E step \in StepKey, complete \in BOOLEAN, payload \in {"none", "accept", "withdraw"} :
                   LoadStep(q, step, complete, payload)
             \/ \E op \in {"check", "check complete", "cancel"} : LoadSession(q, op)
             \/ CheckStep(q) \/ CheckSession(q) \/ CheckComplete(q)
             \/ ApplyStep(q) \/ ValidateOnboarding(q) \/ CompleteOnboarding(q)
             \/ CancelOnboarding(q) \/ RequestRefused(q)
      PROVE  OrderInv'
    BY <1>1, <1>4, ReadsInOrder, ApplyInOrder, WritesInOrder
<1> QED BY <1>2, <1>3, <1>4 DEF OnboardingNext

\* What TLC checks of the session.
LEMMA OrderTypes == OrderInv => OnboardingTypeOK
<1> SUFFICES ASSUME OrderInv PROVE OnboardingTypeOK OBVIOUS
<1>1. session \in AnySession /\ findings \in Finding /\ InOrder(session) BY DEF OrderInv, OnboardingInv
<1>2. session.completedSteps \in SUBSET StepKey BY <1>1 DEF AnySession, Session
<1>3. session.currentStep \in StepKey BY <1>1, <1>2, Frontier DEF InOrder
<1>4. session \in [status : OpenSession \cup {"COMPLETED", "CANCELLED"}, completedSteps : SUBSET StepKey,
                   currentStep : StepKey, lastValidation : Finding \cup {"none"}, accepted : BOOLEAN]
    BY <1>1, <1>3 DEF AnySession, Session
<1> QED BY <1>1, <1>4 DEF OnboardingTypeOK, InOrder, OrderInv

\* The steps of an onboarding session are completed in their order, none is
\* left out and the current one is the first that is missing, although a slower
\* request writes back the steps it loaded before others were completed
\* (applyOnboardingStep), for any number of steps and requests.
THEOREM StepsStayInOrder == OnboardingSpec => []OnboardingTypeOK
BY OrderStarts, OrderStep, OrderTypes, PTL DEF OnboardingSpec
=============================================================================

----------------------------- MODULE LocalStore -----------------------------
(***************************************************************************)
(* The local store of an edge gateway (apps/edge/src/store): one JSON      *)
(* document, read and rewritten whole by every mutation, with the steps of *)
(* atomicWriteJson and the recovery of recoverTempFile.  The content of a  *)
(* file is the set of the mutations it has in it.  Mutations wait for each *)
(* other in the promise chain writeQueue; crashes come between any steps.  *)
(***************************************************************************)
EXTENDS Naturals

CONSTANTS
    Write,           \* the mutations that may be asked for
    MaxStoreFaults,  \* bound on crashes and failing calls of the file system
    Missing          \* a file that does not exist

ASSUME StoreAssumption == (\A S \in SUBSET Write : Missing # S) /\ MaxStoreFaults \in Nat

VARIABLES
    storeFile, backupFile,  \* store.json and store.json.bak
    tempFile,               \* the temporary file of the running mutation
    recovered,              \* LocalStore.recovered
    asked,                  \* mutations waiting in writeQueue or running
    writing, storeStep,     \* the running mutation and how far it is
    confirmed,              \* mutations whose promise was fulfilled
    storeFaults

storeFiles == <<storeFile, backupFile, tempFile>>
storeVars  == <<storeFiles, recovered, asked, writing, storeStep, confirmed, storeFaults>>

StoreInit ==
    /\ storeFile = Missing /\ backupFile = Missing /\ tempFile = Missing
    /\ recovered = FALSE
    /\ asked = {} /\ writing = Missing /\ storeStep = "idle"
    /\ confirmed = {}
    /\ storeFaults = 0

StoreFault == storeFaults < MaxStoreFaults /\ storeFaults' = storeFaults + 1

\* What readFile and JSON.parse give: a missing file is an empty store.
Content(file) == IF file = Missing THEN {} ELSE file

\* mutate: the mutation joins the chain.
Mutate(w) ==
    /\ w \notin asked \cup confirmed
    /\ asked' = asked \cup {w}
    /\ UNCHANGED <<storeFiles, recovered, writing, storeStep, confirmed, storeFaults>>

\* recoverTempFile, once in the life of a process: the backup is the store
\* when the store is missing.
RecoverTempFile ==
    /\ recovered' = TRUE
    /\ IF recovered \/ storeFile # Missing \/ backupFile = Missing
       THEN UNCHANGED <<storeFile, backupFile>>
       ELSE storeFile' = backupFile /\ backupFile' = Missing

\* The next mutation reads the store and writes its version of it to a
\* temporary file of its own.
WriteTemp(w) ==
    /\ storeStep = "idle" /\ w \in asked
    /\ RecoverTempFile
    /\ writing' = w
    /\ tempFile' = Content(storeFile') \cup {w}
    /\ storeStep' = "temp"
    /\ UNCHANGED <<asked, confirmed, storeFaults>>

\* rename replaces the store in one step where the system allows it.
RenameOver ==
    /\ storeStep = "temp"
    /\ storeFile' = tempFile
    /\ storeStep' = "done"
    /\ UNCHANGED <<backupFile, tempFile, recovered, asked, writing, confirmed, storeFaults>>

\* Where it does not, the old backup goes, the store becomes the backup,
\* and the temporary file becomes the store.
DropBackup ==
    /\ storeStep = "temp"
    /\ backupFile' = Missing
    /\ storeStep' = "dropped"
    /\ UNCHANGED <<storeFile, tempFile, recovered, asked, writing, confirmed, storeFaults>>

KeepBackup ==
    /\ storeStep = "dropped"
    /\ IF storeFile = Missing THEN UNCHANGED <<storeFile, backupFile>>
       ELSE backupFile' = storeFile /\ storeFile' = Missing
    /\ storeStep' = "kept"
    /\ UNCHANGED <<tempFile, recovered, asked, writing, confirmed, storeFaults>>

Replace ==
    /\ storeStep = "kept"
    /\ storeFile' = tempFile
    /\ storeStep' = "replaced"
    /\ UNCHANGED <<backupFile, tempFile, recovered, asked, writing, confirmed, storeFaults>>

RemoveBackup ==
    /\ storeStep = "replaced"
    /\ backupFile' = Missing
    /\ storeStep' = "done"
    /\ UNCHANGED <<storeFile, tempFile, recovered, asked, writing, confirmed, storeFaults>>

\* Mutant: the mutation is over and its last step is kept.
RestInPlace ==
    /\ writing' = Missing
    /\ tempFile' = Missing
    /\ UNCHANGED storeStep

Rest ==
    /\ writing' = Missing
    /\ tempFile' = Missing
    /\ storeStep' = "idle"

\* Mutant: the caller hears of the mutation before it is in the store.
ConfirmEarly ==
    /\ storeStep # "idle"
    /\ confirmed' = confirmed \cup {writing}
    /\ asked' = asked \ {writing}
    /\ Rest
    /\ UNCHANGED <<storeFile, backupFile, recovered, storeFaults>>

\* The promise of mutate is fulfilled.
Confirmed ==
    /\ storeStep = "done"
    /\ confirmed' = confirmed \cup {writing}
    /\ asked' = asked \ {writing}
    /\ Rest
    /\ UNCHANGED <<storeFile, backupFile, recovered, storeFaults>>

\* A full disk: the temporary file cannot be written, and mutate rejects.
WriteFails ==
    /\ storeStep = "temp" /\ StoreFault
    /\ asked' = asked \ {writing}
    /\ Rest
    /\ UNCHANGED <<storeFile, backupFile, recovered, confirmed>>

\* The process stops; files stay, promises do not.
StoreCrash ==
    /\ StoreFault
    /\ recovered' = FALSE
    /\ asked' = {}
    /\ Rest
    /\ UNCHANGED <<storeFile, backupFile, confirmed>>

StoreNext ==
    \/ \E w \in Write : Mutate(w) \/ WriteTemp(w)
    \/ RenameOver
    \/ DropBackup \/ KeepBackup \/ Replace \/ RemoveBackup
    \/ Confirmed
    \/ WriteFails
    \/ StoreCrash

StoreSpec == StoreInit /\ [][StoreNext]_storeVars

-----------------------------------------------------------------------------
(* Properties                                                              *)

\* What a process that starts now finds.
Stored == Content(IF storeFile = Missing THEN backupFile ELSE storeFile)

IsFile(file) == file = Missing \/ file \subseteq Write

StoreTypeOK ==
    /\ IsFile(storeFile) /\ IsFile(backupFile) /\ IsFile(tempFile)
    /\ recovered \in BOOLEAN
    /\ asked \subseteq Write /\ confirmed \subseteq Write
    /\ storeStep # "idle" => writing \in Write
    /\ storeStep \in {"idle", "temp", "dropped", "kept", "replaced", "done"}
    /\ storeFaults \in 0..MaxStoreFaults

\* docs/offline-first.md: a restart must not lose what was acknowledged as
\* stored, wherever between two steps of a rewrite the process stopped.
ConfirmedSurvives == confirmed \subseteq Stored

Log == INSTANCE DurableLog WITH log <- Stored, acked <- confirmed

\* The steps of a rewrite, the recovery and crashes included, come down to one
\* step that stores a single mutation and one that confirms it.
ImplementsDurableLog == Log!Spec
=============================================================================

---------------------------- MODULE SyncedFiles ----------------------------
(***************************************************************************)
(* Documents scanned at a gateway on their way to the visit they belong to *)
(* (apps/edge offline/files.ts, offline/operator.ts, store/localStore.ts,  *)
(* sync/syncLoop.ts; apps/api modules/sync/files.ts, modules/edge/         *)
(* ingest.ts).  A capture writes the file, records it in the local store   *)
(* and queues an event that names it.  A tick uploads the files first and  *)
(* then sends the events; the backend keeps a file once for its id and its *)
(* content, and makes a document of it when the event comes.  Requests go  *)
(* on at the backend after their reply is lost.                            *)
(***************************************************************************)
EXTENDS Naturals, Sequences, FiniteSets, FiniteSetsExt, SequencesExt

CONSTANTS
    ScanCall,       \* calls of captureScan; each draws a file id of its own
    ContentOf,      \* the bytes a capture reads from the scanner
    Refused,        \* contents over the size the backend's parser accepts
    Post,           \* requests that may be open at the backend at once
    UploadLimit,    \* files a tick uploads at most: slice(0, 5)
    MaxFileFaults   \* bound on stops and lost replies

ASSUME FilesAssumption == UploadLimit \in Nat \ {0} /\ MaxFileFaults \in Nat

VARIABLES
    capturing,     \* how far each capture has come, and the file it names
    fileRows,     \* the file records of the local store, oldest first
    scanEvent,    \* status of the queued event of each capture
    uploader,     \* the tick: its step, the records it has left (their places in
                  \* fileRows), its open request
    posts,        \* the requests at the backend
    syncedFiles,  \* EdgeSyncedFile rows
    visitMapped,  \* the event that opens the visit has been applied
    scanRow,      \* EdgeIngestedEvent.status of each scan event
    documents,    \* the documents made for each scan event
    fileFaults

edgeFiles == <<capturing, fileRows, scanEvent>>
apiFiles  == <<syncedFiles, visitMapped, scanRow, documents>>
fileVars  == <<edgeFiles, uploader, posts, apiFiles, fileFaults>>

NoPost == [step |-> "none"]
IdleTick   == [step |-> "idle", files |-> {}]
NoTick    == [step |-> "off", files |-> {}]

Contents == {ContentOf[c] : c \in ScanCall}

FilesInit ==
    /\ capturing = [c \in ScanCall |-> [step |-> "none", file |-> c]]
    /\ fileRows = <<>>
    /\ scanEvent = [c \in ScanCall |-> "none"]
    /\ uploader = IdleTick
    /\ posts = [p \in Post |-> NoPost]
    /\ syncedFiles = {}
    /\ visitMapped = FALSE
    /\ scanRow = [c \in ScanCall |-> "none"]
    /\ documents = [c \in ScanCall |-> <<>>]
    /\ fileFaults = 0

\* A request for events, between two of them.
Batch(left, done) == [step |-> "next", left |-> left, done |-> done]

\* The backend has a file of this id or of this content.
Known(file, content) == \E f \in syncedFiles : f.file = file \/ f.content = content

GatewayUp == uploader.step # "off"
-----------------------------------------------------------------------------
(* captureScan                                                             *)

CaptureStep(c, step, file) == capturing' = [capturing EXCEPT ![c] = [step |-> step, file |-> file]]

\* storeLocalFile: the bytes are on disk under an id of their own ...
WriteFile(c) ==
    /\ GatewayUp /\ capturing[c].step = "none"
    /\ CaptureStep(c, "written", c)
    /\ UNCHANGED <<fileRows, scanEvent, uploader, posts, apiFiles, fileFaults>>

\* ... and get a record, unless there is one of the same content already.
AddFile(c) ==
    LET same == {n \in 1..Len(fileRows) : fileRows[n].content = ContentOf[c]} IN
    /\ GatewayUp /\ capturing[c].step = "written"
    /\ IF same = {}
       THEN /\ fileRows' = Append(fileRows, [file |-> c, content |-> ContentOf[c], synced |-> FALSE])
            /\ CaptureStep(c, "recorded", c)
       ELSE /\ CaptureStep(c, "recorded", fileRows[CHOOSE n \in same : TRUE].file)
            /\ UNCHANGED fileRows
    /\ UNCHANGED <<scanEvent, uploader, posts, apiFiles, fileFaults>>

EnqueueScan(c) ==
    /\ GatewayUp /\ capturing[c].step = "recorded"
    /\ CaptureStep(c, "queued", capturing[c].file)
    /\ scanEvent' = [scanEvent EXCEPT ![c] = "PENDING"]
    /\ UNCHANGED <<fileRows, uploader, posts, apiFiles, fileFaults>>
-----------------------------------------------------------------------------
(* The tick                                                                *)

PendingScans == {c \in ScanCall : scanEvent[c] = "PENDING"}
PendingFiles == {n \in 1..Len(fileRows) : ~fileRows[n].synced}
Oldest(files, k) == {n \in files : Cardinality({m \in files : m < n}) < k}

TickStarts ==
    /\ uploader = IdleTick
    /\ uploader' = [step |-> "files", files |-> Oldest(PendingFiles, UploadLimit)]
    /\ UNCHANGED <<edgeFiles, posts, apiFiles, fileFaults>>

WithoutFirst(files) == files \ {Min(files)}

\* Mutant: a file is recorded as synchronized when it has been sent.
SendFileAndMark(p) ==
    /\ uploader.step = "files" /\ uploader.files # {} /\ posts[p] = NoPost
    /\ LET row == fileRows[Min(uploader.files)] IN
       /\ fileRows' = [n \in 1..Len(fileRows) |->
             IF fileRows[n].file = row.file THEN [fileRows[n] EXCEPT !.synced = TRUE] ELSE fileRows[n]]
       /\ IF row.content \in Refused
          THEN uploader' = [uploader EXCEPT !.files = WithoutFirst(@)] /\ UNCHANGED posts
          ELSE /\ posts' = [posts EXCEPT ![p] = [step |-> "find", row |-> row]]
               /\ uploader' = [step |-> "upload", files |-> uploader.files, post |-> p]
    /\ UNCHANGED <<capturing, scanEvent, apiFiles, fileFaults>>

\* uploadPendingFiles: one request after the other; a file the backend refuses
\* is logged and left for the next tick.
SendFile(p) ==
    /\ uploader.step = "files" /\ uploader.files # {} /\ posts[p] = NoPost
    /\ LET row == fileRows[Min(uploader.files)] IN
       IF row.content \in Refused
       THEN uploader' = [uploader EXCEPT !.files = WithoutFirst(@)] /\ UNCHANGED posts
       ELSE /\ posts' = [posts EXCEPT ![p] = [step |-> "find", row |-> row]]
            /\ uploader' = [step |-> "upload", files |-> uploader.files, post |-> p]
    /\ UNCHANGED <<edgeFiles, apiFiles, fileFaults>>

\* The answer: stored, stored already, or refused by a unique key; then the
\* file is still pending.
FileAnswered ==
    /\ uploader.step = "upload"
    /\ posts[uploader.post].step \in {"stored", "refused"}
    /\ LET row == fileRows[Min(uploader.files)]
           stored == posts[uploader.post].step = "stored"
       IN  fileRows' = [n \in 1..Len(fileRows) |->
              IF stored /\ fileRows[n].file = row.file THEN [fileRows[n] EXCEPT !.synced = TRUE]
                                                       ELSE fileRows[n]]
    /\ posts' = [posts EXCEPT ![uploader.post] = NoPost]
    /\ uploader' = [step |-> "files", files |-> WithoutFirst(uploader.files)]
    /\ UNCHANGED <<capturing, scanEvent, apiFiles, fileFaults>>

SendBatch(p) ==
    /\ uploader.step = "files" /\ uploader.files = {} /\ posts[p] = NoPost
    /\ IF PendingScans = {}
       THEN uploader' = IdleTick /\ UNCHANGED posts
       ELSE /\ posts' = [posts EXCEPT ![p] = Batch(PendingScans, {})]
            /\ uploader' = [step |-> "batch", files |-> {}, post |-> p]
    /\ UNCHANGED <<edgeFiles, apiFiles, fileFaults>>

\* applyAcks: what was not accepted stays pending.
ScansAnswered ==
    /\ uploader.step = "batch"
    /\ LET post == posts[uploader.post] IN
       /\ post.step = "next" /\ post.left = {}
       /\ scanEvent' = [c \in ScanCall |-> IF c \in post.done THEN "SYNCED" ELSE scanEvent[c]]
    /\ posts' = [posts EXCEPT ![uploader.post] = NoPost]
    /\ uploader' = IdleTick
    /\ UNCHANGED <<capturing, fileRows, apiFiles, fileFaults>>
-----------------------------------------------------------------------------
(* The backend                                                             *)

\* storeSyncedFile: a row of the same id or the same content ...
FindFile(p) ==
    /\ posts[p].step = "find"
    /\ LET row == posts[p].row IN
       posts' = [posts EXCEPT ![p].step = IF Known(row.file, row.content) THEN "stored"
                                                                          ELSE "create"]
    /\ UNCHANGED <<edgeFiles, uploader, apiFiles, fileFaults>>

\* ... and the new row, under two unique keys.
CreateFile(p) ==
    /\ posts[p].step = "create"
    /\ LET row == posts[p].row IN
       IF Known(row.file, row.content)
       THEN posts' = [posts EXCEPT ![p].step = "refused"] /\ UNCHANGED syncedFiles
       ELSE /\ syncedFiles' = syncedFiles \cup {[file |-> row.file, content |-> row.content]}
            /\ posts' = [posts EXCEPT ![p].step = "stored"]
    /\ UNCHANGED <<edgeFiles, uploader, visitMapped, scanRow, documents, fileFaults>>

\* ingestSyncBatch: an event that was processed is acknowledged again ...
NextScan(p, c) ==
    /\ posts[p].step = "next" /\ c \in posts[p].left
    /\ IF scanRow[c] = "PROCESSED"
       THEN /\ posts' = [posts EXCEPT ![p] = Batch(@.left \ {c}, @.done \cup {c})]
            /\ UNCHANGED scanRow
       ELSE /\ scanRow' = [scanRow EXCEPT ![c] = "RECEIVED"]
            /\ posts' = [posts EXCEPT ![p] = [step |-> "resolve", left |-> @.left, done |-> @.done,
                                                 scan |-> c]]
    /\ UNCHANGED <<edgeFiles, uploader, syncedFiles, visitMapped, documents, fileFaults>>

\* ... and any other goes to processScan.  Without the visit nothing is left to
\* do; without the file the answer is 409, which means DEPENDENCY_PENDING.
ResolveScan(p) ==
    /\ posts[p].step = "resolve"
    /\ LET c == posts[p].scan IN
       posts' = [posts EXCEPT ![p] =
              IF ~visitMapped THEN [@ EXCEPT !.step = "mark"]
              ELSE IF Known(capturing[c].file, ContentOf[c]) THEN [@ EXCEPT !.step = "document"]
              ELSE Batch(@.left \ {c}, @.done)]
    /\ UNCHANGED <<edgeFiles, uploader, apiFiles, fileFaults>>

\* uploadDocument, with the bytes loadSyncedFile found.
MakeDocument(p) ==
    /\ posts[p].step = "document"
    /\ LET c == posts[p].scan IN
       /\ \E f \in syncedFiles :
             /\ f.file = capturing[c].file \/ f.content = ContentOf[c]
             /\ documents' = [documents EXCEPT ![c] = Append(@, f.content)]
       /\ posts' = [posts EXCEPT ![p].step = "mark"]
    /\ UNCHANGED <<edgeFiles, uploader, syncedFiles, visitMapped, scanRow, fileFaults>>

MarkProcessed(p) ==
    /\ posts[p].step = "mark"
    /\ LET c == posts[p].scan IN
       /\ scanRow' = [scanRow EXCEPT ![c] = "PROCESSED"]
       /\ posts' = [posts EXCEPT ![p] = Batch(@.left \ {c}, @.done \cup {c})]
    /\ UNCHANGED <<edgeFiles, uploader, syncedFiles, visitMapped, documents, fileFaults>>

\* A request nobody waits for any more comes to its end.
PostEnds(p) ==
    /\ posts[p].step \in {"stored", "refused"} \/ (posts[p].step = "next" /\ posts[p].left = {})
    /\ uploader.step \in {"upload", "batch"} => uploader.post # p
    /\ posts' = [posts EXCEPT ![p] = NoPost]
    /\ UNCHANGED <<edgeFiles, uploader, apiFiles, fileFaults>>

\* The event that opens the visit is applied (see EdgeSync).
MapVisit ==
    /\ ~visitMapped
    /\ visitMapped' = TRUE
    /\ UNCHANGED <<edgeFiles, uploader, posts, syncedFiles, scanRow, documents, fileFaults>>
-----------------------------------------------------------------------------
(* Failures                                                                *)

FileFault == fileFaults < MaxFileFaults /\ fileFaults' = fileFaults + 1

\* What a stop of the gateway leaves of the capturing under way: their files,
\* with or without a record, and no event.
StopCaptures ==
    capturing' = [c \in ScanCall |-> IF capturing[c].step \in {"written", "recorded"}
                                   THEN [capturing[c] EXCEPT !.step = "lost"] ELSE capturing[c]]

GatewayStops ==
    /\ GatewayUp /\ FileFault
    /\ StopCaptures
    /\ uploader' = NoTick
    /\ UNCHANGED <<fileRows, scanEvent, posts, apiFiles>>

GatewayStarts ==
    /\ ~GatewayUp
    /\ uploader' = IdleTick
    /\ UNCHANGED <<edgeFiles, posts, apiFiles, fileFaults>>

\* The reply is lost, or the backend stops with the request.  A file upload
\* that fails so leaves tick, which nobody awaits: the gateway stops.  A batch
\* that does is tried again later.
PostFails(goesOn) ==
    /\ uploader.step \in {"upload", "batch"} /\ FileFault
    /\ posts' = IF goesOn THEN posts ELSE [posts EXCEPT ![uploader.post] = NoPost]
    /\ IF uploader.step = "upload" THEN uploader' = NoTick /\ StopCaptures
                                   ELSE uploader' = IdleTick /\ UNCHANGED capturing
    /\ UNCHANGED <<fileRows, scanEvent, apiFiles>>
-----------------------------------------------------------------------------
TickSteps ==
    \/ TickStarts \/ FileAnswered \/ ScansAnswered
    \/ \E p \in Post : SendFile(p) \/ SendBatch(p)

PostSteps(p) ==
    \/ FindFile(p) \/ CreateFile(p) \/ ResolveScan(p) \/ MakeDocument(p) \/ MarkProcessed(p)
    \/ \E c \in ScanCall : NextScan(p, c)
    \/ PostEnds(p)

FilesNext ==
    \/ \E c \in ScanCall : WriteFile(c) \/ AddFile(c) \/ EnqueueScan(c)
    \/ TickSteps
    \/ \E p \in Post : PostSteps(p)
    \/ MapVisit
    \/ GatewayStops \/ GatewayStarts
    \/ \E goesOn \in BOOLEAN : PostFails(goesOn)

\* The timer of the loop, the event loops of both processes, and a supervisor
\* that starts the gateway again.
FilesFairness ==
    /\ WF_fileVars(TickSteps) /\ WF_fileVars(GatewayStarts)
    /\ \A p \in Post : WF_fileVars(PostSteps(p))

FilesSpec == FilesInit /\ [][FilesNext]_fileVars
-----------------------------------------------------------------------------
FileRecord   == [file : ScanCall, content : Contents, synced : BOOLEAN]
FileRequest  == [step : {"find", "create", "stored", "refused"}, row : FileRecord]
EventRequest == [step : {"next"}, left : SUBSET ScanCall, done : SUBSET ScanCall]
ScanRequest  == [step : {"resolve", "document", "mark"}, left : SUBSET ScanCall,
                 done : SUBSET ScanCall, scan : ScanCall]
Resting      == [step : {"idle", "off", "files"}, files : SUBSET Nat]
Waiting      == [step : {"upload", "batch"}, files : SUBSET Nat, post : Post]

FilesTypeOK ==
    /\ capturing \in [ScanCall -> [step : {"none", "written", "recorded", "queued", "lost"},
                                   file : ScanCall]]
    /\ fileRows \in Seq(FileRecord)
    /\ scanEvent \in [ScanCall -> {"none", "PENDING", "SYNCED"}]
    /\ uploader \in Resting \cup Waiting
    /\ uploader.files \subseteq 1..Len(fileRows)
    /\ posts \in [Post -> {NoPost} \cup FileRequest \cup EventRequest \cup ScanRequest]
    /\ syncedFiles \subseteq [file : ScanCall, content : Contents]
    /\ visitMapped \in BOOLEAN
    /\ scanRow \in [ScanCall -> {"none", "RECEIVED", "PROCESSED"}]
    /\ documents \in [ScanCall -> Seq(Contents)]
    /\ fileFaults \in 0..MaxFileFaults

\* Nothing is recorded as done before it is, and nothing takes the place of
\* something else: a file the gateway holds for synchronized has its bytes at
\* the backend, though the backend may know them under the id of another
\* capture; a scan it holds for synchronized was processed; and a document has
\* the bytes that were scanned for it, whichever of the two keys found them.
FilesAreKept ==
    /\ \A n \in 1..Len(fileRows) :
          fileRows[n].synced => \E f \in syncedFiles : f.content = fileRows[n].content
    /\ \A c \in ScanCall : scanEvent[c] = "SYNCED" => scanRow[c] = "PROCESSED"
    /\ \A c \in ScanCall : \A n \in 1..Len(documents[c]) : documents[c][n] = ContentOf[c]

\* Every scan that the backend does not refuse for its size is acknowledged in
\* the end, whatever replies and processes are lost on the way: its file comes
\* before its event, and a file left behind by one tick is sent by another.
EveryScanIsSettled ==
    \A c \in ScanCall :
        (scanEvent[c] = "PENDING" /\ ContentOf[c] \notin Refused) ~> (scanEvent[c] = "SYNCED")

\* docs/offline-first.md on a document whose visit is not there yet: the event
\* stays pending, it is not discarded.
ScanIsNotDiscarded ==
    \A c \in ScanCall : scanEvent[c] = "SYNCED" => documents[c] # <<>>
=============================================================================

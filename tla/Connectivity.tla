---------------------------- MODULE Connectivity ----------------------------
(***************************************************************************)
(* How an edge gateway decides whether the backend is there                *)
(* (apps/edge/src/connectivity, health, sync/syncLoop.ts): the tick of the *)
(* sync loop and the heartbeat of the health monitor run side by side,     *)
(* each waits for answers, and both report what they saw to one            *)
(* ConnectivityManager.  What a batch does to the queue is in EdgeSync;    *)
(* here a batch that is answered is done with.                             *)
(***************************************************************************)
EXTENDS Naturals

CONSTANTS
    FailThreshold, RecoverThreshold,  \* EDGE_CONNECTIVITY_*_THRESHOLD
    TicksPerBeat,   \* ticks that end between two heartbeats: 10 s against 3 s
    MaxRetries,     \* EDGE_MAX_RETRIES
    MaxCaptures,    \* bound on the events captured
    MaxOutages      \* bound on changes of the network and of the pause switch

ASSUME ConnectivityAssumption ==
    /\ FailThreshold \in Nat \ {0} /\ RecoverThreshold \in Nat \ {0}
    /\ TicksPerBeat \in Nat /\ MaxRetries \in Nat \ {0}
    /\ MaxCaptures \in Nat /\ MaxOutages \in Nat

VARIABLES
    conn, failures, successes,  \* ConnectivityManager; counts stop at their threshold
    reachable,                  \* backendStatus of the store
    paused,                     \* SyncLoop.paused and simulatedDisconnect
    tick, beat,                 \* what the two timers are waiting for
    ticksSinceBeat,
    due, unsent, attempts,      \* events to send: may they be tried now, how many, how often
    conflict,                   \* listConflicts() is not empty
    document,                   \* a document waits for its upload
    hardware,                   \* a device is connected
    network,                    \* what a request meets: "up", "down", "auth"
    alive,                      \* the process runs
    failedRequests,             \* batches, health requests and heartbeats that
                                \* failed since one of them was answered
    captures, outages

manager    == <<conn, failures, successes, reachable>>
toSend     == <<due, unsent, attempts, conflict, document>>
bounds     == <<captures, outages>>
connectivityVars ==
    <<manager, paused, tick, beat, ticksSinceBeat, toSend, hardware, network, alive,
      failedRequests, bounds>>

LeastOf(a, b) == IF a < b THEN a ELSE b

ConnectivityInit ==
    /\ conn = "ONLINE" /\ failures = 0 /\ successes = 1 /\ reachable = TRUE
    /\ paused = FALSE /\ tick = "idle" /\ beat = "idle" /\ ticksSinceBeat = TicksPerBeat
    /\ due = TRUE /\ unsent = 0 /\ attempts = 0
    /\ conflict = FALSE /\ document = FALSE
    /\ hardware \in BOOLEAN
    /\ network = "up" /\ alive = TRUE /\ failedRequests = 0
    /\ captures = 0 /\ outages = 0

\* Mutant: a failure sends the gateway offline at once.
ObserveHastily(seen, authFailed, syncing, pendingCritical) ==
    LET up == seen /\ ~paused /\ ~authFailed IN
    /\ failures' = IF up THEN 0 ELSE FailThreshold
    /\ successes' = IF up THEN RecoverThreshold ELSE 0
    /\ reachable' = up
    /\ conn' = IF up THEN IF hardware THEN "ONLINE" ELSE "DEGRADED" ELSE "OFFLINE"

\* Mutant: failures are not added up.
ObserveForgetfully(seen, authFailed, syncing, pendingCritical) ==
    LET up == seen /\ ~paused /\ ~authFailed IN
    /\ failures' = IF up THEN 0 ELSE 1
    /\ successes' = IF up THEN RecoverThreshold ELSE 0
    /\ reachable' = up
    /\ conn' = IF up THEN IF hardware THEN "ONLINE" ELSE "DEGRADED"
               ELSE IF failures' = FailThreshold THEN "OFFLINE"
               ELSE IF conn = "ONLINE" THEN "DEGRADED" ELSE conn

\* observe, with the conflicts the caller read.
Observe(seen, authFailed, syncing, pendingCritical) ==
    LET up   == seen /\ ~paused /\ ~authFailed
        well == IF hardware THEN "ONLINE" ELSE "DEGRADED"
    IN  /\ failures'  = IF up THEN 0 ELSE LeastOf(failures + 1, FailThreshold)
        /\ successes' = IF up THEN LeastOf(successes + 1, RecoverThreshold) ELSE 0
        /\ reachable' = (seen /\ ~paused)
        /\ conn' = CASE authFailed -> "ERROR"
                     [] up /\ syncing -> "SYNCING"
                     [] up /\ ~syncing ->
                          IF /\ conn \in {"OFFLINE", "RECOVERING", "SYNCING", "ERROR"}
                             /\ (successes' < RecoverThreshold \/ pendingCritical > 0 \/ conflict)
                          THEN "RECOVERING" ELSE well
                     [] OTHER ->
                          IF failures' = FailThreshold \/ conn = "OFFLINE" THEN "OFFLINE"
                          ELSE IF conn = "ONLINE" THEN "DEGRADED" ELSE conn

Answered == failedRequests' = 0

Failed == failedRequests' = LeastOf(failedRequests + 1, FailThreshold)

\* isBackendOnline of the manager and of the loop.
IsBackendOnline == ~paused /\ conn \in {"ONLINE", "DEGRADED", "SYNCING"}

TickEnds ==
    /\ tick' = "idle"
    /\ ticksSinceBeat' = LeastOf(ticksSinceBeat + 1, TicksPerBeat)

-----------------------------------------------------------------------------
(* The tick of the sync loop                                               *)

TickBegins ==
    /\ alive /\ ~paused /\ tick = "idle"
    /\ tick' = IF document THEN "files" ELSE "select"
    /\ UNCHANGED <<manager, paused, beat, ticksSinceBeat, toSend, hardware, network, alive,
                   failedRequests, bounds>>

\* uploadPendingFiles: the document is taken, or refused for good and left.
\* The manager hears nothing of it.
DocumentAnswered ==
    /\ alive /\ tick = "files" /\ network = "up"
    /\ document' \in BOOLEAN
    /\ tick' = "select"
    /\ UNCHANGED <<manager, paused, beat, ticksSinceBeat, due, unsent, attempts, conflict,
                   hardware, network, alive, failedRequests, bounds>>

\* No answer: the error leaves tick, which nobody awaits, and the process.
DocumentFails ==
    /\ alive /\ tick = "files" /\ network # "up"
    /\ alive' = FALSE
    /\ UNCHANGED <<manager, paused, tick, beat, ticksSinceBeat, toSend, hardware, network,
                   failedRequests, bounds>>

\* Events that may be tried make a batch, which counts as a reachable backend;
\* without one the health of the backend is asked for.
Select ==
    /\ alive /\ tick = "select"
    /\ IF due /\ unsent > 0
       THEN tick' = "batch" /\ Observe(TRUE, FALSE, TRUE, unsent)
       ELSE tick' = "health" /\ UNCHANGED manager
    /\ UNCHANGED <<paused, beat, ticksSinceBeat, toSend, hardware, network, alive,
                   failedRequests, bounds>>

\* /health asks for no credential.
HealthAnswered ==
    /\ alive /\ tick = "health"
    /\ IF network = "down" THEN Failed /\ Observe(FALSE, FALSE, FALSE, 1)
       ELSE Answered /\ Observe(TRUE, FALSE, FALSE, 0)
    /\ TickEnds
    /\ UNCHANGED <<paused, beat, toSend, hardware, network, alive, bounds>>

\* syncBatch and applyAcks: the backend may report a conflict, which stays.
BatchAnswered ==
    /\ alive /\ tick = "batch" /\ network = "up"
    /\ unsent' = 0 /\ attempts' = 0
    /\ conflict' \in {conflict, TRUE}
    /\ Answered
    /\ Observe(TRUE, FALSE, FALSE, unsent')
    /\ TickEnds
    /\ UNCHANGED <<paused, beat, due, document, hardware, network, alive, bounds>>

\* Mutant: one retry more.
BatchFailsOnceMore ==
    /\ alive /\ tick = "batch" /\ network # "up"
    /\ IF attempts < MaxRetries
       THEN attempts' = attempts + 1 /\ due' = FALSE /\ UNCHANGED unsent
       ELSE attempts' = 0 /\ unsent' = 0 /\ UNCHANGED due
    /\ Failed
    /\ Observe(FALSE, network = "auth", FALSE, 1)
    /\ TickEnds
    /\ UNCHANGED <<paused, beat, conflict, document, hardware, network, alive, bounds>>

\* failEvent for every event, and noteFailure.
BatchFails ==
    /\ alive /\ tick = "batch" /\ network # "up"
    /\ IF attempts + 1 < MaxRetries
       THEN attempts' = attempts + 1 /\ due' = FALSE /\ UNCHANGED unsent
       ELSE attempts' = 0 /\ unsent' = 0 /\ UNCHANGED due
    /\ Failed
    /\ Observe(FALSE, network = "auth", FALSE, 1)
    /\ TickEnds
    /\ UNCHANGED <<paused, beat, conflict, document, hardware, network, alive, bounds>>

-----------------------------------------------------------------------------
(* The heartbeat                                                           *)

\* beat: a gateway that is not online sends none and counts a failure.
BeatBegins ==
    /\ alive /\ beat = "idle"
    /\ ticksSinceBeat = TicksPerBeat \/ paused
    /\ IF IsBackendOnline THEN beat' = "asked" /\ UNCHANGED manager
       ELSE beat' = "idle" /\ Observe(FALSE, FALSE, FALSE, 1)
    /\ ticksSinceBeat' = 0
    /\ UNCHANGED <<paused, tick, toSend, hardware, network, alive, failedRequests, bounds>>

BeatAnswered ==
    /\ alive /\ beat = "asked"
    /\ beat' = "idle"
    /\ CASE network = "up"   -> Answered /\ Observe(TRUE, FALSE, FALSE, unsent)
         [] network = "auth" -> Failed /\ Observe(FALSE, TRUE, FALSE, 1)
         [] OTHER -> Failed /\ Observe(FALSE, FALSE, FALSE, 1)
    /\ UNCHANGED <<paused, tick, ticksSinceBeat, toSend, hardware, network, alive, bounds>>

-----------------------------------------------------------------------------
(* What happens around the two                                             *)

\* An operator captures an event, or a document with it.
Capture ==
    /\ alive /\ captures < MaxCaptures /\ captures' = captures + 1
    /\ \/ unsent' = unsent + 1 /\ UNCHANGED document
       \/ document' = TRUE /\ UNCHANGED unsent
    /\ UNCHANGED <<manager, paused, tick, beat, ticksSinceBeat, due, attempts, conflict, hardware,
                   network, alive, failedRequests, outages>>

\* nextRetryAt of the events that failed has passed.
RetryDue ==
    /\ ~due /\ due' = TRUE
    /\ UNCHANGED <<manager, paused, tick, beat, ticksSinceBeat, unsent, attempts, conflict, document,
                   hardware, network, alive, failedRequests, bounds>>

\* setPaused, from the control server.
SetPaused ==
    /\ alive /\ outages < MaxOutages /\ outages' = outages + 1
    /\ paused' = ~paused
    /\ IF paused'
       THEN conn' = "OFFLINE" /\ failures' = FailThreshold /\ reachable' = FALSE /\ UNCHANGED successes
       ELSE UNCHANGED manager
    /\ UNCHANGED <<tick, beat, ticksSinceBeat, toSend, hardware, network, alive, failedRequests, captures>>

NetworkChanges ==
    /\ outages < MaxOutages /\ outages' = outages + 1
    /\ network' \in {"up", "down", "auth"} \ {network}
    /\ UNCHANGED <<manager, paused, tick, beat, ticksSinceBeat, toSend, hardware, alive,
                   failedRequests, captures>>

ConnectivityNext ==
    \/ TickBegins \/ DocumentAnswered \/ DocumentFails
    \/ Select \/ HealthAnswered \/ BatchAnswered \/ BatchFails
    \/ BeatBegins \/ BeatAnswered
    \/ Capture \/ RetryDue \/ SetPaused \/ NetworkChanges

\* The timers fire, requests come back, and the delay of a retry passes.
ConnectivityFairness ==
    /\ WF_connectivityVars(TickBegins) /\ WF_connectivityVars(Select)
    /\ WF_connectivityVars(DocumentAnswered) /\ WF_connectivityVars(DocumentFails)
    /\ WF_connectivityVars(HealthAnswered)
    /\ WF_connectivityVars(BatchAnswered) /\ WF_connectivityVars(BatchFails)
    /\ WF_connectivityVars(BeatBegins) /\ WF_connectivityVars(BeatAnswered)
    /\ WF_connectivityVars(RetryDue)

ConnectivitySpec == ConnectivityInit /\ [][ConnectivityNext]_connectivityVars

FairConnectivitySpec == ConnectivitySpec /\ ConnectivityFairness

-----------------------------------------------------------------------------
(* Properties                                                              *)

ConnectivityTypeOK ==
    /\ conn \in {"ONLINE", "DEGRADED", "OFFLINE", "RECOVERING", "SYNCING", "ERROR"}
    /\ failures \in 0..FailThreshold /\ successes \in 0..RecoverThreshold
    /\ tick \in {"idle", "files", "select", "health", "batch"} /\ beat \in {"idle", "asked"}
    /\ unsent \in 0..MaxCaptures /\ attempts \in 0..(MaxRetries - 1)

Up == {"ONLINE", "DEGRADED", "SYNCING"}

\* docs/offline-first.md, "One failed request does not flip the gateway
\* offline": unless it was told to, a gateway that is online goes offline only
\* when as many requests as the threshold failed, one after the other, however
\* the answers of ticks and heartbeats interleave.
OfflineIsEarned ==
    [][(conn \in Up /\ conn' = "OFFLINE" /\ ~paused') => failedRequests' = FailThreshold]_connectivityVars

\* A backend that stays away is noticed for good, once the events on hand are
\* in dead letter.
OutageIsNoticed ==
    <>[](network = "down" /\ alive) => <>[](conn = "OFFLINE")
=============================================================================

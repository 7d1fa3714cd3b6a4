------------------------ MODULE WeighbridgeConnection ------------------------
(* The connection manager of one weighbridge with a TCP indicator            *)
(* (apps/api/src/integrations/weighbridge/connectionManager.ts with          *)
(* adapters/tcpAdapter.ts), driven by the requests that enable, disable and  *)
(* test the device (modules/hardware/service.ts).  Every start makes a new   *)
(* ManagedDevice.  connectDevice is a flow with three waits: for the status  *)
(* to be stored, for the socket, and for the status again; it runs inside a  *)
(* request or, when the reconnect timer fires, beside all of them.           *)
EXTENDS Naturals

CONSTANTS
    Request,        \* requests on the device that may overlap
    Device,         \* the ManagedDevice objects there may ever be
    NoDevice,
    MaxReconnects,  \* maxReconnectAttempts
    HealthTicks,    \* healthTimeoutMs in polling intervals
    MaxLineChanges  \* bound on the changes of the line to the indicator

ASSUME ConnectionAssumption ==
    /\ NoDevice \notin Device /\ Request \cap Device = {}
    /\ MaxReconnects \in Nat /\ HealthTicks \in Nat \ {0} /\ MaxLineChanges \in Nat

VARIABLES
    profileEnabled, \* WeighbridgeHardwareProfile.enabled
    managed,        \* the entry of the manager's map
    device,         \* the ManagedDevice objects with their providers
    flow,           \* where each request and each timer's connectDevice is
    line,           \* what a connection to the indicator meets
    lineChanges

connectionVars == <<profileEnabled, managed, device, flow, line, lineChanges>>

Statuses == {"DISCONNECTED", "CONNECTING", "CONNECTED", "ERROR", "DISABLED"}

NewDevice == [made |-> FALSE, enabled |-> FALSE, status |-> "DISCONNECTED",
    provider |-> "DISCONNECTED", socket |-> FALSE, attempts |-> 0,
    polling |-> FALSE, reconnect |-> FALSE, quietTicks |-> 0]

IdleFlow == [pc |-> "idle", kind |-> "none", dev |-> NoDevice, round |-> 0]

ConnectionInit ==
    /\ profileEnabled = FALSE
    /\ managed = NoDevice
    /\ device = [d \in Device |-> NewDevice]
    /\ flow = [f \in Request \cup Device |-> IdleFlow]
    /\ line = "up"
    /\ lineChanges = 0

At(f, pc) == flow[f].pc = pc
Move(f, pc) == flow' = [flow EXCEPT ![f].pc = pc]

\* What a flow does when its connectDevice has returned.
AfterConnect(job) ==
    IF job.kind # "test" THEN IdleFlow
    ELSE [job EXCEPT !.pc = IF job.round = 1 THEN "again" ELSE "finish"]

\* start(): register a new device and begin to connect it.
Enter(r, job, d, devices) ==
    /\ ~devices[d].made
    /\ managed' = d
    /\ device' = [devices EXCEPT ![d] =
           [NewDevice EXCEPT !.made = TRUE, !.enabled = TRUE, !.status = "CONNECTING"]]
    /\ flow' = [flow EXCEPT ![r] = [job EXCEPT !.pc = "announced", !.dev = d]]

\* stop() has emptied the map; restart() calls start() in the same turn.
Stop(r, devices) ==
    \/ /\ flow[r].kind = "enable"
       /\ \E d \in Device : Enter(r, flow[r], d, devices)
    \/ /\ flow[r].kind # "enable"
       /\ managed' = NoDevice /\ device' = devices
       /\ flow' = [flow EXCEPT ![r] = IdleFlow]
-----------------------------------------------------------------------------
(* connectDevice                                                             *)
CallConnect(f) ==
    LET d == flow[f].dev IN
    /\ At(f, "announced") /\ ~device[d].socket
    /\ device' = [device EXCEPT ![d].provider = "CONNECTING"]
    /\ Move(f, "opening")
    /\ UNCHANGED <<profileEnabled, managed, line, lineChanges>>

\* Mutant: no reconnection after an error.
SettleForGood(f, d, provider, socket) ==
    /\ device' = [device EXCEPT ![d].provider = provider, ![d].socket = socket,
                                ![d].status = provider,
                                ![d].attempts = IF provider = "CONNECTED" THEN 0 ELSE @]
    /\ flow' = [flow EXCEPT ![f] =
           CASE provider = "CONNECTED" -> [@ EXCEPT !.pc = "connected"]
             [] provider = "DISCONNECTED" -> [@ EXCEPT !.pc = "failed"]
             [] OTHER -> AfterConnect(@)]

\* provider.connect() has returned: take over its status.
Settle(f, d, provider, socket) ==
    /\ device' = [device EXCEPT ![d].provider = provider, ![d].socket = socket,
                                ![d].status = provider,
                                ![d].attempts = IF provider = "CONNECTED" THEN 0 ELSE @]
    /\ flow' = [flow EXCEPT ![f] =
           CASE provider = "CONNECTED" -> [@ EXCEPT !.pc = "connected"]
             [] provider \in {"ERROR", "DISCONNECTED"} -> [@ EXCEPT !.pc = "failed"]
             [] OTHER -> AfterConnect(@)]

\* The provider has a socket already: connect() returns without a change.
AlreadyOpen(f) ==
    LET d == flow[f].dev IN
    /\ At(f, "announced") /\ device[d].socket
    /\ Settle(f, d, device[d].provider, TRUE)
    /\ UNCHANGED <<profileEnabled, managed, line, lineChanges>>

SocketOpens(f) ==
    /\ At(f, "opening") /\ line # "down"
    /\ Settle(f, flow[f].dev, "CONNECTED", TRUE)
    /\ UNCHANGED <<profileEnabled, managed, line, lineChanges>>

SocketFails(f) ==
    /\ At(f, "opening") /\ line = "down"
    /\ Settle(f, flow[f].dev, "ERROR", FALSE)
    /\ UNCHANGED <<profileEnabled, managed, line, lineChanges>>

\* The CONNECTED status is stored: poll from now on, and once at once.
StartPolling(f) ==
    LET d == flow[f].dev IN
    /\ At(f, "connected")
    /\ device' = [device EXCEPT ![d].polling = TRUE, ![d].quietTicks = 0,
                                ![d].status = device[d].provider]
    /\ flow' = [flow EXCEPT ![f] = AfterConnect(@)]
    /\ UNCHANGED <<profileEnabled, managed, line, lineChanges>>

MayReconnect(dev) == dev.enabled /\ dev.attempts < MaxReconnects

ScheduleReconnect(f) ==
    LET d == flow[f].dev IN
    /\ At(f, "failed")
    /\ device' = [device EXCEPT ![d].reconnect = @ \/ MayReconnect(device[d])]
    /\ flow' = [flow EXCEPT ![f] = AfterConnect(@)]
    /\ UNCHANGED <<profileEnabled, managed, line, lineChanges>>
-----------------------------------------------------------------------------
(* Timers of a device.  The reconnect timer is taken to fire only when the   *)
(* attempt it started before has returned.                                   *)
FireReconnect(d) ==
    /\ device[d].reconnect /\ At(d, "idle")
    /\ device' = [device EXCEPT ![d].reconnect = FALSE, ![d].attempts = @ + 1,
                                ![d].status = "CONNECTING"]
    /\ flow' = [flow EXCEPT ![d] = [IdleFlow EXCEPT !.pc = "announced", !.dev = d]]
    /\ UNCHANGED <<profileEnabled, managed, line, lineChanges>>

\* Ticks without communication: a reading without data is one as well.
QuietTicksAfterPoll(dev) == 0

\* One tick of the poll timer: checkHealth sees the age of the last tick's
\* reading; then the reading of this tick is there and the provider's status
\* is taken over.
PollTick(d) ==
    LET late == device[d].status = "CONNECTED" /\ device[d].quietTicks + 1 > HealthTicks IN
    /\ device[d].polling
    /\ device' = [device EXCEPT
           ![d].quietTicks = QuietTicksAfterPoll(device[d]),
           ![d].reconnect = @ \/ (late /\ MayReconnect(device[d])),
           ![d].status = IF late /\ QuietTicksAfterPoll(device[d]) # 0 THEN "DISCONNECTED"
                         ELSE device[d].provider]
    /\ UNCHANGED <<profileEnabled, managed, flow, line, lineChanges>>

\* refreshHardwareStatus and getLiveWeight poll the registered device.
ReadNow ==
    /\ managed # NoDevice
    /\ device' = [device EXCEPT ![managed].status = device[managed].provider]
    /\ UNCHANGED <<profileEnabled, managed, flow, line, lineChanges>>
-----------------------------------------------------------------------------
(* Requests                                                                  *)
BeginEnable(r) ==
    /\ At(r, "idle")
    /\ profileEnabled' = TRUE
    /\ flow' = [flow EXCEPT ![r] = [IdleFlow EXCEPT !.pc = "restart", !.kind = "enable"]]
    /\ UNCHANGED <<managed, device, line, lineChanges>>

BeginDisable(r) ==
    /\ At(r, "idle")
    /\ profileEnabled' = FALSE
    /\ flow' = [flow EXCEPT ![r] = [IdleFlow EXCEPT !.pc = "stop", !.kind = "disable"]]
    /\ UNCHANGED <<managed, device, line, lineChanges>>

\* A device that runs already is only read, see ReadNow.
BeginTest(r) ==
    /\ At(r, "idle") /\ managed = NoDevice
    /\ \E d \in Device : Enter(r, [IdleFlow EXCEPT !.kind = "test", !.round = 1], d, device)
    /\ UNCHANGED <<profileEnabled, line, lineChanges>>

\* test() connects a second time, whatever device is registered by now.
TestAgain(r) ==
    /\ At(r, "again")
    /\ IF managed = NoDevice
       THEN flow' = [flow EXCEPT ![r] = IdleFlow] /\ device' = device
       ELSE /\ flow' = [flow EXCEPT ![r] = [@ EXCEPT !.pc = "announced", !.dev = managed, !.round = 2]]
            /\ device' = [device EXCEPT ![managed].status = "CONNECTING"]
    /\ UNCHANGED <<profileEnabled, managed, line, lineChanges>>

TestReads(r) ==
    /\ At(r, "finish")
    /\ device' = [device EXCEPT ![flow[r].dev].status = device[flow[r].dev].provider]
    /\ Move(r, "stop")
    /\ UNCHANGED <<profileEnabled, managed, line, lineChanges>>

Stopped(dev) == [dev EXCEPT !.polling = FALSE, !.reconnect = FALSE, !.enabled = FALSE,
    !.provider = "DISCONNECTED", !.socket = FALSE, !.status = "DISABLED"]

\* stop() disconnects the registered device; if its status changes, the map
\* entry goes only when the status has been stored.  restart() stops nothing
\* when nothing is registered.
StopDevice(r) ==
    /\ At(r, "stop") \/ At(r, "restart")
    /\ IF managed = NoDevice THEN Stop(r, device)
       ELSE LET devices == [device EXCEPT ![managed] = Stopped(@)] IN
            IF device[managed].status = "DISABLED" THEN Stop(r, devices)
            ELSE device' = devices /\ Move(r, "remove") /\ managed' = managed
    /\ UNCHANGED <<profileEnabled, line, lineChanges>>

\* The entry is deleted by the weighbridge's id, whichever device it holds.
RemoveDevice(r) ==
    /\ At(r, "remove")
    /\ Stop(r, device)
    /\ UNCHANGED <<profileEnabled, line, lineChanges>>
-----------------------------------------------------------------------------
(* The line: "silent" is a connection on which no frame arrives.  When it    *)
(* goes down every socket closes and its close handler runs.                 *)
ChangeLine(l) ==
    /\ l # line /\ lineChanges < MaxLineChanges
    /\ line' = l /\ lineChanges' = lineChanges + 1
    /\ device' = IF l # "down" THEN device
                 ELSE [d \in Device |->
                          IF device[d].socket
                          THEN [device[d] EXCEPT !.socket = FALSE, !.provider = "DISCONNECTED"]
                          ELSE device[d]]
    /\ UNCHANGED <<profileEnabled, managed, flow>>

ConnectStep(f) ==
    \/ CallConnect(f) \/ AlreadyOpen(f) \/ SocketOpens(f) \/ SocketFails(f)
    \/ StartPolling(f) \/ ScheduleReconnect(f)

RequestStep(r) == TestAgain(r) \/ TestReads(r) \/ StopDevice(r) \/ RemoveDevice(r)

ConnectionNext ==
    \/ \E f \in Request \cup Device : ConnectStep(f)
    \/ \E d \in Device : FireReconnect(d) \/ PollTick(d)
    \/ ReadNow
    \/ \E r \in Request : BeginEnable(r) \/ BeginDisable(r) \/ BeginTest(r) \/ RequestStep(r)
    \/ \E l \in {"up", "down", "silent"} : ChangeLine(l)

\* Timers fire, sockets open or fail within the connection timeout, and a
\* request goes on once its status is stored.
ConnectionFairness ==
    /\ \A f \in Request \cup Device : WF_connectionVars(ConnectStep(f))
    /\ \A d \in Device : WF_connectionVars(FireReconnect(d))
    /\ \A d \in Device : WF_connectionVars(PollTick(d))
    /\ \A r \in Request : WF_connectionVars(RequestStep(r))

ConnectionSpec == ConnectionInit /\ [][ConnectionNext]_connectionVars /\ ConnectionFairness
-----------------------------------------------------------------------------
\* Devices and flows have the fields the code gives them, and no device counts
\* more reconnect attempts than its profile allows.
ConnectionTypeOK ==
    /\ profileEnabled \in BOOLEAN
    /\ managed \in Device \cup {NoDevice}
    /\ device \in [Device -> [made : BOOLEAN, enabled : BOOLEAN, status : Statuses,
           provider : Statuses, socket : BOOLEAN, attempts : 0..MaxReconnects,
           polling : BOOLEAN, reconnect : BOOLEAN, quietTicks : 0..HealthTicks]]
    /\ \A f \in Request \cup Device :
           flow[f].dev = NoDevice => flow[f].pc \in {"idle", "restart", "stop", "remove"}
    /\ line \in {"up", "down", "silent"}

\* A device that is being connected, failed to connect or is to be connected
\* again gets there, unless the attempts are used up, the line is down or the
\* device is stopped: neither a failed attempt nor a request that connects
\* beside it makes the manager forget.
RetryPending(d) == device[d].enabled /\
    (device[d].reconnect \/ flow[d].pc # "idle" \/ device[d].status \in {"CONNECTING", "ERROR"})

RetryReachesDevice == \A d \in Device :
    RetryPending(d) ~> \/ line = "down" \/ device[d].status = "CONNECTED"
                       \/ device[d].attempts = MaxReconnects \/ ~device[d].enabled

\* A connected indicator that stays silent is marked disconnected (checkHealth).
SilenceIsNoticed == \A d \in Device :
    (device[d].polling /\ device[d].status = "CONNECTED" /\ line = "silent")
        ~> (device[d].status # "CONNECTED" \/ line # "silent")
=============================================================================

--------------------------- MODULE SupportService ---------------------------
(* Support tickets, service maintenance records and the maintenance windows  *)
(* of one weighbridge (apps/api/src/modules/support, and startMaintenance    *)
(* and endMaintenance of modules/anomalies/service.ts).  A clerk is one HTTP *)
(* request in flight: it loads a row, checks it, and writes in a later       *)
(* transaction by id alone, so several requests interleave between the two. *)
(* Numbers are the latest one plus one, guarded by a unique key and retried. *)
EXTENDS Naturals, Sequences, FiniteSets, FiniteSetsExt

CONSTANTS
    Ticket,          \* the support tickets that may be created
    ServiceRecord,   \* the service maintenance records that may be created
    Clerk,           \* requests in flight
    WindowManager,   \* the clerks whose user holds maintenance.manage
    NoTicket,        \* a record linked to no ticket
    Attempts,        \* tries for a number (3 in the code)
    MaxWindows,      \* bound on maintenance windows ever opened
    MaxAborts        \* bound on requests cut off between two steps

ASSUME SupportAssumption ==
    /\ WindowManager \subseteq Clerk
    /\ NoTicket \notin Ticket
    /\ Ticket \cap ServiceRecord = {}
    /\ Attempts \in Nat \ {0} /\ MaxWindows \in Nat /\ MaxAborts \in Nat

VARIABLES
    number,       \* the number of a ticket or record, 0 until it is created
    ticketStatus, \* status of each ticket
    service,      \* status, window and ticket of each record
    window,       \* the windows of the weighbridge, "ACTIVE" or "COMPLETED"
    clerk,        \* what each request has read and does next
    aborts

supportVars == <<number, ticketStatus, service, window, clerk, aborts>>

TicketStatuses == {"OPEN", "ACKNOWLEDGED", "IN_PROGRESS", "WAITING_FOR_CUSTOMER",
    "WAITING_FOR_MAINTENANCE", "RESOLVED", "CLOSED", "CANCELLED"}
ServiceStatuses == {"SCHEDULED", "IN_PROGRESS", "COMPLETED", "CANCELLED"}

AllowedTicketTransitions ==
    [OPEN |-> {"ACKNOWLEDGED", "IN_PROGRESS", "CANCELLED"},
     ACKNOWLEDGED |-> {"IN_PROGRESS", "WAITING_FOR_CUSTOMER", "CANCELLED"},
     IN_PROGRESS |-> {"WAITING_FOR_CUSTOMER", "WAITING_FOR_MAINTENANCE", "RESOLVED", "CANCELLED"},
     WAITING_FOR_CUSTOMER |-> {"IN_PROGRESS", "RESOLVED", "CANCELLED"},
     WAITING_FOR_MAINTENANCE |-> {"IN_PROGRESS", "RESOLVED", "CANCELLED"},
     RESOLVED |-> {"CLOSED", "IN_PROGRESS"},
     CLOSED |-> {}, CANCELLED |-> {}]

AllowedServiceTransitions ==
    [SCHEDULED |-> {"IN_PROGRESS", "CANCELLED"},
     IN_PROGRESS |-> {"COMPLETED", "CANCELLED"},
     COMPLETED |-> {}, CANCELLED |-> {}]

\* Both assert functions accept a change to the status a row already has.
MayBecome(table, from, to) == from = to \/ to \in table[from]

Numbered == Ticket \cup ServiceRecord
KindOfItem(x) == IF x \in Ticket THEN Ticket ELSE ServiceRecord
Created(x) == number[x] > 0
Latest(kind) == Max({number[y] : y \in kind} \cup {0})
NextSupportNumber(x) == Latest(KindOfItem(x)) + 1
TakenNumber(x, n) == \E y \in KindOfItem(x) : number[y] = n

IdleClerk == [pc |-> "idle"]
Free(c) == clerk[c].pc \in {"idle", "failed"}
Goto(c, job) == clerk' = [clerk EXCEPT ![c] = job]

\* The job goes on with what it has found out.
Update(job, new) ==
    [x \in DOMAIN job \cup DOMAIN new |-> IF x \in DOMAIN new THEN new[x] ELSE job[x]]

Finish(c) == Goto(c, IdleClerk)

SupportInit ==
    /\ number = [x \in Numbered |-> 0]
    /\ ticketStatus = [t \in Ticket |-> "OPEN"]
    /\ service = [m \in ServiceRecord |-> [status |-> "SCHEDULED", window |-> 0, ticket |-> NoTicket]]
    /\ window = <<>>
    /\ clerk = [c \in Clerk |-> IdleClerk]
    /\ aborts = 0
-----------------------------------------------------------------------------
(* Creating a ticket or a record: read the latest number, insert latest + 1, *)
(* and on a violation of the unique key start over.                          *)
BeginCreate(c, x, t, startNow) ==
    /\ Free(c) /\ ~Created(x)
    /\ \A d \in Clerk : (~Free(d) /\ "item" \in DOMAIN clerk[d]) => clerk[d].item # x
    /\ x \in ServiceRecord /\ t # NoTicket => Created(t)
    /\ x \in Ticket => t = NoTicket /\ ~startNow
    /\ Goto(c, [pc |-> "number", item |-> x, ticket |-> t, start |-> startNow,
                attempt |-> 1])
    /\ UNCHANGED <<number, ticketStatus, service, window, aborts>>

ReadLatestNumber(c) ==
    /\ clerk[c].pc = "number"
    /\ Goto(c, Update(clerk[c], [pc |-> "insert", n |-> NextSupportNumber(clerk[c].item)]))
    /\ UNCHANGED <<number, ticketStatus, service, window, aborts>>

TryAgain(job) ==
    IF job.attempt < Attempts THEN [job EXCEPT !.pc = "number", !.attempt = @ + 1]
                              ELSE [job EXCEPT !.pc = "failed"]

InsertNumber(c) ==
    LET job == clerk[c] IN
    /\ job.pc = "insert"
    /\ IF TakenNumber(job.item, job.n)
       THEN Goto(c, TryAgain(job)) /\ UNCHANGED <<number, service>>
       ELSE /\ number' = [number EXCEPT ![job.item] = job.n]
            /\ service' = IF job.item \in ServiceRecord
                          THEN [service EXCEPT ![job.item].ticket = job.ticket] ELSE service
            /\ Goto(c, IF job.start THEN [pc |-> "start", item |-> job.item] ELSE IdleClerk)
    /\ UNCHANGED <<ticketStatus, window, aborts>>
-----------------------------------------------------------------------------
(* A change of a ticket's status: the transition is checked on the loaded    *)
(* row, the update is by id.                                                 *)
LoadTicket(c, t, to) ==
    /\ Free(c) /\ Created(t)
    /\ MayBecome(AllowedTicketTransitions, ticketStatus[t], to)
    /\ Goto(c, [pc |-> "transition", item |-> t, to |-> to])
    /\ UNCHANGED <<number, ticketStatus, service, window, aborts>>

TransitionTicket(c) ==
    /\ clerk[c].pc = "transition"
    /\ ticketStatus' = [ticketStatus EXCEPT ![clerk[c].item] = clerk[c].to]
    /\ Finish(c)
    /\ UNCHANGED <<number, service, window, aborts>>
-----------------------------------------------------------------------------
(* Maintenance windows.  A job without an item is the maintenance.manage     *)
(* endpoint of the weighbridge itself.                                       *)
OpenByHand(c) ==
    /\ Free(c) /\ c \in WindowManager
    /\ Goto(c, [pc |-> "findWindow"])
    /\ UNCHANGED <<number, ticketStatus, service, window, aborts>>

CloseByHand(c) ==
    /\ Free(c) /\ c \in WindowManager
    /\ Goto(c, [pc |-> "findOpen"])
    /\ UNCHANGED <<number, ticketStatus, service, window, aborts>>

ActiveWindows == {w \in DOMAIN window : window[w] = "ACTIVE"}

Resume(c, pc, w) ==
    IF "item" \in DOMAIN clerk[c]
    THEN Goto(c, Update(clerk[c], [pc |-> pc, window |-> w])) ELSE Finish(c)

FindWindow(c) ==
    /\ clerk[c].pc = "findWindow"
    /\ IF ActiveWindows = {} THEN Goto(c, Update(clerk[c], [pc |-> "openWindow"]))
       ELSE \E w \in ActiveWindows : Resume(c, "writeStart", w)
    /\ UNCHANGED <<number, ticketStatus, service, window, aborts>>

OpenWindow(c) ==
    /\ clerk[c].pc = "openWindow"
    /\ Len(window) < MaxWindows
    /\ window' = Append(window, "ACTIVE")
    /\ Resume(c, "writeStart", Len(window'))
    /\ UNCHANGED <<number, ticketStatus, service, aborts>>

\* endMaintenance takes whichever window of the weighbridge is active.
FindOpen(c) ==
    /\ clerk[c].pc = "findOpen"
    /\ IF ActiveWindows = {} THEN Finish(c)
       ELSE \E w \in ActiveWindows : Goto(c, Update(clerk[c], [pc |-> "closeWindow", open |-> w]))
    /\ UNCHANGED <<number, ticketStatus, service, window, aborts>>

CloseWindow(c) ==
    /\ clerk[c].pc = "closeWindow"
    /\ window' = [window EXCEPT ![clerk[c].open] = "COMPLETED"]
    /\ Resume(c, "writeEnd", 0)
    /\ UNCHANGED <<number, ticketStatus, service, aborts>>
-----------------------------------------------------------------------------
LoadForStart(c, m) ==
    /\ \/ Free(c)
       \/ clerk[c].pc = "start" /\ clerk[c].item = m
    /\ Created(m)
    /\ MayBecome(AllowedServiceTransitions, service[m].status, "IN_PROGRESS")
    /\ Goto(c, IF c \in WindowManager
               THEN [pc |-> "findWindow", item |-> m, ticket |-> service[m].ticket]
               ELSE [pc |-> "writeStart", item |-> m, ticket |-> service[m].ticket,
                     window |-> service[m].window])
    /\ UNCHANGED <<number, ticketStatus, service, window, aborts>>

\* The record is under way and its ticket, whatever its status, waits for it.
StartServiceMaintenance(c) ==
    LET job == clerk[c] IN
    /\ job.pc = "writeStart"
    /\ service' = [service EXCEPT ![job.item].status = "IN_PROGRESS",
                                  ![job.item].window = job.window]
    /\ ticketStatus' = IF job.ticket = NoTicket THEN ticketStatus
                       ELSE [ticketStatus EXCEPT ![job.ticket] = "WAITING_FOR_MAINTENANCE"]
    /\ Finish(c)
    /\ UNCHANGED <<number, window, aborts>>

EndsWindow(c, w) == c \in WindowManager /\ w # 0

\* Mutant: a record that is cancelled leaves its window open.
LoadForEndOrCancel(c, m, to) ==
    /\ Free(c) /\ Created(m)
    /\ MayBecome(AllowedServiceTransitions, service[m].status, to)
    /\ Goto(c, [pc |-> IF to = "COMPLETED" /\ EndsWindow(c, service[m].window)
                       THEN "checkWindow" ELSE "writeEnd",
                item |-> m, to |-> to, window |-> service[m].window])
    /\ UNCHANGED <<number, ticketStatus, service, window, aborts>>

LoadForEnd(c, m, to) ==
    /\ Free(c) /\ Created(m)
    /\ MayBecome(AllowedServiceTransitions, service[m].status, to)
    /\ Goto(c, [pc |-> IF EndsWindow(c, service[m].window) THEN "checkWindow" ELSE "writeEnd",
                item |-> m, to |-> to, window |-> service[m].window])
    /\ UNCHANGED <<number, ticketStatus, service, window, aborts>>

CheckWindow(c) ==
    /\ clerk[c].pc = "checkWindow"
    /\ Goto(c, [clerk[c] EXCEPT !.pc = IF window[clerk[c].window] = "ACTIVE"
                                       THEN "findOpen" ELSE "writeEnd"])
    /\ UNCHANGED <<number, ticketStatus, service, window, aborts>>

EndServiceMaintenance(c) ==
    /\ clerk[c].pc = "writeEnd"
    /\ service' = [service EXCEPT ![clerk[c].item].status = clerk[c].to]
    /\ Finish(c)
    /\ UNCHANGED <<number, ticketStatus, window, aborts>>

LoadForUpdate(c, m, t) ==
    /\ Free(c) /\ Created(m)
    /\ service[m].status \notin {"COMPLETED", "CANCELLED"}
    /\ t # NoTicket => Created(t)
    /\ Goto(c, [pc |-> "update", item |-> m, ticket |-> t])
    /\ UNCHANGED <<number, ticketStatus, service, window, aborts>>

UpdateMaintenance(c) ==
    /\ clerk[c].pc = "update"
    /\ service' = [service EXCEPT ![clerk[c].item].ticket = clerk[c].ticket]
    /\ Finish(c)
    /\ UNCHANGED <<number, ticketStatus, window, aborts>>

\* The server stops, or the database fails, between two steps of a request.
Abort(c) ==
    /\ ~Free(c) /\ aborts < MaxAborts
    /\ aborts' = aborts + 1
    /\ Finish(c)
    /\ UNCHANGED <<number, ticketStatus, service, window>>

SupportNext == \E c \in Clerk :
    \/ \E x \in Numbered, t \in Ticket \cup {NoTicket}, s \in BOOLEAN : BeginCreate(c, x, t, s)
    \/ ReadLatestNumber(c) \/ InsertNumber(c)
    \/ \E t \in Ticket, to \in TicketStatuses : LoadTicket(c, t, to)
    \/ TransitionTicket(c)
    \/ OpenByHand(c) \/ CloseByHand(c)
    \/ FindWindow(c) \/ OpenWindow(c) \/ FindOpen(c) \/ CloseWindow(c)
    \/ \E m \in ServiceRecord : LoadForStart(c, m)
    \/ StartServiceMaintenance(c)
    \/ \E m \in ServiceRecord, to \in {"COMPLETED", "CANCELLED"} : LoadForEnd(c, m, to)
    \/ CheckWindow(c) \/ EndServiceMaintenance(c)
    \/ \E m \in ServiceRecord, t \in Ticket \cup {NoTicket} : LoadForUpdate(c, m, t)
    \/ UpdateMaintenance(c)
    \/ Abort(c)

SupportSpec == SupportInit /\ [][SupportNext]_supportVars
-----------------------------------------------------------------------------
\* The ticket, record and window rows have the values their columns may hold.
SupportTypeOK ==
    /\ number \in [Numbered -> Nat]
    /\ ticketStatus \in [Ticket -> TicketStatuses]
    /\ service \in [ServiceRecord -> [status : ServiceStatuses, window : 0..Len(window),
                                      ticket : Ticket \cup {NoTicket}]]
    /\ window \in Seq({"ACTIVE", "COMPLETED"})
    /\ aborts \in 0..MaxAborts

\* When a service record is completed or cancelled, the window it opened or
\* joined is over, even if a request was cut off on the way: the weighbridge
\* does not stay in maintenance, with its alerts suppressed, after the work of
\* a user who may end maintenance.
NoWindowLeftOpen ==
    \A m \in ServiceRecord : service[m].status \in {"COMPLETED", "CANCELLED"} /\ service[m].window # 0
        => window[service[m].window] = "COMPLETED"
=============================================================================

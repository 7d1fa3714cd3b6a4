---------------------------- MODULE EventDelivery ----------------------------
(***************************************************************************)
(* What the synchronization of an edge gateway promises of each event,     *)
(* without queue statuses, batches, requests or replies: an event is kept  *)
(* until it is settled or given up, its effect happens at most once and    *)
(* never vanishes, never before the effects it depends on, and it is only  *)
(* settled once it has happened.                                           *)
(***************************************************************************)
CONSTANTS
    Event,
    DependsOn(_),   \* the events that must have had their effect before
    SameEffect(_)   \* the events that report one effect, the event itself included

VARIABLES
    edge,     \* what the gateway knows of each event
    applied   \* the events that have had their effect at the backend

vars == <<edge, applied>>

Init ==
    /\ edge = [e \in Event |-> "absent"]
    /\ applied = {}

Moves(e, from, to) ==
    /\ edge[e] \in from
    /\ edge' = [edge EXCEPT ![e] = to]
    /\ UNCHANGED applied

Queue(e) == Moves(e, {"absent"}, "queued")

Apply(e) ==
    /\ edge[e] # "absent"
    /\ e \notin applied
    /\ DependsOn(e) \subseteq applied
    /\ applied' = applied \cup SameEffect(e)
    /\ UNCHANGED edge

Settle(e) == e \in applied /\ Moves(e, {"queued"}, "settled")

\* A gateway that could not record the settlement offers the event again.
Reopen(e) == Moves(e, {"settled"}, "queued")

GiveUp(e) == Moves(e, {"queued", "settled"}, "dead")

Next == \E e \in Event : Queue(e) \/ Apply(e) \/ Settle(e) \/ Reopen(e) \/ GiveUp(e)

Spec == Init /\ [][Next]_vars
=============================================================================

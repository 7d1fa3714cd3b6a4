----------------------------- MODULE DurableLog -----------------------------
(***************************************************************************)
(* What the local store of a gateway promises of the writes it is asked    *)
(* for: a write is stored whole or not at all, one after the other, it is  *)
(* confirmed only once it is stored, and what is stored stays stored.      *)
(***************************************************************************)
VARIABLES
    log,      \* the writes that are stored
    acked     \* the writes that were confirmed

vars == <<log, acked>>

Init == log = {} /\ acked = {}

Store(w) ==
    /\ w \notin log
    /\ log' = log \cup {w}
    /\ UNCHANGED acked

Confirm(w) ==
    /\ w \in log
    /\ acked' = acked \cup {w}
    /\ UNCHANGED log

\* DurableLog is unbounded: any value can be written.
Next == (\E w \in log' \ log : Store(w)) \/ (\E w \in log : Confirm(w))

Spec == Init /\ [][Next]_vars
=============================================================================

----------------------------- MODULE EventFeed -----------------------------
(***************************************************************************)
(* What the path from the worker's collectors to the manager promises for  *)
(* an event, whatever fails on the way: it is applied at most once; it is  *)
(* acknowledged only after it was applied; and at any time it is in exactly *)
(* one of three places, waiting with the worker, acknowledged, or lost.    *)
(* An event that is lost for the worker may have been applied, or may be   *)
(* applied later, since a call may fail while its handler runs.            *)
(***************************************************************************)
EXTENDS Integers, Sequences, SequencesExt

VARIABLES
    made,     \* events are numbered 1..made
    waiting,  \* events the worker still has to send, or is sending
    applied,  \* events applied by the manager, in order
    acked,    \* events of successful calls, in order
    lost

vars == <<made, waiting, applied, acked, lost>>

Init ==
    /\ made = 0
    /\ waiting = {}
    /\ applied = <<>>
    /\ acked = <<>>
    /\ lost = {}

\* A new event; there may be no room for it.
Make ==
    /\ made' = made + 1
    /\ \/ waiting' = waiting \cup {made'} /\ lost' = lost
       \/ lost' = lost \cup {made'} /\ waiting' = waiting
    /\ UNCHANGED <<applied, acked>>

\* A batch is applied: none of it was applied before, or acknowledged.
Apply ==
    /\ IsPrefix(applied, applied')
    /\ IsInjective(applied')
    /\ ToSet(applied') \ ToSet(applied) \subseteq waiting \cup lost
    /\ UNCHANGED <<made, waiting, acked, lost>>

\* A batch is acknowledged: all of it has been applied.
Acknowledge ==
    /\ IsPrefix(acked, acked')
    /\ ToSet(acked') \ ToSet(acked) = waiting \ waiting'
    /\ waiting' \subseteq waiting
    /\ ToSet(acked') \subseteq ToSet(applied)
    /\ UNCHANGED <<made, applied, lost>>

Lose ==
    /\ waiting' \subseteq waiting
    /\ lost' = lost \cup (waiting \ waiting')
    /\ UNCHANGED <<made, applied, acked>>

Next == Make \/ Apply \/ Acknowledge \/ Lose

Spec == Init /\ [][Next]_vars
=============================================================================

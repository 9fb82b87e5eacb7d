--------------------------- MODULE MCHostManager ---------------------------
(***************************************************************************)
(* Instances of HostManager for TLC.                                       *)
(***************************************************************************)
EXTENDS HostManager, TLC

CONSTANTS h1, s1, s2

\* An idle reading and one past every limit of ComputeHealth.
MCMetrics == {[load |-> 1, idle |-> 90, mem |-> 40, dropped |-> 0],
              [load |-> 25, idle |-> 0, mem |-> 99, dropped |-> 101]}

\* Handler slots are interchangeable (no liveness is checked with it).
SlotSymmetry == Permutations({s1, s2})
=============================================================================

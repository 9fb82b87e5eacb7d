----------------------------- MODULE MCTcpFlow -----------------------------
(***************************************************************************)
(* Instances of TcpFlow for TLC.                                           *)
(***************************************************************************)
EXTENDS TcpFlow, TLC

CONSTANTS c1, c2, p1, p2, t1, t2, s1, s2

Symmetry ==
    Permutations(Cpus) \cup Permutations(Pids) \cup Permutations(Ports) \cup Permutations(Elements)
=============================================================================

-------------------------- MODULE MCPerfDiagnoser --------------------------
(***************************************************************************)
(* Instances of PerfDiagnoser for TLC.                                     *)
(***************************************************************************)
EXTENDS PerfDiagnoser

MCOneTarget == <<"yes">>
MCTwoTargets == <<"yes", "no">>
MCUsage == {0, 1, 2}
MCBusyOrIdle == {0, 2}
=============================================================================

-------------------------- MODULE MCMonitorPusher --------------------------
(***************************************************************************)
(* Instances of MonitorPusher for TLC.                                     *)
(***************************************************************************)
EXTENDS MonitorPusher

CONSTANT c1
=============================================================================

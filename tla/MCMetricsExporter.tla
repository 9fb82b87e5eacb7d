------------------------- MODULE MCMetricsExporter -------------------------
(***************************************************************************)
(* Instances of MetricsExporter for TLC.                                   *)
(***************************************************************************)
EXTENDS MetricsExporter
=============================================================================

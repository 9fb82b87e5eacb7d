-------------------------- MODULE MCMetricMonitors --------------------------
(***************************************************************************)
(* Instance of MetricMonitors for TLC.                                     *)
(***************************************************************************)
EXTENDS MetricMonitors

MCDevices == [disk |-> {"sda", "loop0"}, net |-> {"eth0", "lo"}]
=============================================================================

--------------------------- MODULE MCBpfDiagnoser ---------------------------
(***************************************************************************)
(* Instances of BpfDiagnoser for TLC.                                      *)
(***************************************************************************)
EXTENDS BpfDiagnoser

MCSameType == <<"offcpu", "offcpu">>
MCTwoTypes == <<"offcpu", "profile">>
MCOneEntry == <<"offcpu">>
=============================================================================

---------------------------- MODULE MCKcpWindow ----------------------------
(***************************************************************************)
(* Instances of KcpWindow for TLC.                                         *)
(***************************************************************************)
EXTENDS KcpWindow
=============================================================================

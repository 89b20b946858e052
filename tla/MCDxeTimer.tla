----------------------------- MODULE MCDxeTimer -----------------------------
(***************************************************************************)
(* Instances of DxeTimer for TLC.                                          *)
(***************************************************************************)
EXTENDS DxeTimer

CONSTANTS t1, t2, none
=============================================================================

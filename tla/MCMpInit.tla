------------------------------ MODULE MCMpInit ------------------------------
(***************************************************************************)
(* Instances of MpInit for TLC.                                            *)
(***************************************************************************)
EXTENDS MpInit
=============================================================================

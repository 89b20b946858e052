------------------------- MODULE MCProtocolDatabase -------------------------
(***************************************************************************)
(* Instances of ProtocolDatabase for TLC.                                  *)
(***************************************************************************)
EXTENDS ProtocolDatabase
=============================================================================

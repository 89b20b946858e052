------------------------------- MODULE MCFtw -------------------------------
(***************************************************************************)
(* Instances of Ftw for TLC.                                               *)
(***************************************************************************)
EXTENDS Ftw

CONSTANTS b1, b2, old, new, none, erased, torn

OneWrite == {<<1, 0>>}
=============================================================================

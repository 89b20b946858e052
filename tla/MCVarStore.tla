----------------------------- MODULE MCVarStore -----------------------------
(***************************************************************************)
(* Instances of VarStore for TLC.                                          *)
(***************************************************************************)
EXTENDS VarStore

CONSTANTS n1, n2, v1, v2, v3, none, noreq

Lengths == v1 :> 1 @@ v2 :> 1 @@ v3 :> 5

\* sizes are the same, and nothing tells names or values apart
Sym == Permutations({n1, n2}) \union Permutations({v1, v2})
=============================================================================

------------------------------ MODULE FtwStore ------------------------------
(***************************************************************************)
(* What the fault tolerant write protocol promises (FaultTolerantWrite.c): *)
(* a store of blocks in which an update happens at once or not at all,     *)
(* whatever power losses come between its steps.                           *)
(***************************************************************************)
CONSTANTS
    Blocks,   \* target blocks
    Values,   \* their contents
    None      \* no request; it is not a record

VARIABLES
    store,    \* what each block holds once recovery is done
    req,      \* the update in progress
    answer    \* what the caller of the last update was told

svars == <<store, req, answer>>

Init ==
    /\ store \in [Blocks -> Values]
    /\ req = None /\ answer = "none"

\* A caller asks for an update.
Begin(b, v) ==
    /\ req = None
    /\ req' = [blk |-> b, val |-> v] /\ answer' = "none"
    /\ UNCHANGED store

\* The update happens.
Apply ==
    /\ req # None
    /\ store' = [store EXCEPT ![req.blk] = req.val]
    /\ UNCHANGED <<req, answer>>

\* The caller is told that it has happened.
Succeed ==
    /\ req # None /\ store[req.blk] = req.val
    /\ req' = None /\ answer' = "success"
    /\ UNCHANGED store

\* The caller is refused or told of an error, or is lost with the power.
Abandon ==
    /\ req # None
    /\ req' = None /\ answer' \in {"none", "failure"}
    /\ UNCHANGED store

Next == Apply \/ Succeed \/ Abandon \/ \E b \in Blocks, v \in Values : Begin(b, v)

Spec == Init /\ [][Next]_svars

=============================================================================

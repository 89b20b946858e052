------------------------------- MODULE VarMap -------------------------------
(***************************************************************************)
(* What the variable services promise (Variable.c): a map from names to    *)
(* values in which SetVariable changes one entry at once or not at all,    *)
(* whatever power losses come between the steps of the driver.             *)
(***************************************************************************)
CONSTANTS
    Names,    \* names of variables
    Values,   \* their data
    None,     \* no such variable; as the data of a request, delete it
    NoReq     \* no request

VARIABLES
    map,      \* the variables
    req,      \* for each name, the data that a SetVariable in progress is to store
    answer    \* what the last SetVariable to return said

mvars == <<map, req, answer>>

Init ==
    /\ map \in [Names -> Values \union {None}]
    /\ req = [n \in Names |-> NoReq] /\ answer = "none"

Begin(n) ==
    /\ answer' = "none"
    /\ req[n] = NoReq /\ req'[n] \in Values \union {None}
    /\ req' = [req EXCEPT ![n] = req'[n]]
    /\ UNCHANGED map

\* The update happens.
Apply(n) ==
    /\ UNCHANGED <<answer, req>>
    /\ req[n] # NoReq
    /\ map' = [map EXCEPT ![n] = req[n]]

\* The caller is told of success once the update has happened, or as it does.
Succeed(n) ==
    /\ answer' = "success"
    /\ req[n] # NoReq /\ req' = [req EXCEPT ![n] = NoReq]
    /\ map' = [map EXCEPT ![n] = req[n]]

\* The caller is refused, and the variable is as it was when the call began.
Refuse(n) ==
    /\ answer' = "failure"
    /\ req' = [req EXCEPT ![n] = NoReq]
    /\ UNCHANGED map

\* The callers are lost with the power, with their updates applied or not.
Lose ==
    /\ answer' = "none"
    /\ req' = [n \in Names |-> NoReq]
    /\ UNCHANGED map

Next ==
    \/ Lose
    \/ \E n \in Names :
          Begin(n) \/ Apply(n) \/ Succeed(n) \/ Refuse(n)

Spec == Init /\ [][Next]_mvars

=============================================================================

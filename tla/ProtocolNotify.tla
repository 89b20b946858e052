--------------------------- MODULE ProtocolNotify ---------------------------
(***************************************************************************)
(* What RegisterProtocolNotify promises: each registration is told of each *)
(* interface of the protocol that is there or is installed later, once and *)
(* in the order in which they were installed, unless it is removed before. *)
(***************************************************************************)
EXTENDS EventList

CONSTANTS
    Handles,  \* the handles on which the protocol may be installed
    Regs      \* the registrations

VARIABLES
    installed,   \* the handles with an interface, in the order of installation
    registered,  \* the registrations that exist
    unseen       \* the handles that each of them has yet to be told of

vars == <<installed, registered, unseen>>

Forget(r) == unseen' = [unseen EXCEPT ![r] = << >>]

Init == installed = << >> /\ registered = {} /\ unseen = [r \in Regs |-> << >>]

\* A new interface, or another one in place of the one that was there
Install(h) ==
    /\ installed' = Append(Unlink(installed, h), h)
    /\ unseen' = [r \in Regs |-> IF r \in registered THEN Append(Unlink(unseen[r], h), h)
                                 ELSE << >>]
    /\ UNCHANGED registered

Uninstall(h) ==
    /\ installed' = Unlink(installed, h)
    /\ unseen' = [r \in Regs |-> Unlink(unseen[r], h)]
    /\ UNCHANGED registered

Register(r) ==
    /\ r \notin registered /\ registered' = registered \union {r}
    /\ unseen' = [unseen EXCEPT ![r] = installed]
    /\ UNCHANGED installed

Unregister(r) ==
    /\ registered' = registered \ {r} /\ Forget(r)
    /\ UNCHANGED installed

\* The registration is told of the first one.
Locate(r) ==
    /\ unseen[r] # << >> /\ unseen' = [unseen EXCEPT ![r] = Tail(@)]
    /\ UNCHANGED <<installed, registered>>

Next ==
    \/ \E h \in Handles : Install(h) \/ Uninstall(h)
    \/ \E r \in Regs : Register(r) \/ Unregister(r) \/ Locate(r)

Spec == Init /\ [][Next]_vars
=============================================================================

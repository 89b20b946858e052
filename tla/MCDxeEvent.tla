----------------------------- MODULE MCDxeEvent -----------------------------
(***************************************************************************)
(* Instances of DxeEvent for TLC.                                          *)
(***************************************************************************)
EXTENDS DxeEvent

CONSTANTS
    chk,    \* mEfiCheckTimerEvent (TPL_HIGH_LEVEL - 1)
    gui,    \* a user-interface event (TPL_CALLBACK)
    idle,   \* gIdleLoopEvent (TPL_NOTIFY), the only event of its group here
    key,    \* a keyboard's WaitForKey, of type EVT_NOTIFY_WAIT (TPL_NOTIFY)
    tmo,    \* a timer event without a notification function
    g1, g2, \* two members of one event group (TPL_CALLBACK and TPL_NOTIFY)
    app, none

\* the functions of the callers, from what some of them may do
Only(f) == [c \in Callers |-> IF c \in DOMAIN f THEN f[c] ELSE {}]

Nobody == Only(<< >>)
AppRaises == Only(app :> {8, 16})

\* An application polls the keyboard, whose notification function signals it
\* when a key was read, as a timer does, and waits for it with a time-out,
\* while it and the timers draw on the screen.
WaitTpl == chk :> 30 @@ key :> 16 @@ idle :> 16 @@ gui :> 8
WaitGroup == [e \in Events |-> IF e = idle THEN idle ELSE none]
KeySignals == Only(chk :> {tmo, key, gui} @@ key :> {key, gui} @@ app :> {gui})
KeyChecks == Only(app :> {key})
WaitForKey == << tmo, key >>
WaitSigs == << idle, gui, chk >>

\* Two events of a group, signaled by the application, by a timer and by one
\* of themselves; that one is closed and created again by the application, and
\* closed by its own notification function.
GroupTpl == chk :> 30 @@ g1 :> 8 @@ g2 :> 16
Groups == chk :> none @@ g1 :> g1 @@ g2 :> g1
GroupSignals == Only(chk :> {g1} @@ g2 :> {g1} @@ app :> {g1, g2})
GroupSigs == << g2, g1, chk >>
NoWait == << >>
GroupCloses == Only(app :> {g2} @@ g2 :> {g2})
GroupCreates == Only(app :> {g2})

\* The theorems of DxeEventPromise are about such owners.
ASSUME OwnersHold == CloserOwns /\ UsersHold => OwnersClose
=============================================================================

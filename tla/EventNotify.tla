----------------------------- MODULE EventNotify -----------------------------
(***************************************************************************)
(* What the event services promise to the code above them: a preemptive    *)
(* scheduler of notification functions.                                    *)
(*                                                                         *)
(* An event that is wanted is chosen at some moment, and its notification  *)
(* function then runs exactly once for that choice.  Code is preempted only*)
(* by functions of a level above the one it is at, and goes on where it    *)
(* was when they have returned.  Signals of an event that is wanted already*)
(* are merged; a signal after the choice makes it wanted again.            *)
(***************************************************************************)
EXTENDS Integers

CONSTANTS
    Events,     \* the events with a notification function
    NotifyTpl,  \* the level of each one
    App,        \* the code that is not a notification function
    AppTpl      \* the level of that code

VARIABLES
    wanted,     \* events signaled and not yet chosen
    chosen,     \* events whose notification function is about to be called
    active      \* the code in progress: whose it is, and the level it is at

nvars == <<wanted, chosen, active>>

Code(c, level) == [ev |-> c, at |-> level]
Base(c) == IF c = App THEN AppTpl ELSE NotifyTpl[c]

\* Of the code in progress, the one at the highest level runs.
Runs(c) == \A d \in active \ {c} : d.at < c.at

Init ==
    /\ wanted = {} /\ chosen = {}
    /\ active = {Code(App, AppTpl)}

\* The code signals an event, or withdraws it by closing it.
Want(e) ==
    /\ wanted' = wanted \cup {e}
    /\ UNCHANGED <<chosen, active>>

Withdraw(e) ==
    /\ e \in wanted
    /\ wanted' = wanted \ {e}
    /\ UNCHANGED <<chosen, active>>

\* The running code masks notifications up to a level, and unmasks them.
Mask(c, level) ==
    /\ Runs(c) /\ c.at = Base(c.ev) /\ level > c.at
    /\ active' = (active \ {c}) \cup {Code(c.ev, level)}
    /\ UNCHANGED <<wanted, chosen>>

Unmask(c) ==
    /\ Runs(c) /\ c.at > Base(c.ev)
    /\ active' = (active \ {c}) \cup {Code(c.ev, Base(c.ev))}
    /\ UNCHANGED <<wanted, chosen>>

\* Choose an event above the running code and above the ones chosen before.
Choose(e) ==
    /\ e \in wanted
    /\ \A c \in active : NotifyTpl[e] > c.at
    /\ \A f \in chosen : NotifyTpl[e] > NotifyTpl[f]
    /\ wanted' = wanted \ {e}
    /\ chosen' = chosen \cup {e}
    /\ UNCHANGED active

\* The highest chosen event runs.
Start(e) ==
    /\ e \in chosen
    /\ \A c \in active : NotifyTpl[e] > c.at
    /\ \A f \in chosen \ {e} : NotifyTpl[e] > NotifyTpl[f]
    /\ chosen' = chosen \ {e}
    /\ active' = active \cup {Code(e, NotifyTpl[e])}
    /\ UNCHANGED wanted

Finish(c) ==
    /\ Runs(c) /\ c.ev # App /\ c.at = Base(c.ev)
    /\ \A f \in chosen : NotifyTpl[f] < c.at
    /\ active' = active \ {c}
    /\ UNCHANGED <<wanted, chosen>>

Next ==
    \/ \E c \in active : Unmask(c) \/ Finish(c) \/ \E level \in AppTpl .. 31 : Mask(c, level)
    \/ \E e \in Events : Want(e) \/ Withdraw(e) \/ Choose(e) \/ Start(e)

Spec == Init /\ [][Next]_nvars

=============================================================================

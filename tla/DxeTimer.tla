------------------------------ MODULE DxeTimer ------------------------------
(***************************************************************************)
(* Timer events of the DXE core (MdeModulePkg/Core/Dxe/Event/Timer.c).     *)
(*                                                                         *)
(* mEfiTimerLock is a lock of TPL_HIGH_LEVEL - 1: it keeps CoreSetTimer and*)
(* CoreCheckTimers, the notification function of mEfiCheckTimerEvent, out  *)
(* of each other's way, so at most one of them is in progress, but it does *)
(* not disable interrupts: the tick, CoreTimerTick, comes between any two  *)
(* steps of either and reads the timer list without that lock.  The        *)
(* dispatch of events is taken from EventNotify: a signaled event is       *)
(* notified at some later moment when the timer lock is free.              *)
(***************************************************************************)
EXTENDS EventList

CONSTANTS
    Timers,      \* the events of type EVT_TIMER
    None,        \* no event
    Delays,      \* values of SetTimer's TriggerTime that callers pass
    Durations,   \* time that one tick may report
    TimerPeriod, \* what the timer driver's GetTimerPeriod returns
    Width,       \* bits of a UINT64
    MaxTime      \* bound: where the system clock of the model stops

ASSUME TimerAssumption ==
    /\ None \notin Timers
    /\ Delays \subseteq 0 .. 2^Width - 1
    /\ Durations \subseteq Nat \ {0} /\ TimerPeriod \in Nat
    /\ Width \in Nat /\ 2^Width \in Nat \ {0}
    /\ MaxTime \in 0 .. 2^Width - 1

VARIABLES
    time,      \* mEfiSystemTime
    list,      \* mEfiTimerList
    trigger,   \* Timer.TriggerTime of every timer event
    period,    \* Timer.Period of every timer event
    signal,    \* timer events signaled and not yet notified
    check,     \* mEfiCheckTimerEvent is signaled and not yet notified
    pc,        \* next step of CoreSetTimer or CoreCheckTimers, or "free"
    op,        \* the arguments of the SetTimer in progress
    now,       \* what CoreCurrentSystemTime returned to it
    due        \* history: the time before which each timer must not expire

vars == <<time, list, trigger, period, signal, check, pc, op, now, due>>

Types == {"cancel", "periodic", "relative"}
NoOp  == [ev |-> None, type |-> "cancel", delay |-> 0]

U64(n) == n % 2^Width
Never  == 3 * 2^Width    \* later than anything a caller can ask for

\* Mutant: at the end of the list.
Insert_AtTail(s, e, expiry) == Append(s, e)

\* CoreInsertEventTimer: before the first timer that expires later.
Insert(s, e, expiry) ==
    LET later == {i \in DOMAIN s : trigger[s[i]] > expiry}
        at    == IF later = {} THEN Len(s) + 1
                 ELSE CHOOSE i \in later : \A j \in later : i <= j
    IN  InsertAt(s, at, e)

-----------------------------------------------------------------------------
(***************************************************************************)
(* CoreSetTimer.  A tick sees the list before or after each step: linking  *)
(* and unlinking change the head of the list with one store.               *)
(***************************************************************************)
\* Take mEfiTimerLock and take the timer off the list.
SetTimer(e, type, delay) ==
    /\ pc = "free"
    /\ op' = [ev |-> e, type |-> type,
              delay |-> IF type = "periodic" /\ delay = 0 THEN TimerPeriod
                                                          ELSE delay]
    /\ list' = Unlink(list, e)
    /\ trigger' = [trigger EXCEPT ![e] = 0]
    /\ period' = [period EXCEPT ![e] = IF type = "periodic" THEN op'.delay ELSE 0]
    /\ due' = [due EXCEPT ![e] = Never]
    /\ pc' = IF type = "cancel" THEN "unlock" ELSE "settime"
    /\ UNCHANGED <<time, signal, check, now>>

\* Mutant: the delay is taken as the time.
SetTriggerTime_FromZero ==
    /\ pc = "settime" /\ pc' = "setinsert"
    /\ now' = time
    /\ trigger' = [trigger EXCEPT ![op.ev] = op.delay]
    /\ due' = [due EXCEPT ![op.ev] = time + op.delay]
    /\ UNCHANGED <<time, list, period, signal, check, op>>

\* Read the system time, in its own critical section.
SetTriggerTime ==
    /\ pc = "settime"
    /\ now' = time
    /\ trigger' = [trigger EXCEPT ![op.ev] = U64(time + op.delay)]
    /\ due' = [due EXCEPT ![op.ev] = time + op.delay]
    /\ pc' = "setinsert"
    /\ UNCHANGED <<time, list, period, signal, check, op>>

\* Insert the timer; one that has expired already is looked at now.
SetInsert ==
    /\ pc = "setinsert"
    /\ list' = Insert(list, op.ev, trigger[op.ev])
    /\ check' = (check \/ op.delay = 0)
    /\ pc' = "unlock"
    /\ UNCHANGED <<time, trigger, period, signal, op, now, due>>

\* Release mEfiTimerLock and return.
Unlock ==
    /\ pc = "unlock"
    /\ pc' = "free" /\ op' = NoOp /\ now' = 0
    /\ UNCHANGED <<time, list, trigger, period, signal, check, due>>

-----------------------------------------------------------------------------
(***************************************************************************)
(* CoreCheckTimers, the notification function of mEfiCheckTimerEvent       *)
(***************************************************************************)
CheckTimers ==
    /\ pc = "free" /\ check
    /\ check' = FALSE
    /\ pc' = "checktime"
    /\ UNCHANGED <<time, list, trigger, period, signal, op, now, due>>

CheckTime ==
    /\ pc = "checktime"
    /\ now' = time
    /\ pc' = "checkhead"
    /\ UNCHANGED <<time, list, trigger, period, signal, check, op, due>>

CheckDone ==
    /\ pc = "checkhead"
    /\ list # << >> => trigger[Head(list)] > now
    /\ pc' = "unlock"
    /\ UNCHANGED <<time, list, trigger, period, signal, check, op, now, due>>

\* Remove the expired timer at the head of the list and signal it.
CheckExpired ==
    /\ pc = "checkhead"
    /\ list # << >> /\ trigger[Head(list)] <= now
    /\ list' = Tail(list)
    /\ signal' = signal \cup {Head(list)}
    /\ op' = [NoOp EXCEPT !.ev = Head(list)]
    /\ due' = [due EXCEPT ![Head(list)] = Never]
    /\ pc' = IF period[Head(list)] = 0 THEN "checkhead" ELSE "rearm"
    /\ UNCHANGED <<time, trigger, period, check, now>>

\* A periodic timer expires again a period later, or now if that has passed.
CheckRearm ==
    LET e    == op.ev
        next == U64(trigger[e] + period[e])
        late == next <= now
    IN  /\ pc = "rearm"
        /\ trigger' = [trigger EXCEPT ![e] = IF late THEN now ELSE next]
        /\ check' = (check \/ late)
        /\ due' = [due EXCEPT ![e] = IF late THEN now ELSE trigger[e] + period[e]]
        /\ list' = Insert(list, e, trigger'[e])
        /\ pc' = "checkhead"
        /\ UNCHANGED <<time, period, signal, op, now>>

-----------------------------------------------------------------------------
\* Mutant: the tick looks for the exact moment.
TimerTick_Exact(duration) ==
    /\ time' = IF time + duration <= MaxTime THEN time + duration ELSE MaxTime
    /\ check' = (check \/ (list # << >> /\ trigger[Head(list)] = time'))
    /\ UNCHANGED <<list, trigger, period, signal, pc, op, now, due>>

(* CoreTimerTick, from the timer interrupt. *)
TimerTick(duration) ==
    /\ time' = IF time + duration <= MaxTime THEN time + duration ELSE MaxTime
    /\ check' = \/ check
                \/ list # << >> /\ trigger[Head(list)] <= time'
    /\ UNCHANGED <<list, trigger, period, signal, pc, op, now, due>>

\* The notification function of a signaled timer event is called.
Notify(e) ==
    /\ pc = "free" /\ e \in signal
    /\ signal' = signal \ {e}
    /\ UNCHANGED <<time, list, trigger, period, check, pc, op, now, due>>

Init ==
    /\ time = 0 /\ list = << >>
    /\ trigger = [e \in Timers |-> 0] /\ period = [e \in Timers |-> 0]
    /\ signal = {} /\ check = FALSE
    /\ pc = "free" /\ op = NoOp /\ now = 0
    /\ due = [e \in Timers |-> Never]

LockStep ==
    \/ SetTriggerTime \/ SetInsert \/ Unlock
    \/ CheckTime \/ CheckDone \/ CheckExpired \/ CheckRearm

Next ==
    \/ LockStep \/ CheckTimers
    \/ \E e \in Timers : Notify(e)
    \/ \E e \in Timers, type \in Types, delay \in Delays : SetTimer(e, type, delay)
    \/ \E duration \in Durations : TimerTick(duration)

Spec == Init /\ [][Next]_vars

\* What was begun is finished, and a signaled check of the list is run.
\* CoreReleaseLock dispatches mEfiCheckTimerEvent before the code that held
\* the lock goes on, so that code cannot keep the check away.
Fairness ==
    /\ WF_vars(LockStep) /\ SF_vars(CheckTimers)
    /\ WF_vars(\E duration \in Durations : TimerTick(duration))

LiveSpec == Spec /\ Fairness

-----------------------------------------------------------------------------
(***************************************************************************)
(* Properties                                                              *)
(***************************************************************************)
TypeOK ==
    /\ time \in 0 .. MaxTime
    /\ list \in Seq(Timers)
    /\ trigger \in [Timers -> Nat] /\ period \in [Timers -> Nat]
    /\ signal \subseteq Timers /\ check \in BOOLEAN
    /\ pc \in {"free", "settime", "setinsert", "unlock", "checktime",
              "checkhead", "rearm"}
    /\ op.ev \in Timers \cup {None} /\ op.type \in Types /\ op.delay \in Nat
    /\ now \in 0 .. MaxTime
    /\ due \in [Timers -> Nat]

(* The list is in the order of TriggerTime and holds an event once, at     *)
(* every moment a tick may look at its head.                               *)
ListSorted ==
    \A i, j \in DOMAIN list : i < j =>
        trigger[list[i]] <= trigger[list[j]] /\ list[i] # list[j]

(* The safety invariant: types, and the order that a tick relies on. *)
TimerInv == TypeOK /\ ListSorted

(* A timer event is signaled by its timer only when the delay that its     *)
(* caller asked for has passed ("The number of 100ns units until the timer *)
(* expires", Timer.c:236), never after it was cancelled or set again, and  *)
(* once for each expiry.                                                   *)
NeverEarly == [][CheckExpired => due[Head(list)] <= time]_vars

(* A timer that has expired is signaled or taken off the list, even if it  *)
(* was inserted after the tick in which it expired had looked at the list. *)
ExpiredTimerFires ==
    \A e \in Timers :
        (e \in ToSet(list) /\ trigger[e] <= time)
            ~> (e \in signal \/ e \notin ToSet(list))

=============================================================================

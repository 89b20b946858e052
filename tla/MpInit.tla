------------------------------- MODULE MpInit -------------------------------
(***************************************************************************)
(* The multiprocessor library (ByoModulePkg/Library/MpInitLib) in DXE.     *)
(*                                                                         *)
(* The bootstrap processor (BSP) hands procedures to the application       *)
(* processors (APs), one by one or to all of them, waits for them or looks *)
(* after them from a timer event, and resets those that are out of time.   *)
(* They share memory, with a lock for each write of an AP's state only.    *)
(*                                                                         *)
(* The BSP has a list of the steps it is yet to take, todo.  A step is one *)
(* access to what the APs read or write; a helper puts its own steps       *)
(* before the rest.                                                        *)
(*                                                                         *)
(* The APs wait in a HLT loop, PcdCpuApLoopMode of the platform, so that   *)
(* every wake-up sends INIT and starts them anew.                          *)
(***************************************************************************)
EXTENDS Integers, Sequences, FiniteSets, FiniteSetsExt

CONSTANTS
    N,            \* number of APs; the BSP has processor number 0
    Careful,      \* callers leave an AP alone, and do not go on to the system, while
                  \* a call that asked it is outstanding
    AllEnabled,   \* callers use all APs at once only while none is disabled
    Prompt,       \* a call is out of time only when a procedure of it hangs, and
                  \* no AP is at anything else when one is reset
    Renews        \* a notification function of a WaitEvent makes the next call

ASSUME MpAssumption ==
    /\ N \in Nat \ {0}
    /\ {Careful, AllEnabled, Prompt, Renews} \subseteq BOOLEAN

APs == 1 .. N
All == 0        \* stands for StartupAllAPs among the calls, and for all APs
Nobody == -1

VARIABLES
    todo,      \* the steps that the BSP is yet to take
    stop,      \* mStopCheckAllApsStatus
    phase,     \* "boot", or "os" from MpInitChangeApLoopCallback on
    pc,        \* where each AP is
    procedure, \* Procedure, local to each AP
    lock,      \* whether an AP holds its ApLock
    state,     \* State of each AP
    function,  \* ApFunction of each AP
    signal,    \* StartupApSignal of each AP
    finished,  \* FinishedCount
    toFinish,  \* mNumberToFinish
    group,     \* StartCount, RunningCount, Waiting and SingleThread
    event,     \* the calls whose WaitEvent is not NULL
    over,      \* the calls whose time is over
    \* history
    by,        \* the outstanding call that asked each AP
    ran,       \* whether the AP has run the procedure for it
    owed       \* the calls whose WaitEvent is yet to be signaled

bspVars  == <<todo, stop, phase>>
apVars   == <<pc, procedure, lock, state, function, signal, finished, toFinish>>
callVars == <<group, event, over>>
history  == <<by, ran, owed>>
vars == <<bspVars, apVars, callVars, history>>

-----------------------------------------------------------------------------
(***************************************************************************)
(* The steps of the BSP.  A step is for one AP, p, or for all of them; x is*)
(* the procedure of a wake-up, or how the call is made.  A step that is    *)
(* taken for each AP in turn has the number of the AP, i.                  *)
(***************************************************************************)
Step(do, p, x) == << [do |-> do, p |-> p, i |-> p, x |-> x] >>
ForAPs(do, x)  == << [do |-> do, p |-> All, i |-> 1, x |-> x] >>

WakeUpAP(p, f) ==
    Step("zero", p, f) \o Step("ready", p, f) \o Step("init", p, f)
    \o Step("awake", p, f)

WakeUpAll(f) ==
    Step("zero", All, f) \o ForAPs("ready", f) \o Step("init", All, f)
    \o ForAPs("awake", f)

\* Mutant: the AP is marked idle before it has finished the empty wake-up.
ResetProcessorToIdleState_NoCount(p) ==
    WakeUpAP(p, "null") \o Step("idle", p, "null")

ResetProcessorToIdleState(p) ==
    WakeUpAP(p, "null") \o Step("count", p, "null") \o Step("idle", p, "null")

\* "poll" from CheckAndUpdateApsStatus, "block" from StartupAllAPs
CheckAllAPs(x) == Step("look", 1, x) \o Step("decide", All, x)

CheckAndUpdateApsStatus == Step("pending", All, "")

\* The WaitEvent of a polled call is signaled and then forgotten.
Answer(c, x) ==
    IF x = "poll" THEN Step("tell", c, "") \o Step("forget", c, "") ELSE << >>

\* APs wait where PEI left them, for INIT only, and are synchronised with the BSP.
MpInitLibInitialize ==
    WakeUpAll("sync") \o Step("count", All, "sync") \o ForAPs("idle", "sync")

-----------------------------------------------------------------------------
Top == Head(todo)
At(do) == todo # << >> /\ Top.do = do

\* The step for the next AP, if it is taken for each of them
Again ==
    IF Top.p = All /\ Top.i \in 1 .. N - 1 THEN << [Top EXCEPT !.i = @ + 1] >> ELSE << >>

Do(steps) == todo' = steps \o Again \o Tail(todo) /\ UNCHANGED <<stop, phase>>

\* The lock is free and is held for the assignment.
SetApState(p, s) == ~lock[p] /\ state' = [state EXCEPT ![p] = s]

Zero ==
    /\ At("zero") /\ Do(<< >>) /\ finished' = 0
    /\ UNCHANGED <<pc, procedure, lock, state, function, signal, toFinish>>
    /\ UNCHANGED <<callVars, history>>

\* And the start-up signal is set: an AP that clears it before INIT does so again.
Ready ==
    /\ At("ready") /\ Do(<< >>) /\ SetApState(Top.i, "ready")
    /\ function' = [function EXCEPT ![Top.i] = Top.x]
    /\ signal' = [signal EXCEPT ![Top.i] = TRUE]
    /\ UNCHANGED <<pc, procedure, lock, finished, toFinish, callVars, history>>

\* An AP starts anew wherever it is; its lock is memory, and stays.
SendInitSipiSipi ==
    /\ At("init") /\ Do(<< >>)
    /\ pc' = [p \in APs |-> IF Top.p \in {All, p} THEN "start" ELSE pc[p]]
    /\ UNCHANGED <<procedure, lock, state, function, signal, finished, toFinish>>
    /\ UNCHANGED <<callVars, history>>

WaitApWakeup ==
    /\ At("awake") /\ ~signal[Top.i] /\ Do(<< >>)
    /\ UNCHANGED <<apVars, callVars, history>>

WaitFinished ==
    /\ At("count") /\ finished >= (IF Top.p = All THEN N ELSE 1) /\ Do(<< >>)
    /\ UNCHANGED <<apVars, callVars, history>>

Idle ==
    /\ At("idle") /\ Do(<< >>) /\ SetApState(Top.i, "idle")
    /\ UNCHANGED <<pc, procedure, lock, function, signal, finished, toFinish>>
    /\ UNCHANGED <<callVars, history>>

-----------------------------------------------------------------------------
(***************************************************************************)
(* CheckAllAPs, CheckThisAP and CheckAndUpdateApsStatus.                   *)
(***************************************************************************)
Others == <<pc, procedure, lock, function, signal, finished, toFinish>>

\* Mutant: the next AP of a sequential call is not woken up.
Look_NoNext ==
    LET left == {p \in group.waiting : p >= Top.p}
        p == Min(left)
    IN  /\ At("look")
        /\ Do(IF left = {} THEN << >> ELSE Step("look", p + 1, Top.x))
        /\ IF left = {} \/ state[p] # "finished" THEN UNCHANGED <<state, group>>
           ELSE /\ SetApState(p, "idle")
                /\ group' = [group EXCEPT !.running = @ + 1, !.waiting = @ \ {p}]
        /\ UNCHANGED <<Others, event, over, history>>

\* The loop of CheckAllAPs, from Top.p on
Look ==
    LET left == {p \in group.waiting : p >= Top.p}
        p == Min(left)
        others == group.waiting \ {p}
        next == IF group.single /\ others # {} THEN WakeUpAP(Min(others), "proc") ELSE << >>
    IN  /\ At("look")
        /\ IF left = {} THEN Do(<< >>) /\ UNCHANGED <<state, group>>
           ELSE IF state[p] # "finished"
           THEN Do(Step("look", p + 1, Top.x)) /\ UNCHANGED <<state, group>>
           ELSE /\ SetApState(p, "idle") /\ Do(next \o Step("look", p + 1, Top.x))
                /\ group' = [group EXCEPT !.running = @ + 1, !.waiting = others]
        /\ UNCHANGED <<Others, event, over, history>>

\* Its values are set before they are used again.
NoGroup == [start |-> 0, running |-> 0, waiting |-> {}, single |-> FALSE]

\* The call c has ended.
Result(c) ==
    /\ by' = [p \in APs |-> IF by[p] = c THEN Nobody ELSE by[p]]
    /\ ran' = [p \in APs |-> IF by[p] = c THEN "no" ELSE ran[p]]
    /\ group' = IF c = All THEN NoGroup ELSE group
    /\ over' = over \ {c} /\ UNCHANGED <<owed, event>>

DecideFinished ==
    /\ At("decide") /\ group.running = group.start
    /\ Result(All) /\ Do(Answer(All, Top.x))
    /\ UNCHANGED apVars

Settled == Prompt => \A p \in APs : pc[p] \in {"parked", "hung"}

DecideOver ==
    /\ At("decide") /\ group.running # group.start /\ All \in over /\ Settled
    /\ Do(ForAPs("reclaim", Top.x) \o Step("report", All, Top.x))
    /\ UNCHANGED <<apVars, callVars, history>>

\* Looking again is a step only when something has changed.
DecideNotReady ==
    /\ At("decide") /\ group.running # group.start /\ All \notin over
    /\ \/ Top.x = "poll" /\ Do(<< >>)
       \/ /\ Top.x = "block" /\ \E p \in group.waiting : state[p] = "finished"
          /\ Do(CheckAllAPs("block"))
    /\ UNCHANGED <<apVars, callVars, history>>

Reclaim ==
    LET p == Top.i
    IN  /\ At("reclaim")
        /\ Do(IF p \in group.waiting THEN ResetProcessorToIdleState(p) ELSE << >>)
        /\ group' = [group EXCEPT !.waiting = @ \ {p}]
        /\ UNCHANGED <<apVars, event, over, history>>

\* The time-out is reported.
Report ==
    /\ At("report") /\ Result(Top.p) /\ Do(Answer(Top.p, Top.x))
    /\ UNCHANGED apVars

\* Mutant: an AP that is not busy is taken for one that has finished.
SeeFinished_NotBusy ==
    /\ At("see") /\ state[Top.p] # "busy" /\ SetApState(Top.p, "idle")
    /\ Result(Top.p) /\ Do(Answer(Top.p, Top.x))
    /\ UNCHANGED Others

\* CheckThisAP
SeeFinished ==
    /\ At("see") /\ state[Top.p] = "finished" /\ SetApState(Top.p, "idle")
    /\ Result(Top.p) /\ Do(Answer(Top.p, Top.x))
    /\ UNCHANGED Others

SeeOver ==
    /\ At("see") /\ state[Top.p] # "finished" /\ Top.p \in over /\ Settled
    /\ Do(ResetProcessorToIdleState(Top.p) \o Step("report", Top.p, Top.x))
    /\ UNCHANGED <<apVars, callVars, history>>

SeeNotReady ==
    /\ At("see") /\ state[Top.p] # "finished" /\ Top.p \notin over
    /\ Top.x = "poll" /\ Do(<< >>)
    /\ UNCHANGED <<apVars, callVars, history>>

\* The calls with a WaitEvent, from Top.p on: StartupAllAPs comes first.
Pending ==
    LET left == {c \in event : c >= Top.p}
        check(c) == IF c = All THEN CheckAllAPs("poll") ELSE Step("see", c, "poll")
    IN  /\ At("pending")
        /\ Do(IF left = {} THEN << >>
              ELSE check(Min(left)) \o Step("pending", Min(left) + 1, ""))
        /\ UNCHANGED <<apVars, callVars, history>>

\* SignalEvent
Tell ==
    /\ At("tell") /\ Do(<< >>) /\ owed' = owed \ {Top.p}
    /\ UNCHANGED <<apVars, callVars, by, ran>>

Forget ==
    /\ At("forget") /\ Do(<< >>) /\ event' = event \ {Top.p}
    /\ UNCHANGED <<apVars, group, over, history>>

\* The end of CheckApsStatus
EndCheck ==
    /\ At("end") /\ Do(<< >>) /\ UNCHANGED <<apVars, callVars, history>>

\* The timer event, at TPL_NOTIFY: not while it is in progress.
CheckApsStatus ==
    /\ phase = "boot" /\ ~stop /\ \A i \in DOMAIN todo : todo[i].do # "end"
    /\ todo' = CheckAndUpdateApsStatus \o Step("end", All, "") \o todo
    /\ UNCHANGED <<stop, phase, apVars, callVars, history>>

-----------------------------------------------------------------------------
(***************************************************************************)
(* The calls.                                                              *)
(***************************************************************************)
\* The application calls, or a notification function while SignalEvent returns.
MayCall ==
    /\ phase = "boot"
    /\ todo = << >> \/ (Renews /\ At("forget") /\ stop)

Ask(c, ps, x) ==
    /\ by' = [p \in APs |-> IF p \in ps THEN c ELSE by[p]]
    /\ ran' = [p \in APs |-> IF p \in ps THEN "no" ELSE ran[p]]
    /\ event' = IF x = "poll" THEN event \union {c} ELSE event \ {c}
    /\ owed' = IF x = "poll" THEN owed \union {c} ELSE owed
    /\ over' = over \ {c}

StartupAllAPs(sequential, x) ==
    /\ MayCall /\ stop' = TRUE
    /\ AllEnabled /\ ~sequential => \A p \in APs : state[p] # "disabled"
    /\ todo' = CheckAndUpdateApsStatus
               \o Step(IF sequential THEN "startSingle" ELSE "startAll", All, x)
               \o Step("return", All, "") \o todo
    /\ UNCHANGED <<phase, apVars, callVars, history>>

Enabled == {p \in APs : state[p] # "disabled"}

StartAllAPs ==
    LET sequential == Top.do = "startSingle"
        wake == IF sequential THEN WakeUpAP(Min(Enabled), "proc")
                ELSE WakeUpAll("proc")
    IN  /\ At("startAll") \/ At("startSingle")
        /\ Enabled # {} /\ \A p \in Enabled : state[p] = "idle"
        /\ group' = [start |-> Cardinality(Enabled), running |-> 0,
                     waiting |-> Enabled, single |-> sequential]
        /\ finished' = 0
        /\ Ask(All, Enabled, Top.x)
        /\ Do(wake \o IF Top.x = "block" THEN CheckAllAPs("block") ELSE << >>)
        /\ UNCHANGED <<pc, procedure, lock, state, function, signal, toFinish>>

\* EFI_NOT_READY or EFI_NOT_STARTED
RefuseAllAPs ==
    /\ At("startAll") \/ At("startSingle")
    /\ Enabled = {} \/ \E p \in Enabled : state[p] # "idle"
    /\ Do(<< >>) /\ UNCHANGED <<apVars, callVars, history>>

StartupThisAP(p, x) ==
    /\ MayCall /\ stop' = TRUE
    /\ Careful => by[p] = Nobody
    /\ todo' = CheckAndUpdateApsStatus \o Step("startThis", p, x)
               \o Step("return", All, "") \o todo
    /\ UNCHANGED <<phase, apVars, callVars, history>>

\* Only a disabled AP is refused.
StartThisAP ==
    LET p == Top.p
    IN  /\ At("startThis") /\ state[p] # "disabled"
        /\ Ask(p, {p}, Top.x)
        /\ Do(WakeUpAP(p, "proc")
              \o IF Top.x = "block" THEN Step("see", p, "block") ELSE << >>)
        /\ UNCHANGED <<apVars, group>>

RefuseThisAP ==
    /\ At("startThis") /\ state[Top.p] = "disabled"
    /\ Do(<< >>) /\ UNCHANGED <<apVars, callVars, history>>

\* Mutant: the timer event stays off after a call.
Return_Off ==
    /\ At("return") /\ todo' = Tail(todo) /\ UNCHANGED stop
    /\ UNCHANGED <<phase, apVars, callVars, history>>

Return ==
    /\ At("return") /\ todo' = Tail(todo) /\ stop' = FALSE
    /\ UNCHANGED <<phase, apVars, callVars, history>>

EnableDisableAP(p, s) ==
    /\ MayCall /\ todo = << >> /\ (Careful => by[p] = Nobody)
    /\ s \in {"idle", "disabled"} /\ s # state[p] /\ SetApState(p, s)
    /\ UNCHANGED <<bspVars, Others, callVars, history>>

\* At ExitBootServices or a legacy boot, all APs move to memory of the system's.
MpInitChangeApLoopCallback ==
    /\ MayCall /\ todo = << >> /\ phase' = "os"
    /\ Careful => owed = {}
    /\ toFinish' = N /\ todo' = WakeUpAll("relocate") \o Step("gone", All, "relocate")
    /\ UNCHANGED <<stop, pc, procedure, lock, state, function, signal, finished>>
    /\ UNCHANGED <<callVars, history>>

WaitGone ==
    /\ At("gone") /\ toFinish = 0 /\ Do(<< >>)
    /\ UNCHANGED <<apVars, callVars, history>>

-----------------------------------------------------------------------------
(***************************************************************************)
(* ApWakeupFunction.                                                       *)
(***************************************************************************)
Goto(p, l) == pc' = [pc EXCEPT ![p] = l] /\ UNCHANGED <<bspVars, callVars>>

ClearSignal(p) ==
    /\ pc[p] = "start" /\ Goto(p, "check")
    /\ signal' = [signal EXCEPT ![p] = FALSE]
    /\ UNCHANGED <<procedure, lock, state, function, finished, toFinish, history>>

CheckReady(p) ==
    /\ pc[p] = "check"
    /\ procedure' = [procedure EXCEPT ![p] = function[p]]
    /\ Goto(p, IF state[p] # "ready" THEN "count"
               ELSE IF function[p] = "null" THEN "finish" ELSE "busy")
    /\ UNCHANGED <<lock, state, function, signal, finished, toFinish, history>>

Locked(p, s) == SetApState(p, s) /\ lock' = [lock EXCEPT ![p] = TRUE]
Release(p) == lock' = [lock EXCEPT ![p] = FALSE]

SetBusy(p) ==
    /\ pc[p] = "busy" /\ Locked(p, "busy") /\ Goto(p, "locked")
    /\ UNCHANGED <<procedure, function, signal, finished, toFinish, history>>

CallProcedure(p) ==
    /\ pc[p] = "locked" /\ Release(p) /\ Goto(p, "run")
    /\ ran' = IF procedure[p] # "proc" THEN ran
              ELSE [ran EXCEPT ![p] = IF by[p] # Nobody /\ @ = "no" THEN "in" ELSE "bad"]
    /\ UNCHANGED <<procedure, state, function, signal, finished, toFinish>>
    /\ UNCHANGED <<by, owed>>

EndProcedure(p) ==
    /\ pc[p] = "run" /\ procedure[p] # "relocate" /\ Goto(p, "finish")
    /\ procedure' = [procedure EXCEPT ![p] = "null"]
    /\ ran' = IF procedure[p] = "proc" /\ ran[p] = "in"
              THEN [ran EXCEPT ![p] = "yes"] ELSE ran
    /\ UNCHANGED <<lock, state, function, signal, finished, toFinish>>
    /\ UNCHANGED <<by, owed>>

Hang(p) ==
    /\ pc[p] = "run" /\ procedure[p] = "proc" /\ Goto(p, "hung")
    /\ UNCHANGED <<procedure, lock, state, function, signal, finished, toFinish, history>>

RelocateApLoop(p) ==
    /\ pc[p] = "run" /\ procedure[p] = "relocate" /\ Goto(p, "gone")
    /\ toFinish' = toFinish - 1
    /\ UNCHANGED <<procedure, lock, state, function, signal, finished, history>>

SetFinished(p) ==
    /\ pc[p] = "finish" /\ Locked(p, "finished") /\ Goto(p, "release")
    /\ UNCHANGED <<procedure, function, signal, finished, toFinish, history>>

ReleaseFinished(p) ==
    /\ pc[p] = "release" /\ Release(p) /\ Goto(p, "count")
    /\ UNCHANGED <<procedure, state, function, signal, finished, toFinish, history>>

Park(p) ==
    /\ pc[p] = "count" /\ finished' = finished + 1 /\ Goto(p, "parked")
    /\ UNCHANGED <<procedure, lock, state, function, signal, toFinish, history>>

\* The time of a call is over.
Expire(c) ==
    /\ c \notin over /\ \E p \in APs : by[p] = c
    /\ Prompt => \E p \in APs : by[p] = c /\ pc[p] = "hung"
    /\ over' = over \union {c}
    /\ UNCHANGED <<bspVars, apVars, group, event, history>>

-----------------------------------------------------------------------------
Init ==
    /\ todo = << >> /\ stop = TRUE /\ phase = "off"
    /\ pc = [p \in APs |-> "pei"] /\ procedure = [p \in APs |-> "null"]
    /\ lock = [p \in APs |-> FALSE] /\ state = [p \in APs |-> "idle"]
    /\ function = [p \in APs |-> "null"] /\ signal = [p \in APs |-> FALSE]
    /\ finished = 0 /\ toFinish = 0 /\ group = NoGroup /\ event = {} /\ over = {}
    /\ by = [p \in APs |-> Nobody] /\ ran = [p \in APs |-> "no"] /\ owed = {}

Boot ==
    /\ phase = "off" /\ phase' = "boot" /\ todo' = MpInitLibInitialize
    /\ UNCHANGED <<stop, apVars, callVars, history>>

BspStep ==
    \/ Zero \/ Ready \/ SendInitSipiSipi \/ WaitApWakeup \/ WaitFinished
    \/ Idle \/ Look \/ DecideFinished \/ DecideOver \/ DecideNotReady
    \/ Reclaim \/ Report \/ SeeFinished \/ SeeOver \/ SeeNotReady
    \/ Pending \/ Tell \/ Forget \/ EndCheck \/ StartAllAPs \/ RefuseAllAPs
    \/ StartThisAP \/ RefuseThisAP \/ Return \/ WaitGone

ApStep(p) ==
    \/ ClearSignal(p) \/ CheckReady(p) \/ SetBusy(p)
    \/ CallProcedure(p) \/ EndProcedure(p) \/ Hang(p) \/ RelocateApLoop(p)
    \/ SetFinished(p) \/ ReleaseFinished(p) \/ Park(p)

Call ==
    \/ \E x \in {"poll", "block"} :
          \/ \E sequential \in BOOLEAN : StartupAllAPs(sequential, x)
          \/ \E p \in APs : StartupThisAP(p, x)
    \/ \E p \in APs, s \in {"idle", "disabled"} : EnableDisableAP(p, s)
    \/ MpInitChangeApLoopCallback

Next ==
    \/ Boot \/ BspStep \/ CheckApsStatus \/ Call
    \/ \E p \in APs : ApStep(p)
    \/ \E c \in {All} \union APs : Expire(c)

\* The BSP and the APs go on, the timer event comes, and time passes.
Fairness ==
    /\ WF_vars(BspStep) /\ WF_vars(CheckApsStatus)
    /\ \A p \in APs : WF_vars(ApStep(p))
    /\ \A c \in {All} \union APs : WF_vars(Expire(c))

Spec == Init /\ [][Next]_vars /\ Fairness

-----------------------------------------------------------------------------
(***************************************************************************)
(* Properties.                                                             *)
(***************************************************************************)
\* Types; FinishedCount is never more than one increment per AP too high.
TypeOK ==
    /\ stop \in BOOLEAN /\ phase \in {"off", "boot", "os"}
    /\ pc \in [APs -> {"pei", "parked", "start", "check", "busy", "locked", "run", "hung",
                       "gone", "finish", "release", "count"}]
    /\ procedure \in [APs -> {"null", "sync", "proc", "relocate"}]
    /\ lock \in [APs -> BOOLEAN] /\ signal \in [APs -> BOOLEAN]
    /\ state \in [APs -> {"idle", "ready", "busy", "finished", "disabled"}]
    /\ function \in [APs -> {"null", "sync", "proc", "relocate"}]
    /\ finished \in 0 .. 2 * N /\ toFinish \in 0 .. N
    /\ group \in [start : 0 .. N, running : 0 .. N, waiting : SUBSET APs, single : BOOLEAN]
    /\ group.running <= group.start
    /\ event \subseteq {All} \union APs /\ over \subseteq {All} \union APs
    /\ by \in [APs -> {Nobody, All} \union APs]
    /\ ran \in [APs -> {"no", "in", "yes", "bad"}]
    /\ owed \subseteq {All} \union APs

\* An AP runs a procedure only for a call that asked it and is outstanding, and
\* once for each call: nothing runs on after its call has ended in a time-out.
RunsAsAsked ==
    \A p \in APs :
       /\ ran[p] # "bad"
       /\ pc[p] \in {"run", "hung"} /\ procedure[p] = "proc" => ran[p] = "in"

\* Success is told, or the WaitEvent signaled for it, only when the procedure has
\* returned on every AP that was asked.
SuccessMeansRan ==
    [][ \A p \in APs :
           by[p] # Nobody /\ by'[p] = Nobody => ran[p] = "yes" \/ At("report")
      ]_vars

\* After a call has returned, in time or not, an AP that no other call asked is idle or
\* disabled, is past all that would still change that, and holds no lock: it is
\* available for the next call.
Available ==
    phase = "boot" /\ todo = << >> =>
       \A p \in APs : by[p] = Nobody =>
          /\ state[p] \in {"idle", "disabled"} /\ ~lock[p] /\ ~signal[p]
          /\ pc[p] \in {"parked", "start", "check", "count"}

\* A call that is owed a signal is one that the timer event looks after.
Remembered == phase = "boot" /\ todo = << >> => owed = event

\* The safety invariant: types, procedures run for outstanding calls only, no call is
\* forgotten, and APs are available when it is over.
MpInv == TypeOK /\ RunsAsAsked /\ Remembered /\ Available

\* Whatever hangs, every call returns, and the WaitEvent of every non-blocking
\* call is signaled, at the latest after its time is over.
CallsReturn == todo # << >> ~> todo = << >>
EventsSignaled ==
    \A c \in {All} \union APs : c \in owed ~> c \notin owed \/ phase = "os"

=============================================================================

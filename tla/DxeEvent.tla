------------------------------ MODULE DxeEvent ------------------------------
(***************************************************************************)
(* Event and task-priority services of the DXE core                        *)
(* (MdeModulePkg/Core/Dxe/Event/Event.c and Tpl.c), driven by application  *)
(* code, by the notification functions themselves, and by the interrupt    *)
(* handler of the 8254 timer driver.                                       *)
(*                                                                         *)
(* There is one processor, so the state of the program is a call stack.    *)
(* The top frame runs; an interrupt, a RestoreTpl that finds pending       *)
(* events, or a call pushes frames on it.  A step of the model is a stretch*)
(* of code that no interrupt can split: either one access to shared state  *)
(* with interrupts enabled, or a whole critical section of gEventQueueLock,*)
(* which runs at TPL_HIGH_LEVEL with interrupts disabled and ends by       *)
(* entering RestoreTpl.                                                    *)
(***************************************************************************)
EXTENDS EventList, FiniteSets

CONSTANTS
    Events,       \* event handles
    SignalType,   \* the events of type EVT_NOTIFY_SIGNAL
    WaitType,     \* the events of type EVT_NOTIFY_WAIT
    NotifyTpl,    \* NotifyTpl[e]: level of the notification function of e
    Group,        \* Group[e]: the event group of e, or None
    App,          \* the code at the bottom of the stack
    None,         \* no event, no group
    IdleEvent,    \* gIdleLoopEvent, or None where nobody waits
    Signals,      \* Signals[c]: events that the code c may signal
    Checks,       \* Checks[c]: events that c may pass to CheckEvent
    Closes,       \* Closes[c]: events that c may close
    Creates,      \* Creates[c]: events that c may create
    RaisesTo,     \* RaisesTo[c]: levels that c may raise to
    WaitList,     \* the array that App passes to WaitForEvent
    InitSigs,     \* gEventSignalQueue at the start, newest event first
    IsrSignals,   \* events the timer tick signals (mEfiCheckTimerEvent)
    LoadTwice,    \* TRUE: the compiled RestoreTpl loads gEventPending again
                  \* after the test of its loop; FALSE: it uses one load
    CloserOwns,   \* TRUE: no code calls a service on an event whose CloseEvent
                  \* has begun
    UsersHold,    \* TRUE: no code closes an event on which a service is in
                  \* progress
    MaxNest       \* bound: timer interrupts in progress at one time

TPL_APPLICATION == 4
TPL_HIGH_LEVEL  == 31
AllOnes         == 99  \* (UINTN)(-1): HighBitSet64 of an empty mask, as a TPL

Callers == Events \cup {App}
Levels  == {NotifyTpl[e] : e \in SignalType \cup WaitType}

ASSUME EventAssumption ==
    /\ App \notin Events /\ None \notin Callers
    /\ SignalType \subseteq Events /\ WaitType \subseteq Events
    /\ SignalType \cap WaitType = {}
    /\ NotifyTpl \in [SignalType \cup WaitType ->
                        TPL_APPLICATION + 1 .. TPL_HIGH_LEVEL - 1]
    /\ IdleEvent \in SignalType \cup {None}
    /\ Signals \in [Callers -> SUBSET Events]
    /\ Checks  \in [Callers -> SUBSET Events]
    /\ Closes  \in [Callers -> SUBSET Events]
    /\ Creates \in [Callers -> SUBSET Events]
    /\ RaisesTo \in [Callers -> SUBSET (TPL_APPLICATION + 1 .. TPL_HIGH_LEVEL)]
    /\ WaitList \in Seq(Events)
    /\ InitSigs \in Seq(SignalType)
    /\ IsrSignals \subseteq SignalType
    /\ \A e \in IsrSignals : Group[e] = None
    /\ LoadTwice \in BOOLEAN /\ CloserOwns \in BOOLEAN /\ UsersHold \in BOOLEAN
    /\ MaxNest \in Nat

VARIABLES
    tpl,      \* gEfiCurrentTpl
    irq,      \* the processor's interrupt flag
    pending,  \* gEventPending, as the set of levels whose bit is set
    queue,    \* gEventQueue[level]
    siglist,  \* gEventSignalQueue
    signal,   \* IEVENT.SignalCount
    live,     \* events whose Signature is EVENT_SIGNATURE
    stack     \* call stack, the running frame last

vars == <<tpl, irq, pending, queue, siglist, signal, live, stack>>

(***************************************************************************)
(* Frames.  pc is the next statement of the frame:                         *)
(*   run     application code or a notification function: ev is whose, lo  *)
(*           the level it was called at, hi the level it has raised to     *)
(*   check, pick, lower   CoreRestoreTpl: lo is NewTpl, hi the loaded value*)
(*   take, call           CoreDispatchEventNotifies: lo is Priority, ev the*)
(*           event taken from the queue                                    *)
(*   signal               CoreSignalEvent of ev, its Signature tested      *)
(*   group, members       CoreSignalEvent of a group event ev: lo is the   *)
(*           position in gEventSignalQueue, hi the level to restore        *)
(*   relock               CoreSignalEvent after CoreNotifySignalList       *)
(*   peek, enqueue, look, clear   CoreCheckEvent of ev                     *)
(*   wait, waited         CoreWaitForEvent: lo is Index + 1, hi = 1 when   *)
(*           CheckEvent returned something other than EFI_NOT_READY        *)
(*   close, free          CoreCloseEvent of ev, its Signature tested, and  *)
(*           after its critical section                                    *)
(*   iret                 TimerInterruptHandler, before its return         *)
(***************************************************************************)
Frame(pc, ev, lo, hi) == [pc |-> pc, ev |-> ev, lo |-> lo, hi |-> hi]

Code(c, level)   == Frame("run", c, level, level)
RestoreTpl(new)  == Frame("check", None, new, 0)
Dispatch(p)      == Frame("take", None, p, 0)

Top       == Last(stack)
At(pc)    == Top.pc = pc
Goto(f)   == stack' = [stack EXCEPT ![Len(stack)] = f]
Return    == stack' = Front(stack)
Call(f)   == stack' = Append(stack, f)

\* The running frame becomes f and f calls g.
GotoAndCall(f, g) == stack' = Append([stack EXCEPT ![Len(stack)] = f], g)

(***************************************************************************)
(* A critical section of gEventQueueLock: CoreAcquireLock raises to        *)
(* TPL_HIGH_LEVEL, which disables interrupts, and remembers the level as   *)
(* the lock's OwnerTpl; CoreReleaseLock enters CoreRestoreTpl(OwnerTpl).   *)
(***************************************************************************)
AcquireLock ==
    /\ tpl <= TPL_HIGH_LEVEL     \* CoreRaiseTpl: ASSERT OldTpl <= NewTpl
    /\ tpl' = TPL_HIGH_LEVEL
    /\ irq' = FALSE

\* Release the lock and continue with f; or release it and return.
ReleaseLock(f)    == GotoAndCall(f, RestoreTpl(tpl))
ReleaseAndReturn  == Goto(RestoreTpl(tpl))

Running(c) == At("run") /\ Top.ev = c

(***************************************************************************)
(* What callers owe to the core, which tests the Signature of an event     *)
(* without the lock and uses the event after that: the frames that use it. *)
(***************************************************************************)
UsePcs   == {"signal", "group", "members", "peek", "enqueue", "look", "clear"}
ClosePcs == {"close", "free"}

Closing(e) == \E f \in ToSet(stack) : f.pc \in ClosePcs /\ f.ev = e
Waiting    == \E i \in DOMAIN stack : stack[i].pc \in {"wait", "waited"}
InUse(e)   == \/ \E f \in ToSet(stack) : f.pc \in UsePcs /\ f.ev = e
              \/ Waiting /\ e \in ToSet(WaitList)

MayUse(e)   == CloserOwns => ~Closing(e)
MayClose(e) == UsersHold => ~InUse(e)

-----------------------------------------------------------------------------
(***************************************************************************)
(* Queues                                                                  *)
(***************************************************************************)
Queued(e) == e \in SignalType \cup WaitType /\ e \in ToSet(queue[NotifyTpl[e]])

\* Mutant: the mask is assigned, not extended.
NotifyEvent_Assigns(e) ==
    /\ queue' = [queue EXCEPT ![NotifyTpl[e]] = Append(Unlink(@, e), e)]
    /\ pending' = {NotifyTpl[e]}

\* Mutant: an event that is queued already is queued twice.
NotifyEvent_Twice(e) ==
    /\ queue' = [queue EXCEPT ![NotifyTpl[e]] = Append(@, e)]
    /\ pending' = pending \cup {NotifyTpl[e]}

\* CoreNotifyEvent
NotifyEvent(e) ==
    /\ queue' = [queue EXCEPT ![NotifyTpl[e]] = Append(Unlink(@, e), e)]
    /\ pending' = pending \cup {NotifyTpl[e]}

\* Mutant: the mask is (-1 << NewTpl).
Unmasked_AtLevel(new) == {p \in pending : p >= new}

\* levels in the mask gEventPending that RestoreTpl(new) must dispatch
Unmasked(new) == {p \in pending : p > new}

HighBitSet64(mask) ==
    IF mask = {} THEN AllOnes ELSE CHOOSE p \in mask : \A q \in mask : q <= p

-----------------------------------------------------------------------------
(***************************************************************************)
(* Tpl.c                                                                   *)
(***************************************************************************)
\* Code calls RaiseTPL(level), to restore the previous level later.
RaiseTpl(level) ==
    /\ At("run") /\ Top.lo = Top.hi
    /\ level \in RaisesTo[Top.ev] /\ level > Top.hi
    /\ tpl' = level
    /\ irq' = (irq /\ level < TPL_HIGH_LEVEL)
    /\ Goto([Top EXCEPT !.hi = level])
    /\ UNCHANGED <<pending, queue, siglist, signal, live>>

\* The matching RestoreTPL: enter CoreRestoreTpl.
LowerTpl ==
    /\ At("run") /\ Top.lo < Top.hi
    /\ GotoAndCall([Top EXCEPT !.hi = Top.lo], RestoreTpl(Top.lo))
    /\ UNCHANGED <<tpl, irq, pending, queue, siglist, signal, live>>

\* The test of the loop in CoreRestoreTpl.
RestoreCheck ==
    /\ At("check")
    /\ IF Unmasked(Top.lo) = {}
       THEN Goto([Top EXCEPT !.pc = "lower"])
       ELSE Goto([Top EXCEPT !.pc = "pick", !.hi = HighBitSet64(pending)])
    /\ UNCHANGED <<tpl, irq, pending, queue, siglist, signal, live>>

\* The body of the loop: the level picked is dispatched at that level.
RestorePick ==
    /\ At("pick")
    /\ LET p == IF LoadTwice THEN HighBitSet64(pending) ELSE Top.hi
       IN  /\ tpl' = p
           /\ irq' = (irq \/ p < TPL_HIGH_LEVEL)
           /\ GotoAndCall(RestoreTpl(Top.lo), Dispatch(p))
    /\ UNCHANGED <<pending, queue, siglist, signal, live>>

\* Mutant: the level is not set.
RestoreLower_KeepsTpl ==
    /\ At("lower") /\ Return
    /\ irq' = (irq \/ Top.lo < TPL_HIGH_LEVEL)
    /\ UNCHANGED <<tpl, pending, queue, siglist, signal, live>>

\* After the loop: set the level, enable interrupts, return.
RestoreLower ==
    /\ At("lower")
    /\ tpl' = Top.lo
    /\ irq' = (irq \/ Top.lo < TPL_HIGH_LEVEL)
    /\ Return
    /\ UNCHANGED <<pending, queue, siglist, signal, live>>

-----------------------------------------------------------------------------
(***************************************************************************)
(* CoreDispatchEventNotifies                                               *)
(***************************************************************************)
\* Mutant: SignalCount is not cleared.
DispatchTake_KeepsCount ==
    /\ At("take") /\ AcquireLock
    /\ queue[Top.lo] # << >>
    /\ queue' = [queue EXCEPT ![Top.lo] = Tail(@)]
    /\ ReleaseLock([Top EXCEPT !.pc = "call", !.ev = Head(queue[Top.lo])])
    /\ UNCHANGED <<pending, siglist, signal, live>>

\* Take the head of the queue, and drop the lock to call it.
DispatchTake ==
    /\ At("take") /\ AcquireLock
    /\ queue[Top.lo] # << >>
    /\ LET e == Head(queue[Top.lo])
       IN  /\ queue' = [queue EXCEPT ![Top.lo] = Tail(@)]
           /\ signal' = IF e \in SignalType THEN [signal EXCEPT ![e] = 0]
                                            ELSE signal
           /\ ReleaseLock([Top EXCEPT !.pc = "call", !.ev = e])
    /\ UNCHANGED <<pending, siglist, live>>

\* Call the notification function.
DispatchCall ==
    /\ At("call")
    /\ GotoAndCall(Dispatch(Top.lo), Code(Top.ev, tpl))
    /\ UNCHANGED <<tpl, irq, pending, queue, siglist, signal, live>>

\* Mutant: the whole mask is cleared.
DispatchDone_ClearsAll ==
    /\ At("take") /\ AcquireLock
    /\ queue[Top.lo] = << >>
    /\ pending' = {}
    /\ ReleaseAndReturn
    /\ UNCHANGED <<queue, siglist, signal, live>>

\* The queue is empty: the level is no longer pending.
DispatchDone ==
    /\ At("take") /\ AcquireLock
    /\ queue[Top.lo] = << >>
    /\ pending' = pending \ {Top.lo}
    /\ ReleaseAndReturn
    /\ UNCHANGED <<queue, siglist, signal, live>>

\* A notification function returns at the level it was called at.
NotifyReturn ==
    /\ At("run") /\ Top.ev # App /\ Top.lo = Top.hi
    /\ Return
    /\ UNCHANGED <<tpl, irq, pending, queue, siglist, signal, live>>

-----------------------------------------------------------------------------
(***************************************************************************)
(* CoreSignalEvent, called by a frame that continues as f                  *)
(***************************************************************************)
SignalEvent(e, f) ==
    /\ IF e \in live THEN GotoAndCall(f, Frame("signal", e, 0, 0)) ELSE Goto(f)
    /\ UNCHANGED <<tpl, irq, pending, queue, siglist, signal, live>>

CodeSignals(e) ==
    /\ At("run") /\ e \in Signals[Top.ev] /\ MayUse(e)
    /\ SignalEvent(e, Top)

\* The lock is taken after the test of the Signature, which is not repeated.
SignalAgain ==
    /\ At("signal") /\ signal[Top.ev] # 0
    /\ AcquireLock /\ ReleaseAndReturn
    /\ UNCHANGED <<pending, queue, siglist, signal, live>>

SignalFirst ==
    /\ At("signal") /\ signal[Top.ev] = 0
    /\ AcquireLock
    /\ signal' = [signal EXCEPT ![Top.ev] = 1]
    /\ IF Top.ev \in SignalType /\ Group[Top.ev] # None
       THEN /\ ReleaseLock(Frame("group", Top.ev, 0, 0))
            /\ UNCHANGED <<pending, queue>>
       ELSE /\ ReleaseAndReturn
            /\ IF Top.ev \in SignalType THEN NotifyEvent(Top.ev)
                                        ELSE UNCHANGED <<pending, queue>>
    /\ UNCHANGED <<siglist, live>>

\* CoreNotifySignalList: lock, notify the members of the group, unlock.
GroupLock ==
    /\ At("group") /\ AcquireLock
    /\ Goto(Frame("members", Top.ev, 1, tpl))
    /\ UNCHANGED <<pending, queue, siglist, signal, live>>

GroupMember ==
    /\ At("members") /\ Top.lo \in DOMAIN siglist
    /\ IF Group[siglist[Top.lo]] = Group[Top.ev]
       THEN NotifyEvent(siglist[Top.lo])
       ELSE UNCHANGED <<pending, queue>>
    /\ Goto([Top EXCEPT !.lo = @ + 1])
    /\ UNCHANGED <<tpl, irq, siglist, signal, live>>

GroupUnlock ==
    /\ At("members") /\ Top.lo \notin DOMAIN siglist
    /\ GotoAndCall(Frame("relock", Top.ev, 0, 0), RestoreTpl(Top.hi))
    /\ UNCHANGED <<tpl, irq, pending, queue, siglist, signal, live>>

\* Back in CoreSignalEvent, which takes the lock once more to release it.
SignalRelock ==
    /\ At("relock") /\ AcquireLock /\ ReleaseAndReturn
    /\ UNCHANGED <<pending, queue, siglist, signal, live>>

-----------------------------------------------------------------------------
(***************************************************************************)
(* CoreCheckEvent                                                          *)
(***************************************************************************)
Checkable(e) == e \in live /\ e \notin SignalType

CodeChecks(e) ==
    /\ At("run") /\ e \in Checks[Top.ev] /\ Checkable(e) /\ MayUse(e)
    /\ Call(Frame("peek", e, 0, 0))
    /\ UNCHANGED <<tpl, irq, pending, queue, siglist, signal, live>>

\* SignalCount is read without the lock ...
CheckPeek ==
    /\ At("peek")
    /\ Goto([Top EXCEPT !.pc = IF signal[Top.ev] = 0 /\ Top.ev \in WaitType
                               THEN "enqueue" ELSE "look"])
    /\ UNCHANGED <<tpl, irq, pending, queue, siglist, signal, live>>

\* ... and again with it, to queue the wait notification function.
CheckEnqueue ==
    /\ At("enqueue") /\ AcquireLock
    /\ IF signal[Top.ev] = 0 THEN NotifyEvent(Top.ev)
                             ELSE UNCHANGED <<pending, queue>>
    /\ ReleaseLock([Top EXCEPT !.pc = "look"])
    /\ UNCHANGED <<siglist, signal, live>>

CheckLook ==
    /\ At("look")
    /\ IF signal[Top.ev] # 0 THEN Goto([Top EXCEPT !.pc = "clear"])
                             ELSE Return
    /\ UNCHANGED <<tpl, irq, pending, queue, siglist, signal, live>>

\* Mutant: the answer is the one of the test before the notification.
CheckClear_NotReady ==
    /\ At("clear") /\ AcquireLock
    /\ signal' = [signal EXCEPT ![Top.ev] = 0]
    /\ ReleaseAndReturn
    /\ UNCHANGED <<pending, queue, siglist, live>>

\* EFI_SUCCESS is for a caller that waits; other callers ignore it here.
CheckClear ==
    LET n == Len(stack)
        found == signal[Top.ev] # 0 /\ stack[n - 1].pc = "waited"
        told  == [stack EXCEPT ![n - 1].hi = IF found THEN 1 ELSE @]
    IN  /\ At("clear") /\ AcquireLock
        /\ signal' = [signal EXCEPT ![Top.ev] = 0]
        /\ stack' = [told EXCEPT ![n] = RestoreTpl(tpl)]
        /\ UNCHANGED <<pending, queue, siglist, live>>

-----------------------------------------------------------------------------
(***************************************************************************)
(* CoreWaitForEvent                                                        *)
(***************************************************************************)
WaitForEvent ==
    /\ Running(App) /\ WaitList # << >>
    /\ tpl = TPL_APPLICATION
    /\ \A e \in ToSet(WaitList) : MayUse(e)
    /\ Call(Frame("wait", None, 1, 0))
    /\ UNCHANGED <<tpl, irq, pending, queue, siglist, signal, live>>

WaitCheck ==
    /\ At("wait")
    /\ LET e == WaitList[Top.lo]
       IN  IF Checkable(e)
           THEN GotoAndCall(Frame("waited", None, Top.lo, 0),
                            Frame("peek", e, 0, 0))
           ELSE Goto(Frame("waited", None, Top.lo, 1))
    /\ UNCHANGED <<tpl, irq, pending, queue, siglist, signal, live>>

WaitReturn ==
    /\ At("waited") /\ Top.hi = 1
    /\ Return
    /\ UNCHANGED <<tpl, irq, pending, queue, siglist, signal, live>>

WaitNext ==
    /\ At("waited") /\ Top.hi = 0 /\ Top.lo < Len(WaitList)
    /\ Goto(Frame("wait", None, Top.lo + 1, 0))
    /\ UNCHANGED <<tpl, irq, pending, queue, siglist, signal, live>>

\* No event of the array is signaled: signal the idle event, start over.
WaitIdle ==
    /\ At("waited") /\ Top.hi = 0 /\ Top.lo = Len(WaitList)
    /\ SignalEvent(IdleEvent, Frame("wait", None, 1, 0))

-----------------------------------------------------------------------------
(***************************************************************************)
(* CoreCreateEventInternal and CoreCloseEvent                              *)
(***************************************************************************)
CreateEvent(e) ==
    /\ At("run") /\ e \in Creates[Top.ev] /\ e \notin live
    /\ AcquireLock /\ ReleaseLock(Top)
    /\ live' = live \cup {e}
    /\ siglist' = IF e \in SignalType THEN Cons(e, siglist) ELSE siglist
    /\ UNCHANGED <<pending, queue, signal>>

\* CoreCloseEvent up to the lock; the Signature is not tested again.
CloseEvent(e) ==
    /\ At("run") /\ e \in Closes[Top.ev] /\ e \in live
    /\ MayUse(e) /\ MayClose(e)
    /\ Call(Frame("close", e, 0, 0))
    /\ UNCHANGED <<tpl, irq, pending, queue, siglist, signal, live>>

\* Unlink the event from both lists; the pending bit of its level stays.
CloseUnlink ==
    /\ At("close") /\ AcquireLock
    /\ queue' = IF Top.ev \in SignalType \cup WaitType
                THEN [queue EXCEPT ![NotifyTpl[Top.ev]] = Unlink(@, Top.ev)]
                ELSE queue
    /\ siglist' = Unlink(siglist, Top.ev)
    /\ ReleaseLock([Top EXCEPT !.pc = "free"])
    /\ UNCHANGED <<pending, signal, live>>

\* Clear the Signature and free the event.
CloseFree ==
    /\ At("free")
    /\ live' = live \ {Top.ev}
    /\ signal' = [signal EXCEPT ![Top.ev] = 0]
    /\ Return
    /\ UNCHANGED <<tpl, irq, pending, queue, siglist>>

-----------------------------------------------------------------------------
(***************************************************************************)
(* TimerInterruptHandler: raise to TPL_HIGH_LEVEL, run the tick, which     *)
(* signals e or nothing, and enter RestoreTPL(OriginalTPL).  The return    *)
(* from the interrupt enables interrupts again.                            *)
(***************************************************************************)
Nest == Cardinality({i \in DOMAIN stack : stack[i].pc = "iret"})

Interrupt(e) ==
    /\ irq /\ Nest < MaxNest /\ tpl <= TPL_HIGH_LEVEL
    /\ IF e # None /\ e \in live /\ signal[e] = 0
       THEN signal' = [signal EXCEPT ![e] = 1] /\ NotifyEvent(e)
       ELSE UNCHANGED <<signal, queue, pending>>
    /\ tpl' = TPL_HIGH_LEVEL
    /\ irq' = FALSE
    /\ stack' = Append(Append(stack, Frame("iret", None, tpl, 0)), RestoreTpl(tpl))
    /\ UNCHANGED <<siglist, live>>

InterruptReturn ==
    /\ At("iret")
    /\ irq' = TRUE
    /\ Return
    /\ UNCHANGED <<tpl, pending, queue, siglist, signal, live>>

-----------------------------------------------------------------------------
Init ==
    /\ tpl = TPL_APPLICATION /\ irq = TRUE
    /\ pending = {} /\ queue = [p \in Levels |-> << >>]
    /\ live = ToSet(InitSigs) \cup (Events \ SignalType)
    /\ siglist = InitSigs
    /\ signal = [e \in Events |-> 0]
    /\ stack = << Code(App, TPL_APPLICATION) >>

\* What the core does once it is called; it has no choice.
CoreStep ==
    \/ RestoreCheck \/ RestorePick \/ RestoreLower
    \/ DispatchTake \/ DispatchCall \/ DispatchDone
    \/ SignalAgain \/ SignalFirst
    \/ GroupLock \/ GroupMember \/ GroupUnlock \/ SignalRelock
    \/ CheckPeek \/ CheckEnqueue \/ CheckLook \/ CheckClear
    \/ WaitCheck \/ WaitReturn \/ WaitNext \/ WaitIdle
    \/ CloseUnlink \/ CloseFree \/ InterruptReturn

\* What application code and notification functions choose to do.
CodeStep ==
    \/ NotifyReturn \/ LowerTpl \/ WaitForEvent
    \/ \E level \in UNION {RaisesTo[c] : c \in Callers} : RaiseTpl(level)
    \/ \E e \in Events : CodeSignals(e) \/ CodeChecks(e)
                           \/ CreateEvent(e) \/ CloseEvent(e)

Tick == \E e \in IsrSignals \cup {None} : Interrupt(e)

Next == CoreStep \/ CodeStep \/ Tick

Spec == Init /\ [][Next]_vars

-----------------------------------------------------------------------------
(***************************************************************************)
(* Properties                                                              *)
(***************************************************************************)
Pcs == {"run", "check", "pick", "lower", "take", "call", "signal", "group",
        "members", "relock", "peek", "enqueue", "look", "clear", "wait",
        "waited", "close", "free", "iret"}

FrameType == [pc : Pcs, ev : Callers \cup {None}, lo : Int, hi : Int]

(* The types of the variables; the stack is never empty, and every queue   *)
(* holds events of its own level.                                          *)
TypeOK ==
    /\ tpl \in Int /\ irq \in BOOLEAN
    /\ pending \subseteq Levels
    /\ queue \in [Levels -> Seq(SignalType \cup WaitType)]
    /\ siglist \in Seq(SignalType)
    /\ signal \in [Events -> {0, 1}]
    /\ live \subseteq Events
    /\ stack \in Seq(FrameType) /\ stack # << >>

(* A level with queued notifications has its bit set in gEventPending, so  *)
(* no queued notification is invisible to CoreRestoreTpl.  The bit is set  *)
(* in CoreNotifyEvent and cleared in CoreDispatchEventNotifies, on paths   *)
(* that interrupts and nested dispatchers interleave.                      *)
PendingCoversQueues == \A p \in Levels : queue[p] # << >> => p \in pending

(* A signaled EVT_NOTIFY_SIGNAL event is queued, or some CoreSignalEvent of*)
(* it is about to queue its group, or it is being freed.  Otherwise        *)
(* SignalCount would stay 1 and every later SignalEvent would be ignored:  *)
(* the event would be dead.                                                *)
NoDeadEvent ==
    \A e \in SignalType : signal[e] = 1 =>
        \/ Queued(e)
        \/ \E i \in DOMAIN stack : stack[i].ev = e
                                 /\ stack[i].pc \in {"group", "members", "free"}

(* Notification functions in progress run at strictly increasing levels:   *)
(* code is only ever preempted by notifications of a higher level than its *)
(* own, however interrupts and dispatchers nest.                           *)
Preemption ==
    \A i, j \in DOMAIN stack :
        i < j /\ stack[i].pc = "run" /\ stack[j].pc = "run"
            => stack[i].hi < stack[j].lo

(* Code that runs finds gEfiCurrentTpl at the level it last raised or      *)
(* restored to, and the level of a notification function is the one its    *)
(* event was created with: every preemption puts the level back.           *)
LevelKept ==
    At("run") =>
        /\ tpl = Top.hi
        /\ Top.ev # App => Top.lo = NotifyTpl[Top.ev]

(* Outside the core, interrupts are enabled exactly below TPL_HIGH_LEVEL.  *)
InterruptsFollowTpl == At("run") => irq = (tpl < TPL_HIGH_LEVEL)

Closable == UNION {Closes[c] : c \in Callers}

\* What the owners of events owe to the core: nobody uses an event that is being closed or
\* closes one that is in use, and what the core itself signals is never closed.  An event
\* with a notification function is closed by the application or below its own level: it may
\* have been taken from its queue by a dispatcher, which code above its level has preempted.
OwnersClose ==
    /\ CloserOwns /\ UsersHold
    /\ \A c \in Callers : \A e \in Closes[c] \cap (SignalType \cup WaitType) :
          c # App => c \in SignalType \cup WaitType /\ NotifyTpl[c] <= NotifyTpl[e]
    /\ (IsrSignals \cup {IdleEvent}) \cap Closable = {}
    /\ IsInjective(InitSigs)

(* Every event that the core still holds, in a queue, in the group list,   *)
(* taken by a dispatcher or used by a service between its test of the      *)
(* Signature and its last access, has not been freed by CoreCloseEvent.    *)
OnlyLiveEvents ==
    /\ \A p \in Levels : ToSet(queue[p]) \subseteq live
    /\ ToSet(siglist) \subseteq live
    /\ \A i \in DOMAIN stack :
          stack[i].pc \in {"call"} \cup UsePcs \cup ClosePcs => stack[i].ev \in live

(* The two assertions of the core about levels: CoreRaiseTpl never lowers  *)
(* the level (Tpl.c:68), and a dispatcher runs at the level it dispatches  *)
(* (Event.c:173).                                                          *)
LevelAssertions ==
    /\ tpl <= TPL_HIGH_LEVEL
    /\ At("take") => tpl = Top.lo

(* The safety invariant: types, queues covered by the mask, interrupts     *)
(* enabled as the level says, and the assertions about levels.             *)
EventInv ==
    TypeOK /\ PendingCoversQueues /\ InterruptsFollowTpl /\ LevelAssertions

(* Where the owner of an event closes it, none is dead and none held that  *)
(* is freed.                                                               *)
EventsKept == NoDeadEvent /\ OnlyLiveEvents

-----------------------------------------------------------------------------
(***************************************************************************)
(* Fairness: the timer goes on ticking, interrupted code gets to run, and  *)
(* notification functions return and restore the level they raised.        *)
(***************************************************************************)
Fairness ==
    /\ WF_vars(Tick)
    /\ SF_vars(Nest = 0 /\ CoreStep)
    /\ SF_vars(Nest = 0 /\ NotifyReturn)
    /\ SF_vars(Nest = 0 /\ LowerTpl)

LiveSpec == Spec /\ Fairness

\* The processor is not overloaded: again and again RestoreTpl returns to
\* the code at the bottom of the stack before the next tick.
NotOverloaded ==
    []<>(\A i \in DOMAIN stack :
            stack[i].pc \notin {"iret", "take", "call", "check", "pick", "lower"})

(* Every queued event is notified, unless it is closed: an event that an   *)
(* interrupt leaves pending in the window of CoreRestoreTpl between the    *)
(* last test of gEventPending and the assignment of gEfiCurrentTpl is late *)
(* but not lost.                                                           *)
QueuedEventRuns ==
    NotOverloaded => \A e \in SignalType : Queued(e) ~> (Running(e) \/ e \notin live)

(* WaitForEvent returns once an event of its array is signaled, though     *)
(* CheckEvent tests SignalCount without the lock and interrupts signal it  *)
(* between the test and the critical section.                              *)
WaitEnds ==
    NotOverloaded =>
        \A e \in ToSet(WaitList) : (Waiting /\ signal[e] = 1) ~> ~Waiting

-----------------------------------------------------------------------------
(***************************************************************************)
(* Refinement: the queues and the call stack implement EventNotify.        *)
(***************************************************************************)
FramesAt(pc) == {f \in ToSet(stack) : f.pc = pc}

Wanted == {e \in SignalType \cup WaitType : Queued(e)}
Chosen == {f.ev : f \in FramesAt("call")}
Active == {[ev |-> f.ev, at |-> f.hi] : f \in FramesAt("run")}

Promise == INSTANCE EventNotify WITH
    Events <- SignalType \cup WaitType,
    AppTpl <- TPL_APPLICATION,
    wanted <- Wanted, chosen <- Chosen, active <- Active

(* Queues, pending mask, lock and dispatchers implement EventNotify: a     *)
(* notification function runs once for each time its event is taken from a *)
(* queue, above the level of all code in progress, and what it preempts    *)
(* goes on where it was.                                                   *)
ImplementsNotify == Promise!Init /\ [][Promise!Next]_Promise!nvars

=============================================================================

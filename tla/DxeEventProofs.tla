--------------------------- MODULE DxeEventProofs ---------------------------
(***************************************************************************)
(* Proofs about DxeEvent: its types, that no queued notification is        *)
(* invisible to CoreRestoreTpl, and the levels of code, for every set of   *)
(* events and every caller.                                                *)
(***************************************************************************)
EXTENDS DxeEvent, EventListProofs

(***************************************************************************)
(* The stack                                                               *)
(***************************************************************************)
\* What the code relies on in a frame, by the statement it is at.
GoodFrame(f) ==
    /\ f.pc = "run" => f.ev \in Callers
    /\ f.pc = "pick" => f.hi \in Levels
    /\ f.pc \in {"take", "call"} => f.lo \in Levels
    /\ f.pc = "call" => f.ev \in SignalType \cup WaitType
    /\ f.pc \in {"group", "members", "relock"} => f.ev \in SignalType
    /\ f.pc \in {"peek", "enqueue", "look", "clear"} => f.ev \in Events \ SignalType
    /\ f.pc = "enqueue" => f.ev \in WaitType
    /\ f.pc \in {"wait", "waited"} => f.lo \in 1 .. Len(WaitList)
    /\ f.pc \in {"signal", "close", "free"} => f.ev \in Events

Frames == {f \in FrameType : GoodFrame(f)}

IsBottom(f) == f.pc = "run" /\ f.ev = App

\* The frame of the application is at the bottom and is never popped.
GoodStack(s) == s \in Seq(Frames) /\ s # << >> /\ IsBottom(s[1])

LEMMA StackTop ==
    ASSUME NEW s, GoodStack(s)
    PROVE  /\ Len(s) \in Nat \ {0}
           /\ Last(s) \in Frames
           /\ Last(s) \in FrameType
           /\ GoodFrame(Last(s))
<1>1. Len(s) \in Nat \ {0}
    BY EmptySeq DEF GoodStack
<1>2. Last(s) \in Frames
    BY <1>1, ElementOfSeq DEF GoodStack, Last
<1> QED BY <1>1, <1>2 DEF Frames

LEMMA StackReplace ==
    ASSUME NEW s, GoodStack(s), NEW f \in Frames,
           IsBottom(Last(s)) => IsBottom(f)
    PROVE  GoodStack([s EXCEPT ![Len(s)] = f])
<1> DEFINE t == [s EXCEPT ![Len(s)] = f]
<1>1. Len(s) \in 1 .. Len(s)
    BY StackTop
<1>2. /\ t \in Seq(Frames) /\ Len(t) = Len(s)
      /\ \A j \in 1 .. Len(s) : t[j] = IF j = Len(s) THEN f ELSE s[j]
    BY <1>1, ExceptSeq DEF GoodStack
<1>3. t # << >>
    BY <1>1, <1>2, EmptySeq
<1>4. IsBottom(t[1])
    BY <1>1, <1>2 DEF GoodStack, Last
<1> QED BY <1>2, <1>3, <1>4 DEF GoodStack

LEMMA StackPush ==
    ASSUME NEW s, GoodStack(s), NEW f \in Frames
    PROVE  GoodStack(Append(s, f))
<1>1. Len(s) \in Nat \ {0}
    BY StackTop
<1> QED BY <1>1, AppendProperties DEF GoodStack

LEMMA StackPop ==
    ASSUME NEW s, GoodStack(s), ~IsBottom(Last(s))
    PROVE  GoodStack(Front(s))
<1>1. Len(s) \in Nat /\ Len(s) > 1
    BY StackTop DEF GoodStack, Last
<1>2. \A i \in 1 .. Len(s) - 1 : s[i] \in Frames
    BY <1>1, ElementOfSeq DEF GoodStack
<1>3. /\ Front(s) \in Seq(Frames)
      /\ Len(Front(s)) = Len(s) - 1
      /\ \A i \in 1 .. Len(s) - 1 : Front(s)[i] = s[i]
    BY <1>1, <1>2, SubSeqProperties DEF Front
<1> QED BY <1>1, <1>3, EmptySeq DEF GoodStack

-----------------------------------------------------------------------------
(***************************************************************************)
(* Levels                                                                  *)
(***************************************************************************)
LEMMA LevelsBounded ==
    /\ Levels \subseteq TPL_APPLICATION + 1 .. TPL_HIGH_LEVEL - 1
    /\ Levels \subseteq Int
<1>1. \A e \in SignalType \cup WaitType :
            NotifyTpl[e] \in TPL_APPLICATION + 1 .. TPL_HIGH_LEVEL - 1
    BY EventAssumption
<1>2. TPL_APPLICATION + 1 .. TPL_HIGH_LEVEL - 1 \subseteq Int
    BY DEF TPL_APPLICATION, TPL_HIGH_LEVEL
<1> QED BY <1>1, <1>2 DEF Levels

LEMMA NotifyLevel ==
    ASSUME NEW e \in SignalType \cup WaitType
    PROVE  NotifyTpl[e] \in Levels
BY DEF Levels

LEMMA RaisedLevel ==
    ASSUME NEW level \in UNION {RaisesTo[c] : c \in Callers}
    PROVE  level \in Int
<1>1. \A c \in Callers : RaisesTo[c] \subseteq TPL_APPLICATION + 1 .. TPL_HIGH_LEVEL
    BY EventAssumption
<1>2. TPL_APPLICATION + 1 .. TPL_HIGH_LEVEL \subseteq Int
    BY DEF TPL_APPLICATION, TPL_HIGH_LEVEL
<1> QED BY <1>1, <1>2

\* The level that CoreRestoreTpl picks from a mask that is not empty.
LEMMA HighBitInMask ==
    ASSUME NEW mask, mask \subseteq Levels, mask # {}
    PROVE  /\ HighBitSet64(mask) \in mask
           /\ \A q \in mask : q <= HighBitSet64(mask)
<1>1. \E p \in mask : \A q \in mask : q <= p
    <2> DEFINE below == {TPL_HIGH_LEVEL - p : p \in mask}
    <2>1. \A p \in mask : TPL_HIGH_LEVEL - p \in Nat /\ p \in Int
        BY LevelsBounded DEF TPL_APPLICATION, TPL_HIGH_LEVEL
    <2>2. below \subseteq Nat /\ below # {}
        BY <2>1
    <2>3. PICK x \in below : \A y \in below : ~(<<y, x>> \in OpToRel(<, Nat))
        BY <2>2, WFMin, NatLessThanWellFounded
    <2>4. \A y \in below : ~(y < x)
        BY <2>2, <2>3 DEF OpToRel
    <2>5. PICK p \in mask : x = TPL_HIGH_LEVEL - p
        OBVIOUS
    <2>6. \A q \in mask : q <= p
        BY <2>1, <2>4, <2>5 DEF TPL_HIGH_LEVEL
    <2> QED BY <2>6
<1> QED BY <1>1 DEF HighBitSet64

(***************************************************************************)
(* The inductive invariant                                                 *)
(***************************************************************************)
Types ==
    /\ tpl \in Int /\ irq \in BOOLEAN
    /\ pending \subseteq Levels
    /\ queue \in [Levels -> Seq(SignalType \cup WaitType)]
    /\ siglist \in Seq(SignalType)
    /\ signal \in [Events -> {0, 1}]
    /\ live \subseteq Events

IInv == Types /\ GoodStack(stack)

LEMMA IInvImpliesTypeOK == IInv => TypeOK
<1> SUFFICES ASSUME IInv PROVE stack \in Seq(FrameType) /\ stack # << >>
    BY DEF IInv, Types, TypeOK
<1>1. stack \in Seq(Frames) /\ Frames \subseteq FrameType
    BY DEF IInv, GoodStack, Frames
<1> QED BY <1>1, SeqMonotonic DEF IInv, GoodStack

LEMMA InitIInv == Init => IInv
<1> SUFFICES ASSUME Init PROVE IInv
    OBVIOUS
<1>1. Types
    <2>1. ToSet(InitSigs) \subseteq SignalType
        BY EventAssumption DEF ToSet
    <2>2. live \subseteq Events
        BY <2>1, EventAssumption DEF Init
    <2>3. queue \in [Levels -> Seq(SignalType \cup WaitType)]
        BY EmptySeq DEF Init
    <2> QED BY <2>2, <2>3, EventAssumption DEF Init, Types, TPL_APPLICATION
<1>2. Code(App, TPL_APPLICATION) \in Frames /\ IsBottom(Code(App, TPL_APPLICATION))
    BY DEF Code, Frame, Frames, FrameType, GoodFrame, IsBottom, Pcs, Callers,
           TPL_APPLICATION
<1>3. GoodStack(stack)
    BY <1>2 DEF Init, GoodStack
<1> QED BY <1>1, <1>3 DEF IInv

-----------------------------------------------------------------------------
(***************************************************************************)
(* What a step does to the stack                                           *)
(***************************************************************************)
LEMMA FramesMade ==
    /\ \A n \in Int : RestoreTpl(n) \in Frames
    /\ \A p \in Levels : Dispatch(p) \in Frames
    /\ \A c \in Callers, n \in Int : Code(c, n) \in Frames
BY LevelsBounded DEF RestoreTpl, Dispatch, Code, Frame, Frames, FrameType,
                     GoodFrame, Pcs, Callers

\* The running frame is one of the frames of a good stack.
LEMMA TopType ==
    ASSUME GoodStack(stack)
    PROVE  Top \in FrameType /\ GoodFrame(Top) /\ Top \in Frames
BY StackTop DEF Top

LEMMA GotoStack ==
    ASSUME GoodStack(stack), NEW f \in Frames, IsBottom(Top) => IsBottom(f),
           Goto(f)
    PROVE  GoodStack(stack')
BY StackReplace DEF Goto, Top

LEMMA ReturnStack ==
    ASSUME GoodStack(stack), ~IsBottom(Top), Return
    PROVE  GoodStack(stack')
BY StackPop DEF Return, Top

LEMMA CallStack ==
    ASSUME GoodStack(stack), NEW f \in Frames, Call(f)
    PROVE  GoodStack(stack')
BY StackPush DEF Call

LEMMA GotoAndCallStack ==
    ASSUME GoodStack(stack), NEW f \in Frames, IsBottom(Top) => IsBottom(f),
           NEW g \in Frames, GotoAndCall(f, g)
    PROVE  GoodStack(stack')
BY StackReplace, StackPush DEF GotoAndCall, Top

LEMMA ReleaseLockStack ==
    ASSUME IInv, NEW f \in Frames, IsBottom(Top) => IsBottom(f), ReleaseLock(f)
    PROVE  GoodStack(stack')
BY GotoAndCallStack, FramesMade DEF ReleaseLock, IInv, Types

LEMMA ReleaseAndReturnStack ==
    ASSUME IInv, ~IsBottom(Top), ReleaseAndReturn
    PROVE  GoodStack(stack')
BY GotoStack, FramesMade DEF ReleaseAndReturn, IInv, Types

(***************************************************************************)
(* What a step does to the queues                                          *)
(***************************************************************************)
LEMMA NotifyEventTypes ==
    ASSUME Types, NEW e \in SignalType \cup WaitType, NotifyEvent(e)
    PROVE  /\ queue' \in [Levels -> Seq(SignalType \cup WaitType)]
           /\ pending' \subseteq Levels
<1>1. NotifyTpl[e] \in Levels
    BY NotifyLevel
<1>2. Append(Unlink(queue[NotifyTpl[e]], e), e) \in Seq(SignalType \cup WaitType)
    BY <1>1, UnlinkType, AppendProperties DEF Types
<1> QED BY <1>1, <1>2 DEF NotifyEvent, Types

LEMMA AcquireLockTypes ==
    ASSUME AcquireLock
    PROVE  tpl' \in Int /\ irq' \in BOOLEAN
<1>1. tpl' \in Int
    BY DEF AcquireLock, TPL_HIGH_LEVEL
<1>2. irq' \in BOOLEAN
    BY Zenon DEF AcquireLock
<1> QED BY <1>1, <1>2

-----------------------------------------------------------------------------
(***************************************************************************)
(* The steps preserve the invariant                                        *)
(***************************************************************************)
\* Tpl.c
LEMMA TplIInv ==
    ASSUME IInv, ~LoadTwice,
           \/ \E level \in UNION {RaisesTo[c] : c \in Callers} : RaiseTpl(level)
           \/ LowerTpl \/ RestoreCheck \/ RestorePick \/ RestoreLower
    PROVE  IInv'
<1> USE DEF IInv
<1>0. Top \in FrameType /\ GoodFrame(Top)
    BY TopType
<1>1. CASE \E level \in UNION {RaisesTo[c] : c \in Callers} : RaiseTpl(level)
    <2>1. PICK level \in UNION {RaisesTo[c] : c \in Callers} : RaiseTpl(level)
        BY <1>1
    <2>2. level \in Int
        BY RaisedLevel
    <2>3. Types'
        BY <2>1, <2>2 DEF RaiseTpl, Types
    <2>4. [Top EXCEPT !.hi = level] \in Frames
        BY <1>0, <2>1, <2>2 DEF RaiseTpl, At, Frames, FrameType, GoodFrame
    <2>5. GoodStack(stack')
        BY <1>0, <2>1, <2>4, GotoStack DEF RaiseTpl, IsBottom, FrameType
    <2> QED BY <2>3, <2>5
<1>2. CASE LowerTpl
    <2>1. Types'
        BY <1>2 DEF LowerTpl, Types
    <2>2. [Top EXCEPT !.hi = Top.lo] \in Frames
        BY <1>0, <1>2 DEF LowerTpl, At, Frames, FrameType, GoodFrame
    <2>3. RestoreTpl(Top.lo) \in Frames
        BY <1>0, FramesMade DEF FrameType
    <2>4. GoodStack(stack')
        BY <1>0, <1>2, <2>2, <2>3, GotoAndCallStack DEF LowerTpl, IsBottom, FrameType
    <2> QED BY <2>1, <2>4
<1>3. CASE RestoreCheck
    <2>1. Types'
        BY <1>3 DEF RestoreCheck, Types
    <2>2. ~IsBottom(Top)
        BY <1>3 DEF RestoreCheck, At, IsBottom
    <2>3. CASE Unmasked(Top.lo) = {}
        <3>1. [Top EXCEPT !.pc = "lower"] \in Frames
            BY <1>0 DEF Frames, FrameType, GoodFrame, Pcs
        <3> QED BY <1>3, <2>1, <2>2, <2>3, <3>1, GotoStack DEF RestoreCheck
    <2>4. CASE Unmasked(Top.lo) # {}
        <3>1. HighBitSet64(pending) \in Levels
            BY <2>4, HighBitInMask DEF Unmasked, Types
        <3>2. [Top EXCEPT !.pc = "pick", !.hi = HighBitSet64(pending)] \in Frames
            BY <1>0, <3>1, LevelsBounded DEF Frames, FrameType, GoodFrame, Pcs
        <3> QED BY <1>3, <2>1, <2>2, <2>4, <3>2, GotoStack DEF RestoreCheck
    <2> QED BY <2>3, <2>4
<1>4. CASE RestorePick
    <2>1. Top.hi \in Levels /\ Top.lo \in Int /\ ~IsBottom(Top)
        BY <1>0, <1>4 DEF RestorePick, At, GoodFrame, IsBottom, FrameType
    <2>2. Types'
        BY <1>4, <2>1, LevelsBounded DEF RestorePick, Types, TPL_HIGH_LEVEL
    <2>3. GoodStack(stack')
        BY <1>4, <2>1, FramesMade, GotoAndCallStack DEF RestorePick
    <2> QED BY <2>2, <2>3
<1>5. CASE RestoreLower
    <2>1. Top.lo \in Int /\ ~IsBottom(Top)
        BY <1>0, <1>5 DEF RestoreLower, At, IsBottom, FrameType
    <2>2. Types'
        BY <1>5, <2>1 DEF RestoreLower, Types
    <2>3. GoodStack(stack')
        BY <1>5, <2>1, ReturnStack DEF RestoreLower
    <2> QED BY <2>2, <2>3
<1> QED BY <1>1, <1>2, <1>3, <1>4, <1>5

\* CoreDispatchEventNotifies
LEMMA DispatchIInv ==
    ASSUME IInv, DispatchTake \/ DispatchCall \/ DispatchDone \/ NotifyReturn
    PROVE  IInv'
<1> USE DEF IInv
<1>0. Top \in FrameType /\ GoodFrame(Top)
    BY TopType
<1>1. CASE DispatchTake
    <2> DEFINE e == Head(queue[Top.lo])
    <2>1. /\ Top.lo \in Levels /\ Top.pc = "take" /\ ~IsBottom(Top)
          /\ AcquireLock /\ queue[Top.lo] # << >>
        BY <1>0, <1>1 DEF DispatchTake, At, GoodFrame, IsBottom
    <2>2. /\ e \in SignalType \cup WaitType
          /\ Tail(queue[Top.lo]) \in Seq(SignalType \cup WaitType)
        BY <2>1, HeadTailProperties DEF Types
    <2>3. signal' \in [Events -> {0, 1}]
        BY <1>1, EventAssumption DEF DispatchTake, Types
    <2>4. queue' \in [Levels -> Seq(SignalType \cup WaitType)]
        BY <1>1, <2>1, <2>2 DEF DispatchTake, Types
    <2>5. Types'
        BY <1>1, <2>1, <2>3, <2>4, AcquireLockTypes DEF DispatchTake, Types
    <2>6. [Top EXCEPT !.pc = "call", !.ev = e] \in Frames
        BY <1>0, <2>1, <2>2, EventAssumption
        DEF Frames, FrameType, GoodFrame, Pcs, Callers
    <2>7. GoodStack(stack')
        BY <1>1, <2>1, <2>6, ReleaseLockStack DEF DispatchTake
    <2> QED BY <2>5, <2>7
<1>2. CASE DispatchCall
    <2>1. /\ Top.lo \in Levels /\ Top.ev \in SignalType \cup WaitType
          /\ ~IsBottom(Top)
        BY <1>0, <1>2 DEF DispatchCall, At, GoodFrame, IsBottom
    <2>2. Types'
        BY <1>2 DEF DispatchCall, Types
    <2>3. Dispatch(Top.lo) \in Frames /\ Code(Top.ev, tpl) \in Frames
        BY <2>1, FramesMade, EventAssumption DEF Types, Callers
    <2>4. GoodStack(stack')
        BY <1>2, <2>1, <2>3, GotoAndCallStack DEF DispatchCall
    <2> QED BY <2>2, <2>4
<1>3. CASE DispatchDone
    <2>1. ~IsBottom(Top)
        BY <1>3 DEF DispatchDone, At, IsBottom
    <2>2. Types'
        BY <1>3, AcquireLockTypes DEF DispatchDone, Types
    <2>3. GoodStack(stack')
        BY <1>3, <2>1, ReleaseAndReturnStack DEF DispatchDone
    <2> QED BY <2>2, <2>3
<1>4. CASE NotifyReturn
    <2>1. Types'
        BY <1>4 DEF NotifyReturn, Types
    <2>2. GoodStack(stack')
        BY <1>4, ReturnStack DEF NotifyReturn, IsBottom
    <2> QED BY <2>1, <2>2
<1> QED BY <1>1, <1>2, <1>3, <1>4

\* CoreSignalEvent, called by a frame that continues as f.
LEMMA SignalIInv ==
    ASSUME IInv, NEW e \in Events \cup {None}, NEW f \in Frames,
           IsBottom(Top) => IsBottom(f), SignalEvent(e, f)
    PROVE  IInv'
<1> USE DEF IInv
<1>1. Types'
    BY DEF SignalEvent, Types
<1>2. CASE e \in live
    <2>1. Frame("signal", e, 0, 0) \in Frames
        BY <1>2 DEF Frame, Frames, FrameType, GoodFrame, Pcs, Callers, Types
    <2> QED BY <1>1, <1>2, <2>1, GotoAndCallStack DEF SignalEvent
<1>3. CASE e \notin live
    BY <1>1, <1>3, GotoStack DEF SignalEvent
<1> QED BY <1>2, <1>3

\* CoreSignalEvent with the lock.
LEMMA SignalLockIInv ==
    ASSUME IInv, SignalAgain \/ SignalFirst
    PROVE  IInv'
<1> USE DEF IInv
<1>0. Top \in FrameType /\ GoodFrame(Top)
    BY TopType
<1>1. Top.ev \in Events /\ ~IsBottom(Top)
    BY <1>0 DEF SignalAgain, SignalFirst, At, GoodFrame, IsBottom
<1>2. CASE SignalAgain
    <2>1. Types'
        BY <1>2, AcquireLockTypes DEF SignalAgain, Types
    <2> QED BY <1>1, <1>2, <2>1, ReleaseAndReturnStack DEF SignalAgain
<1>3. CASE SignalFirst
    <2>1. signal' \in [Events -> {0, 1}]
        BY <1>1, <1>3 DEF SignalFirst, Types
    <2>2. CASE Top.ev \in SignalType /\ Group[Top.ev] # None
        <3>1. Types'
            BY <1>3, <2>1, <2>2, AcquireLockTypes DEF SignalFirst, Types
        <3>2. Frame("group", Top.ev, 0, 0) \in Frames
            BY <1>1, <2>2 DEF Frame, Frames, FrameType, GoodFrame, Pcs, Callers
        <3> QED BY <1>1, <1>3, <2>2, <3>1, <3>2, ReleaseLockStack DEF SignalFirst
    <2>3. CASE ~(Top.ev \in SignalType /\ Group[Top.ev] # None)
        <3>1. /\ queue' \in [Levels -> Seq(SignalType \cup WaitType)]
              /\ pending' \subseteq Levels
            BY <1>3, <2>3, NotifyEventTypes DEF SignalFirst, Types
        <3>2. Types'
            BY <1>3, <2>1, <3>1, AcquireLockTypes DEF SignalFirst, Types
        <3> QED BY <1>1, <1>3, <2>3, <3>2, ReleaseAndReturnStack DEF SignalFirst
    <2> QED BY <2>2, <2>3
<1> QED BY <1>2, <1>3

LEMMA CodeSignalsIInv ==
    ASSUME IInv, NEW e \in Events, CodeSignals(e)
    PROVE  IInv'
BY SignalIInv, TopType DEF CodeSignals, IInv

\* The group list.
LEMMA GroupIInv ==
    ASSUME IInv, GroupLock \/ GroupMember \/ GroupUnlock \/ SignalRelock
    PROVE  IInv'
<1> USE DEF IInv
<1>0. Top \in FrameType /\ GoodFrame(Top)
    BY TopType
<1>1. CASE GroupLock
    <2>1. Top.ev \in SignalType /\ ~IsBottom(Top)
        BY <1>0, <1>1 DEF GroupLock, At, GoodFrame, IsBottom
    <2>2. Types'
        BY <1>1, AcquireLockTypes DEF GroupLock, Types
    <2>3. Frame("members", Top.ev, 1, tpl) \in Frames
        BY <2>1, EventAssumption
        DEF Frame, Frames, FrameType, GoodFrame, Pcs, Callers, Types
    <2>4. GoodStack(stack')
        BY <1>1, <2>1, <2>3, GotoStack DEF GroupLock
    <2> QED BY <2>2, <2>4
<1>2. CASE GroupMember
    <2>1. siglist[Top.lo] \in SignalType /\ Top.pc = "members"
        BY <1>2 DEF GroupMember, At, Types
    <2>2. /\ queue' \in [Levels -> Seq(SignalType \cup WaitType)]
          /\ pending' \subseteq Levels
        BY <1>2, <2>1, NotifyEventTypes DEF GroupMember, Types
    <2>3. Types'
        BY <1>2, <2>2 DEF GroupMember, Types
    <2>4. [Top EXCEPT !.lo = @ + 1] \in Frames
        BY <1>0, <2>1 DEF Frames, FrameType, GoodFrame
    <2>5. GoodStack(stack')
        BY <1>2, <2>1, <2>4, GotoStack DEF GroupMember, IsBottom
    <2> QED BY <2>3, <2>5
<1>3. CASE GroupUnlock
    <2>1. Top.ev \in SignalType /\ ~IsBottom(Top) /\ Top.hi \in Int
        BY <1>0, <1>3 DEF GroupUnlock, At, GoodFrame, IsBottom, FrameType
    <2>2. Types'
        BY <1>3 DEF GroupUnlock, Types
    <2>3. Frame("relock", Top.ev, 0, 0) \in Frames
        BY <2>1, EventAssumption
        DEF Frame, Frames, FrameType, GoodFrame, Pcs, Callers
    <2>4. GoodStack(stack')
        BY <1>3, <2>1, <2>3, FramesMade, GotoAndCallStack DEF GroupUnlock
    <2> QED BY <2>2, <2>4
<1>4. CASE SignalRelock
    <2>1. Types'
        BY <1>4, AcquireLockTypes DEF SignalRelock, Types
    <2>2. GoodStack(stack')
        BY <1>4, ReleaseAndReturnStack DEF SignalRelock, At, IsBottom
    <2> QED BY <2>1, <2>2
<1> QED BY <1>1, <1>2, <1>3, <1>4

\* A frame at a statement of CoreCheckEvent.
LEMMA CheckFrame ==
    ASSUME NEW e \in Events \ SignalType
    PROVE  Frame("peek", e, 0, 0) \in Frames
BY DEF Frame, Frames, FrameType, GoodFrame, Pcs, Callers

\* CoreCheckEvent
LEMMA CheckIInv ==
    ASSUME IInv, \/ \E e \in Events : CodeChecks(e)
                 \/ CheckPeek \/ CheckEnqueue \/ CheckLook
    PROVE  IInv'
<1> USE DEF IInv
<1>0. Top \in FrameType /\ GoodFrame(Top)
    BY TopType
<1>1. CASE \E e \in Events : CodeChecks(e)
    <2>1. PICK e \in Events : CodeChecks(e)
        BY <1>1
    <2>2. Types'
        BY <2>1 DEF CodeChecks, Types
    <2>3. GoodStack(stack')
        BY <2>1, CheckFrame, CallStack DEF CodeChecks, Checkable
    <2> QED BY <2>2, <2>3
<1>2. CASE CheckPeek
    <2>1. Types'
        BY <1>2 DEF CheckPeek, Types
    <2>2. [Top EXCEPT !.pc = IF signal[Top.ev] = 0 /\ Top.ev \in WaitType
                             THEN "enqueue" ELSE "look"] \in Frames
        BY <1>0, <1>2 DEF CheckPeek, At, Frames, FrameType, GoodFrame, Pcs
    <2>3. GoodStack(stack')
        BY <1>2, <2>2, GotoStack DEF CheckPeek, At, IsBottom
    <2> QED BY <2>1, <2>3
<1>3. CASE CheckEnqueue
    <2>1. /\ Top.ev \in WaitType /\ Top.ev \in Events \ SignalType
          /\ ~IsBottom(Top)
        BY <1>0, <1>3 DEF CheckEnqueue, At, GoodFrame, IsBottom
    <2>2. /\ queue' \in [Levels -> Seq(SignalType \cup WaitType)]
          /\ pending' \subseteq Levels
        BY <1>3, <2>1, NotifyEventTypes DEF CheckEnqueue, Types
    <2>3. Types'
        BY <1>3, <2>2, AcquireLockTypes DEF CheckEnqueue, Types
    <2>4. [Top EXCEPT !.pc = "look"] \in Frames
        BY <1>0, <2>1 DEF Frames, FrameType, GoodFrame, Pcs
    <2>5. GoodStack(stack')
        BY <1>3, <2>1, <2>4, ReleaseLockStack DEF CheckEnqueue
    <2> QED BY <2>3, <2>5
<1>4. CASE CheckLook
    <2>1. ~IsBottom(Top)
        BY <1>4 DEF CheckLook, At, IsBottom
    <2>2. Types'
        BY <1>4 DEF CheckLook, Types
    <2>3. [Top EXCEPT !.pc = "clear"] \in Frames
        BY <1>0, <1>4 DEF CheckLook, At, Frames, FrameType, GoodFrame, Pcs
    <2>4. GoodStack(stack')
        BY <1>4, <2>1, <2>3, GotoStack, ReturnStack DEF CheckLook
    <2> QED BY <2>2, <2>4
<1> QED BY <1>1, <1>2, <1>3, <1>4

\* CoreCheckEvent returns EFI_SUCCESS and clears SignalCount; the frame below
\* learns of it when it waits.
LEMMA CheckClearIInv ==
    ASSUME IInv, CheckClear
    PROVE  IInv'
<1> USE DEF IInv
<1> DEFINE n == Len(stack)
           hi == IF signal[Top.ev] # 0 /\ stack[n - 1].pc = "waited"
                 THEN 1 ELSE stack[n - 1].hi
           below == [stack[n - 1] EXCEPT !.hi = hi]
           told == [stack EXCEPT ![n - 1] = below]
<1>1. ~IsBottom(Top) /\ Top.ev \in Events
    BY TopType DEF CheckClear, At, IsBottom, GoodFrame
<1>2. n \in Nat /\ n > 1 /\ stack \in Seq(Frames)
    BY <1>1, StackTop DEF GoodStack, Top, Last
<1>3. Types'
    <2>1. signal' \in [Events -> {0, 1}]
        BY DEF CheckClear, Types
    <2> QED BY <2>1, AcquireLockTypes DEF CheckClear, Types
<1>4. RestoreTpl(tpl) \in Frames
    BY FramesMade DEF Types
<1>5. stack[n - 1] \in Frames
    BY <1>2, ElementOfSeq
<1>6. /\ below \in Frames
      /\ below.pc = stack[n - 1].pc /\ below.ev = stack[n - 1].ev
    <2>1. CASE hi = stack[n - 1].hi
        <3>1. below = stack[n - 1]
            BY <1>5, <2>1 DEF Frames, FrameType
        <3> QED BY <1>5, <3>1
    <2>2. CASE hi = 1 /\ stack[n - 1].pc = "waited"
        BY <1>5, <2>2 DEF Frames, FrameType, GoodFrame
    <2>3. hi = stack[n - 1].hi \/ (hi = 1 /\ stack[n - 1].pc = "waited")
        OBVIOUS
    <2> QED BY <2>1, <2>2, <2>3
<1>7. stack' = [told EXCEPT ![n] = RestoreTpl(tpl)]
    BY DEF CheckClear
<1> HIDE DEF below
<1>8. /\ told \in Seq(Frames) /\ Len(told) = n
      /\ \A j \in 1 .. n : told[j] = IF j = n - 1 THEN below ELSE stack[j]
    BY <1>2, <1>6, ExceptSeq
<1> HIDE DEF told
<1>9. GoodStack(told)
    <2>1. IsBottom(stack[1])
        BY DEF GoodStack
    <2>2. IsBottom(told[1])
        BY <1>2, <1>6, <1>8, <2>1 DEF IsBottom
    <2> QED BY <1>2, <1>8, <2>2, EmptySeq DEF GoodStack
<1>10. Last(told) = Top
    BY <1>2, <1>8 DEF Last, Top
<1>11. GoodStack(stack')
    BY <1>1, <1>4, <1>7, <1>8, <1>9, <1>10, StackReplace
<1> QED BY <1>3, <1>11

\* CoreWaitForEvent
LEMMA WaitIInv ==
    ASSUME IInv, WaitForEvent \/ WaitCheck \/ WaitReturn \/ WaitNext \/ WaitIdle
    PROVE  IInv'
<1> USE DEF IInv
<1>0. Top \in FrameType /\ GoodFrame(Top)
    BY TopType
<1>1. /\ Len(WaitList) \in Nat
      /\ \A i \in 1 .. Len(WaitList) : WaitList[i] \in Events
      /\ WaitList # << >> => Len(WaitList) >= 1
    BY EventAssumption, EmptySeq, ElementOfSeq
<1>2. \A i \in 1 .. Len(WaitList) : Frame("wait", None, i, 0) \in Frames
    BY <1>1 DEF Frame, Frames, FrameType, GoodFrame, Pcs
<1>3. CASE WaitForEvent
    <2>1. Types'
        BY <1>3 DEF WaitForEvent, Types
    <2>2. Frame("wait", None, 1, 0) \in Frames
        BY <1>1, <1>2, <1>3 DEF WaitForEvent
    <2> QED BY <1>3, <2>1, <2>2, CallStack DEF WaitForEvent
<1>4. CASE WaitCheck
    <2> DEFINE e == WaitList[Top.lo]
    <2>1. Types'
        BY <1>4 DEF WaitCheck, Types
    <2>2. Top.pc = "wait" /\ Top.lo \in 1 .. Len(WaitList) /\ ~IsBottom(Top)
        BY <1>0, <1>4 DEF WaitCheck, At, GoodFrame, IsBottom
    <2>3. \A h \in {0, 1} : Frame("waited", None, Top.lo, h) \in Frames
        BY <1>0, <2>2 DEF Frame, Frames, FrameType, GoodFrame, Pcs
    <2>4. CASE Checkable(e)
        <3>1. Frame("peek", e, 0, 0) \in Frames
            BY <1>1, <2>2, <2>4, CheckFrame DEF Checkable
        <3> QED BY <1>4, <2>1, <2>2, <2>3, <2>4, <3>1, GotoAndCallStack
                DEF WaitCheck
    <2>5. CASE ~Checkable(e)
        BY <1>4, <2>1, <2>2, <2>3, <2>5, GotoStack DEF WaitCheck
    <2> QED BY <2>4, <2>5
<1>5. CASE WaitReturn
    <2>1. Types'
        BY <1>5 DEF WaitReturn, Types
    <2> QED BY <1>5, <2>1, ReturnStack DEF WaitReturn, At, IsBottom
<1>6. CASE WaitNext
    <2>1. Types'
        BY <1>6 DEF WaitNext, Types
    <2>2. Top.lo + 1 \in 1 .. Len(WaitList)
        BY <1>0, <1>1, <1>6 DEF WaitNext, At, GoodFrame
    <2> QED BY <1>2, <1>6, <2>1, <2>2, GotoStack DEF WaitNext, At, IsBottom
<1>7. CASE WaitIdle
    <2>1. Frame("wait", None, 1, 0) \in Frames
        BY <1>0, <1>1, <1>2, <1>7 DEF WaitIdle, At, GoodFrame
    <2>2. IdleEvent \in Events \cup {None}
        BY EventAssumption
    <2> QED BY <1>7, <2>1, <2>2, SignalIInv DEF WaitIdle, At, IsBottom
<1> QED BY <1>3, <1>4, <1>5, <1>6, <1>7

\* CoreCreateEventInternal and CoreCloseEvent
LEMMA EventIInv ==
    ASSUME IInv, \/ \E e \in Events : CreateEvent(e) \/ CloseEvent(e)
                 \/ CloseUnlink \/ CloseFree
    PROVE  IInv'
<1> USE DEF IInv
<1>0. Top \in FrameType /\ GoodFrame(Top) /\ Top \in Frames
    BY TopType
<1>1. ASSUME NEW e \in Events, CreateEvent(e) PROVE IInv'
    <2>1. siglist' \in Seq(SignalType)
        <3>1. e \in SignalType => Cons(e, siglist) \in Seq(SignalType)
            BY DEF Cons, Types
        <3> QED BY <1>1, <3>1 DEF CreateEvent, Types
    <2>2. Types'
        BY <1>1, <2>1, AcquireLockTypes DEF CreateEvent, Types
    <2>3. GoodStack(stack')
        BY <1>0, <1>1, ReleaseLockStack DEF CreateEvent
    <2> QED BY <2>2, <2>3
<1>2. ASSUME NEW e \in Events, CloseEvent(e) PROVE IInv'
    <2>1. Types'
        BY <1>2 DEF CloseEvent, Types
    <2>2. Frame("close", e, 0, 0) \in Frames
        BY DEF Frame, Frames, FrameType, GoodFrame, Pcs, Callers
    <2> QED BY <1>2, <2>1, <2>2, CallStack DEF CloseEvent
<1>4. CASE CloseUnlink
    <2>1. siglist' \in Seq(SignalType)
        BY <1>4, UnlinkType DEF CloseUnlink, Types
    <2>2. queue' \in [Levels -> Seq(SignalType \cup WaitType)]
        <3>1. CASE Top.ev \in SignalType \cup WaitType
            <4>1. Unlink(queue[NotifyTpl[Top.ev]], Top.ev)
                      \in Seq(SignalType \cup WaitType)
                BY <3>1, NotifyLevel, UnlinkType DEF Types
            <4> QED BY <1>4, <3>1, <4>1 DEF CloseUnlink, Types
        <3>2. CASE Top.ev \notin SignalType \cup WaitType
            BY <1>4, <3>2 DEF CloseUnlink, Types
        <3> QED BY <3>1, <3>2
    <2>3. Types'
        BY <1>4, <2>1, <2>2, AcquireLockTypes DEF CloseUnlink, Types
    <2>4. [Top EXCEPT !.pc = "free"] \in Frames /\ ~IsBottom(Top)
        BY <1>0, <1>4
        DEF CloseUnlink, At, Frames, FrameType, GoodFrame, IsBottom, Pcs
    <2> QED BY <1>4, <2>3, <2>4, ReleaseLockStack DEF CloseUnlink
<1>3. CASE CloseFree
    <2>1. signal' \in [Events -> {0, 1}]
        BY <1>3 DEF CloseFree, Types
    <2>2. Types'
        BY <1>3, <2>1 DEF CloseFree, Types
    <2>3. GoodStack(stack')
        BY <1>3, ReturnStack DEF CloseFree, At, IsBottom
    <2> QED BY <2>2, <2>3
<1> QED BY <1>1, <1>2, <1>3, <1>4

\* TimerInterruptHandler
LEMMA InterruptIInv ==
    ASSUME IInv, Tick \/ InterruptReturn
    PROVE  IInv'
<1> USE DEF IInv
<1>1. ASSUME NEW e \in IsrSignals \cup {None}, Interrupt(e) PROVE IInv'
    <2>1. /\ queue' \in [Levels -> Seq(SignalType \cup WaitType)]
          /\ pending' \subseteq Levels
          /\ signal' \in [Events -> {0, 1}]
        <3>1. CASE e # None /\ e \in live /\ signal[e] = 0
            <4>1. e \in SignalType \cup WaitType /\ NotifyEvent(e)
                BY <1>1, <3>1, EventAssumption DEF Interrupt
            <4>2. signal' \in [Events -> {0, 1}]
                BY <1>1, <3>1 DEF Interrupt, Types
            <4> QED BY <4>1, <4>2, NotifyEventTypes
        <3>2. CASE ~(e # None /\ e \in live /\ signal[e] = 0)
            BY <1>1, <3>2 DEF Interrupt, Types
        <3> QED BY <3>1, <3>2
    <2>2. Types'
        <3>1. tpl' \in Int
            BY <1>1 DEF Interrupt, TPL_HIGH_LEVEL
        <3>2. irq' \in BOOLEAN
            BY <1>1, Zenon DEF Interrupt
        <3>3. siglist' = siglist /\ live' = live
            BY <1>1 DEF Interrupt
        <3> QED BY <2>1, <3>1, <3>2, <3>3 DEF Types
    <2>3. Frame("iret", None, tpl, 0) \in Frames /\ RestoreTpl(tpl) \in Frames
        <3>1. tpl \in Int
            BY DEF Types
        <3>2. Frame("iret", None, tpl, 0) \in Frames
            BY <3>1 DEF Frame, Frames, FrameType, GoodFrame, Pcs
        <3> QED BY <3>1, <3>2, FramesMade
    <2>4. GoodStack(stack')
        BY <1>1, <2>3, StackPush DEF Interrupt
    <2> QED BY <2>2, <2>4
<1>2. CASE InterruptReturn
    <2>1. Types'
        BY <1>2 DEF InterruptReturn, Types
    <2>2. GoodStack(stack')
        BY <1>2, ReturnStack DEF InterruptReturn, At, IsBottom
    <2> QED BY <2>1, <2>2
<1> QED BY <1>1, <1>2 DEF Tick

-----------------------------------------------------------------------------
(***************************************************************************)
(* Theorems                                                                *)
(***************************************************************************)
LEMMA StepIInv ==
    ASSUME IInv, ~LoadTwice, [Next]_vars
    PROVE  IInv'
<1>1. CASE CoreStep
    BY <1>1, TplIInv, DispatchIInv, SignalLockIInv, GroupIInv, CheckIInv, CheckClearIInv,
       WaitIInv, EventIInv, InterruptIInv DEF CoreStep
<1>2. CASE CodeStep
    BY <1>2, TplIInv, DispatchIInv, CodeSignalsIInv, CheckIInv, WaitIInv,
       EventIInv DEF CodeStep
<1>3. CASE Tick
    BY <1>3, InterruptIInv
<1>4. CASE UNCHANGED vars
    BY <1>4 DEF vars, IInv, Types, GoodStack, IsBottom
<1> QED BY <1>1, <1>2, <1>3, <1>4 DEF Next

(* Type correctness for every instance: in the build that loads            *)
(* gEventPending once per iteration of CoreRestoreTpl, every frame, queue  *)
(* and mask has its type, and the application's frame is never popped.     *)
THEOREM TypeCorrect == ~LoadTwice => (Spec => []TypeOK)
<1>1. ASSUME ~LoadTwice PROVE IInv /\ [Next]_vars => IInv'
    BY <1>1, StepIInv
<1>2. ASSUME ~LoadTwice PROVE Spec => []IInv
    BY <1>1, <1>2, InitIInv, PTL DEF Spec
<1>3. ASSUME ~LoadTwice PROVE Spec => []TypeOK
    BY <1>2, <1>3, IInvImpliesTypeOK, PTL
<1> QED BY <1>3

-----------------------------------------------------------------------------
(***************************************************************************)
(* The pending mask.  Four stretches of code change the queues or the mask:*)
(* CoreNotifyEvent, the two ends of the dispatcher's loop and the unlinking*)
(* in CoreCloseEvent; each keeps the bit of every queue that is not empty. *)
(***************************************************************************)
LEMMA NotifyCovers ==
    ASSUME Types, PendingCoversQueues, NEW e \in SignalType \cup WaitType,
           NotifyEvent(e)
    PROVE  PendingCoversQueues'
BY DEF Types, PendingCoversQueues, NotifyEvent

LEMMA TakeCovers ==
    ASSUME Types, PendingCoversQueues, DispatchTake
    PROVE  PendingCoversQueues'
BY DEF Types, PendingCoversQueues, DispatchTake

LEMMA DoneCovers ==
    ASSUME Types, PendingCoversQueues, DispatchDone
    PROVE  PendingCoversQueues'
BY DEF Types, PendingCoversQueues, DispatchDone

LEMMA CloseCovers ==
    ASSUME Types, PendingCoversQueues, CloseUnlink
    PROVE  PendingCoversQueues'
<1>1. Unlink(<< >>, Top.ev) = << >>
    BY DEF Unlink, ToSet
<1>2. CASE Top.ev \in SignalType \cup WaitType
    BY <1>1, <1>2, NotifyLevel DEF Types, PendingCoversQueues, CloseUnlink
<1>3. CASE Top.ev \notin SignalType \cup WaitType
    BY <1>3 DEF PendingCoversQueues, CloseUnlink
<1> QED BY <1>2, <1>3

\* A step that leaves the queues and the mask alone.
LEMMA UnchangedCovers ==
    ASSUME PendingCoversQueues, UNCHANGED <<pending, queue>>
    PROVE  PendingCoversQueues'
BY DEF PendingCoversQueues

LEMMA SignalCovers ==
    ASSUME Types, PendingCoversQueues, SignalAgain \/ SignalFirst
    PROVE  PendingCoversQueues'
<1>1. CASE SignalAgain
    BY <1>1, UnchangedCovers DEF SignalAgain
<1>2. CASE SignalFirst
    BY <1>2, NotifyCovers, UnchangedCovers DEF SignalFirst
<1> QED BY <1>1, <1>2

LEMMA CoreCovers ==
    ASSUME IInv, PendingCoversQueues, CoreStep
    PROVE  PendingCoversQueues'
<1> USE DEF IInv
<1>1. CASE RestoreCheck \/ RestorePick \/ RestoreLower
    BY <1>1, UnchangedCovers DEF RestoreCheck, RestorePick, RestoreLower
<1>2. CASE DispatchTake \/ DispatchDone
    BY <1>2, TakeCovers, DoneCovers
<1>3. CASE DispatchCall \/ GroupLock \/ GroupUnlock \/ SignalRelock
    BY <1>3, UnchangedCovers
    DEF DispatchCall, GroupLock, GroupUnlock, SignalRelock
<1>4. CASE GroupMember
    <2>1. siglist[Top.lo] \in SignalType
        BY <1>4 DEF GroupMember, Types
    <2> QED BY <1>4, <2>1, NotifyCovers, UnchangedCovers DEF GroupMember
<1>5. CASE CheckPeek \/ CheckLook \/ CheckClear
    BY <1>5, UnchangedCovers DEF CheckPeek, CheckLook, CheckClear
<1>6. CASE CheckEnqueue
    <2>1. Top.ev \in WaitType
        BY <1>6, TopType DEF CheckEnqueue, At, GoodFrame
    <2> QED BY <1>6, <2>1, NotifyCovers, UnchangedCovers DEF CheckEnqueue
<1>7. CASE WaitCheck \/ WaitReturn \/ WaitNext
    BY <1>7, UnchangedCovers DEF WaitCheck, WaitReturn, WaitNext
<1>8. CASE WaitIdle \/ SignalAgain \/ SignalFirst
    BY <1>8, SignalCovers, UnchangedCovers DEF WaitIdle, SignalEvent
<1>9. CASE CloseUnlink \/ CloseFree \/ InterruptReturn
    BY <1>9, CloseCovers, UnchangedCovers DEF CloseFree, InterruptReturn
<1> QED BY <1>1, <1>2, <1>3, <1>4, <1>5, <1>6, <1>7, <1>8, <1>9 DEF CoreStep

LEMMA CodeCovers ==
    ASSUME IInv, PendingCoversQueues, CodeStep
    PROVE  PendingCoversQueues'
<1> USE DEF IInv
<1>1. CASE NotifyReturn \/ LowerTpl \/ WaitForEvent
    BY <1>1, UnchangedCovers DEF NotifyReturn, LowerTpl, WaitForEvent
<1>2. CASE \E level \in UNION {RaisesTo[c] : c \in Callers} : RaiseTpl(level)
    BY <1>2, UnchangedCovers DEF RaiseTpl
<1>3. ASSUME NEW e \in Events,
             CodeSignals(e) \/ CodeChecks(e) \/ CreateEvent(e) \/ CloseEvent(e)
      PROVE  PendingCoversQueues'
    BY <1>3, UnchangedCovers
    DEF CodeSignals, SignalEvent, CodeChecks, CreateEvent, CloseEvent
<1> QED BY <1>1, <1>2, <1>3 DEF CodeStep

LEMMA TickCovers ==
    ASSUME IInv, PendingCoversQueues, Tick
    PROVE  PendingCoversQueues'
<1>1. PICK e \in IsrSignals \cup {None} : Interrupt(e)
    BY DEF Tick
<1>2. CASE e # None /\ e \in live /\ signal[e] = 0
    <2>1. e \in SignalType \cup WaitType /\ NotifyEvent(e)
        BY <1>1, <1>2, EventAssumption DEF Interrupt
    <2> QED BY <2>1, NotifyCovers DEF IInv
<1>3. CASE ~(e # None /\ e \in live /\ signal[e] = 0)
    BY <1>1, <1>3, UnchangedCovers DEF Interrupt
<1> QED BY <1>2, <1>3

(* No queued notification is invisible to CoreRestoreTpl, for every set of *)
(* events, levels and callers: in the build that loads gEventPending once  *)
(* per iteration, a level whose queue is not empty is in the mask.         *)
THEOREM QueuesCovered == ~LoadTwice => (Spec => []PendingCoversQueues)
<1>1. Init => PendingCoversQueues
    BY DEF Init, PendingCoversQueues
<1>2. ASSUME ~LoadTwice
      PROVE  IInv /\ PendingCoversQueues /\ [Next]_vars
                => IInv' /\ PendingCoversQueues'
    <2>1. ASSUME IInv, PendingCoversQueues, Next PROVE PendingCoversQueues'
        BY <2>1, CoreCovers, CodeCovers, TickCovers DEF Next
    <2>2. ASSUME PendingCoversQueues, UNCHANGED vars PROVE PendingCoversQueues'
        BY <2>2, UnchangedCovers DEF vars
    <2> QED BY <1>2, <2>1, <2>2, StepIInv
<1>3. ASSUME ~LoadTwice PROVE Spec => []PendingCoversQueues
    BY <1>1, <1>2, <1>3, InitIInv, PTL DEF Spec
<1> QED BY <1>3

-----------------------------------------------------------------------------
(***************************************************************************)
(* Proofs about the levels of DxeEvent: whatever interrupts, dispatchers   *)
(* and notification functions are in progress, the stack is nested by      *)
(* level, so code is preempted only by notifications above its own level,  *)
(* and finds its level and its interrupts as it left them.                 *)
(***************************************************************************)
(***************************************************************************)
(* Every frame runs at a level, or resumes at it when what is above it has *)
(* returned.  Frames in which the level shows have it in lo or hi; the     *)
(* others are at the level of their caller.                                *)
(***************************************************************************)
Restoring(f) == f.pc \in {"check", "pick", "lower"}

FrameAt(f, l) ==
    /\ f.pc = "run" =>
            /\ l = f.hi /\ f.lo <= f.hi
            /\ f.ev # App => f.lo = NotifyTpl[f.ev]
    /\ Restoring(f) \/ f.pc \in {"take", "call", "iret"} => l = f.lo
    /\ f.pc = "pick" => f.hi > f.lo
    /\ f.pc = "call" => NotifyTpl[f.ev] = f.lo
    /\ f.pc = "iret" => l < TPL_HIGH_LEVEL
    /\ f.pc = "members" => l = f.hi

\* Frame g at level l is right above frame f at level k.
Above(f, k, g, l) ==
    /\ f.pc # "members" /\ k <= l
    /\ g.pc = "run" => f.pc = "take" /\ g.lo = k
    /\ g.pc \in {"take", "call"} => f.pc = "check" /\ k < l
    /\ g.pc = "close" => f.pc = "run" /\ g.ev \in Closes[f.ev]
    /\ g.pc \notin {"run", "take", "call"} => Restoring(f) \/ k = l

\* Frame f at level l runs while gEfiCurrentTpl is t.
TopAt(f, l, t) ==
    /\ f.pc = "members" => t = TPL_HIGH_LEVEL
    /\ Restoring(f) => l <= t
    /\ f.pc # "members" /\ ~Restoring(f) => l = t

Chain(s, L) ==
    /\ \A i \in 1 .. Len(s) : L[i] <= TPL_HIGH_LEVEL /\ FrameAt(s[i], L[i])
    /\ \A i, j \in 1 .. Len(s) : i <= j => L[i] <= L[j]
    /\ \A i \in 1 .. Len(s) - 1 : Above(s[i], L[i], s[i + 1], L[i + 1])

\* The stack is nested, and its last frame is at level l.
Nested(s, l) ==
    \E L \in [1 .. Len(s) -> Int] : Chain(s, L) /\ L[Len(s)] = l

\* In any place where frame g at level l is, f at level m may be.
MayReplace(g, l, f, m) ==
    \A x, k : k \in Int /\ Above(x, k, g, l) => Above(x, k, f, m)

-----------------------------------------------------------------------------
(***************************************************************************)
(* Nested stacks                                                           *)
(***************************************************************************)
IsStack(s) == s \in Seq(FrameType) /\ s # << >>

LEMMA StackLast ==
    ASSUME NEW s, IsStack(s)
    PROVE  /\ Len(s) \in Nat \ {0} /\ Last(s) = s[Len(s)]
           /\ Last(s) \in FrameType
<1>1. Len(s) \in Nat \ {0}
    BY EmptySeq DEF IsStack
<1> QED BY <1>1, ElementOfSeq DEF IsStack, Last

LEMMA GoodIsStack ==
    ASSUME NEW s, GoodStack(s)
    PROVE  IsStack(s)
<1>1. Frames \subseteq FrameType
    BY DEF Frames
<1> QED BY <1>1, SeqMonotonic DEF GoodStack, IsStack

LEMMA NestReplace ==
    ASSUME NEW s, IsStack(s), NEW l \in Int, Nested(s, l),
           NEW f \in FrameType, NEW m \in Int, m <= TPL_HIGH_LEVEL,
           FrameAt(f, m), MayReplace(Last(s), l, f, m)
    PROVE  LET t == [s EXCEPT ![Len(s)] = f]
           IN  IsStack(t) /\ Nested(t, m) /\ Last(t) = f
<1> DEFINE n == Len(s)
           t == [s EXCEPT ![n] = f]
<1>1. n \in Nat \ {0} /\ Last(s) = s[n]
    BY StackLast
<1>2. /\ IsStack(t) /\ Len(t) = n /\ Last(t) = f
      /\ \A j \in 1 .. n : t[j] = IF j = n THEN f ELSE s[j]
    <2>1. /\ t \in Seq(FrameType) /\ Len(t) = n
          /\ \A j \in 1 .. n : t[j] = IF j = n THEN f ELSE s[j]
        BY <1>1, ExceptSeq DEF IsStack
    <2>2. IsStack(t)
        BY <1>1, <2>1, EmptySeq DEF IsStack
    <2>3. Last(t) = t[Len(t)]
        BY DEF Last
    <2> QED BY <1>1, <2>1, <2>2, <2>3
<1>3. PICK L \in [1 .. n -> Int] : Chain(s, L) /\ L[n] = l
    BY DEF Nested
<1> DEFINE M == [L EXCEPT ![n] = m]
<1>4. M \in [1 .. n -> Int] /\ M[n] = m /\ \A j \in 1 .. n : j # n => M[j] = L[j]
    BY <1>1, <1>3
<1>5. \A i \in 1 .. n - 1 : i + 1 \in 1 .. n /\ i \in 1 .. n
    BY <1>1
<1>6. n > 1 => Above(s[n - 1], L[n - 1], f, m)
    <2> SUFFICES ASSUME n > 1 PROVE Above(s[n - 1], L[n - 1], f, m)
        OBVIOUS
    <2>1. n - 1 \in 1 .. n - 1 /\ (n - 1) + 1 = n
        BY <1>1
    <2>2. Above(s[n - 1], L[n - 1], s[(n - 1) + 1], L[(n - 1) + 1])
        BY <1>3, <2>1 DEF Chain
    <2>3. L[n - 1] \in Int
        BY <1>1, <1>3, <2>1
    <2> QED BY <1>1, <1>3, <2>1, <2>2, <2>3 DEF MayReplace
<1>7. \A i \in 1 .. n : M[i] <= TPL_HIGH_LEVEL /\ FrameAt(t[i], M[i])
    BY <1>2, <1>3, <1>4 DEF Chain
<1>8. \A i, j \in 1 .. n : i <= j => M[i] <= M[j]
    <2> SUFFICES ASSUME NEW i \in 1 .. n, NEW j \in 1 .. n, i < j
                 PROVE  M[i] <= M[j]
        BY <1>1, <1>4
    <2>1. CASE j # n
        BY <1>1, <1>3, <1>4, <2>1 DEF Chain
    <2>2. CASE j = n
        <3>1. i <= n - 1 /\ n - 1 \in 1 .. n /\ n > 1
            BY <1>1, <2>2
        <3>2. L[i] <= L[n - 1]
            BY <1>3, <3>1 DEF Chain
        <3>3. L[n - 1] <= m
            BY <1>6, <3>1 DEF Above
        <3>4. L[i] \in Int /\ L[n - 1] \in Int /\ M[i] = L[i] /\ M[j] = m
            BY <1>1, <1>3, <1>4, <2>2, <3>1
        <3> QED BY <3>2, <3>3, <3>4
    <2> QED BY <2>1, <2>2
<1>9. \A i \in 1 .. n - 1 : Above(t[i], M[i], t[i + 1], M[i + 1])
    <2> SUFFICES ASSUME NEW i \in 1 .. n - 1
                 PROVE  Above(t[i], M[i], t[i + 1], M[i + 1])
        OBVIOUS
    <2>1. i # n /\ t[i] = s[i] /\ M[i] = L[i]
        BY <1>1, <1>2, <1>4
    <2>2. CASE i + 1 = n
        <3>1. i = n - 1 /\ n > 1
            BY <1>1, <2>2
        <3>2. t[i + 1] = f /\ M[i + 1] = m
            BY <1>1, <1>2, <1>4, <2>2
        <3> QED BY <1>6, <2>1, <3>1, <3>2
    <2>3. CASE i + 1 # n
        <3>1. t[i + 1] = s[i + 1] /\ M[i + 1] = L[i + 1]
            BY <1>2, <1>4, <1>5, <2>3
        <3> QED BY <1>3, <2>1, <3>1 DEF Chain
    <2> QED BY <2>2, <2>3
<1> QED BY <1>2, <1>4, <1>7, <1>8, <1>9 DEF Nested, Chain

LEMMA NestPush ==
    ASSUME NEW s, IsStack(s), NEW l \in Int, Nested(s, l),
           NEW g \in FrameType, NEW m \in Int, m <= TPL_HIGH_LEVEL,
           FrameAt(g, m), Above(Last(s), l, g, m)
    PROVE  LET t == Append(s, g)
           IN  IsStack(t) /\ Nested(t, m) /\ Last(t) = g
<1> DEFINE n == Len(s)
           t == Append(s, g)
<1>1. n \in Nat \ {0} /\ Last(s) = s[n]
    BY StackLast
<1>2. /\ IsStack(t) /\ Len(t) = n + 1 /\ Last(t) = g
      /\ \A j \in 1 .. n + 1 : t[j] = IF j = n + 1 THEN g ELSE s[j]
    <2>1. /\ t \in Seq(FrameType) /\ Len(t) = n + 1
          /\ \A j \in 1 .. n + 1 : t[j] = IF j = n + 1 THEN g ELSE s[j]
        BY <1>1, AppendProperties DEF IsStack
    <2>2. IsStack(t)
        BY <1>1, <2>1, EmptySeq DEF IsStack
    <2>3. Last(t) = t[Len(t)]
        BY DEF Last
    <2> QED BY <1>1, <2>1, <2>2, <2>3
<1>3. PICK L \in [1 .. n -> Int] : Chain(s, L) /\ L[n] = l
    BY DEF Nested
<1> DEFINE M == [j \in 1 .. n + 1 |-> IF j = n + 1 THEN m ELSE L[j]]
<1>4. /\ M \in [1 .. n + 1 -> Int] /\ M[n + 1] = m
      /\ \A j \in 1 .. n : M[j] = L[j] /\ t[j] = s[j] /\ j \in 1 .. n + 1
    BY <1>1, <1>2, <1>3
<1>5. t[n + 1] = g
    BY <1>1, <1>2
<1>6. \A i \in 1 .. n + 1 : M[i] <= TPL_HIGH_LEVEL /\ FrameAt(t[i], M[i])
    <2> SUFFICES ASSUME NEW i \in 1 .. n + 1
                 PROVE  M[i] <= TPL_HIGH_LEVEL /\ FrameAt(t[i], M[i])
        OBVIOUS
    <2>1. i = n + 1 \/ i \in 1 .. n
        BY <1>1
    <2> QED BY <1>3, <1>4, <1>5, <2>1 DEF Chain
<1>7. \A i, j \in 1 .. n + 1 : i <= j => M[i] <= M[j]
    <2> SUFFICES ASSUME NEW i \in 1 .. n + 1, NEW j \in 1 .. n + 1, i < j
                 PROVE  M[i] <= M[j]
        BY <1>1, <1>4
    <2>1. i \in 1 .. n /\ (j = n + 1 \/ j \in 1 .. n) /\ n \in 1 .. n /\ i <= n
        BY <1>1
    <2>2. L[i] <= L[n] /\ L[i] \in Int
        BY <1>3, <2>1 DEF Chain
    <2>3. l <= m
        BY DEF Above
    <2>4. CASE j = n + 1
        BY <1>3, <1>4, <2>1, <2>2, <2>3, <2>4
    <2>5. CASE j \in 1 .. n
        BY <1>3, <1>4, <2>1, <2>5 DEF Chain
    <2> QED BY <2>1, <2>4, <2>5
<1>8. \A i \in 1 .. n : Above(t[i], M[i], t[i + 1], M[i + 1])
    <2> SUFFICES ASSUME NEW i \in 1 .. n
                 PROVE  Above(t[i], M[i], t[i + 1], M[i + 1])
        OBVIOUS
    <2>1. CASE i = n
        BY <1>1, <1>3, <1>4, <1>5, <2>1
    <2>2. CASE i # n
        <3>1. i \in 1 .. n - 1 /\ i + 1 \in 1 .. n
            BY <1>1, <2>2
        <3> QED BY <1>3, <1>4, <3>1 DEF Chain
    <2> QED BY <2>1, <2>2
<1>9. (n + 1) - 1 = n
    BY <1>1
<1> QED BY <1>2, <1>4, <1>6, <1>7, <1>8, <1>9 DEF Nested, Chain

\* What is left when the last frame returns.
LEMMA NestPop ==
    ASSUME NEW s, GoodStack(s), ~IsBottom(Last(s)), NEW l \in Int, Nested(s, l)
    PROVE  \E k \in Int : /\ Nested(Front(s), k)
                          /\ Above(Last(Front(s)), k, Last(s), l)
<1> DEFINE n == Len(s)
           t == Front(s)
<1>1. n \in Nat /\ n > 1 /\ Last(s) = s[n]
    BY StackTop DEF GoodStack, Last
<1>2. \A i \in 1 .. n - 1 : s[i] \in Frames
    BY <1>1, ElementOfSeq DEF GoodStack
<1>3. Len(t) = n - 1 /\ \A i \in 1 .. n - 1 : t[i] = s[i]
    BY <1>1, <1>2, SubSeqProperties DEF Front
<1>4. PICK L \in [1 .. n -> Int] : Chain(s, L) /\ L[n] = l
    BY DEF Nested
<1> DEFINE M == [j \in 1 .. n - 1 |-> L[j]]
<1>5. /\ M \in [1 .. n - 1 -> Int]
      /\ \A j \in 1 .. n - 1 : M[j] = L[j] /\ j \in 1 .. n
    BY <1>1, <1>4
<1>6. n - 1 \in 1 .. n - 1 /\ (n - 1) + 1 = n
    BY <1>1
<1>7. Chain(t, M)
    <2>1. \A i \in 1 .. n - 1 : M[i] <= TPL_HIGH_LEVEL /\ FrameAt(t[i], M[i])
        BY <1>3, <1>4, <1>5 DEF Chain
    <2>2. \A i, j \in 1 .. n - 1 : i <= j => M[i] <= M[j]
        BY <1>4, <1>5 DEF Chain
    <2>3. \A i \in 1 .. (n - 1) - 1 : Above(t[i], M[i], t[i + 1], M[i + 1])
        <3> SUFFICES ASSUME NEW i \in 1 .. (n - 1) - 1
                     PROVE  Above(t[i], M[i], t[i + 1], M[i + 1])
            OBVIOUS
        <3>1. i \in 1 .. n - 1 /\ i + 1 \in 1 .. n - 1
            BY <1>1
        <3> QED BY <1>3, <1>4, <1>5, <3>1 DEF Chain
    <2> QED BY <1>3, <2>1, <2>2, <2>3 DEF Chain
<1>8. Last(t) = s[n - 1]
    BY <1>3, <1>6 DEF Last
<1>9. Above(s[n - 1], L[n - 1], s[n], l)
    <2>1. Above(s[n - 1], L[n - 1], s[(n - 1) + 1], L[(n - 1) + 1])
        BY <1>4, <1>6 DEF Chain
    <2> QED BY <1>4, <1>6, <2>1
<1>10. M[n - 1] \in Int /\ M[n - 1] = L[n - 1]
    BY <1>5, <1>6
<1>11. Nested(t, M[n - 1])
    BY <1>3, <1>5, <1>7 DEF Nested
<1> QED BY <1>1, <1>8, <1>9, <1>10, <1>11

-----------------------------------------------------------------------------
(***************************************************************************)
(* The inductive invariant                                                 *)
(***************************************************************************)
StackLevels == \E l \in Int : Nested(stack, l) /\ TopAt(Top, l, tpl)

FlagLevels ==
    /\ tpl <= TPL_HIGH_LEVEL
    /\ irq => tpl < TPL_HIGH_LEVEL
    /\ tpl < TPL_HIGH_LEVEL => irq

\* A queue holds events of its own level.
AtLevel(p)  == {e \in SignalType \cup WaitType : NotifyTpl[e] = p}
QueueLevels == \A p \in Levels : queue[p] \in Seq(AtLevel(p))

Levelled == StackLevels /\ FlagLevels /\ QueueLevels

(***************************************************************************)
(* What a step does to the levels of the stack, whose last frame is at l.  *)
(***************************************************************************)
LEMMA GotoLevels ==
    ASSUME IsStack(stack), NEW l \in Int, Nested(stack, l),
           NEW f \in FrameType, NEW m \in Int, m <= TPL_HIGH_LEVEL,
           FrameAt(f, m), MayReplace(Top, l, f, m), Goto(f), TopAt(f, m, tpl')
    PROVE  StackLevels'
<1>1. Nested(stack', m) /\ Top' = f
    BY NestReplace DEF Goto, Top
<1> QED BY <1>1 DEF StackLevels

LEMMA CallLevels ==
    ASSUME IsStack(stack), NEW l \in Int, Nested(stack, l),
           NEW g \in FrameType, NEW m \in Int, m <= TPL_HIGH_LEVEL,
           FrameAt(g, m), Above(Top, l, g, m), Call(g), TopAt(g, m, tpl')
    PROVE  StackLevels'
<1>1. Nested(stack', m) /\ Top' = g
    BY NestPush DEF Call, Top
<1> QED BY <1>1 DEF StackLevels

LEMMA GotoAndCallLevels ==
    ASSUME IsStack(stack), NEW l \in Int, Nested(stack, l),
           NEW f \in FrameType, NEW k \in Int, k <= TPL_HIGH_LEVEL,
           FrameAt(f, k), MayReplace(Top, l, f, k),
           NEW g \in FrameType, NEW m \in Int, m <= TPL_HIGH_LEVEL,
           FrameAt(g, m), Above(f, k, g, m), GotoAndCall(f, g),
           TopAt(g, m, tpl')
    PROVE  StackLevels'
<1> DEFINE s == [stack EXCEPT ![Len(stack)] = f]
<1>1. IsStack(s) /\ Nested(s, k) /\ Last(s) = f
    BY NestReplace DEF Top
<1>2. stack' = Append(s, g)
    BY DEF GotoAndCall
<1> HIDE DEF s
<1>3. Nested(stack', m) /\ Top' = g
    BY <1>1, <1>2, NestPush DEF Top
<1> QED BY <1>3 DEF StackLevels

\* A frame returns with gEfiCurrentTpl at its own level.
LEMMA ReturnLevels ==
    ASSUME GoodStack(stack), ~IsBottom(Top), NEW l \in Int, Nested(stack, l),
           Top.pc = "run" => Top.lo = l, Return, tpl' = l
    PROVE  StackLevels'
<1>1. PICK k \in Int : Nested(stack', k) /\ Above(Top', k, Top, l)
    BY NestPop DEF Return, Top
<1>2. TopAt(Top', k, tpl')
    BY <1>1 DEF Above, TopAt, Restoring
<1> QED BY <1>1, <1>2 DEF StackLevels

\* The frame that code leaves behind when it calls RestoreTPL(n), and the
\* critical sections of gEventQueueLock.
LEMMA RestoreFrame ==
    ASSUME NEW n \in Int
    PROVE  /\ RestoreTpl(n) \in FrameType /\ FrameAt(RestoreTpl(n), n)
           /\ RestoreTpl(n).pc = "check" /\ Restoring(RestoreTpl(n))
           /\ \A t \in Int : n <= t => TopAt(RestoreTpl(n), n, t)
           /\ \A f, k : f.pc # "members" /\ k <= n /\ (Restoring(f) \/ k = n)
                            => Above(f, k, RestoreTpl(n), n)
BY DEF RestoreTpl, Frame, FrameType, Pcs, FrameAt, Restoring, TopAt, Above

LEMMA AcquireLockLevels ==
    ASSUME AcquireLock
    PROVE  tpl' = TPL_HIGH_LEVEL /\ FlagLevels'
<1>1. tpl' = TPL_HIGH_LEVEL /\ ~irq'
    BY Zenon DEF AcquireLock
<1> QED BY <1>1 DEF FlagLevels, TPL_HIGH_LEVEL

LEMMA ReleaseLockLevels ==
    ASSUME IsStack(stack), tpl \in Int, tpl <= TPL_HIGH_LEVEL, Nested(stack, tpl),
           NEW f \in FrameType, FrameAt(f, tpl), f.pc # "members",
           MayReplace(Top, tpl, f, tpl), AcquireLock, ReleaseLock(f)
    PROVE  StackLevels' /\ FlagLevels'
<1>1. tpl' = TPL_HIGH_LEVEL /\ FlagLevels'
    BY AcquireLockLevels
<1>2. TPL_HIGH_LEVEL \in Int
    BY DEF TPL_HIGH_LEVEL
<1>3. Above(f, tpl, RestoreTpl(tpl), tpl)
    BY RestoreFrame
<1> QED BY <1>1, <1>2, <1>3, RestoreFrame, GotoAndCallLevels DEF ReleaseLock

LEMMA ReleaseAndReturnLevels ==
    ASSUME IsStack(stack), tpl \in Int, tpl <= TPL_HIGH_LEVEL, Nested(stack, tpl),
           Top.pc # "run", AcquireLock, ReleaseAndReturn
    PROVE  StackLevels' /\ FlagLevels'
<1>1. tpl' = TPL_HIGH_LEVEL /\ FlagLevels'
    BY AcquireLockLevels
<1>2. TPL_HIGH_LEVEL \in Int
    BY DEF TPL_HIGH_LEVEL
<1>3. MayReplace(Top, tpl, RestoreTpl(tpl), tpl)
    <2> SUFFICES ASSUME NEW x, NEW k \in Int, Above(x, k, Top, tpl)
                 PROVE  Above(x, k, RestoreTpl(tpl), tpl)
        BY DEF MayReplace
    <2>1. x.pc # "members" /\ k <= tpl /\ (Restoring(x) \/ k = tpl)
        BY DEF Above, Restoring
    <2> QED BY <2>1, RestoreFrame
<1> QED BY <1>1, <1>2, <1>3, RestoreFrame, GotoLevels DEF ReleaseAndReturn

\* A frame g called by a frame of s, and a RestoreTPL called by g.
LEMMA CallAndRestoreLevels ==
    ASSUME NEW s, IsStack(s), NEW l \in Int, Nested(s, l),
           tpl \in Int, tpl <= TPL_HIGH_LEVEL, tpl' = TPL_HIGH_LEVEL,
           NEW g \in FrameType, FrameAt(g, tpl), g.pc # "members",
           Above(Last(s), l, g, tpl),
           stack' = Append(Append(s, g), RestoreTpl(tpl))
    PROVE  StackLevels'
<1> DEFINE t == Append(s, g)
<1>1. IsStack(t) /\ Nested(t, tpl) /\ Last(t) = g
    BY NestPush
<1>2. Above(g, tpl, RestoreTpl(tpl), tpl)
    BY RestoreFrame
<1>3. stack' = Append(t, RestoreTpl(tpl))
    OBVIOUS
<1> HIDE DEF t
<1>4. Nested(stack', tpl) /\ Top' = RestoreTpl(tpl)
    BY <1>1, <1>2, <1>3, RestoreFrame, NestPush DEF Top
<1>5. TopAt(Top', tpl, tpl')
    BY <1>4, RestoreFrame DEF TPL_HIGH_LEVEL
<1> QED BY <1>4, <1>5 DEF StackLevels

-----------------------------------------------------------------------------
(***************************************************************************)
(* The running frame                                                       *)
(***************************************************************************)
LEMMA NestTop ==
    ASSUME NEW s, IsStack(s), NEW l, Nested(s, l)
    PROVE  FrameAt(Last(s), l) /\ l <= TPL_HIGH_LEVEL
<1>1. PICK L \in [1 .. Len(s) -> Int] : Chain(s, L) /\ L[Len(s)] = l
    BY DEF Nested
<1>2. Len(s) \in 1 .. Len(s) /\ Last(s) = s[Len(s)]
    BY StackLast
<1> QED BY <1>1, <1>2 DEF Chain

\* Except in CoreRestoreTpl and in a critical section, the running frame is
\* at gEfiCurrentTpl.
LEMMA RunningLevel ==
    ASSUME IInv, StackLevels, Top.pc # "members", ~Restoring(Top)
    PROVE  /\ IsStack(stack) /\ tpl \in Int
           /\ Nested(stack, tpl) /\ FrameAt(Top, tpl)
<1>1. IsStack(stack) /\ tpl \in Int
    BY GoodIsStack DEF IInv, Types
<1>2. PICK l \in Int : Nested(stack, l) /\ TopAt(Top, l, tpl)
    BY DEF StackLevels
<1>3. l = tpl
    BY <1>2 DEF TopAt
<1> QED BY <1>1, <1>2, <1>3, NestTop DEF Top

\* Frames that run at the level of their caller.
Plain(f) ==
    f.pc \in {"signal", "group", "relock", "peek", "enqueue", "look", "clear",
              "wait", "waited", "free"}

LEMMA PlainFrame ==
    ASSUME NEW f, Plain(f), NEW l \in Int
    PROVE  /\ FrameAt(f, l) /\ TopAt(f, l, l)
           /\ f.pc # "members" /\ ~Restoring(f)
           /\ \A g : g.pc # "members" => Above(g, l, f, l)
           /\ \A g : Plain(g) \/ g.pc \in {"members", "close"} => MayReplace(g, l, f, l)
BY DEF Plain, FrameAt, TopAt, Above, Restoring, MayReplace

-----------------------------------------------------------------------------
(***************************************************************************)
(* The steps preserve the levels of the stack and of the interrupt flag.   *)
(***************************************************************************)
LEMMA UnchangedFlag ==
    ASSUME FlagLevels, UNCHANGED <<tpl, irq>>
    PROVE  FlagLevels'
BY DEF FlagLevels

\* Tpl.c, as called by code
LEMMA RaiseLevels ==
    ASSUME IInv, Levelled, NEW level \in UNION {RaisesTo[c] : c \in Callers},
           RaiseTpl(level)
    PROVE  StackLevels' /\ FlagLevels'
<1> DEFINE f == [Top EXCEPT !.hi = level]
<1>1. level \in Int /\ level <= TPL_HIGH_LEVEL
    <2>1. \A c \in Callers :
                RaisesTo[c] \subseteq TPL_APPLICATION + 1 .. TPL_HIGH_LEVEL
        BY EventAssumption
    <2> QED BY <2>1, RaisedLevel DEF TPL_APPLICATION, TPL_HIGH_LEVEL
<1>2. /\ Top.pc = "run" /\ Top.lo = Top.hi /\ level > Top.hi
      /\ tpl' = level /\ Goto(f)
    BY DEF RaiseTpl, At
<1>3. /\ IsStack(stack) /\ tpl \in Int
      /\ Nested(stack, tpl) /\ FrameAt(Top, tpl)
    BY <1>2, RunningLevel DEF Restoring, Levelled
<1>4. Top \in FrameType
    BY TopType DEF IInv
<1>5. f \in FrameType /\ f.pc = "run" /\ f.lo = Top.lo /\ f.hi = level /\ f.ev = Top.ev
    BY <1>1, <1>2, <1>4 DEF FrameType
<1>6. FrameAt(f, level) /\ TopAt(f, level, level)
    BY <1>1, <1>2, <1>3, <1>4, <1>5 DEF FrameAt, TopAt, Restoring, FrameType
<1>7. MayReplace(Top, tpl, f, level)
    BY <1>1, <1>2, <1>3, <1>5 DEF MayReplace, Above, FrameAt
<1>8. StackLevels'
    BY <1>1, <1>2, <1>3, <1>5, <1>6, <1>7, GotoLevels
<1>9. FlagLevels'
    <2>1. irq' = (irq /\ level < TPL_HIGH_LEVEL)
        BY DEF RaiseTpl
    <2>2. tpl < level
        BY <1>2, <1>3 DEF FrameAt
    <2>3. level < TPL_HIGH_LEVEL => irq
        BY <1>1, <1>3, <2>2 DEF Levelled, FlagLevels, TPL_HIGH_LEVEL
    <2> QED BY <1>1, <1>2, <2>1, <2>3 DEF FlagLevels
<1> QED BY <1>8, <1>9

LEMMA LowerLevels ==
    ASSUME IInv, Levelled, LowerTpl
    PROVE  StackLevels' /\ FlagLevels'
<1> DEFINE f == [Top EXCEPT !.hi = Top.lo]
<1>1. /\ Top.pc = "run" /\ Top.lo < Top.hi
      /\ UNCHANGED <<tpl, irq>> /\ GotoAndCall(f, RestoreTpl(Top.lo))
    BY DEF LowerTpl, At
<1>2. /\ IsStack(stack) /\ tpl \in Int
      /\ Nested(stack, tpl) /\ FrameAt(Top, tpl)
    BY <1>1, RunningLevel DEF Restoring, Levelled
<1>3. Top \in FrameType /\ Top.lo \in Int
    BY TopType DEF IInv, FrameType
<1>4. f \in FrameType /\ f.pc = "run" /\ f.lo = Top.lo /\ f.hi = Top.lo /\ f.ev = Top.ev
    BY <1>1, <1>3 DEF FrameType
<1>5. Top.lo <= tpl /\ Top.lo <= TPL_HIGH_LEVEL
    BY <1>1, <1>2, <1>3 DEF FrameAt, Levelled, FlagLevels, TPL_HIGH_LEVEL
<1>6. FrameAt(f, Top.lo)
    BY <1>1, <1>2, <1>3, <1>4 DEF FrameAt, Restoring
<1>7. MayReplace(Top, tpl, f, Top.lo)
    BY <1>1, <1>2, <1>3, <1>4 DEF MayReplace, Above
<1>8. /\ RestoreTpl(Top.lo) \in FrameType /\ FrameAt(RestoreTpl(Top.lo), Top.lo)
      /\ TopAt(RestoreTpl(Top.lo), Top.lo, tpl')
      /\ Above(f, Top.lo, RestoreTpl(Top.lo), Top.lo)
    <2>1. TopAt(RestoreTpl(Top.lo), Top.lo, tpl')
        BY <1>1, <1>2, <1>3, <1>5, RestoreFrame
    <2>2. Above(f, Top.lo, RestoreTpl(Top.lo), Top.lo)
        BY <1>3, <1>4, RestoreFrame DEF Above
    <2> QED BY <1>3, <2>1, <2>2, RestoreFrame
<1>9. StackLevels'
    BY <1>1, <1>2, <1>3, <1>4, <1>5, <1>6, <1>7, <1>8, GotoAndCallLevels
<1> QED BY <1>1, <1>9, UnchangedFlag DEF Levelled

\* The loop of CoreRestoreTpl
LEMMA RestoreLoopLevels ==
    ASSUME IInv, Levelled, RestoreCheck
    PROVE  StackLevels' /\ FlagLevels'
<1> DEFINE low  == [Top EXCEPT !.pc = "lower"]
           pick == [Top EXCEPT !.pc = "pick", !.hi = HighBitSet64(pending)]
<1>1. Top.pc = "check" /\ Restoring(Top) /\ UNCHANGED <<tpl, irq>>
    BY DEF RestoreCheck, At, Restoring
<1>2. IsStack(stack) /\ Top \in FrameType
    BY GoodIsStack, TopType DEF IInv
<1>3. PICK l \in Int : Nested(stack, l) /\ TopAt(Top, l, tpl)
    BY DEF Levelled, StackLevels
<1>4. FrameAt(Top, l) /\ l <= TPL_HIGH_LEVEL /\ l = Top.lo
    BY <1>1, <1>2, <1>3, NestTop DEF Top, FrameAt
<1>5. CASE Unmasked(Top.lo) = {}
    <2>1. /\ low \in FrameType /\ low.pc = "lower" /\ low.lo = Top.lo
          /\ Goto(low)
        BY <1>2, <1>5 DEF RestoreCheck, FrameType, Pcs
    <2>2. /\ FrameAt(low, l) /\ TopAt(low, l, tpl')
          /\ MayReplace(Top, l, low, l)
        BY <1>1, <1>3, <1>4, <2>1
        DEF FrameAt, TopAt, Restoring, MayReplace, Above
    <2> QED BY <1>1, <1>2, <1>3, <1>4, <2>1, <2>2, GotoLevels, UnchangedFlag
            DEF Levelled
<1>6. CASE Unmasked(Top.lo) # {}
    <2>1. HighBitSet64(pending) \in Int /\ HighBitSet64(pending) > Top.lo
        <3>1. PICK p \in pending : p > Top.lo
            BY <1>6 DEF Unmasked
        <3>2. /\ pending \subseteq Levels /\ HighBitSet64(pending) \in pending
              /\ p <= HighBitSet64(pending)
            BY <3>1, HighBitInMask DEF IInv, Types
        <3>3. p \in Int /\ HighBitSet64(pending) \in Int /\ Top.lo \in Int
            BY <1>2, <3>1, <3>2, LevelsBounded DEF FrameType
        <3> QED BY <3>1, <3>2, <3>3
    <2>2. /\ pick \in FrameType /\ pick.pc = "pick" /\ pick.lo = Top.lo
          /\ pick.hi = HighBitSet64(pending) /\ Goto(pick)
        BY <1>2, <1>6, <2>1 DEF RestoreCheck, FrameType, Pcs
    <2>3. /\ FrameAt(pick, l) /\ TopAt(pick, l, tpl')
          /\ MayReplace(Top, l, pick, l)
        BY <1>1, <1>3, <1>4, <2>1, <2>2
        DEF FrameAt, TopAt, Restoring, MayReplace, Above
    <2> QED BY <1>1, <1>2, <1>3, <1>4, <2>2, <2>3, GotoLevels, UnchangedFlag
            DEF Levelled
<1> QED BY <1>5, <1>6

LEMMA PickLevels ==
    ASSUME IInv, Levelled, ~LoadTwice, RestorePick
    PROVE  StackLevels' /\ FlagLevels'
<1> DEFINE p == Top.hi
<1>1. /\ Top.pc = "pick" /\ Restoring(Top)
      /\ tpl' = p /\ irq' = (irq \/ p < TPL_HIGH_LEVEL)
      /\ GotoAndCall(RestoreTpl(Top.lo), Dispatch(p))
    BY DEF RestorePick, At, Restoring
<1>2. IsStack(stack) /\ Top \in FrameType /\ p \in Levels
    BY <1>1, GoodIsStack, TopType DEF IInv, GoodFrame
<1>3. PICK l \in Int : Nested(stack, l) /\ TopAt(Top, l, tpl)
    BY DEF Levelled, StackLevels
<1>4. /\ FrameAt(Top, l) /\ l <= TPL_HIGH_LEVEL /\ l = Top.lo /\ l < p
      /\ p \in Int /\ p < TPL_HIGH_LEVEL
    <2>1. FrameAt(Top, l) /\ l <= TPL_HIGH_LEVEL
        BY <1>2, <1>3, NestTop DEF Top
    <2>2. p \in TPL_APPLICATION + 1 .. TPL_HIGH_LEVEL - 1
        BY <1>2, LevelsBounded
    <2>3. p \in Int /\ p < TPL_HIGH_LEVEL
        BY <2>2 DEF TPL_APPLICATION, TPL_HIGH_LEVEL
    <2> QED BY <1>1, <2>1, <2>3 DEF FrameAt
<1>5. MayReplace(Top, l, RestoreTpl(Top.lo), l)
    BY <1>1, <1>4, RestoreFrame DEF MayReplace, Above, Restoring
<1>6. /\ Dispatch(p) \in FrameType /\ FrameAt(Dispatch(p), p)
      /\ TopAt(Dispatch(p), p, tpl')
    BY <1>1, <1>4 DEF Dispatch, Frame, FrameType, FrameAt, TopAt, Restoring, Pcs
<1>7. Above(RestoreTpl(Top.lo), l, Dispatch(p), p)
    BY <1>4 DEF RestoreTpl, Dispatch, Frame, Above
<1>8. StackLevels'
    BY <1>1, <1>2, <1>3, <1>4, <1>5, <1>6, <1>7, RestoreFrame, GotoAndCallLevels
    DEF TPL_HIGH_LEVEL
<1>9. irq'
    BY <1>1, <1>4, Zenon
<1>10. FlagLevels'
    BY <1>1, <1>4, <1>9 DEF FlagLevels, TPL_HIGH_LEVEL
<1> QED BY <1>8, <1>10

LEMMA RestoreLowerLevels ==
    ASSUME IInv, Levelled, RestoreLower
    PROVE  StackLevels' /\ FlagLevels'
<1>1. /\ Top.pc = "lower" /\ Restoring(Top) /\ ~IsBottom(Top)
      /\ tpl' = Top.lo /\ irq' = (irq \/ Top.lo < TPL_HIGH_LEVEL) /\ Return
    BY DEF RestoreLower, At, Restoring, IsBottom
<1>2. GoodStack(stack) /\ IsStack(stack) /\ tpl \in Int
    BY GoodIsStack DEF IInv, Types
<1>3. PICK l \in Int : Nested(stack, l) /\ TopAt(Top, l, tpl)
    BY DEF Levelled, StackLevels
<1>4. l <= TPL_HIGH_LEVEL /\ l = Top.lo /\ l <= tpl
    BY <1>1, <1>2, <1>3, NestTop DEF Top, FrameAt, TopAt
<1>5. StackLevels'
    BY <1>1, <1>2, <1>3, <1>4, ReturnLevels
<1>6. irq => Top.lo < TPL_HIGH_LEVEL
    BY <1>2, <1>3, <1>4 DEF Levelled, FlagLevels, TPL_HIGH_LEVEL
<1>7. irq' <=> Top.lo < TPL_HIGH_LEVEL
    BY <1>1, <1>6, Zenon
<1> QED BY <1>1, <1>4, <1>5, <1>7 DEF FlagLevels

\* CoreDispatchEventNotifies, and the return of the function it calls
LEMMA DispatchLevels ==
    ASSUME IInv, Levelled,
           DispatchTake \/ DispatchCall \/ DispatchDone \/ NotifyReturn
    PROVE  StackLevels' /\ FlagLevels'
<1>1. Top.pc # "members" /\ ~Restoring(Top)
    BY DEF DispatchTake, DispatchCall, DispatchDone, NotifyReturn, At, Restoring
<1>2. /\ IsStack(stack) /\ tpl \in Int /\ tpl <= TPL_HIGH_LEVEL
      /\ Nested(stack, tpl) /\ FrameAt(Top, tpl)
    BY <1>1, RunningLevel DEF Levelled, FlagLevels
<1>3. GoodStack(stack) /\ Top \in FrameType /\ GoodFrame(Top)
    BY TopType DEF IInv
<1>4. CASE DispatchTake
    <2> DEFINE e == Head(queue[Top.lo])
               f == [Top EXCEPT !.pc = "call", !.ev = e]
    <2>1. /\ Top.pc = "take" /\ Top.lo \in Levels /\ queue[Top.lo] # << >>
          /\ AcquireLock /\ ReleaseLock(f)
        BY <1>3, <1>4 DEF DispatchTake, At, GoodFrame
    <2>2. e \in AtLevel(Top.lo)
        <3>1. queue[Top.lo] \in Seq(AtLevel(Top.lo))
            BY <2>1 DEF Levelled, QueueLevels
        <3> QED BY <2>1, <3>1, HeadTailProperties
    <2>3. e \in Callers /\ NotifyTpl[e] = Top.lo
        BY <2>2, EventAssumption DEF AtLevel, Callers
    <2>4. f \in FrameType /\ f.pc = "call" /\ f.lo = Top.lo /\ f.ev = e
        BY <1>3, <2>3 DEF FrameType, Pcs
    <2>5. FrameAt(f, tpl) /\ MayReplace(Top, tpl, f, tpl)
        BY <1>2, <2>1, <2>3, <2>4 DEF FrameAt, Restoring, MayReplace, Above
    <2> QED BY <1>2, <2>1, <2>4, <2>5, ReleaseLockLevels
<1>5. CASE DispatchCall
    <2> DEFINE f == Dispatch(Top.lo)
               g == Code(Top.ev, tpl)
    <2>1. /\ Top.pc = "call" /\ UNCHANGED <<tpl, irq>> /\ GotoAndCall(f, g)
          /\ Top.lo = tpl /\ NotifyTpl[Top.ev] = tpl
        BY <1>2, <1>5 DEF DispatchCall, At, FrameAt
    <2>2. /\ f \in FrameType /\ FrameAt(f, tpl) /\ MayReplace(Top, tpl, f, tpl)
        BY <1>2, <2>1
        DEF Dispatch, Frame, FrameType, FrameAt, Restoring, MayReplace, Above, Pcs
    <2>3. /\ g \in FrameType /\ FrameAt(g, tpl) /\ Above(f, tpl, g, tpl)
          /\ TopAt(g, tpl, tpl')
        BY <1>2, <1>3, <2>1
        DEF Code, Dispatch, Frame, FrameType, FrameAt, Restoring, Above, TopAt, Pcs
    <2>4. StackLevels'
        BY <1>2, <2>1, <2>2, <2>3, GotoAndCallLevels
    <2> QED BY <2>1, <2>4, UnchangedFlag DEF Levelled
<1>6. CASE DispatchDone
    BY <1>2, <1>6, ReleaseAndReturnLevels DEF DispatchDone, At
<1>7. CASE NotifyReturn
    <2>1. /\ Top.pc = "run" /\ ~IsBottom(Top) /\ Top.lo = tpl /\ Return
          /\ UNCHANGED <<tpl, irq>>
        BY <1>2, <1>7 DEF NotifyReturn, At, IsBottom, FrameAt
    <2> QED BY <1>2, <1>3, <2>1, ReturnLevels, UnchangedFlag DEF Levelled
<1> QED BY <1>4, <1>5, <1>6, <1>7

\* CoreSignalEvent, called by a frame that continues as f.
LEMMA SignalLevels ==
    ASSUME IInv, Levelled, NEW e \in Events \cup {None},
           Top.pc \in {"run", "waited"}, NEW f \in FrameType,
           f.pc \in {"run", "wait"}, FrameAt(f, tpl), MayReplace(Top, tpl, f, tpl),
           SignalEvent(e, f)
    PROVE  StackLevels' /\ FlagLevels'
<1>1. Top.pc # "members" /\ ~Restoring(Top)
    BY DEF Restoring
<1>2. /\ IsStack(stack) /\ tpl \in Int /\ tpl <= TPL_HIGH_LEVEL
      /\ Nested(stack, tpl) /\ FrameAt(Top, tpl)
    BY <1>1, RunningLevel DEF Levelled, FlagLevels
<1>3. UNCHANGED <<tpl, irq>>
    BY DEF SignalEvent
<1>4. CASE e \in live
    <2> DEFINE g == Frame("signal", e, 0, 0)
    <2>1. GotoAndCall(f, g)
        BY <1>4 DEF SignalEvent
    <2>2. g \in FrameType /\ Plain(g)
        BY DEF Frame, FrameType, Pcs, Callers, Plain
    <2> HIDE DEF g
    <2>3. FrameAt(g, tpl) /\ TopAt(g, tpl, tpl') /\ Above(f, tpl, g, tpl)
        BY <1>2, <1>3, <2>2, PlainFrame
    <2>4. StackLevels'
        BY <1>2, <2>1, <2>2, <2>3, GotoAndCallLevels
    <2> QED BY <1>3, <2>4, UnchangedFlag DEF Levelled
<1>5. CASE e \notin live
    <2>1. Goto(f)
        BY <1>5 DEF SignalEvent
    <2>2. TopAt(f, tpl, tpl')
        BY <1>3 DEF TopAt, Restoring
    <2> QED BY <1>2, <1>3, <2>1, <2>2, GotoLevels, UnchangedFlag DEF Levelled
<1> QED BY <1>4, <1>5

\* CoreSignalEvent with the lock.
LEMMA SignalLockLevels ==
    ASSUME IInv, Levelled, SignalAgain \/ SignalFirst
    PROVE  StackLevels' /\ FlagLevels'
<1>1. Top.pc = "signal" /\ Plain(Top) /\ AcquireLock
    BY DEF SignalAgain, SignalFirst, At, Plain
<1>2. /\ IsStack(stack) /\ tpl \in Int /\ tpl <= TPL_HIGH_LEVEL
      /\ Nested(stack, tpl) /\ Top \in FrameType
    BY <1>1, RunningLevel, TopType DEF IInv, Levelled, FlagLevels, Plain, Restoring
<1>3. CASE ReleaseAndReturn
    BY <1>1, <1>2, <1>3, ReleaseAndReturnLevels
<1>4. CASE ReleaseLock(Frame("group", Top.ev, 0, 0))
    <2> DEFINE f == Frame("group", Top.ev, 0, 0)
    <2>1. f \in FrameType /\ Plain(f)
        BY <1>2 DEF Frame, FrameType, Pcs, Plain
    <2>2. ReleaseLock(f)
        BY <1>4
    <2> HIDE DEF f
    <2>3. FrameAt(f, tpl) /\ f.pc # "members" /\ MayReplace(Top, tpl, f, tpl)
        BY <1>1, <1>2, <2>1, PlainFrame
    <2> QED BY <1>1, <1>2, <2>1, <2>2, <2>3, ReleaseLockLevels
<1> QED BY <1>3, <1>4 DEF SignalAgain, SignalFirst

LEMMA CodeSignalsLevels ==
    ASSUME IInv, Levelled, NEW e \in Events, CodeSignals(e)
    PROVE  StackLevels' /\ FlagLevels'
<1>1. Top.pc = "run" /\ Top \in FrameType /\ SignalEvent(e, Top)
    BY TopType DEF CodeSignals, At, IInv
<1>2. FrameAt(Top, tpl) /\ MayReplace(Top, tpl, Top, tpl)
    BY <1>1, RunningLevel DEF Restoring, Levelled, MayReplace
<1> QED BY <1>1, <1>2, SignalLevels

\* CoreNotifySignalList
LEMMA GroupLevels ==
    ASSUME IInv, Levelled, GroupLock \/ GroupMember \/ GroupUnlock \/ SignalRelock
    PROVE  StackLevels' /\ FlagLevels'
<1>1. /\ IsStack(stack) /\ Top \in FrameType /\ tpl \in Int
      /\ tpl <= TPL_HIGH_LEVEL
    BY GoodIsStack, TopType DEF IInv, Types, Levelled, FlagLevels
<1>2. CASE GroupLock
    <2> DEFINE f == Frame("members", Top.ev, 1, tpl)
    <2>1. Top.pc = "group" /\ Plain(Top) /\ AcquireLock /\ Goto(f)
        BY <1>2 DEF GroupLock, At, Plain
    <2>2. Nested(stack, tpl)
        BY <2>1, RunningLevel DEF Plain, Restoring, Levelled
    <2>3. f \in FrameType /\ f.pc = "members" /\ f.hi = tpl
        BY <1>1 DEF Frame, FrameType, Pcs
    <2>4. FrameAt(f, tpl) /\ MayReplace(Top, tpl, f, tpl)
        BY <1>1, <2>1, <2>3
        DEF FrameAt, Restoring, MayReplace, Above, Plain
    <2>5. TopAt(f, tpl, tpl')
        BY <2>1, <2>3, AcquireLockLevels DEF TopAt, Restoring
    <2> QED BY <1>1, <2>1, <2>2, <2>3, <2>4, <2>5, GotoLevels, AcquireLockLevels
<1>3. CASE GroupMember
    <2> DEFINE f == [Top EXCEPT !.lo = @ + 1]
    <2>1. Top.pc = "members" /\ Goto(f) /\ UNCHANGED <<tpl, irq>>
        BY <1>3 DEF GroupMember, At
    <2>2. PICK l \in Int : Nested(stack, l) /\ TopAt(Top, l, tpl)
        BY DEF Levelled, StackLevels
    <2>3. FrameAt(Top, l) /\ l <= TPL_HIGH_LEVEL
        BY <1>1, <2>2, NestTop DEF Top
    <2>4. f \in FrameType /\ f.pc = Top.pc /\ f.hi = Top.hi
        BY <1>1 DEF FrameType
    <2>5. FrameAt(f, l) /\ MayReplace(Top, l, f, l) /\ TopAt(f, l, tpl')
        BY <2>1, <2>2, <2>3, <2>4
        DEF FrameAt, Restoring, MayReplace, Above, TopAt
    <2> QED BY <1>1, <2>1, <2>2, <2>3, <2>4, <2>5, GotoLevels, UnchangedFlag
            DEF Levelled
<1>4. CASE GroupUnlock
    <2> DEFINE f == Frame("relock", Top.ev, 0, 0)
    <2>1. /\ Top.pc = "members" /\ GotoAndCall(f, RestoreTpl(Top.hi))
          /\ UNCHANGED <<tpl, irq>>
        BY <1>4 DEF GroupUnlock, At
    <2>2. PICK l \in Int : Nested(stack, l) /\ TopAt(Top, l, tpl)
        BY DEF Levelled, StackLevels
    <2>3. l = Top.hi /\ l <= TPL_HIGH_LEVEL /\ tpl = TPL_HIGH_LEVEL
        BY <1>1, <2>1, <2>2, NestTop DEF Top, FrameAt, TopAt
    <2>4. f \in FrameType /\ Plain(f)
        BY <1>1 DEF Frame, FrameType, Pcs, Plain
    <2>5. FrameAt(f, l) /\ f.pc # "members" /\ MayReplace(Top, l, f, l)
        <3>1. FrameAt(f, l) /\ f.pc # "members"
            BY <2>4, PlainFrame
        <3> QED BY <2>1, <2>4, <3>1 DEF MayReplace, Above, Restoring, Plain
    <2>6. TopAt(RestoreTpl(l), l, tpl') /\ Above(f, l, RestoreTpl(l), l)
        BY <1>1, <2>1, <2>3, <2>5, RestoreFrame
    <2> HIDE DEF f
    <2>7. StackLevels'
        BY <1>1, <2>1, <2>2, <2>3, <2>4, <2>5, <2>6, RestoreFrame, GotoAndCallLevels
    <2> QED BY <2>1, <2>7, UnchangedFlag DEF Levelled
<1>5. CASE SignalRelock
    <2>1. Top.pc = "relock"
        BY <1>5 DEF SignalRelock, At
    <2> QED BY <1>1, <1>5, <2>1, RunningLevel, ReleaseAndReturnLevels
            DEF SignalRelock, Restoring, Levelled
<1> QED BY <1>2, <1>3, <1>4, <1>5

\* CoreCheckEvent
LEMMA CheckLevels ==
    ASSUME IInv, Levelled, \/ \E e \in Events : CodeChecks(e)
                           \/ CheckPeek \/ CheckEnqueue \/ CheckLook
    PROVE  StackLevels' /\ FlagLevels'
<1>1. Top.pc # "members" /\ ~Restoring(Top)
    BY DEF CodeChecks, CheckPeek, CheckEnqueue, CheckLook, At, Restoring
<1>2. /\ IsStack(stack) /\ tpl \in Int /\ tpl <= TPL_HIGH_LEVEL
      /\ Nested(stack, tpl) /\ FrameAt(Top, tpl)
    BY <1>1, RunningLevel DEF Levelled, FlagLevels
<1>3. GoodStack(stack) /\ Top \in FrameType
    BY TopType DEF IInv
<1>4. ASSUME NEW e \in Events, CodeChecks(e) PROVE StackLevels' /\ FlagLevels'
    <2> DEFINE g == Frame("peek", e, 0, 0)
    <2>1. Call(g) /\ UNCHANGED <<tpl, irq>>
        BY <1>4 DEF CodeChecks
    <2>2. g \in FrameType /\ Plain(g)
        BY DEF Frame, FrameType, Pcs, Callers, Plain
    <2> HIDE DEF g
    <2>3. FrameAt(g, tpl) /\ TopAt(g, tpl, tpl') /\ Above(Top, tpl, g, tpl)
        BY <1>1, <1>2, <2>1, <2>2, PlainFrame
    <2> QED BY <1>2, <2>1, <2>2, <2>3, CallLevels, UnchangedFlag DEF Levelled
<1>5. ASSUME NEW pc \in {"enqueue", "look", "clear"}, Plain(Top)
      PROVE  LET f == [Top EXCEPT !.pc = pc]
             IN  /\ f \in FrameType /\ FrameAt(f, tpl) /\ TopAt(f, tpl, tpl)
                 /\ f.pc # "members" /\ MayReplace(Top, tpl, f, tpl)
    <2> DEFINE f == [Top EXCEPT !.pc = pc]
    <2>1. f \in FrameType /\ Plain(f)
        BY <1>3 DEF FrameType, Pcs, Plain
    <2> HIDE DEF f
    <2>2. FrameAt(f, tpl) /\ TopAt(f, tpl, tpl) /\ f.pc # "members"
        BY <1>2, <2>1, PlainFrame
    <2>3. MayReplace(Top, tpl, f, tpl)
        BY <1>2, <1>5, <2>1, PlainFrame
    <2>4. /\ f \in FrameType /\ FrameAt(f, tpl) /\ TopAt(f, tpl, tpl)
          /\ f.pc # "members" /\ MayReplace(Top, tpl, f, tpl)
        BY <2>1, <2>2, <2>3
    <2> QED BY <2>4 DEF f
<1>6. CASE CheckPeek
    <2>1. Plain(Top) /\ UNCHANGED <<tpl, irq>>
        BY <1>6 DEF CheckPeek, At, Plain
    <2>2. PICK pc \in {"enqueue", "look", "clear"} : Goto([Top EXCEPT !.pc = pc])
        BY <1>6 DEF CheckPeek
    <2> QED BY <1>2, <1>5, <2>1, <2>2, GotoLevels, UnchangedFlag DEF Levelled
<1>7. CASE CheckEnqueue
    <2>1. Plain(Top) /\ AcquireLock /\ ReleaseLock([Top EXCEPT !.pc = "look"])
        BY <1>7 DEF CheckEnqueue, At, Plain
    <2> QED BY <1>2, <1>5, <2>1, ReleaseLockLevels
<1>8. CASE CheckLook
    <2>1. Top.pc = "look" /\ Plain(Top) /\ ~IsBottom(Top) /\ UNCHANGED <<tpl, irq>>
        BY <1>8 DEF CheckLook, At, Plain, IsBottom
    <2>2. CASE Goto([Top EXCEPT !.pc = "clear"])
        BY <1>2, <1>5, <2>1, <2>2, GotoLevels, UnchangedFlag DEF Levelled
    <2>3. CASE Return
        BY <1>2, <1>3, <2>1, <2>3, ReturnLevels, UnchangedFlag DEF Levelled
    <2> QED BY <1>8, <2>2, <2>3 DEF CheckLook
<1> QED BY <1>4, <1>6, <1>7, <1>8

\* CoreCheckEvent changes the frame of the CoreWaitForEvent that called it.
LEMMA NestWaited ==
    ASSUME NEW s, IsStack(s), Len(s) > 1, NEW l \in Int, Nested(s, l),
           NEW f \in FrameType, f.pc = s[Len(s) - 1].pc,
           f = s[Len(s) - 1] \/ f.pc = "waited"
    PROVE  LET t == [s EXCEPT ![Len(s) - 1] = f]
           IN  /\ IsStack(t) /\ Nested(t, l)
               /\ Len(t) = Len(s) /\ Last(t) = Last(s)
<1> DEFINE n == Len(s)
           t == [s EXCEPT ![n - 1] = f]
<1>1. n \in Nat /\ n - 1 \in 1 .. n /\ n # n - 1
    BY StackLast
<1>2. /\ t \in Seq(FrameType) /\ Len(t) = n
      /\ \A j \in 1 .. n : t[j] = IF j = n - 1 THEN f ELSE s[j]
    BY <1>1, ExceptSeq DEF IsStack
<1>3. IsStack(t)
    BY <1>1, <1>2, EmptySeq DEF IsStack
<1>4. Last(t) = Last(s)
    <2>1. Last(t) = t[n] /\ Last(s) = s[n]
        BY <1>2, StackLast DEF Last
    <2>2. n \in 1 .. n /\ n # n - 1
        BY <1>1
    <2>3. t[n] = s[n]
        BY <1>2, <2>2
    <2> QED BY <2>1, <2>3
<1>5. PICK L \in [1 .. n -> Int] : Chain(s, L) /\ L[n] = l
    BY DEF Nested
<1>6. \A j \in 1 .. n : t[j] = s[j] \/ (t[j].pc = "waited" /\ s[j].pc = "waited")
    BY <1>2
<1>7. \A i \in 1 .. n : L[i] <= TPL_HIGH_LEVEL /\ FrameAt(t[i], L[i])
    BY <1>5, <1>6 DEF Chain, FrameAt, Restoring
<1>8. \A i \in 1 .. n - 1 : Above(t[i], L[i], t[i + 1], L[i + 1])
    <2> SUFFICES ASSUME NEW i \in 1 .. n - 1
                 PROVE  Above(t[i], L[i], t[i + 1], L[i + 1])
        OBVIOUS
    <2>1. i \in 1 .. n /\ i + 1 \in 1 .. n
        BY <1>1
    <2>2. Above(s[i], L[i], s[i + 1], L[i + 1])
        BY <1>5 DEF Chain
    <2> QED BY <1>6, <2>1, <2>2 DEF Above, Restoring
<1>9. Chain(t, L)
    BY <1>2, <1>5, <1>7, <1>8 DEF Chain
<1>10. Nested(t, l)
    BY <1>2, <1>5, <1>9 DEF Nested
<1> QED BY <1>2, <1>3, <1>4, <1>10

LEMMA CheckClearLevels ==
    ASSUME IInv, Levelled, CheckClear
    PROVE  StackLevels' /\ FlagLevels'
<1> DEFINE n == Len(stack)
           hi == IF signal[Top.ev] # 0 /\ stack[n - 1].pc = "waited"
                 THEN 1 ELSE stack[n - 1].hi
           below == [stack[n - 1] EXCEPT !.hi = hi]
           told == [stack EXCEPT ![n - 1] = below]
<1>1. Top.pc = "clear" /\ ~IsBottom(Top) /\ AcquireLock
    BY DEF CheckClear, At, IsBottom
<1>2. /\ IsStack(stack) /\ tpl \in Int /\ tpl <= TPL_HIGH_LEVEL
      /\ Nested(stack, tpl)
    BY <1>1, RunningLevel DEF Restoring, Levelled, FlagLevels
<1>3. n \in Nat /\ n > 1 /\ stack \in Seq(FrameType)
    BY <1>1, <1>2, StackTop DEF IInv, GoodStack, IsStack, Top, Last
<1>4. stack[n - 1] \in FrameType
    BY <1>3, ElementOfSeq
<1>5. /\ below \in FrameType /\ below.pc = stack[n - 1].pc
      /\ below = stack[n - 1] \/ below.pc = "waited"
    BY <1>4 DEF FrameType
<1>6. stack' = [told EXCEPT ![n] = RestoreTpl(tpl)]
    BY DEF CheckClear
<1> HIDE DEF below
<1>7. IsStack(told) /\ Nested(told, tpl) /\ Len(told) = n /\ Last(told) = Top
    BY <1>2, <1>3, <1>5, NestWaited DEF Top
<1> HIDE DEF told
<1>8. MayReplace(Top, tpl, RestoreTpl(tpl), tpl)
    <2> SUFFICES ASSUME NEW x, NEW k \in Int, Above(x, k, Top, tpl)
                 PROVE  Above(x, k, RestoreTpl(tpl), tpl)
        BY DEF MayReplace
    <2>1. x.pc # "members" /\ k <= tpl /\ (Restoring(x) \/ k = tpl)
        BY <1>1 DEF Above
    <2> QED BY <1>2, <2>1, RestoreFrame
<1>9. Nested(stack', tpl) /\ Top' = RestoreTpl(tpl)
    BY <1>2, <1>6, <1>7, <1>8, RestoreFrame, NestReplace DEF Top
<1>10. TopAt(Top', tpl, tpl')
    BY <1>1, <1>2, <1>9, AcquireLockLevels, RestoreFrame DEF TPL_HIGH_LEVEL
<1>11. StackLevels'
    BY <1>2, <1>9, <1>10 DEF StackLevels
<1> QED BY <1>1, <1>11, AcquireLockLevels

\* CoreWaitForEvent
LEMMA WaitLevels ==
    ASSUME IInv, Levelled,
           WaitForEvent \/ WaitCheck \/ WaitReturn \/ WaitNext \/ WaitIdle
    PROVE  StackLevels' /\ FlagLevels'
<1>1. Top.pc # "members" /\ ~Restoring(Top)
    BY DEF WaitForEvent, WaitCheck, WaitReturn, WaitNext, WaitIdle, Running, At,
           Restoring
<1>2. /\ IsStack(stack) /\ tpl \in Int /\ tpl <= TPL_HIGH_LEVEL
      /\ Nested(stack, tpl)
    BY <1>1, RunningLevel DEF Levelled, FlagLevels
<1>3. GoodStack(stack) /\ Top \in FrameType /\ GoodFrame(Top)
    BY TopType DEF IInv
<1>4. ASSUME NEW pc \in {"wait", "waited"}, NEW i \in Int, NEW h \in {0, 1}
      PROVE  LET f == Frame(pc, None, i, h)
             IN  f \in FrameType /\ Plain(f) /\ f.pc = pc
    BY DEF Frame, FrameType, Pcs, Plain
<1>5. CASE WaitForEvent
    <2> DEFINE g == Frame("wait", None, 1, 0)
    <2>1. Call(g) /\ UNCHANGED <<tpl, irq>>
        BY <1>5 DEF WaitForEvent
    <2>2. g \in FrameType /\ Plain(g)
        BY <1>4
    <2> HIDE DEF g
    <2>3. FrameAt(g, tpl) /\ TopAt(g, tpl, tpl') /\ Above(Top, tpl, g, tpl)
        BY <1>1, <1>2, <2>1, <2>2, PlainFrame
    <2> QED BY <1>2, <2>1, <2>2, <2>3, CallLevels, UnchangedFlag DEF Levelled
<1>6. CASE WaitCheck
    <2>1. Plain(Top) /\ Top.lo \in Int /\ UNCHANGED <<tpl, irq>>
        BY <1>3, <1>6 DEF WaitCheck, At, Plain, FrameType
    <2>2. CASE Checkable(WaitList[Top.lo])
        <3> DEFINE f == Frame("waited", None, Top.lo, 0)
                   g == Frame("peek", WaitList[Top.lo], 0, 0)
        <3>1. GotoAndCall(f, g)
            BY <1>6, <2>2 DEF WaitCheck
        <3>2. Top.lo \in 1 .. Len(WaitList)
            BY <1>3, <1>6 DEF WaitCheck, At, GoodFrame
        <3>3. WaitList[Top.lo] \in Events
            BY <3>2, EventAssumption, ElementOfSeq
        <3>4. f \in FrameType /\ Plain(f) /\ g \in FrameType /\ Plain(g)
            BY <1>4, <2>1, <3>3 DEF Frame, FrameType, Pcs, Callers, Plain
        <3> HIDE DEF f, g
        <3>5. FrameAt(f, tpl) /\ f.pc # "members" /\ MayReplace(Top, tpl, f, tpl)
            BY <1>2, <2>1, <3>4, PlainFrame
        <3>6. FrameAt(g, tpl) /\ TopAt(g, tpl, tpl') /\ Above(f, tpl, g, tpl)
            BY <1>2, <2>1, <3>4, <3>5, PlainFrame
        <3>7. StackLevels'
            BY <1>2, <3>1, <3>4, <3>5, <3>6, GotoAndCallLevels
        <3> QED BY <2>1, <3>7, UnchangedFlag DEF Levelled
    <2>3. CASE ~Checkable(WaitList[Top.lo])
        <3> DEFINE f == Frame("waited", None, Top.lo, 1)
        <3>1. Goto(f) /\ f \in FrameType /\ Plain(f)
            BY <1>4, <1>6, <2>1, <2>3 DEF WaitCheck
        <3> HIDE DEF f
        <3>2. FrameAt(f, tpl) /\ TopAt(f, tpl, tpl') /\ MayReplace(Top, tpl, f, tpl)
            BY <1>2, <2>1, <3>1, PlainFrame
        <3> QED BY <1>2, <2>1, <3>1, <3>2, GotoLevels, UnchangedFlag DEF Levelled
    <2> QED BY <2>2, <2>3
<1>7. CASE WaitReturn
    <2>1. ~IsBottom(Top) /\ Top.pc = "waited" /\ Return /\ UNCHANGED <<tpl, irq>>
        BY <1>7 DEF WaitReturn, At, IsBottom
    <2> QED BY <1>2, <1>3, <2>1, ReturnLevels, UnchangedFlag DEF Levelled
<1>8. CASE WaitNext
    <2> DEFINE f == Frame("wait", None, Top.lo + 1, 0)
    <2>1. /\ Plain(Top) /\ Top.lo + 1 \in Int /\ Goto(f)
          /\ UNCHANGED <<tpl, irq>>
        BY <1>3, <1>8 DEF WaitNext, At, Plain, FrameType
    <2>2. f \in FrameType /\ Plain(f)
        BY <1>4, <2>1
    <2> HIDE DEF f
    <2>3. FrameAt(f, tpl) /\ TopAt(f, tpl, tpl') /\ MayReplace(Top, tpl, f, tpl)
        BY <1>2, <2>1, <2>2, PlainFrame
    <2> QED BY <1>2, <2>1, <2>2, <2>3, GotoLevels, UnchangedFlag DEF Levelled
<1>9. CASE WaitIdle
    <2> DEFINE f == Frame("wait", None, 1, 0)
    <2>1. /\ Top.pc = "waited" /\ Plain(Top) /\ SignalEvent(IdleEvent, f)
          /\ IdleEvent \in Events \cup {None}
        BY <1>9, EventAssumption DEF WaitIdle, At, Plain
    <2>2. f \in FrameType /\ Plain(f) /\ f.pc = "wait"
        BY <1>4
    <2> HIDE DEF f
    <2>3. FrameAt(f, tpl) /\ MayReplace(Top, tpl, f, tpl)
        BY <1>2, <2>1, <2>2, PlainFrame
    <2> QED BY <2>1, <2>2, <2>3, SignalLevels
<1> QED BY <1>5, <1>6, <1>7, <1>8, <1>9

\* CoreCreateEventInternal and CoreCloseEvent
LEMMA EventLevels ==
    ASSUME IInv, Levelled, \/ \E e \in Events : CreateEvent(e) \/ CloseEvent(e)
                           \/ CloseUnlink \/ CloseFree
    PROVE  StackLevels' /\ FlagLevels'
<1>1. Top.pc # "members" /\ ~Restoring(Top)
    BY DEF CreateEvent, CloseEvent, CloseUnlink, CloseFree, At, Restoring
<1>2. /\ IsStack(stack) /\ tpl \in Int /\ tpl <= TPL_HIGH_LEVEL
      /\ Nested(stack, tpl) /\ FrameAt(Top, tpl)
    BY <1>1, RunningLevel DEF Levelled, FlagLevels
<1>3. GoodStack(stack) /\ Top \in FrameType
    BY TopType DEF IInv
<1>4. ASSUME NEW e \in Events, CreateEvent(e) PROVE StackLevels' /\ FlagLevels'
    <2>1. AcquireLock /\ ReleaseLock(Top) /\ MayReplace(Top, tpl, Top, tpl)
        BY <1>4 DEF CreateEvent, MayReplace
    <2> QED BY <1>1, <1>2, <1>3, <2>1, ReleaseLockLevels
<1>5. ASSUME NEW e \in Events, CloseEvent(e) PROVE StackLevels' /\ FlagLevels'
    <2> DEFINE g == Frame("close", e, 0, 0)
    <2>1. /\ Call(g) /\ UNCHANGED <<tpl, irq>>
          /\ Top.pc = "run" /\ e \in Closes[Top.ev]
        BY <1>5 DEF CloseEvent, At
    <2>2. g \in FrameType /\ g.pc = "close" /\ g.ev = e
        BY DEF Frame, FrameType, Pcs, Callers
    <2> HIDE DEF g
    <2>3. FrameAt(g, tpl) /\ TopAt(g, tpl, tpl') /\ Above(Top, tpl, g, tpl)
        BY <1>2, <2>1, <2>2 DEF FrameAt, TopAt, Above, Restoring
    <2> QED BY <1>2, <2>1, <2>2, <2>3, CallLevels, UnchangedFlag DEF Levelled
<1>7. CASE CloseUnlink
    <2> DEFINE f == [Top EXCEPT !.pc = "free"]
    <2>1. Top.pc = "close" /\ AcquireLock /\ ReleaseLock(f)
        BY <1>7 DEF CloseUnlink, At
    <2>2. f \in FrameType /\ Plain(f)
        BY <1>3 DEF FrameType, Pcs, Plain
    <2> HIDE DEF f
    <2>3. FrameAt(f, tpl) /\ f.pc # "members" /\ MayReplace(Top, tpl, f, tpl)
        BY <1>2, <2>1, <2>2, PlainFrame
    <2> QED BY <1>2, <2>1, <2>2, <2>3, ReleaseLockLevels
<1>6. CASE CloseFree
    <2>1. ~IsBottom(Top) /\ Top.pc = "free" /\ Return /\ UNCHANGED <<tpl, irq>>
        BY <1>6 DEF CloseFree, At, IsBottom
    <2> QED BY <1>2, <1>3, <2>1, ReturnLevels, UnchangedFlag DEF Levelled
<1> QED BY <1>4, <1>5, <1>6, <1>7

\* TimerInterruptHandler, which comes between any two steps of the others
\* while interrupts are enabled.
LEMMA InterruptLevels ==
    ASSUME IInv, Levelled, Tick \/ InterruptReturn
    PROVE  StackLevels' /\ FlagLevels'
<1>1. /\ GoodStack(stack) /\ IsStack(stack) /\ tpl \in Int
      /\ tpl <= TPL_HIGH_LEVEL
    BY GoodIsStack DEF IInv, Types, Levelled, FlagLevels
<1>2. CASE Tick
    <2> DEFINE g == Frame("iret", None, tpl, 0)
    <2>1. /\ irq /\ tpl' = TPL_HIGH_LEVEL /\ ~irq'
          /\ stack' = Append(Append(stack, g), RestoreTpl(tpl))
        BY <1>2 DEF Tick, Interrupt
    <2>2. PICK l \in Int : Nested(stack, l) /\ TopAt(Top, l, tpl)
        BY DEF Levelled, StackLevels
    <2>3. tpl < TPL_HIGH_LEVEL
        BY <2>1 DEF Levelled, FlagLevels
    <2>4. g \in FrameType /\ FrameAt(g, tpl) /\ g.pc = "iret"
        BY <1>1, <2>3 DEF Frame, FrameType, Pcs, FrameAt, Restoring
    <2>5. Above(Last(stack), l, g, tpl)
        BY <1>1, <2>2, <2>3, <2>4 DEF Above, TopAt, Restoring, Top
    <2> HIDE DEF g
    <2>6. StackLevels'
        BY <1>1, <2>1, <2>2, <2>4, <2>5, CallAndRestoreLevels
    <2>7. FlagLevels'
        BY <2>1 DEF FlagLevels, TPL_HIGH_LEVEL
    <2> QED BY <2>6, <2>7
<1>3. CASE InterruptReturn
    <2>1. /\ Top.pc = "iret" /\ ~IsBottom(Top) /\ ~Restoring(Top)
          /\ irq' /\ tpl' = tpl /\ Return
        BY <1>3 DEF InterruptReturn, At, IsBottom, Restoring
    <2>2. Nested(stack, tpl) /\ FrameAt(Top, tpl)
        BY <2>1, RunningLevel DEF Levelled
    <2>3. StackLevels'
        BY <1>1, <2>1, <2>2, ReturnLevels
    <2>4. tpl < TPL_HIGH_LEVEL
        BY <2>1, <2>2 DEF FrameAt
    <2>5. FlagLevels'
        BY <1>1, <2>1, <2>4 DEF FlagLevels
    <2> QED BY <2>3, <2>5
<1> QED BY <1>2, <1>3

-----------------------------------------------------------------------------
(***************************************************************************)
(* The steps keep every queue to the events of its level.                  *)
(***************************************************************************)
LEMMA UnchangedQueues ==
    ASSUME QueueLevels, UNCHANGED queue
    PROVE  QueueLevels'
BY DEF QueueLevels

LEMMA NotifyQueues ==
    ASSUME Types, QueueLevels, NEW e \in SignalType \cup WaitType, NotifyEvent(e)
    PROVE  QueueLevels'
<1> DEFINE q == NotifyTpl[e]
<1>1. q \in Levels /\ e \in AtLevel(q)
    BY NotifyLevel DEF AtLevel
<1>2. queue[q] \in Seq(AtLevel(q))
    BY <1>1 DEF QueueLevels
<1>3. Append(Unlink(queue[q], e), e) \in Seq(AtLevel(q))
    BY <1>1, <1>2, UnlinkType, AppendProperties
<1>4. queue' = [queue EXCEPT ![q] = Append(Unlink(queue[q], e), e)]
    BY <1>1 DEF NotifyEvent, Types
<1> QED BY <1>1, <1>3, <1>4 DEF QueueLevels, Types

LEMMA TakeQueues ==
    ASSUME IInv, QueueLevels, DispatchTake
    PROVE  QueueLevels'
<1> DEFINE p == Top.lo
<1>1. p \in Levels /\ queue[p] # << >> /\ queue' = [queue EXCEPT ![p] = Tail(@)]
    BY TopType DEF DispatchTake, At, GoodFrame, IInv
<1>2. Tail(queue[p]) \in Seq(AtLevel(p))
    BY <1>1, HeadTailProperties DEF QueueLevels
<1> QED BY <1>1, <1>2 DEF QueueLevels, IInv, Types

LEMMA CloseQueues ==
    ASSUME Types, QueueLevels, CloseUnlink
    PROVE  QueueLevels'
<1>1. CASE Top.ev \in SignalType \cup WaitType
    <2> DEFINE q == NotifyTpl[Top.ev]
    <2>1. q \in Levels
        BY <1>1, NotifyLevel
    <2>2. Unlink(queue[q], Top.ev) \in Seq(AtLevel(q))
        BY <2>1, UnlinkType DEF QueueLevels
    <2>3. queue' = [queue EXCEPT ![q] = Unlink(queue[q], Top.ev)]
        BY <1>1 DEF CloseUnlink
    <2> QED BY <2>1, <2>2, <2>3 DEF QueueLevels, Types
<1>2. CASE Top.ev \notin SignalType \cup WaitType
    BY <1>2, UnchangedQueues DEF CloseUnlink
<1> QED BY <1>1, <1>2

LEMMA SignalQueues ==
    ASSUME Types, QueueLevels, SignalAgain \/ SignalFirst
    PROVE  QueueLevels'
<1>1. CASE SignalAgain
    BY <1>1, UnchangedQueues DEF SignalAgain
<1>2. CASE SignalFirst
    BY <1>2, NotifyQueues, UnchangedQueues DEF SignalFirst
<1> QED BY <1>1, <1>2

LEMMA CoreQueues ==
    ASSUME IInv, QueueLevels, CoreStep
    PROVE  QueueLevels'
<1> USE DEF IInv
<1>1. CASE RestoreCheck \/ RestorePick \/ RestoreLower \/ DispatchCall \/ DispatchDone
    BY <1>1, UnchangedQueues
    DEF RestoreCheck, RestorePick, RestoreLower, DispatchCall, DispatchDone
<1>2. CASE DispatchTake
    BY <1>2, TakeQueues
<1>3. CASE GroupLock \/ GroupUnlock \/ SignalRelock
    BY <1>3, UnchangedQueues DEF GroupLock, GroupUnlock, SignalRelock
<1>4. CASE GroupMember
    <2>1. siglist[Top.lo] \in SignalType
        BY <1>4 DEF GroupMember, Types
    <2> QED BY <1>4, <2>1, NotifyQueues, UnchangedQueues DEF GroupMember
<1>5. CASE CheckPeek \/ CheckLook \/ CheckClear
    BY <1>5, UnchangedQueues DEF CheckPeek, CheckLook, CheckClear
<1>6. CASE CheckEnqueue
    <2>1. Top.ev \in WaitType
        BY <1>6, TopType DEF CheckEnqueue, At, GoodFrame
    <2> QED BY <1>6, <2>1, NotifyQueues, UnchangedQueues DEF CheckEnqueue
<1>7. CASE WaitCheck \/ WaitReturn \/ WaitNext
    BY <1>7, UnchangedQueues DEF WaitCheck, WaitReturn, WaitNext
<1>8. CASE WaitIdle \/ SignalAgain \/ SignalFirst
    BY <1>8, SignalQueues, UnchangedQueues DEF WaitIdle, SignalEvent
<1>9. CASE CloseUnlink \/ CloseFree \/ InterruptReturn
    BY <1>9, CloseQueues, UnchangedQueues DEF CloseFree, InterruptReturn
<1> QED BY <1>1, <1>2, <1>3, <1>4, <1>5, <1>6, <1>7, <1>8, <1>9 DEF CoreStep

LEMMA CodeQueues ==
    ASSUME IInv, QueueLevels, CodeStep
    PROVE  QueueLevels'
<1> USE DEF IInv
<1>1. CASE NotifyReturn \/ LowerTpl \/ WaitForEvent
    BY <1>1, UnchangedQueues DEF NotifyReturn, LowerTpl, WaitForEvent
<1>2. CASE \E level \in UNION {RaisesTo[c] : c \in Callers} : RaiseTpl(level)
    BY <1>2, UnchangedQueues DEF RaiseTpl
<1>3. ASSUME NEW e \in Events,
             CodeSignals(e) \/ CodeChecks(e) \/ CreateEvent(e) \/ CloseEvent(e)
      PROVE  QueueLevels'
    BY <1>3, UnchangedQueues
    DEF CodeSignals, SignalEvent, CodeChecks, CreateEvent, CloseEvent
<1> QED BY <1>1, <1>2, <1>3 DEF CodeStep

LEMMA TickQueues ==
    ASSUME IInv, QueueLevels, Tick
    PROVE  QueueLevels'
<1>1. PICK e \in IsrSignals \cup {None} : Interrupt(e)
    BY DEF Tick
<1>2. CASE e # None /\ e \in live /\ signal[e] = 0
    <2>1. e \in SignalType \cup WaitType /\ NotifyEvent(e)
        BY <1>1, <1>2, EventAssumption DEF Interrupt
    <2> QED BY <2>1, NotifyQueues DEF IInv
<1>3. CASE ~(e # None /\ e \in live /\ signal[e] = 0)
    BY <1>1, <1>3, UnchangedQueues DEF Interrupt
<1> QED BY <1>2, <1>3

-----------------------------------------------------------------------------
(***************************************************************************)
(* Levelled is an invariant                                                *)
(***************************************************************************)
LEMMA InitLevelled == Init => Levelled
<1> SUFFICES ASSUME Init PROVE Levelled
    OBVIOUS
<1> DEFINE f == Code(App, TPL_APPLICATION)
           L == [i \in 1 .. 1 |-> TPL_APPLICATION]
<1>1. stack = << f >> /\ Len(stack) = 1 /\ Top = f /\ stack[1] = f
    BY DEF Init, Top, Last
<1>2. /\ f.pc = "run" /\ f.ev = App
      /\ f.lo = TPL_APPLICATION /\ f.hi = TPL_APPLICATION
    BY DEF Code, Frame
<1> HIDE DEF f
<1>3. /\ FrameAt(f, TPL_APPLICATION)
      /\ TopAt(f, TPL_APPLICATION, TPL_APPLICATION)
    BY <1>2 DEF FrameAt, TopAt, Restoring, TPL_APPLICATION
<1>4. L \in [1 .. 1 -> Int] /\ L[1] = TPL_APPLICATION
    BY DEF TPL_APPLICATION
<1>5. Chain(stack, L)
    <2>1. \A i \in 1 .. 1 : i = 1
        OBVIOUS
    <2>2. 1 .. 1 - 1 = {}
        OBVIOUS
    <2>3. TPL_APPLICATION <= TPL_HIGH_LEVEL /\ TPL_APPLICATION <= TPL_APPLICATION
        BY DEF TPL_APPLICATION, TPL_HIGH_LEVEL
    <2> QED BY <1>1, <1>3, <1>4, <2>1, <2>2, <2>3 DEF Chain
<1> HIDE DEF L
<1>6. Nested(stack, TPL_APPLICATION)
    BY <1>1, <1>4, <1>5 DEF Nested
<1>7. StackLevels
    BY <1>1, <1>3, <1>6 DEF StackLevels, Init, TPL_APPLICATION
<1>8. FlagLevels
    BY DEF FlagLevels, Init, TPL_APPLICATION, TPL_HIGH_LEVEL
<1>9. QueueLevels
    BY EmptySeq DEF QueueLevels, Init
<1> QED BY <1>7, <1>8, <1>9 DEF Levelled

LEMMA StepLevelled ==
    ASSUME IInv, Levelled, ~LoadTwice, [Next]_vars
    PROVE  Levelled'
<1>1. CASE UNCHANGED vars
    BY <1>1 DEF vars, Levelled, StackLevels, FlagLevels, QueueLevels, Top
<1>2. ASSUME Next PROVE StackLevels' /\ FlagLevels'
    <2>1. CASE CoreStep
        BY <2>1, RestoreLoopLevels, PickLevels, RestoreLowerLevels,
           DispatchLevels, SignalLockLevels, GroupLevels, CheckLevels,
           CheckClearLevels,
           WaitLevels, EventLevels, InterruptLevels DEF CoreStep
    <2>2. CASE CodeStep
        BY <2>2, DispatchLevels, LowerLevels, WaitLevels, RaiseLevels,
           CodeSignalsLevels, CheckLevels, EventLevels DEF CodeStep
    <2>3. CASE Tick
        BY <2>3, InterruptLevels
    <2> QED BY <1>2, <2>1, <2>2, <2>3 DEF Next
<1>3. ASSUME Next PROVE QueueLevels'
    BY <1>3, CoreQueues, CodeQueues, TickQueues DEF Next, Levelled
<1> QED BY <1>1, <1>2, <1>3 DEF Levelled

LEMMA LevelledInvariant == ~LoadTwice => (Spec => [](IInv /\ Levelled))
<1>1. ASSUME ~LoadTwice
      PROVE  IInv /\ Levelled /\ [Next]_vars => IInv' /\ Levelled'
    BY <1>1, StepIInv, StepLevelled
<1>2. ASSUME ~LoadTwice PROVE Spec => [](IInv /\ Levelled)
    BY <1>1, <1>2, InitIInv, InitLevelled, PTL DEF Spec
<1> QED BY <1>2

-----------------------------------------------------------------------------
(***************************************************************************)
(* What a nested stack means                                               *)
(***************************************************************************)
LEMMA LevelledPreempts ==
    ASSUME IInv, Levelled
    PROVE  Preemption
<1>1. IsStack(stack) /\ Len(stack) \in Nat /\ DOMAIN stack = 1 .. Len(stack)
    BY GoodIsStack, StackLast DEF IInv, IsStack
<1>2. PICK L \in [1 .. Len(stack) -> Int] : Chain(stack, L)
    BY DEF Levelled, StackLevels, Nested
<1> SUFFICES ASSUME NEW i \in 1 .. Len(stack), NEW j \in 1 .. Len(stack), i < j,
                    stack[i].pc = "run", stack[j].pc = "run"
             PROVE  stack[i].hi < stack[j].lo
    BY <1>1 DEF Preemption
\* below the code at j is the dispatcher that called it ...
<1>3. stack[j - 1].pc = "take" /\ stack[j].lo = L[j - 1] /\ i < j - 1
    <2>1. j - 1 \in 1 .. Len(stack) - 1 /\ (j - 1) + 1 = j
        BY <1>1
    <2>2. Above(stack[j - 1], L[j - 1], stack[j], L[j])
        <3>1. Above(stack[j - 1], L[j - 1], stack[(j - 1) + 1], L[(j - 1) + 1])
            BY <1>2, <2>1 DEF Chain
        <3> QED BY <2>1, <3>1
    <2>3. stack[j - 1].pc = "take" /\ stack[j].lo = L[j - 1]
        BY <2>2 DEF Above
    <2>4. i # j - 1
        BY <2>3
    <2> QED BY <2>3, <2>4
\* ... and below that one the RestoreTPL that raised the level to call it.
<1>4. L[j - 2] < L[j - 1]
    <2>1. j - 2 \in 1 .. Len(stack) - 1 /\ (j - 2) + 1 = j - 1
        BY <1>1, <1>3
    <2>2. Above(stack[j - 2], L[j - 2], stack[j - 1], L[j - 1])
        <3>1. Above(stack[j - 2], L[j - 2], stack[(j - 2) + 1], L[(j - 2) + 1])
            BY <1>2, <2>1 DEF Chain
        <3> QED BY <2>1, <3>1
    <2> QED BY <1>3, <2>2 DEF Above
<1>5. L[i] = stack[i].hi
    BY <1>2 DEF Chain, FrameAt
<1>6. j - 2 \in 1 .. Len(stack) /\ j - 1 \in 1 .. Len(stack) /\ i <= j - 2
    BY <1>1, <1>3
<1>7. L[i] <= L[j - 2]
    BY <1>2, <1>6 DEF Chain
<1>8. L[i] \in Int /\ L[j - 2] \in Int /\ L[j - 1] \in Int
    BY <1>2, <1>6
<1> QED BY <1>3, <1>4, <1>5, <1>7, <1>8

LEMMA LevelledKeepsLevel ==
    ASSUME IInv, Levelled
    PROVE  LevelKept /\ LevelAssertions
<1>1. Top.pc \in {"run", "take"} => FrameAt(Top, tpl)
    BY RunningLevel DEF Levelled, Restoring
<1>2. LevelKept
    BY <1>1 DEF LevelKept, At, FrameAt
<1>3. LevelAssertions
    BY <1>1 DEF LevelAssertions, At, FrameAt, Levelled, FlagLevels
<1> QED BY <1>2, <1>3

LEMMA LevelledFlag ==
    ASSUME IInv, Levelled
    PROVE  InterruptsFollowTpl
<1>1. irq \in BOOLEAN /\ (irq <=> tpl < TPL_HIGH_LEVEL)
    BY DEF IInv, Types, Levelled, FlagLevels
<1>2. irq = (tpl < TPL_HIGH_LEVEL)
    BY <1>1
<1> QED BY <1>2 DEF InterruptsFollowTpl

(* However interrupts, dispatchers and notification functions nest, code   *)
(* is preempted only by notification functions of a higher level than its  *)
(* own: for every set of events, levels and callers, and any number of     *)
(* interrupts in progress, in the build that loads gEventPending once per  *)
(* iteration of CoreRestoreTpl.                                            *)
THEOREM Preempted == ~LoadTwice => (Spec => []Preemption)
<1>1. ASSUME ~LoadTwice PROVE Spec => [](IInv /\ Levelled)
    BY <1>1, LevelledInvariant
<1>2. ASSUME ~LoadTwice PROVE Spec => []Preemption
    BY <1>1, <1>2, LevelledPreempts, PTL
<1> QED BY <1>2

(* Whatever preempted it, code that runs is at the level it last raised or *)
(* restored to, and a notification function was called at the level its    *)
(* event was created with.                                                 *)
THEOREM LevelsKept == ~LoadTwice => (Spec => []LevelKept)
<1>1. ASSUME ~LoadTwice PROVE Spec => [](IInv /\ Levelled)
    BY <1>1, LevelledInvariant
<1>2. ASSUME ~LoadTwice PROVE Spec => []LevelKept
    BY <1>1, <1>2, LevelledKeepsLevel, PTL
<1> QED BY <1>2

(* Code runs with interrupts enabled exactly when it is below              *)
(* TPL_HIGH_LEVEL: no path through the lock, the dispatcher, RestoreTPL and*)
(* the interrupt handler loses or leaks an enable.                         *)
THEOREM InterruptsFollow == ~LoadTwice => (Spec => []InterruptsFollowTpl)
<1>1. ASSUME ~LoadTwice PROVE Spec => [](IInv /\ Levelled)
    BY <1>1, LevelledInvariant
<1>2. ASSUME ~LoadTwice PROVE Spec => []InterruptsFollowTpl
    BY <1>1, <1>2, LevelledFlag, PTL
<1> QED BY <1>2

(* The core's two assertions about levels hold: CoreRaiseTpl never lowers  *)
(* the level (Tpl.c:68) and a dispatcher runs at the level it dispatches   *)
(* (Event.c:173).                                                          *)
THEOREM AssertionsHold == ~LoadTwice => (Spec => []LevelAssertions)
<1>1. ASSUME ~LoadTwice PROVE Spec => [](IInv /\ Levelled)
    BY <1>1, LevelledInvariant
<1>2. ASSUME ~LoadTwice PROVE Spec => []LevelAssertions
    BY <1>1, <1>2, LevelledKeepsLevel, PTL
<1> QED BY <1>2

(* All that the safety invariant says of queues, mask, level and interrupt *)
(* flag holds together, for any events, groups, levels and callers.        *)
THEOREM EventSafe == ~LoadTwice => (Spec => []EventInv)
<1>1. ASSUME ~LoadTwice
      PROVE  Spec => [](TypeOK /\ PendingCoversQueues /\ InterruptsFollowTpl
                           /\ LevelAssertions)
    BY <1>1, TypeCorrect, QueuesCovered, InterruptsFollow, AssertionsHold, PTL
<1>2. TypeOK /\ PendingCoversQueues /\ InterruptsFollowTpl /\ LevelAssertions
        => EventInv
    BY DEF EventInv
<1>3. ASSUME ~LoadTwice PROVE Spec => []EventInv
    BY <1>2, <1>1, <1>3, PTL
<1> QED BY <1>3
=============================================================================

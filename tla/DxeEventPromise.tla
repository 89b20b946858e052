--------------------------- MODULE DxeEventPromise --------------------------
(***************************************************************************)
(* Proofs about DxeEvent: where events are closed by code that owns them,  *)
(* no signaled event is dead and the core holds no event that is freed;    *)
(* and DxeEvent implements EventNotify.                                    *)
(***************************************************************************)
EXTENDS DxeEventProofs

USE DEF UsePcs, ClosePcs

(***************************************************************************)
(* The inductive invariant.                                                *)
(***************************************************************************)
\* Lists hold an event once, and only events that are not freed.
ListsKept ==
    /\ \A p \in Levels : IsInjective(queue[p])
    /\ IsInjective(siglist)
    /\ \A e \in SignalType \cup WaitType : Queued(e) => e \in live
    /\ ToSet(siglist) \subseteq live

\* What the core may not hold of an event that is being freed.
Unlinked(e) ==
    /\ e \in live /\ e \in Closable
    /\ ~Queued(e) /\ e \notin ToSet(siglist)
    /\ \A g \in ToSet(stack) : g.pc = "call" => g.ev # e

FrameKept(f) ==
    /\ f.pc = "call" => f.ev \in live
    /\ f.pc \in UsePcs => f.ev \in live /\ ~Closing(f.ev)
    /\ f.pc \in {"wait", "waited"} => \A x \in ToSet(WaitList) : ~Closing(x)
    /\ f.pc = "close" => f.ev \in live /\ f.ev \in Closable
    /\ f.pc = "free" => Unlinked(f.ev)
    /\ f.pc = "run" /\ f.ev = App => f.lo = TPL_APPLICATION

FramesKept == \A f \in ToSet(stack) : FrameKept(f)

Once(s) ==
    \A i, j \in DOMAIN s :
       s[i].pc \in ClosePcs /\ s[j].pc \in ClosePcs /\ s[i].ev = s[j].ev => i = j

ClosedOnce == Once(stack)

Closed(e) == \E f \in ToSet(stack) : f.pc = "free" /\ f.ev = e

\* The event of a group in CoreNotifySignalList is queued, or is a member further on.
MemberKept(f) ==
    /\ f.lo \in Nat \ {0}
    /\ signal[f.ev] = 1 =>
          \/ Queued(f.ev) \/ Closed(f.ev)
          \/ \E k \in DOMAIN siglist : k >= f.lo /\ siglist[k] = f.ev

MembersKept == \A f \in ToSet(stack) : f.pc = "members" => MemberKept(f)

SignalsKept ==
    \A e \in SignalType : signal[e] = 1 =>
       \/ Queued(e) \/ Closed(e)
       \/ \E f \in ToSet(stack) : f.ev = e /\ f.pc \in {"group", "members"}

LiveKept ==
    \A e \in SignalType :
       /\ e \notin live => signal[e] = 0
       /\ e \in live => e \in ToSet(siglist) \/ Closed(e)

Kept ==
    ListsKept /\ FramesKept /\ ClosedOnce /\ MembersKept /\ SignalsKept /\ LiveKept

-----------------------------------------------------------------------------
(***************************************************************************)
(* Stacks as sets of frames                                                *)
(***************************************************************************)
Lower(s) == {s[i] : i \in 1 .. Len(s) - 1}
Low == Lower(stack)

LEMMA SetOfStack ==
    ASSUME NEW s, IsStack(s)
    PROVE  ToSet(s) = Lower(s) \cup {Last(s)}
<1>1. /\ Len(s) \in Nat \ {0} /\ Last(s) = s[Len(s)] /\ DOMAIN s = 1 .. Len(s)
    BY StackLast DEF IsStack
<1> QED BY <1>1 DEF ToSet, Lower

LEMMA SetReplace ==
    ASSUME NEW s, IsStack(s), NEW f \in FrameType
    PROVE  LET t == [s EXCEPT ![Len(s)] = f]
           IN  /\ IsStack(t) /\ Len(t) = Len(s) /\ Lower(t) = Lower(s) /\ Last(t) = f
               /\ ToSet(t) = Lower(s) \cup {f}
               /\ Once(s) /\ (f.pc \in ClosePcs => Last(s).pc \in ClosePcs /\ Last(s).ev = f.ev)
                     => Once(t)
<1> DEFINE t == [s EXCEPT ![Len(s)] = f]
<1>1. Len(s) \in Nat \ {0} /\ DOMAIN s = 1 .. Len(s)
    BY StackLast DEF IsStack
<1>2. /\ t \in Seq(FrameType) /\ Len(t) = Len(s)
      /\ \A j \in 1 .. Len(s) : t[j] = IF j = Len(s) THEN f ELSE s[j]
    BY <1>1, ExceptSeq DEF IsStack
<1> HIDE DEF t
<1>3. IsStack(t)
    BY <1>1, <1>2, EmptySeq DEF IsStack
<1>4. Last(t) = f
    <2>1. Len(s) \in 1 .. Len(s)
        BY <1>1
    <2>2. t[Len(s)] = f
        BY <1>2, <2>1
    <2> QED BY <1>2, <2>2 DEF Last
<1>5. Lower(t) = Lower(s)
    <2>1. ASSUME NEW i \in 1 .. Len(s) - 1 PROVE t[i] = s[i]
        <3>1. i \in 1 .. Len(s) /\ i # Len(s)
            <4> DEFINE n == Len(s)
            <4>1. n \in Nat \ {0} /\ i \in 1 .. n - 1
                BY <1>1, <2>1
            <4> HIDE DEF n
            <4>2. i \in 1 .. n /\ i # n
                BY <4>1
            <4> QED BY <4>2 DEF n
        <3> QED BY <1>2, <3>1
    <2> QED BY <1>2, <2>1 DEF Lower
<1>6. ToSet(t) = Lower(s) \cup {f}
    BY <1>3, <1>4, <1>5, SetOfStack
<1>7. ASSUME Once(s), f.pc \in ClosePcs => Last(s).pc \in ClosePcs /\ Last(s).ev = f.ev
      PROVE  Once(t)
    <2>1. DOMAIN t = 1 .. Len(s) /\ Last(s) = s[Len(s)]
        BY <1>2, StackLast
    <2>2. \A j \in 1 .. Len(s) : t[j].pc \in ClosePcs =>
                s[j].pc \in ClosePcs /\ s[j].ev = t[j].ev
        BY <1>2, <1>7, <2>1
    <2> QED BY <1>1, <1>7, <2>1, <2>2 DEF Once
<1> QED BY <1>2, <1>3, <1>4, <1>5, <1>6, <1>7 DEF t

LEMMA SetPush ==
    ASSUME NEW s, IsStack(s), NEW f \in FrameType
    PROVE  LET t == Append(s, f)
           IN  /\ IsStack(t) /\ Last(t) = f
               /\ ToSet(t) = ToSet(s) \cup {f}
               /\ Once(s) /\ (f.pc \in ClosePcs =>
                               \A g \in ToSet(s) : g.pc \in ClosePcs => g.ev # f.ev)
                     => Once(t)
<1> DEFINE t == Append(s, f)
<1>1. Len(s) \in Nat \ {0} /\ DOMAIN s = 1 .. Len(s)
    BY StackLast DEF IsStack
<1>2. /\ t \in Seq(FrameType) /\ Len(t) = Len(s) + 1
      /\ \A i \in 1 .. Len(s) : t[i] = s[i]
      /\ t[Len(s) + 1] = f
    BY AppendProperties DEF IsStack
<1> HIDE DEF t
<1>3. IsStack(t)
    BY <1>1, <1>2, EmptySeq DEF IsStack
<1>4. Last(t) = f
    BY <1>2 DEF Last
<1>5. Lower(t) = ToSet(s)
    BY <1>1, <1>2 DEF Lower, ToSet
<1>6. ToSet(t) = ToSet(s) \cup {f}
    BY <1>3, <1>4, <1>5, SetOfStack
<1>7. ASSUME Once(s), f.pc \in ClosePcs =>
                            \A g \in ToSet(s) : g.pc \in ClosePcs => g.ev # f.ev
      PROVE  Once(t)
    <2> SUFFICES ASSUME NEW i \in 1 .. Len(s) + 1, NEW j \in 1 .. Len(s) + 1,
                        t[i].pc \in ClosePcs, t[j].pc \in ClosePcs, t[i].ev = t[j].ev
                 PROVE  i = j
        BY <1>2 DEF Once
    <2>1. CASE i \in 1 .. Len(s) /\ j \in 1 .. Len(s)
        BY <1>1, <1>2, <1>7, <2>1 DEF Once
    <2>2. CASE i = Len(s) + 1 /\ j \in 1 .. Len(s)
        BY <1>1, <1>2, <1>7, <2>2 DEF ToSet
    <2>3. CASE j = Len(s) + 1 /\ i \in 1 .. Len(s)
        BY <1>1, <1>2, <1>7, <2>3 DEF ToSet
    <2> QED BY <1>1, <2>1, <2>2, <2>3
<1> QED BY <1>3, <1>4, <1>6, <1>7 DEF t

LEMMA SetPop ==
    ASSUME NEW s, IsStack(s)
    PROVE  ToSet(Front(s)) = Lower(s) /\ (Once(s) => Once(Front(s)))
<1> DEFINE t == Front(s)
<1>1. Len(s) \in Nat \ {0} /\ DOMAIN s = 1 .. Len(s)
    BY StackLast DEF IsStack
<1>2. \A i \in 1 .. Len(s) - 1 : s[i] \in FrameType
    BY <1>1, ElementOfSeq DEF IsStack
<1>3. /\ t \in Seq(FrameType) /\ Len(t) = Len(s) - 1
      /\ \A i \in 1 .. Len(s) - 1 : t[i] = s[i]
    BY <1>1, <1>2, SubSeqProperties DEF Front
<1> HIDE DEF t
<1>4. DOMAIN t = 1 .. Len(s) - 1
    BY <1>3
<1>5. ToSet(t) = Lower(s)
    BY <1>3, <1>4 DEF Lower, ToSet
<1>6. Once(s) => Once(t)
    BY <1>1, <1>3, <1>4 DEF Once
<1> QED BY <1>5, <1>6 DEF t

\* No frame below the running one is in CoreNotifySignalList, or is an application of a
\* higher level than that of an event that has been taken.
LEMMA StackIs ==
    ASSUME IInv
    PROVE  /\ IsStack(stack) /\ ToSet(stack) = Low \cup {Top}
           /\ Top \in FrameType /\ GoodFrame(Top)
<1>1. IsStack(stack)
    BY GoodIsStack DEF IInv
<1>2. Top \in FrameType /\ GoodFrame(Top)
    BY StackTop DEF IInv, Top
<1> QED BY <1>1, <1>2, SetOfStack DEF Low, Top

LEMMA NoMembersBelow ==
    ASSUME IInv, Levelled, NEW f \in Low
    PROVE  f.pc # "members"
<1>1. IsStack(stack) /\ Len(stack) \in Nat
    BY StackIs, StackLast
<1>2. PICK L \in [1 .. Len(stack) -> Int] : Chain(stack, L)
    BY DEF Levelled, StackLevels, Nested
<1>3. PICK i \in 1 .. Len(stack) - 1 : f = stack[i]
    BY DEF Low, Lower
<1>4. Above(stack[i], L[i], stack[i + 1], L[i + 1])
    BY <1>2 DEF Chain
<1> QED BY <1>3, <1>4 DEF Above

\* Code that closes an event has not preempted a dispatcher that has taken it.
LEMMA NotTaken ==
    ASSUME OwnersClose, IInv, Levelled, FramesKept, Top.pc = "close",
           NEW f \in ToSet(stack), f.pc = "call"
    PROVE  f.ev # Top.ev
<1> SUFFICES ASSUME f.ev = Top.ev PROVE FALSE
    OBVIOUS
<1> DEFINE n == Len(stack)
           c == stack[n - 1]
           e == Top.ev
<1>1. IsStack(stack) /\ n \in Nat \ {0} /\ Top = stack[n] /\ f \in Low
    BY StackIs, StackLast DEF Top
<1>2. PICK L \in [1 .. Len(stack) -> Int] : Chain(stack, L)
    BY DEF Levelled, StackLevels, Nested
<1>3. PICK i \in 1 .. n - 1 : f = stack[i]
    BY <1>1 DEF Low, Lower
<1>4. \A j \in 1 .. n - 1 : Above(stack[j], L[j], stack[j + 1], L[j + 1])
    BY <1>2 DEF Chain, n
<1> HIDE DEF n, e
\* below CoreCloseEvent is the code that called it ...
<1>5. /\ c.pc = "run" /\ e \in Closes[c.ev] /\ i < n - 1
      /\ c \in ToSet(stack) /\ n - 1 \in 1 .. n
    <2>1. n - 1 \in 1 .. n - 1 /\ n - 1 \in 1 .. n /\ (n - 1) + 1 = n
        BY <1>1, <1>3
    <2>2. Above(stack[n - 1], L[n - 1], stack[(n - 1) + 1], L[(n - 1) + 1])
        BY <1>4, <2>1
    <2>3. Above(stack[n - 1], L[n - 1], stack[n], L[n])
        BY <2>1, <2>2
    <2>4. c.pc = "run" /\ e \in Closes[c.ev]
        BY <1>1, <2>3 DEF Above, e
    <2>5. i # n - 1
        BY <1>3, <2>4
    <2>6. DOMAIN stack = 1 .. n
        BY <1>1 DEF IsStack, n
    <2>7. c \in ToSet(stack)
        BY <2>1, <2>6 DEF ToSet
    <2> QED BY <1>1, <2>1, <2>4, <2>5, <2>7
\* ... below that the dispatcher that called the code ...
<1>6. stack[n - 2].pc = "take" /\ c.lo = L[n - 2] /\ i < n - 2 /\ n - 2 \in 1 .. n
    <2>1. n - 2 \in 1 .. n - 1 /\ n - 2 \in 1 .. n /\ (n - 2) + 1 = n - 1
        BY <1>1, <1>5
    <2>2. Above(stack[n - 2], L[n - 2], stack[(n - 2) + 1], L[(n - 2) + 1])
        BY <1>4, <2>1
    <2>3. Above(stack[n - 2], L[n - 2], c, L[n - 1])
        BY <2>1, <2>2
    <2>4. stack[n - 2].pc = "take" /\ c.lo = L[n - 2]
        BY <1>5, <2>3 DEF Above
    <2>5. i # n - 2
        BY <1>3, <2>4
    <2> QED BY <1>1, <1>5, <2>1, <2>4, <2>5
\* ... and below that one the RestoreTPL that raised the level to call it.
<1>7. L[n - 3] < L[n - 2] /\ n - 3 \in 1 .. n /\ i <= n - 3
    <2>1. n - 3 \in 1 .. n - 1 /\ n - 3 \in 1 .. n /\ (n - 3) + 1 = n - 2
        BY <1>1, <1>6
    <2>2. Above(stack[n - 3], L[n - 3], stack[(n - 3) + 1], L[(n - 3) + 1])
        BY <1>4, <2>1
    <2>3. Above(stack[n - 3], L[n - 3], stack[n - 2], L[n - 2])
        BY <2>1, <2>2
    <2> QED BY <1>1, <1>6, <2>1, <2>3 DEF Above
<1>8. /\ \A j \in 1 .. n : L[j] \in Int /\ FrameAt(stack[j], L[j])
      /\ \A j, k \in 1 .. n : j <= k => L[j] <= L[k]
    BY <1>2 DEF Chain, n
<1>9. i \in 1 .. n
    BY <1>1
<1>10. L[i] = NotifyTpl[e] /\ L[i] <= L[n - 3]
    <2>1. L[i] = f.lo /\ NotifyTpl[e] = f.lo
        BY <1>3, <1>8, <1>9 DEF FrameAt, e
    <2> QED BY <1>7, <1>8, <1>9, <2>1
<1>11. NotifyTpl[e] < c.lo
    BY <1>6, <1>7, <1>8, <1>9, <1>10
\* It is no application, as applications are called at the lowest level.
<1>12. /\ GoodFrame(f) /\ GoodFrame(c)
    <2>1. stack[i] \in Frames /\ stack[n - 1] \in Frames
        BY <1>5, <1>9, ElementOfSeq DEF IInv, GoodStack, n
    <2> QED BY <1>3, <2>1 DEF Frames
<1>13. e \in SignalType \cup WaitType /\ c.ev \in Callers
    BY <1>5, <1>12 DEF GoodFrame, e
<1>14. NotifyTpl[e] \in TPL_APPLICATION + 1 .. TPL_HIGH_LEVEL - 1
    BY <1>13, EventAssumption
<1>15. c.ev # App
    BY <1>5, <1>11, <1>14 DEF FramesKept, FrameKept, TPL_APPLICATION
<1>16. c.ev \in SignalType \cup WaitType /\ NotifyTpl[c.ev] <= NotifyTpl[e]
    BY <1>5, <1>13, <1>15 DEF OwnersClose
<1>17. c.lo = NotifyTpl[c.ev]
    BY <1>5, <1>8, <1>15 DEF FrameAt
<1>18. NotifyTpl[c.ev] \in Int /\ NotifyTpl[e] \in Int
    BY <1>14, <1>16, EventAssumption
<1> QED BY <1>11, <1>16, <1>17, <1>18

-----------------------------------------------------------------------------
(***************************************************************************)
(* Queues without repetitions                                              *)
(***************************************************************************)
LEMMA QueueOf ==
    ASSUME IInv, Levelled, ListsKept, NEW p \in Levels
    PROVE  /\ queue[p] \in Seq(SignalType \cup WaitType) /\ IsInjective(queue[p])
           /\ \A x \in ToSet(queue[p]) : x \in SignalType \cup WaitType /\ NotifyTpl[x] = p
<1>1. queue[p] \in Seq(AtLevel(p))
    BY DEF Levelled, QueueLevels
<1>2. \A x \in ToSet(queue[p]) : x \in AtLevel(p)
    BY <1>1, ElementOfSeq DEF ToSet
<1> QED BY <1>2 DEF IInv, Types, ListsKept, AtLevel

\* Of the list of one level, only e is taken out, or only e is put in.
LEMMA OneQueue ==
    ASSUME IInv, NEW e \in SignalType \cup WaitType, NEW q,
           queue' = [queue EXCEPT ![NotifyTpl[e]] = q],
           NEW x \in SignalType \cup WaitType,
           x # e => (x \in ToSet(q) <=> x \in ToSet(queue[NotifyTpl[e]]))
    PROVE  Queued(x)' <=> IF x = e THEN e \in ToSet(q) ELSE Queued(x)
<1>1. NotifyTpl[e] \in Levels /\ NotifyTpl[x] \in Levels
    BY NotifyLevel
<1>2. queue'[NotifyTpl[x]] = IF NotifyTpl[x] = NotifyTpl[e] THEN q ELSE queue[NotifyTpl[x]]
    BY <1>1 DEF IInv, Types
<1> QED BY <1>2 DEF Queued

LEMMA OneQueueKept ==
    ASSUME IInv, ListsKept, NEW p \in Levels, NEW q, IsInjective(q),
           queue' = [queue EXCEPT ![p] = q]
    PROVE  \A n \in Levels : IsInjective(queue'[n])
BY DEF ListsKept, IInv, Types

\* What a step notifies: it queues the events of N, none of which is being closed.
Notified(N) ==
    /\ ListsKept'
    /\ \A x \in SignalType \cup WaitType : Queued(x)' <=> Queued(x) \/ x \in N
    /\ \A x \in N : ~Closed(x)

LEMMA NotNotified ==
    ASSUME ListsKept, UNCHANGED <<queue, siglist, live>>
    PROVE  Notified({})
BY DEF Notified, ListsKept, Queued

LEMMA NotifyNotified ==
    ASSUME IInv, Levelled, ListsKept, NEW e \in SignalType \cup WaitType,
           NotifyEvent(e), e \in live, ~Closed(e), UNCHANGED <<siglist, live>>
    PROVE  Notified({e})
<1> DEFINE p == NotifyTpl[e]
           r == Unlink(queue[p], e)
           q == Append(r, e)
<1>1. p \in Levels
    BY NotifyLevel
<1>2. queue[p] \in Seq(SignalType \cup WaitType) /\ IsInjective(queue[p])
    BY <1>1, QueueOf
<1>3. /\ r \in Seq(SignalType \cup WaitType) /\ IsInjective(r)
      /\ ToSet(r) = ToSet(queue[p]) \ {e}
    BY <1>2, UnlinkInjective
<1> HIDE DEF r
<1>4. IsInjective(q) /\ ToSet(q) = ToSet(r) \cup {e}
    BY <1>3, AppendInjects
<1>5. queue' = [queue EXCEPT ![p] = q]
    BY <1>1 DEF NotifyEvent, r, IInv, Types
<1> HIDE DEF q
<1>6. \A n \in Levels : IsInjective(queue'[n])
    BY <1>1, <1>4, <1>5, OneQueueKept
<1>7. ASSUME NEW x \in SignalType \cup WaitType PROVE Queued(x)' <=> Queued(x) \/ x \in {e}
    BY <1>3, <1>4, <1>5, OneQueue
<1>8. ListsKept'
    BY <1>6, <1>7 DEF ListsKept
<1> QED BY <1>7, <1>8 DEF Notified

-----------------------------------------------------------------------------
(***************************************************************************)
(* What a step does to the frames.  The frames of G are new; of the others *)
(* none is lost that a signaled or closed event relies on.                 *)
(***************************************************************************)
Passing(f) == f.pc \notin {"call", "close", "free", "members"} /\ FrameKept(f)
Idle(f)    == f.pc \notin {"free", "group", "members"}
NoMembers  == \A f \in ToSet(stack) : f.pc # "members"

Moved(G) ==
    /\ ToSet(stack') \subseteq ToSet(stack) \cup G
    /\ G \subseteq ToSet(stack')
    /\ \A f \in ToSet(stack) : f \in ToSet(stack') \/ Idle(f)
    /\ ClosedOnce'

LEMMA TopIsNoMember ==
    ASSUME IInv, Levelled, Top.pc # "members"
    PROVE  NoMembers
BY StackIs, NoMembersBelow DEF NoMembers

LEMMA GotoMoved ==
    ASSUME IInv, ClosedOnce, Idle(Top), NEW f \in FrameType, Passing(f), Goto(f)
    PROVE  Moved({f})
<1>1. /\ ToSet(stack') = Low \cup {f} /\ ClosedOnce'
    BY StackIs, SetReplace DEF Goto, ClosedOnce, Passing, Low
<1> QED BY <1>1, StackIs DEF Moved

LEMMA CallMoved ==
    ASSUME IInv, ClosedOnce, NEW g \in FrameType, Passing(g), Call(g)
    PROVE  Moved({g})
<1>1. ToSet(stack') = ToSet(stack) \cup {g} /\ ClosedOnce'
    BY StackIs, SetPush DEF Call, ClosedOnce, Passing
<1> QED BY <1>1 DEF Moved

LEMMA ReturnMoved ==
    ASSUME IInv, ClosedOnce, Idle(Top), Return
    PROVE  Moved({})
<1>1. ToSet(stack') = Low /\ ClosedOnce'
    BY StackIs, SetPop DEF Return, ClosedOnce, Low
<1> QED BY <1>1, StackIs DEF Moved

\* The running frame becomes f, and g is called, or g and then h.
LEMMA GotoAndCallSet ==
    ASSUME IInv, ClosedOnce, NEW f \in FrameType, f.pc \notin ClosePcs,
           NEW g \in FrameType, g.pc \notin ClosePcs, GotoAndCall(f, g)
    PROVE  ToSet(stack') = Low \cup {f, g} /\ ClosedOnce'
<1> DEFINE s == [stack EXCEPT ![Len(stack)] = f]
<1>1. IsStack(s) /\ ToSet(s) = Low \cup {f} /\ Once(s)
    BY StackIs, SetReplace DEF ClosedOnce, Low
<1>2. stack' = Append(s, g)
    BY DEF GotoAndCall
<1> HIDE DEF s
<1>3. ToSet(stack') = ToSet(s) \cup {g} /\ Once(stack')
    BY <1>1, <1>2, SetPush
<1> QED BY <1>1, <1>3 DEF ClosedOnce

LEMMA GotoAndCallMoved ==
    ASSUME IInv, ClosedOnce, Idle(Top), NEW f \in FrameType, Passing(f),
           NEW g \in FrameType, Passing(g), GotoAndCall(f, g)
    PROVE  Moved({f, g})
<1>1. ToSet(stack') = Low \cup {f, g} /\ ClosedOnce'
    BY GotoAndCallSet DEF Passing
<1> QED BY <1>1, StackIs DEF Moved

LEMMA RestorePasses ==
    ASSUME NEW n \in Int
    PROVE  RestoreTpl(n) \in FrameType /\ Passing(RestoreTpl(n)) /\ RestoreTpl(n).pc = "check"
<1>1. RestoreTpl(n) \in FrameType /\ RestoreTpl(n).pc = "check"
    BY RestoreFrame
<1> HIDE DEF RestoreTpl
<1> QED BY <1>1 DEF Passing, FrameKept

LEMMA ReleaseLockMoved ==
    ASSUME IInv, ClosedOnce, Idle(Top), NEW f \in FrameType, Passing(f), ReleaseLock(f)
    PROVE  Moved({f, RestoreTpl(tpl)})
<1>1. tpl \in Int
    BY DEF IInv, Types
<1> QED BY <1>1, RestorePasses, GotoAndCallMoved DEF ReleaseLock

LEMMA ReleaseAndReturnMoved ==
    ASSUME IInv, ClosedOnce, Idle(Top), ReleaseAndReturn
    PROVE  Moved({RestoreTpl(tpl)})
<1>1. tpl \in Int
    BY DEF IInv, Types
<1> QED BY <1>1, RestorePasses, GotoMoved DEF ReleaseAndReturn

LEMMA PushTwoSet ==
    ASSUME NEW s, IsStack(s), Once(s), NEW g \in FrameType, NEW h \in FrameType,
           g.pc \notin ClosePcs, h.pc \notin ClosePcs
    PROVE  LET t == Append(Append(s, g), h)
           IN  ToSet(t) = ToSet(s) \cup {g, h} /\ Once(t)
<1> DEFINE r == Append(s, g)
<1>1. IsStack(r) /\ ToSet(r) = ToSet(s) \cup {g} /\ Once(r)
    BY SetPush
<1> HIDE DEF r
<1>2. ToSet(Append(r, h)) = ToSet(r) \cup {h} /\ Once(Append(r, h))
    BY <1>1, SetPush
<1> QED BY <1>1, <1>2 DEF r

-----------------------------------------------------------------------------
(***************************************************************************)
(* A step outside CoreNotifySignalList that queues the events of N, sets   *)
(* the SignalCount of no event that is not queued or about to queue its    *)
(* group, and takes no event from a queue or a list.                       *)
(***************************************************************************)
Signaled(N, G) ==
    \A x \in SignalType :
       \/ signal'[x] = signal[x]
       \/ x \in live /\ (x \in N \/ \E f \in G : f.pc = "group" /\ f.ev = x)

\* What holds of such a step, in CoreNotifySignalList or not.
Entered(G) ==
    /\ ToSet(stack') \subseteq ToSet(stack) \cup G
    /\ \A f \in G : f.pc \notin {"call", "close", "free"} /\ FrameKept(f)
    /\ \A f \in ToSet(stack) : f \in ToSet(stack') \/ f.pc # "free"

OfLive == \A x \in SignalType : signal'[x] = signal[x] \/ x \in live

\* A frame of no CoreCloseEvent that has unlinked its event is kept where no other
\* close begins.
LEMMA FrameStays ==
    ASSUME NEW f, f.pc # "free", FrameKept(f), \A x : Closing(x)' => Closing(x),
           f.pc \in {"call", "close"} \cup UsePcs => f.ev \in live'
    PROVE  FrameKept(f)'
BY DEF FrameKept

LEMMA FramesStep ==
    ASSUME Kept, NEW G, Entered(G), NEW N, Notified(N), OfLive, siglist' = siglist,
           live' = live
    PROVE  ListsKept' /\ FramesKept' /\ LiveKept' /\ \A x : Closed(x)' <=> Closed(x)
<1>0. \A f \in G : f.pc \notin {"call", "close", "free"} /\ FrameKept(f)
    BY DEF Entered
<1>5. \A x : Closing(x)' => Closing(x)
    BY <1>0 DEF Closing, Entered
<1>1. ASSUME NEW x PROVE Closed(x)' <=> Closed(x)
    <2>1. Closed(x)' => Closed(x)
        BY <1>0 DEF Closed, Entered
    <2>2. Closed(x) => Closed(x)'
        BY DEF Closed, Entered
    <2> QED BY <2>1, <2>2
<1>2. ASSUME NEW f \in ToSet(stack') PROVE FrameKept(f)'
    <2>1. CASE f \in G
        BY <1>0, <1>5, <2>1, FrameStays DEF FrameKept
    <2>2. CASE f \in ToSet(stack) /\ f.pc # "free"
        <3>1. FrameKept(f)
            BY <2>2 DEF Kept, FramesKept
        <3>2. f.pc \in {"call", "close"} \cup UsePcs => f.ev \in live'
            BY <3>1 DEF FrameKept
        <3> QED BY <1>5, <2>2, <3>1, <3>2, FrameStays
    <2>3. CASE f \in ToSet(stack) /\ f.pc = "free"
        <3>1. Unlinked(f.ev) /\ Closed(f.ev)
            BY <2>3 DEF Kept, FramesKept, FrameKept, Closed
        <3>2. ~Queued(f.ev)'
            BY <3>1 DEF Unlinked, Notified, Queued
        <3>3. \A g \in ToSet(stack') : g.pc = "call" => g.ev # f.ev
            BY <1>0, <3>1 DEF Unlinked, Entered
        <3>4. Unlinked(f.ev)'
            BY <3>1, <3>2, <3>3 DEF Unlinked
        <3> QED BY <2>3, <3>4 DEF FrameKept
    <2> QED BY <2>1, <2>2, <2>3 DEF Entered
<1>3. FramesKept'
    BY <1>2 DEF FramesKept
<1>4. LiveKept'
    BY <1>1 DEF Kept, LiveKept, OfLive
<1> QED BY <1>1, <1>3, <1>4 DEF Notified

LEMMA StepKept ==
    ASSUME Kept, NoMembers, NEW G, \A f \in G : Passing(f), Moved(G),
           NEW N, Notified(N), Signaled(N, G), UNCHANGED <<siglist, live>>
    PROVE  Kept'
<1>1. ListsKept' /\ FramesKept' /\ LiveKept' /\ \A x : Closed(x)' <=> Closed(x)
    <2>1. Entered(G) /\ OfLive
        BY DEF Moved, Idle, Signaled, Entered, OfLive, Passing
    <2> QED BY <2>1, FramesStep
<1>2. MembersKept'
    <2>1. \A f \in ToSet(stack') : f.pc # "members"
        BY DEF NoMembers, Moved, Passing
    <2> QED BY <2>1 DEF MembersKept
<1>3. SignalsKept'
    <2> SUFFICES ASSUME NEW x \in SignalType, signal'[x] = 1
                 PROVE  \/ Queued(x)' \/ Closed(x)'
                        \/ \E f \in ToSet(stack') : f.ev = x /\ f.pc \in {"group", "members"}
        BY DEF SignalsKept
    <2>1. CASE signal[x] = 1
        <3>1. \/ Queued(x) \/ Closed(x)
              \/ \E f \in ToSet(stack) : f.ev = x /\ f.pc \in {"group", "members"}
            BY <2>1 DEF Kept, SignalsKept
        <3>2. Queued(x) => Queued(x)'
            BY DEF Notified
        <3> QED BY <1>1, <3>1, <3>2 DEF Moved, Idle
    <2>2. CASE x \in N
        BY <2>2 DEF Notified
    <2>3. CASE \E f \in G : f.pc = "group" /\ f.ev = x
        BY <2>3 DEF Moved
    <2> QED BY <2>1, <2>2, <2>3 DEF Signaled
<1> QED BY <1>1, <1>2, <1>3 DEF Kept, Moved

\* A step that only moves on.
LEMMA QuietKept ==
    ASSUME Kept, NoMembers, NEW G, \A f \in G : Passing(f), Moved(G),
           UNCHANGED <<queue, siglist, signal, live>>
    PROVE  Kept'
<1>1. Notified({}) /\ Signaled({}, G)
    BY NotNotified DEF Kept, Signaled
<1> QED BY <1>1, StepKept

-----------------------------------------------------------------------------
(***************************************************************************)
(* The steps that only move on                                             *)
(***************************************************************************)
LEMMA TopKept ==
    ASSUME IInv, Kept
    PROVE  FrameKept(Top)
BY StackIs DEF Kept, FramesKept

\* CoreWaitForEvent, while none of its events is being closed
LEMMA WaitPasses ==
    ASSUME NEW pc \in {"wait", "waited"}, NEW lo \in Int, NEW hi \in Int,
           \A x \in ToSet(WaitList) : ~Closing(x)
    PROVE  Frame(pc, None, lo, hi) \in FrameType /\ Passing(Frame(pc, None, lo, hi))
BY DEF Frame, FrameType, Pcs, Passing, FrameKept

\* An event that is being closed is one that some code closes.
LEMMA ClosingIsClosable ==
    ASSUME Kept, NEW x, Closing(x)
    PROVE  x \in Closable
BY DEF Kept, FramesKept, FrameKept, Closing, Unlinked

LEMMA ClosedIsClosing ==
    ASSUME NEW x, Closed(x)
    PROVE  Closing(x)
BY DEF Closing, Closed

\* Tpl.c
LEMMA TplKept ==
    ASSUME IInv, Levelled, ~LoadTwice, Kept,
           \/ \E level \in UNION {RaisesTo[c] : c \in Callers} : RaiseTpl(level)
           \/ LowerTpl \/ RestoreCheck \/ RestorePick \/ RestoreLower
    PROVE  Kept'
<1>0. Top \in FrameType /\ GoodFrame(Top) /\ FrameKept(Top) /\ ClosedOnce
    BY StackIs, TopKept DEF Kept
<1>1. CASE \E level \in UNION {RaisesTo[c] : c \in Callers} : RaiseTpl(level)
    <2>1. PICK level \in UNION {RaisesTo[c] : c \in Callers} : RaiseTpl(level)
        BY <1>1
    <2> DEFINE f == [Top EXCEPT !.hi = level]
    <2>2. level \in Int
        BY RaisedLevel
    <2>3. Top.pc = "run" /\ Idle(Top) /\ NoMembers
        BY <2>1, TopIsNoMember DEF RaiseTpl, At, Idle
    <2>4. f \in FrameType /\ Passing(f)
        BY <1>0, <2>2, <2>3 DEF FrameType, Passing, FrameKept
    <2>5. Goto(f)
        BY <2>1 DEF RaiseTpl
    <2> HIDE DEF f
    <2>6. Moved({f})
        BY <1>0, <2>3, <2>4, <2>5, GotoMoved
    <2> QED BY <2>1, <2>3, <2>4, <2>6, QuietKept DEF RaiseTpl
<1>2. CASE LowerTpl
    <2> DEFINE f == [Top EXCEPT !.hi = Top.lo]
               g == RestoreTpl(Top.lo)
    <2>1. Top.pc = "run" /\ Idle(Top) /\ NoMembers
        BY <1>2, TopIsNoMember DEF LowerTpl, At, Idle
    <2>2. f \in FrameType /\ Passing(f)
        BY <1>0, <2>1 DEF FrameType, Passing, FrameKept
    <2>3. g \in FrameType /\ Passing(g)
        BY <1>0, RestorePasses DEF FrameType
    <2>4. GotoAndCall(f, g)
        BY <1>2 DEF LowerTpl
    <2> HIDE DEF f, g
    <2>5. Moved({f, g})
        BY <1>0, <2>1, <2>2, <2>3, <2>4, GotoAndCallMoved
    <2> QED BY <1>2, <2>1, <2>2, <2>3, <2>5, QuietKept DEF LowerTpl
<1>3. CASE RestoreCheck
    <2>1. Top.pc = "check" /\ Idle(Top) /\ NoMembers
        BY <1>3, TopIsNoMember DEF RestoreCheck, At, Idle
    <2>2. PICK f \in FrameType : Passing(f) /\ Goto(f)
        <3>1. CASE Unmasked(Top.lo) = {}
            <4> DEFINE f == [Top EXCEPT !.pc = "lower"]
            <4>1. f \in FrameType /\ Passing(f)
                BY <1>0 DEF FrameType, Pcs, Passing, FrameKept
            <4>2. Goto(f)
                BY <1>3, <3>1 DEF RestoreCheck
            <4> QED BY <4>1, <4>2
        <3>2. CASE Unmasked(Top.lo) # {}
            <4> DEFINE f == [Top EXCEPT !.pc = "pick", !.hi = HighBitSet64(pending)]
            <4>1. HighBitSet64(pending) \in Int
                BY <3>2, HighBitInMask, LevelsBounded DEF Unmasked, IInv, Types
            <4>2. f \in FrameType /\ Passing(f)
                BY <1>0, <4>1 DEF FrameType, Pcs, Passing, FrameKept
            <4>3. Goto(f)
                BY <1>3, <3>2 DEF RestoreCheck
            <4> QED BY <4>2, <4>3
        <3> QED BY <3>1, <3>2
    <2>3. Moved({f})
        BY <1>0, <2>1, <2>2, GotoMoved
    <2> QED BY <1>3, <2>1, <2>2, <2>3, QuietKept DEF RestoreCheck
<1>4. CASE RestorePick
    <2> DEFINE f == RestoreTpl(Top.lo)
               g == Dispatch(Top.hi)
    <2>1. Top.pc = "pick" /\ Idle(Top) /\ NoMembers
        BY <1>4, TopIsNoMember DEF RestorePick, At, Idle
    <2>2. f \in FrameType /\ Passing(f)
        BY <1>0, RestorePasses DEF FrameType
    <2>3. g \in FrameType /\ Passing(g)
        BY <1>0 DEF FrameType, Dispatch, Frame, Pcs, Passing, FrameKept
    <2>4. GotoAndCall(f, g)
        BY <1>4 DEF RestorePick
    <2> HIDE DEF f, g
    <2>5. Moved({f, g})
        BY <1>0, <2>1, <2>2, <2>3, <2>4, GotoAndCallMoved
    <2> QED BY <1>4, <2>1, <2>2, <2>3, <2>5, QuietKept DEF RestorePick
<1>5. CASE RestoreLower
    <2>1. Idle(Top) /\ NoMembers
        BY <1>5, TopIsNoMember DEF RestoreLower, At, Idle
    <2>2. Moved({})
        BY <1>0, <1>5, <2>1, ReturnMoved DEF RestoreLower
    <2> QED BY <1>5, <2>1, <2>2, QuietKept DEF RestoreLower
<1> QED BY <1>1, <1>2, <1>3, <1>4, <1>5

\* A frame that returns, or releases the lock and returns.
LEMMA ReturnKept ==
    ASSUME IInv, Levelled, Kept, Idle(Top), Return \/ ReleaseAndReturn,
           UNCHANGED <<queue, siglist, signal, live>>
    PROVE  Kept'
<1>1. NoMembers /\ ClosedOnce /\ tpl \in Int
    BY TopIsNoMember DEF Idle, Kept, IInv, Types
<1>2. CASE Return
    <2>1. Moved({})
        BY <1>1, <1>2, ReturnMoved
    <2> QED BY <1>1, <2>1, QuietKept
<1>3. CASE ReleaseAndReturn
    <2>1. Moved({RestoreTpl(tpl)})
        BY <1>1, <1>3, ReleaseAndReturnMoved
    <2> QED BY <1>1, <2>1, RestorePasses, QuietKept
<1> QED BY <1>2, <1>3

LEMMA MoveOnKept ==
    ASSUME CloserOwns, IInv, Levelled, Kept,
           \/ DispatchDone \/ NotifyReturn \/ SignalRelock \/ CheckLook \/ WaitReturn
           \/ InterruptReturn \/ DispatchCall \/ WaitForEvent \/ WaitNext
    PROVE  Kept'
<1>0. Top \in FrameType /\ GoodFrame(Top) /\ FrameKept(Top) /\ ClosedOnce /\ tpl \in Int
    BY StackIs, TopKept DEF Kept, IInv, Types
<1>1. CASE DispatchDone
    BY <1>1, ReturnKept DEF DispatchDone, At, Idle
<1>2. CASE NotifyReturn
    BY <1>2, ReturnKept DEF NotifyReturn, At, Idle
<1>3. CASE SignalRelock
    BY <1>3, ReturnKept DEF SignalRelock, At, Idle
<1>4. CASE WaitReturn
    BY <1>4, ReturnKept DEF WaitReturn, At, Idle
<1>5. CASE InterruptReturn
    BY <1>5, ReturnKept DEF InterruptReturn, At, Idle
<1>6. CASE CheckLook
    <2>1. CASE signal[Top.ev] = 0
        BY <1>6, <2>1, ReturnKept DEF CheckLook, At, Idle
    <2>2. CASE signal[Top.ev] # 0
        <3> DEFINE f == [Top EXCEPT !.pc = "clear"]
        <3>1. f \in FrameType /\ Passing(f) /\ Idle(Top) /\ NoMembers
            BY <1>0, <1>6, TopIsNoMember
            DEF CheckLook, At, FrameType, Pcs, Passing, FrameKept, Idle
        <3>2. Goto(f)
            BY <1>6, <2>2 DEF CheckLook
        <3> HIDE DEF f
        <3>3. Moved({f})
            BY <1>0, <3>1, <3>2, GotoMoved
        <3> QED BY <1>6, <3>1, <3>3, QuietKept DEF CheckLook
    <2> QED BY <2>1, <2>2
<1>7. CASE DispatchCall
    <2> DEFINE f == Dispatch(Top.lo)
               g == Code(Top.ev, tpl)
    <2>1. Top.pc = "call" /\ Top.ev \in SignalType \cup WaitType /\ Idle(Top) /\ NoMembers
        BY <1>0, <1>7, TopIsNoMember DEF DispatchCall, At, GoodFrame, Idle
    <2>2. f \in FrameType /\ Passing(f)
        BY <1>0 DEF Dispatch, Frame, FrameType, Pcs, Passing, FrameKept
    <2>3. g \in FrameType /\ g.pc = "run" /\ g.ev # App
        BY <1>0, <2>1, EventAssumption DEF FrameType, Pcs, Code, Frame, Callers
    <2>4. GotoAndCall(f, g)
        BY <1>7 DEF DispatchCall
    <2> HIDE DEF f, g
    <2>5. Passing(g)
        BY <2>3 DEF Passing, FrameKept
    <2>6. Moved({f, g})
        BY <1>0, <2>1, <2>2, <2>3, <2>4, <2>5, GotoAndCallMoved
    <2> QED BY <1>7, <2>1, <2>2, <2>5, <2>6, QuietKept DEF DispatchCall
<1>8. CASE WaitForEvent
    <2> DEFINE f == Frame("wait", None, 1, 0)
    <2>0. \A x \in ToSet(WaitList) : ~Closing(x)
        BY <1>8 DEF WaitForEvent, MayUse
    <2>1. f \in FrameType /\ Passing(f) /\ NoMembers
        BY <1>8, <2>0, WaitPasses, TopIsNoMember DEF WaitForEvent, Running, At
    <2>2. Call(f)
        BY <1>8 DEF WaitForEvent
    <2> HIDE DEF f
    <2>3. Moved({f})
        BY <1>0, <2>1, <2>2, CallMoved
    <2> QED BY <1>8, <2>1, <2>3, QuietKept DEF WaitForEvent
<1>9. CASE WaitNext
    <2> DEFINE f == Frame("wait", None, Top.lo + 1, 0)
    <2>1. Top.lo + 1 \in Int /\ Idle(Top) /\ NoMembers
        BY <1>0, <1>9, TopIsNoMember DEF WaitNext, At, Idle, FrameType
    <2>2. f \in FrameType /\ Passing(f)
        BY <1>0, <1>9, <2>1, WaitPasses DEF WaitNext, At, FrameKept
    <2>3. Goto(f)
        BY <1>9 DEF WaitNext
    <2> HIDE DEF f
    <2>4. Moved({f})
        BY <1>0, <2>1, <2>2, <2>3, GotoMoved
    <2> QED BY <1>9, <2>1, <2>2, <2>4, QuietKept DEF WaitNext
<1> QED BY <1>1, <1>2, <1>3, <1>4, <1>5, <1>6, <1>7, <1>8, <1>9

\* CoreCheckEvent of an event that is not being closed
LEMMA PeekPasses ==
    ASSUME NEW e \in Events, e \in live, ~Closing(e)
    PROVE  Frame("peek", e, 0, 0) \in FrameType /\ Passing(Frame("peek", e, 0, 0))
BY DEF Frame, FrameType, Pcs, Callers, Passing, FrameKept

LEMMA WaitCheckKept ==
    ASSUME IInv, Levelled, Kept, WaitCheck
    PROVE  Kept'
<1> DEFINE e == WaitList[Top.lo]
<1>0. Top \in FrameType /\ GoodFrame(Top) /\ FrameKept(Top) /\ ClosedOnce
    BY StackIs, TopKept DEF Kept
<1>1. /\ Top.pc = "wait" /\ Top.lo \in 1 .. Len(WaitList) /\ Idle(Top) /\ NoMembers
      /\ \A x \in ToSet(WaitList) : ~Closing(x)
    BY <1>0, TopIsNoMember DEF WaitCheck, At, GoodFrame, Idle, FrameKept
<1>2. e \in Events /\ e \in ToSet(WaitList) /\ Top.lo \in Int
    <2>1. WaitList \in Seq(Events) /\ DOMAIN WaitList = 1 .. Len(WaitList)
        BY EventAssumption
    <2> QED BY <1>0, <1>1, <2>1, ElementOfSeq DEF ToSet, FrameType
<1> HIDE DEF e
<1>3. CASE Checkable(e)
    <2> DEFINE f == Frame("waited", None, Top.lo, 0)
               g == Frame("peek", e, 0, 0)
    <2>1. f \in FrameType /\ Passing(f)
        BY <1>1, <1>2, WaitPasses
    <2>2. g \in FrameType /\ Passing(g)
        BY <1>1, <1>2, <1>3, PeekPasses DEF Checkable
    <2>3. GotoAndCall(f, g)
        BY <1>3 DEF WaitCheck, e
    <2> HIDE DEF f, g
    <2>4. Moved({f, g})
        BY <1>0, <1>1, <2>1, <2>2, <2>3, GotoAndCallMoved
    <2> QED BY <1>1, <2>1, <2>2, <2>4, QuietKept DEF WaitCheck
<1>4. CASE ~Checkable(e)
    <2> DEFINE f == Frame("waited", None, Top.lo, 1)
    <2>1. f \in FrameType /\ Passing(f)
        BY <1>1, <1>2, WaitPasses
    <2>2. Goto(f)
        BY <1>4 DEF WaitCheck, e
    <2> HIDE DEF f
    <2>3. Moved({f})
        BY <1>0, <1>1, <2>1, <2>2, GotoMoved
    <2> QED BY <1>1, <2>1, <2>3, QuietKept DEF WaitCheck
<1> QED BY <1>3, <1>4

-----------------------------------------------------------------------------
(***************************************************************************)
(* CoreSignalEvent up to its call of CoreNotifyEvent or of                 *)
(* CoreNotifySignalList, and the timer tick                                *)
(***************************************************************************)
LEMMA SetSignal ==
    ASSUME IInv, NEW e \in live, NEW N, NEW G, signal' = [signal EXCEPT ![e] = 1],
           e \in SignalType => e \in N \/ \E f \in G : f.pc = "group" /\ f.ev = e
    PROVE  Signaled(N, G)
BY EventAssumption DEF Signaled, IInv, Types

LEMMA SignalKept ==
    ASSUME IInv, Levelled, Kept, Idle(Top), NEW e, ~Closing(e),
           NEW f \in FrameType, Passing(f), SignalEvent(e, f)
    PROVE  Kept'
<1>0. NoMembers /\ ClosedOnce /\ UNCHANGED <<queue, siglist, signal, live>>
    BY TopIsNoMember DEF Idle, Kept, SignalEvent
<1>1. CASE e \notin live
    <2>1. Moved({f})
        BY <1>0, <1>1, GotoMoved DEF SignalEvent
    <2> QED BY <1>0, <2>1, QuietKept
<1>2. CASE e \in live
    <2> DEFINE g == Frame("signal", e, 0, 0)
    <2>1. g \in FrameType /\ Passing(g)
        BY <1>2 DEF Frame, FrameType, Pcs, Callers, Passing, FrameKept, IInv, Types
    <2>2. GotoAndCall(f, g)
        BY <1>2 DEF SignalEvent
    <2> HIDE DEF g
    <2>3. Moved({f, g})
        BY <1>0, <2>1, <2>2, GotoAndCallMoved
    <2> QED BY <1>0, <2>1, <2>3, QuietKept
<1> QED BY <1>1, <1>2

LEMMA SignalStepsKept ==
    ASSUME OwnersClose, IInv, Levelled, Kept, (\E e \in Events : CodeSignals(e)) \/ WaitIdle
    PROVE  Kept'
<1>0. Top \in FrameType /\ FrameKept(Top)
    BY StackIs, TopKept
<1>1. CASE \E e \in Events : CodeSignals(e)
    <2>1. PICK e \in Events : CodeSignals(e)
        BY <1>1
    <2>2. Idle(Top) /\ Passing(Top) /\ ~Closing(e)
        BY <1>0, <2>1 DEF CodeSignals, MayUse, OwnersClose, At, Idle, Passing
    <2> QED BY <1>0, <2>1, <2>2, SignalKept DEF CodeSignals
<1>2. CASE WaitIdle
    <2> DEFINE f == Frame("wait", None, 1, 0)
    <2>1. Idle(Top) /\ SignalEvent(IdleEvent, f)
        BY <1>2 DEF WaitIdle, At, Idle
    <2>2. f \in FrameType /\ Passing(f)
        BY <1>0, <1>2, WaitPasses DEF WaitIdle, At, FrameKept
    <2>3. ~Closing(IdleEvent)
        BY ClosingIsClosable DEF OwnersClose
    <2> HIDE DEF f
    <2> QED BY <2>1, <2>2, <2>3, SignalKept
<1> QED BY <1>1, <1>2

\* The event that is signaled is not being closed, though the lock is taken
\* after the test of its Signature.
LEMMA SignalLockedKept ==
    ASSUME IInv, Levelled, Kept, SignalAgain \/ SignalFirst
    PROVE  Kept'
<1> DEFINE r == RestoreTpl(tpl)
<1>0. /\ Top \in FrameType /\ GoodFrame(Top) /\ FrameKept(Top) /\ Top.pc = "signal"
      /\ ClosedOnce /\ ListsKept /\ tpl \in Int
    BY StackIs, TopKept DEF Kept, IInv, Types, SignalAgain, SignalFirst, At
<1>1. Idle(Top) /\ NoMembers
    BY <1>0, TopIsNoMember DEF Idle
<1>2. PICK e : e = Top.ev
    OBVIOUS
<1>3. e \in Events /\ e \in live /\ ~Closing(e) /\ ~Closed(e)
    BY <1>0, <1>2, ClosedIsClosing DEF GoodFrame, FrameKept
<1>4. r \in FrameType /\ Passing(r) /\ r.pc = "check"
    BY <1>0, RestorePasses
<1>5. CASE SignalAgain
    BY <1>1, <1>5, ReturnKept DEF SignalAgain
<1>6. CASE SignalFirst /\ e \in SignalType /\ Group[e] # None
    <2> DEFINE g == Frame("group", e, 0, 0)
    <2>1. /\ ReleaseLock(g) /\ signal' = [signal EXCEPT ![e] = 1]
          /\ UNCHANGED <<queue, siglist, live>>
        BY <1>2, <1>6 DEF SignalFirst
    <2>2. g \in FrameType /\ Passing(g) /\ g.pc = "group" /\ g.ev = e
        BY <1>3 DEF Frame, FrameType, Pcs, Callers, Passing, FrameKept
    <2> HIDE DEF g
    <2>3. Moved({g, r})
        BY <1>0, <1>1, <2>1, <2>2, ReleaseLockMoved
    <2> HIDE DEF r
    <2>4. Notified({}) /\ Signaled({}, {g, r})
        BY <1>0, <1>3, <2>1, <2>2, NotNotified, SetSignal
    <2>5. \A x \in {g, r} : Passing(x)
        BY <1>4, <2>2
    <2> QED BY <1>1, <2>1, <2>3, <2>4, <2>5, StepKept
<1>7. CASE SignalFirst /\ ~(e \in SignalType /\ Group[e] # None)
    <2>1. /\ ReleaseAndReturn /\ signal' = [signal EXCEPT ![e] = 1]
          /\ IF e \in SignalType THEN NotifyEvent(e) ELSE UNCHANGED queue
          /\ UNCHANGED <<siglist, live>>
        BY <1>2, <1>7 DEF SignalFirst
    <2>2. Moved({r})
        BY <1>0, <1>1, <2>1, ReleaseAndReturnMoved
    <2>3. \A x \in {r} : Passing(x)
        BY <1>4
    <2> HIDE DEF r
    <2>4. CASE e \in SignalType
        <3>1. Notified({e}) /\ Signaled({e}, {r})
            BY <1>0, <1>3, <2>1, <2>4, NotifyNotified, SetSignal
        <3> QED BY <1>1, <2>1, <2>2, <2>3, <3>1, StepKept
    <2>5. CASE e \notin SignalType
        <3>1. Notified({}) /\ Signaled({}, {r})
            BY <1>0, <1>3, <2>1, <2>5, NotNotified, SetSignal
        <3> QED BY <1>1, <2>1, <2>2, <2>3, <3>1, StepKept
    <2> QED BY <2>4, <2>5
<1> QED BY <1>5, <1>6, <1>7

\* An interrupt comes only where interrupts are enabled, not in
\* CoreNotifySignalList.
LEMMA TickKept ==
    ASSUME OwnersClose, IInv, Levelled, Kept, Tick
    PROVE  Kept'
<1> DEFINE g == Frame("iret", None, tpl, 0)
           r == RestoreTpl(tpl)
<1>1. PICK e \in IsrSignals \cup {None} : Interrupt(e)
    BY DEF Tick
<1>2. /\ irq /\ UNCHANGED <<siglist, live>>
      /\ stack' = Append(Append(stack, g), r)
      /\ IF e # None /\ e \in live /\ signal[e] = 0
         THEN signal' = [signal EXCEPT ![e] = 1] /\ NotifyEvent(e)
         ELSE UNCHANGED <<signal, queue>>
    BY <1>1 DEF Interrupt
<1>3. ClosedOnce /\ ListsKept /\ tpl \in Int
    BY DEF Kept, IInv, Types
<1>4. g \in FrameType /\ Passing(g) /\ r \in FrameType /\ Passing(r)
    <2>1. g \in FrameType /\ Passing(g)
        BY <1>3 DEF Frame, FrameType, Pcs, Passing, FrameKept
    <2> QED BY <1>3, <2>1, RestorePasses
<1> HIDE DEF g, r
<1>5. Moved({g, r})
    <2>1. ToSet(stack') = ToSet(stack) \cup {g, r} /\ ClosedOnce'
        BY <1>2, <1>3, <1>4, StackIs, PushTwoSet DEF ClosedOnce, Passing
    <2> QED BY <2>1 DEF Moved
<1>6. NoMembers
    <2>1. tpl < TPL_HIGH_LEVEL
        BY <1>2 DEF Levelled, FlagLevels
    <2>2. Top.pc # "members"
        BY <1>3, <2>1 DEF Levelled, StackLevels, TopAt, TPL_HIGH_LEVEL
    <2> QED BY <2>2, TopIsNoMember
<1>7. \A x \in {g, r} : Passing(x)
    BY <1>4
<1>8. CASE e # None /\ e \in live /\ signal[e] = 0
    <2>1. e \in SignalType /\ ~Closed(e)
        BY <1>1, <1>8, EventAssumption, ClosedIsClosing, ClosingIsClosable DEF OwnersClose
    <2>2. Notified({e}) /\ Signaled({e}, {g, r})
        BY <1>2, <1>3, <1>8, <2>1, NotifyNotified, SetSignal
    <2> QED BY <1>2, <1>5, <1>6, <1>7, <2>2, StepKept
<1>9. CASE ~(e # None /\ e \in live /\ signal[e] = 0)
    BY <1>2, <1>5, <1>6, <1>7, <1>9, QuietKept
<1> QED BY <1>8, <1>9

-----------------------------------------------------------------------------
(***************************************************************************)
(* CoreCheckEvent                                                          *)
(***************************************************************************)
LEMMA CheckKept ==
    ASSUME CloserOwns, IInv, Levelled, Kept,
           (\E e \in Events : CodeChecks(e)) \/ CheckPeek \/ CheckEnqueue
    PROVE  Kept'
<1>0. Top \in FrameType /\ GoodFrame(Top) /\ FrameKept(Top) /\ ClosedOnce /\ tpl \in Int
    BY StackIs, TopKept DEF Kept, IInv, Types
<1>1. CASE \E e \in Events : CodeChecks(e)
    <2>1. PICK e \in Events : CodeChecks(e)
        BY <1>1
    <2> DEFINE f == Frame("peek", e, 0, 0)
    <2>2. NoMembers /\ e \in live /\ ~Closing(e)
        BY <2>1, TopIsNoMember DEF CodeChecks, Checkable, MayUse, At
    <2>3. f \in FrameType /\ Passing(f)
        BY <2>2, PeekPasses
    <2>4. Call(f)
        BY <2>1 DEF CodeChecks
    <2> HIDE DEF f
    <2>5. Moved({f})
        BY <1>0, <2>3, <2>4, CallMoved
    <2> QED BY <2>1, <2>2, <2>3, <2>5, QuietKept DEF CodeChecks
<1>2. CASE CheckPeek
    <2> DEFINE f == [Top EXCEPT !.pc = IF signal[Top.ev] = 0 /\ Top.ev \in WaitType
                                       THEN "enqueue" ELSE "look"]
    <2>1. Top.pc = "peek" /\ Idle(Top) /\ NoMembers
        BY <1>2, TopIsNoMember DEF CheckPeek, At, Idle
    <2>2. f \in FrameType /\ Passing(f)
        BY <1>0, <2>1 DEF FrameType, Pcs, Passing, FrameKept
    <2>3. Goto(f)
        BY <1>2 DEF CheckPeek
    <2> HIDE DEF f
    <2>4. Moved({f})
        BY <1>0, <2>1, <2>2, <2>3, GotoMoved
    <2> QED BY <1>2, <2>1, <2>2, <2>4, QuietKept DEF CheckPeek
<1>3. CASE CheckEnqueue
    <2> DEFINE f == [Top EXCEPT !.pc = "look"]
               r == RestoreTpl(tpl)
    <2>1. Top.pc = "enqueue" /\ Idle(Top) /\ NoMembers
        BY <1>3, TopIsNoMember DEF CheckEnqueue, At, Idle
    <2>2. Top.ev \in WaitType /\ Top.ev \in live
        BY <1>0, <2>1 DEF GoodFrame, FrameKept
    <2>3. ~Closed(Top.ev)
        BY <1>0, <2>1, ClosedIsClosing DEF FrameKept
    <2>4. f \in FrameType /\ Passing(f) /\ Passing(r)
        <3>1. f \in FrameType /\ Passing(f)
            BY <1>0, <2>1 DEF FrameType, Pcs, Passing, FrameKept
        <3> QED BY <1>0, <3>1, RestorePasses
    <2>5. ReleaseLock(f)
        BY <1>3 DEF CheckEnqueue
    <2> HIDE DEF f, r
    <2>6. Moved({f, r})
        BY <1>0, <2>1, <2>4, <2>5, ReleaseLockMoved DEF r
    <2>7. \A x \in {f, r} : Passing(x)
        BY <2>4
    <2>8. CASE signal[Top.ev] = 0
        <3>1. Notified({Top.ev})
            BY <1>3, <2>2, <2>3, <2>8, NotifyNotified DEF CheckEnqueue, Kept
        <3>2. Signaled({Top.ev}, {f, r})
            BY <1>3 DEF CheckEnqueue, Signaled
        <3> QED BY <1>3, <2>1, <2>6, <2>7, <3>1, <3>2, StepKept DEF CheckEnqueue
    <2>9. CASE signal[Top.ev] # 0
        BY <1>3, <2>1, <2>6, <2>7, <2>9, QuietKept DEF CheckEnqueue
    <2> QED BY <2>8, <2>9
<1> QED BY <1>1, <1>2, <1>3

\* The answer of CoreCheckEvent is for the CoreWaitForEvent that called it.
LEMMA CheckClearStack ==
    ASSUME IInv, CheckClear
    PROVE  LET n == Len(stack)
           IN  /\ n \in Nat /\ n > 1 /\ stack' \in Seq(FrameType) /\ Len(stack') = n
               /\ stack'[n] = RestoreTpl(tpl)
               /\ \A j \in 1 .. n - 1 :
                    \/ stack'[j] = stack[j]
                    \/ stack'[j].pc = "waited" /\ stack[j].pc = "waited"
<1> DEFINE n == Len(stack)
           hi == IF signal[Top.ev] # 0 /\ stack[n - 1].pc = "waited"
                 THEN 1 ELSE stack[n - 1].hi
           below == [stack[n - 1] EXCEPT !.hi = hi]
           told == [stack EXCEPT ![n - 1] = below]
           r == RestoreTpl(tpl)
<1>1. Top.pc = "clear" /\ ~IsBottom(Top)
    BY DEF CheckClear, At, IsBottom
<1>2. n \in Nat /\ n > 1 /\ stack \in Seq(FrameType)
    BY <1>1, StackIs, StackTop DEF IInv, GoodStack, IsStack, Top, Last
<1>3. stack[n - 1] \in FrameType
    BY <1>2, ElementOfSeq
<1>4. /\ below \in FrameType /\ below.pc = stack[n - 1].pc
      /\ below = stack[n - 1] \/ below.pc = "waited"
    BY <1>3 DEF FrameType
<1>5. stack' = [told EXCEPT ![n] = r]
    BY DEF CheckClear
<1>6. r \in FrameType
    BY RestorePasses DEF IInv, Types
<1> HIDE DEF below, r
<1>7. /\ told \in Seq(FrameType) /\ Len(told) = n
      /\ \A j \in 1 .. n : told[j] = IF j = n - 1 THEN below ELSE stack[j]
    BY <1>2, <1>4, ExceptSeq
<1> HIDE DEF told
<1>8. /\ stack' \in Seq(FrameType) /\ Len(stack') = n
      /\ \A j \in 1 .. n : stack'[j] = IF j = n THEN r ELSE told[j]
    BY <1>2, <1>5, <1>6, <1>7, ExceptSeq
<1>9. stack'[n] = r
    BY <1>2, <1>8
<1>10. ASSUME NEW j \in 1 .. n - 1
       PROVE  \/ stack'[j] = stack[j]
              \/ stack'[j].pc = "waited" /\ stack[j].pc = "waited"
    <2>1. j \in 1 .. n /\ j # n
        BY <1>2
    <2> QED BY <1>4, <1>7, <1>8, <2>1
<1> QED BY <1>2, <1>8, <1>9, <1>10 DEF r

LEMMA CheckClearKept ==
    ASSUME IInv, Levelled, Kept, CheckClear
    PROVE  Kept'
<1> DEFINE n == Len(stack)
           r == RestoreTpl(tpl)
           waits == {stack'[j] : j \in {i \in 1 .. n - 1 : stack'[i].pc = "waited"}}
           G == {r} \cup waits
<1>1. /\ Top.pc = "clear" /\ Idle(Top) /\ NoMembers
      /\ Top.ev \notin SignalType /\ UNCHANGED <<queue, siglist, live>>
      /\ signal' = [signal EXCEPT ![Top.ev] = 0]
    BY StackIs, TopIsNoMember DEF CheckClear, At, Idle, GoodFrame
<1>2. /\ n \in Nat /\ n > 1 /\ stack' \in Seq(FrameType) /\ Len(stack') = n
      /\ stack'[n] = r
      /\ \A j \in 1 .. n - 1 :
            \/ stack'[j] = stack[j]
            \/ stack'[j].pc = "waited" /\ stack[j].pc = "waited"
    BY CheckClearStack
<1>3. r.pc = "check" /\ Passing(r)
    BY RestorePasses DEF IInv, Types
<1> HIDE DEF r
<1>4. DOMAIN stack' = 1 .. n /\ DOMAIN stack = 1 .. n
    BY <1>2, StackIs DEF IsStack
<1> HIDE DEF n
<1>5. \A j \in 1 .. n : j = n \/ j \in 1 .. n - 1
    BY <1>2
<1>6. \A j \in 1 .. n - 1 : j \in 1 .. n
    BY <1>2
<1>7. n \in 1 .. n /\ stack[n] = Top
    BY <1>2, StackIs, StackLast DEF n, Top
<1>8. \A f \in G : Passing(f)
    <2>1. ASSUME NEW j \in 1 .. n - 1, stack'[j].pc = "waited" PROVE Passing(stack'[j])
        <3>1. stack[j].pc = "waited" /\ stack[j] \in ToSet(stack)
            BY <1>2, <1>4, <1>6, <2>1 DEF ToSet
        <3>2. \A x \in ToSet(WaitList) : ~Closing(x)
            BY <3>1 DEF Kept, FramesKept, FrameKept
        <3> QED BY <2>1, <3>2 DEF Passing, FrameKept
    <2> QED BY <1>3, <2>1
<1>9. ToSet(stack') \subseteq ToSet(stack) \cup G
    <2> SUFFICES ASSUME NEW j \in 1 .. n PROVE stack'[j] \in ToSet(stack) \cup G
        BY <1>4 DEF ToSet
    <2> QED BY <1>2, <1>4, <1>5 DEF ToSet
<1>10. G \subseteq ToSet(stack')
    BY <1>2, <1>4, <1>6, <1>7 DEF ToSet
<1>11. ASSUME NEW f \in ToSet(stack) PROVE f \in ToSet(stack') \/ Idle(f)
    <2>1. PICK j \in 1 .. n : f = stack[j]
        BY <1>4 DEF ToSet
    <2>2. CASE j = n
        BY <1>1, <1>7, <2>1, <2>2
    <2>3. CASE j \in 1 .. n - 1
        BY <1>2, <1>4, <2>1, <2>3 DEF ToSet, Idle
    <2> QED BY <1>5, <2>2, <2>3
<1>12. ClosedOnce'
    <2>1. ASSUME NEW j \in 1 .. n, stack'[j].pc \in ClosePcs
          PROVE  stack'[j] = stack[j]
        BY <1>2, <1>3, <1>5, <2>1
    <2> QED BY <1>4, <2>1 DEF Kept, ClosedOnce, Once
<1> HIDE DEF G
<1>13. Moved(G)
    BY <1>9, <1>10, <1>11, <1>12 DEF Moved
<1>14. Notified({}) /\ Signaled({}, G)
    <2>1. \A x \in SignalType : signal'[x] = signal[x]
        BY <1>1, EventAssumption DEF IInv, Types
    <2> QED BY <1>1, <2>1, NotNotified DEF Kept, Signaled
<1> QED BY <1>1, <1>8, <1>13, <1>14, StepKept

-----------------------------------------------------------------------------
(***************************************************************************)
(* CoreDispatchEventNotifies takes an event from its queue, and clears its *)
(* SignalCount in the same critical section.                               *)
(***************************************************************************)
LEMMA TakeKept ==
    ASSUME IInv, Levelled, Kept, DispatchTake
    PROVE  Kept'
<1> DEFINE p == Top.lo
           e == Head(queue[p])
           f == [Top EXCEPT !.pc = "call", !.ev = e]
           r == RestoreTpl(tpl)
<1>0. Top \in FrameType /\ GoodFrame(Top) /\ ClosedOnce /\ ListsKept /\ tpl \in Int
    BY StackIs DEF Kept, IInv, Types
<1>1. Top.pc = "take" /\ p \in Levels /\ NoMembers
    BY <1>0, TopIsNoMember DEF DispatchTake, At, GoodFrame
<1>2. /\ queue[p] # << >> /\ UNCHANGED <<siglist, live>>
      /\ queue' = [queue EXCEPT ![p] = Tail(queue[p])]
      /\ signal' = IF e \in SignalType THEN [signal EXCEPT ![e] = 0] ELSE signal
      /\ GotoAndCall(f, r)
    BY DEF DispatchTake, ReleaseLock
<1>3. /\ queue[p] \in Seq(SignalType \cup WaitType) /\ IsInjective(queue[p])
      /\ \A x \in ToSet(queue[p]) : x \in SignalType \cup WaitType /\ NotifyTpl[x] = p
    BY <1>0, <1>1, QueueOf
<1>4. /\ e \in ToSet(queue[p]) /\ IsInjective(Tail(queue[p]))
      /\ ToSet(Tail(queue[p])) = ToSet(queue[p]) \ {e}
    BY <1>2, <1>3, TailInjects
<1>5. e \in SignalType \cup WaitType /\ NotifyTpl[e] = p /\ Queued(e) /\ e \in live
    BY <1>0, <1>3, <1>4 DEF Queued, ListsKept
<1>6. f \in FrameType /\ f.pc = "call" /\ f.ev = e /\ r \in FrameType /\ r.pc = "check"
    <2>1. f \in FrameType /\ f.pc = "call" /\ f.ev = e
        BY <1>0, <1>5, EventAssumption DEF FrameType, Pcs, Callers
    <2> QED BY <1>0, <2>1, RestorePasses
<1> HIDE DEF f, r, e
<1>7. ToSet(stack') = Low \cup {f, r} /\ ClosedOnce'
    BY <1>0, <1>2, <1>6, GotoAndCallSet
<1>8. ASSUME NEW x \in SignalType \cup WaitType
      PROVE  Queued(x)' <=> Queued(x) /\ x # e
    <2>1. Queued(x)' <=> IF x = e THEN e \in ToSet(Tail(queue[p])) ELSE Queued(x)
        BY <1>2, <1>4, <1>5, OneQueue
    <2> QED BY <1>4, <2>1
<1>9. ASSUME NEW x PROVE (Closed(x)' <=> Closed(x)) /\ (Closing(x)' => Closing(x))
    BY <1>1, <1>6, <1>7, StackIs DEF Closed, Closing
<1>10. ListsKept'
    <2>1. \A q \in Levels : IsInjective(queue'[q])
        BY <1>0, <1>1, <1>2, <1>4, OneQueueKept
    <2> QED BY <1>0, <1>2, <1>8, <2>1 DEF ListsKept
<1>11. FramesKept'
    <2> SUFFICES ASSUME NEW g \in ToSet(stack') PROVE FrameKept(g)'
        BY DEF FramesKept
    <2>1. CASE g = f \/ g = r
        BY <1>2, <1>5, <1>6, <2>1 DEF FrameKept
    <2>2. CASE g \in Low /\ g.pc # "free"
        <3>1. FrameKept(g)
            BY <2>2, StackIs DEF Kept, FramesKept
        <3>2. g.pc \in {"call", "close"} \cup UsePcs => g.ev \in live'
            BY <1>2, <3>1 DEF FrameKept
        <3> QED BY <1>9, <2>2, <3>1, <3>2, FrameStays
    <2>3. CASE g \in Low /\ g.pc = "free"
        <3>1. Unlinked(g.ev)
            BY <2>3, StackIs DEF Kept, FramesKept, FrameKept
        <3>2. g.ev # e
            BY <1>5, <3>1 DEF Unlinked
        <3>3. ~Queued(g.ev)'
            BY <1>8, <3>1 DEF Unlinked, Queued
        <3>4. \A h \in ToSet(stack') : h.pc = "call" => h.ev # g.ev
            BY <1>6, <1>7, <3>1, <3>2, StackIs DEF Unlinked
        <3>5. Unlinked(g.ev)'
            BY <1>2, <3>1, <3>3, <3>4 DEF Unlinked
        <3> QED BY <2>3, <3>5 DEF FrameKept
    <2> QED BY <1>7, <2>1, <2>2, <2>3
<1>12. MembersKept'
    BY <1>1, <1>6, <1>7, StackIs DEF MembersKept, NoMembers
<1>13. ASSUME NEW x \in SignalType, signal'[x] = 1 PROVE signal[x] = 1 /\ x # e
    BY <1>2, <1>13, EventAssumption DEF IInv, Types
<1>14. SignalsKept'
    <2> SUFFICES ASSUME NEW x \in SignalType, signal'[x] = 1
                 PROVE  \/ Queued(x)' \/ Closed(x)'
                        \/ \E g \in ToSet(stack') : g.ev = x /\ g.pc \in {"group", "members"}
        BY DEF SignalsKept
    <2>1. \/ Queued(x) \/ Closed(x)
          \/ \E g \in ToSet(stack) : g.ev = x /\ g.pc \in {"group", "members"}
        BY <1>13 DEF Kept, SignalsKept
    <2> QED BY <1>1, <1>7, <1>8, <1>9, <1>13, <2>1, StackIs
<1>15. LiveKept'
    <2>1. ASSUME NEW x \in SignalType, x \notin live PROVE signal'[x] = 0
        BY <1>2, <1>5, <2>1, EventAssumption DEF Kept, LiveKept, IInv, Types
    <2> QED BY <1>2, <1>9, <2>1 DEF Kept, LiveKept
<1> QED BY <1>7, <1>10, <1>11, <1>12, <1>14, <1>15 DEF Kept

-----------------------------------------------------------------------------
(***************************************************************************)
(* CoreNotifySignalList comes to every member before it returns.           *)
(***************************************************************************)

LEMMA GroupLockKept ==
    ASSUME IInv, Levelled, Kept, GroupLock
    PROVE  Kept'
<1>1. /\ Top \in FrameType /\ Top.pc = "group" /\ Top.ev \in SignalType /\ tpl \in Int
      /\ ClosedOnce /\ ListsKept
    BY StackIs DEF GroupLock, At, GoodFrame, IInv, Types, Kept
<1>2. PICK f \in FrameType : f.pc = "members" /\ f.ev = Top.ev /\ f.lo = 1 /\ Goto(f)
    <2> DEFINE g == Frame("members", Top.ev, 1, tpl)
    <2>1. g \in FrameType /\ g.pc = "members" /\ g.ev = Top.ev /\ g.lo = 1
        BY <1>1 DEF Frame, FrameType, Pcs
    <2>2. Goto(g)
        BY DEF GroupLock
    <2> HIDE DEF g
    <2> QED BY <2>1, <2>2
<1>3. queue' = queue /\ siglist' = siglist /\ signal' = signal /\ live' = live
    BY DEF GroupLock
<1>4. ToSet(stack') = Low \cup {f} /\ ClosedOnce'
    BY <1>1, <1>2, StackIs, SetReplace DEF Goto, ClosedOnce, Low
<1>5. Notified({})
    BY <1>1, <1>3, NotNotified
<1>6. ListsKept' /\ FramesKept' /\ LiveKept' /\ \A x : Closed(x)' <=> Closed(x)
    <2>1. FrameKept(f)
        BY <1>1, <1>2, TopKept DEF FrameKept
    <2>2. Entered({f}) /\ OfLive
        BY <1>1, <1>2, <1>3, <1>4, <2>1, StackIs DEF Entered, OfLive
    <2> QED BY <1>3, <1>5, <2>2, FramesStep
<1>7. MemberKept(f)'
    <2>1. ASSUME signal[f.ev] = 1
          PROVE  Closed(f.ev) \/ \E k \in DOMAIN siglist : k >= 1 /\ siglist[k] = f.ev
        <3>1. Closed(f.ev) \/ f.ev \in ToSet(siglist)
            BY <1>1, <1>2, <2>1 DEF Kept, LiveKept
        <3>2. \A k \in DOMAIN siglist : k >= 1
            BY DEF IInv, Types
        <3> QED BY <3>1, <3>2 DEF ToSet
    <2> QED BY <1>2, <1>3, <1>6, <2>1 DEF MemberKept
<1>8. MembersKept'
    <2> SUFFICES ASSUME NEW h \in ToSet(stack'), h.pc = "members" PROVE MemberKept(h)'
        BY DEF MembersKept
    <2> QED BY <1>4, <1>7, NoMembersBelow
<1>9. SignalsKept'
    <2> SUFFICES ASSUME NEW x \in SignalType, signal'[x] = 1
                 PROVE  \/ Queued(x)' \/ Closed(x)'
                        \/ \E g \in ToSet(stack') : g.ev = x /\ g.pc \in {"group", "members"}
        BY DEF SignalsKept
    <2>1. \/ Queued(x) \/ Closed(x)
          \/ \E g \in ToSet(stack) : g.ev = x /\ g.pc \in {"group", "members"}
        BY <1>3 DEF Kept, SignalsKept
    <2>2. ASSUME NEW g \in ToSet(stack), g.ev = x, g.pc \in {"group", "members"}
          PROVE  \E h \in ToSet(stack') : h.ev = x /\ h.pc \in {"group", "members"}
        BY <1>2, <1>4, <2>2, StackIs
    <2> QED BY <1>5, <1>6, <2>1, <2>2 DEF Notified
<1> QED BY <1>4, <1>6, <1>8, <1>9 DEF Kept

LEMMA GroupMemberKept ==
    ASSUME IInv, Levelled, Kept, GroupMember
    PROVE  Kept'
<1>1. /\ Top \in FrameType /\ Top.pc = "members" /\ Top.ev \in SignalType
      /\ ClosedOnce /\ ListsKept /\ MemberKept(Top)
    BY StackIs DEF GroupMember, At, GoodFrame, Kept, MembersKept
<1>2. Top.lo \in Nat \ {0} /\ Top.lo \in DOMAIN siglist
    BY <1>1 DEF MemberKept, GroupMember
<1>3. PICK f \in FrameType : /\ f.pc = "members" /\ f.ev = Top.ev
                            /\ f.lo = Top.lo + 1 /\ f.lo \in Nat \ {0} /\ Goto(f)
    <2> DEFINE g == [Top EXCEPT !.lo = Top.lo + 1]
    <2>1. /\ g \in FrameType /\ g.pc = "members" /\ g.ev = Top.ev
          /\ g.lo = Top.lo + 1 /\ g.lo \in Nat \ {0}
        BY <1>1, <1>2 DEF FrameType
    <2>2. Goto(g)
        BY DEF GroupMember
    <2> HIDE DEF g
    <2> QED BY <2>1, <2>2
<1>4. PICK m \in SignalType : m = siglist[Top.lo] /\ m \in ToSet(siglist) /\ m \in live
    BY <1>1, <1>2, ElementOfSeq DEF ToSet, ListsKept, IInv, Types
<1>5. /\ siglist' = siglist /\ signal' = signal /\ live' = live
      /\ IF Group[m] = Group[Top.ev] THEN NotifyEvent(m) ELSE UNCHANGED queue
    BY <1>4 DEF GroupMember
<1>6. ~Closed(m)
    BY <1>4 DEF Closed, Kept, FramesKept, FrameKept, Unlinked
<1>7. ToSet(stack') = Low \cup {f} /\ ClosedOnce'
    BY <1>1, <1>3, StackIs, SetReplace DEF Goto, ClosedOnce, Low
<1>8. PICK N : Notified(N) /\ (Group[m] = Group[Top.ev] => m \in N)
    <2>1. CASE Group[m] = Group[Top.ev]
        <3>1. Notified({m})
            BY <1>1, <1>5, <1>4, <1>6, <2>1, NotifyNotified
        <3> QED BY <3>1
    <2>2. CASE Group[m] # Group[Top.ev]
        <3>1. Notified({})
            BY <1>1, <1>5, <2>2, NotNotified
        <3> QED BY <2>2, <3>1
    <2> QED BY <2>1, <2>2
<1>9. ListsKept' /\ FramesKept' /\ LiveKept' /\ \A x : Closed(x)' <=> Closed(x)
    <2>1. FrameKept(f)
        BY <1>1, <1>3, TopKept DEF FrameKept
    <2>2. Entered({f}) /\ OfLive
        BY <1>1, <1>3, <1>5, <1>7, <2>1, StackIs DEF Entered, OfLive
    <2> QED BY <1>5, <1>8, <2>2, FramesStep
<1>10. MemberKept(f)'
    <2> SUFFICES ASSUME signal[f.ev] = 1
                 PROVE  \/ Queued(f.ev)' \/ Closed(f.ev)'
                        \/ \E k \in DOMAIN siglist : k >= f.lo /\ siglist[k] = f.ev
        BY <1>3, <1>5 DEF MemberKept
    <2>1. \/ Queued(f.ev) \/ Closed(f.ev)
          \/ \E k \in DOMAIN siglist : k >= Top.lo /\ siglist[k] = f.ev
        BY <1>1, <1>3 DEF MemberKept
    <2>2. Queued(f.ev) => Queued(f.ev)'
        BY <1>1, <1>3, <1>8 DEF Notified
    <2>3. ASSUME NEW k \in DOMAIN siglist, k >= Top.lo, siglist[k] = f.ev
          PROVE  Queued(f.ev)' \/ k >= f.lo
        <3>1. CASE k = Top.lo
            BY <1>3, <1>4, <1>8, <2>3, <3>1 DEF Notified
        <3>2. CASE k # Top.lo
            <4>1. k \in Int
                BY DEF IInv, Types
            <4> QED BY <1>2, <1>3, <2>3, <3>2, <4>1
        <3> QED BY <3>1, <3>2
    <2> QED BY <1>9, <2>1, <2>2, <2>3
<1>11. MembersKept'
    <2> SUFFICES ASSUME NEW h \in ToSet(stack'), h.pc = "members" PROVE MemberKept(h)'
        BY DEF MembersKept
    <2> QED BY <1>7, <1>10, NoMembersBelow
<1>12. SignalsKept'
    <2> SUFFICES ASSUME NEW x \in SignalType, signal'[x] = 1
                 PROVE  \/ Queued(x)' \/ Closed(x)'
                        \/ \E g \in ToSet(stack') : g.ev = x /\ g.pc \in {"group", "members"}
        BY DEF SignalsKept
    <2>1. \/ Queued(x) \/ Closed(x)
          \/ \E g \in ToSet(stack) : g.ev = x /\ g.pc \in {"group", "members"}
        BY <1>5 DEF Kept, SignalsKept
    <2>2. ASSUME NEW g \in ToSet(stack), g.ev = x, g.pc \in {"group", "members"}
          PROVE  \E h \in ToSet(stack') : h.ev = x /\ h.pc \in {"group", "members"}
        BY <1>3, <1>7, <2>2, StackIs
    <2> QED BY <1>8, <1>9, <2>1, <2>2 DEF Notified
<1> QED BY <1>7, <1>9, <1>11, <1>12 DEF Kept

LEMMA GroupUnlockKept ==
    ASSUME IInv, Levelled, Kept, GroupUnlock
    PROVE  Kept'
<1> DEFINE f == Frame("relock", Top.ev, 0, 0)
           r == RestoreTpl(Top.hi)
<1>1. /\ Top \in FrameType /\ Top.pc = "members" /\ Top.ev \in SignalType
      /\ ClosedOnce /\ ListsKept /\ MemberKept(Top)
    BY StackIs DEF GroupUnlock, At, GoodFrame, Kept, MembersKept
<1>2. /\ f \in FrameType /\ Passing(f) /\ f.pc = "relock"
      /\ r \in FrameType /\ Passing(r) /\ r.pc = "check"
    <2>1. f \in FrameType /\ Passing(f) /\ f.pc = "relock"
        BY <1>1 DEF Frame, FrameType, Pcs, Passing, FrameKept
    <2>2. Top.hi \in Int
        BY <1>1 DEF FrameType
    <2> QED BY <2>1, <2>2, RestorePasses
<1>3. GotoAndCall(f, r) /\ UNCHANGED <<queue, siglist, signal, live>>
    BY DEF GroupUnlock
<1> HIDE DEF f, r
<1>4. ToSet(stack') = Low \cup {f, r} /\ ClosedOnce'
    BY <1>1, <1>2, <1>3, GotoAndCallSet
<1>5. Notified({})
    BY <1>1, <1>3, NotNotified
<1>6. ListsKept' /\ FramesKept' /\ LiveKept' /\ \A x : Closed(x)' <=> Closed(x)
    <2>1. Entered({f, r}) /\ OfLive
        BY <1>1, <1>2, <1>3, <1>4, StackIs DEF Entered, OfLive, Passing
    <2> QED BY <1>3, <1>5, <2>1, FramesStep
<1>7. MembersKept'
    <2>1. \A h \in ToSet(stack') : h.pc # "members"
        BY <1>2, <1>4, NoMembersBelow
    <2> QED BY <2>1 DEF MembersKept
\* the event that was signaled has been met in the list
<1>8. signal[Top.ev] = 1 => Queued(Top.ev) \/ Closed(Top.ev)
    <2>1. ASSUME NEW k \in DOMAIN siglist, k >= Top.lo PROVE FALSE
        <3>1. Top.lo \in Nat \ {0} /\ Top.lo \notin DOMAIN siglist
            BY <1>1 DEF MemberKept, GroupUnlock
        <3>2. DOMAIN siglist = 1 .. Len(siglist) /\ Len(siglist) \in Nat
            BY DEF IInv, Types
        <3> QED BY <2>1, <3>1, <3>2
    <2> QED BY <1>1, <2>1 DEF MemberKept
<1>9. SignalsKept'
    <2> SUFFICES ASSUME NEW x \in SignalType, signal'[x] = 1
                 PROVE  \/ Queued(x)' \/ Closed(x)'
                        \/ \E g \in ToSet(stack') : g.ev = x /\ g.pc \in {"group", "members"}
        BY DEF SignalsKept
    <2>1. \/ Queued(x) \/ Closed(x)
          \/ \E g \in ToSet(stack) : g.ev = x /\ g.pc \in {"group", "members"}
        BY <1>3 DEF Kept, SignalsKept
    <2> QED BY <1>3, <1>4, <1>5, <1>6, <1>8, <2>1, StackIs DEF Notified
<1> QED BY <1>4, <1>6, <1>7, <1>9 DEF Kept

-----------------------------------------------------------------------------
(***************************************************************************)
(* CoreCreateEventInternal and CoreCloseEvent                              *)
(***************************************************************************)
LEMMA CreateKept ==
    ASSUME IInv, Levelled, Kept, NEW e \in Events, CreateEvent(e)
    PROVE  Kept'
<1>1. /\ Top \in FrameType /\ Top.pc = "run" /\ FrameKept(Top) /\ NoMembers
      /\ ClosedOnce /\ ListsKept /\ tpl \in Int
    BY StackIs, TopKept, TopIsNoMember DEF CreateEvent, At, Kept, IInv, Types
<1>2. /\ e \notin live /\ ReleaseLock(Top) /\ queue' = queue /\ signal' = signal
      /\ live' = live \cup {e}
      /\ siglist' = IF e \in SignalType THEN Cons(e, siglist) ELSE siglist
    BY DEF CreateEvent
<1>3. PICK r \in FrameType : r.pc = "check" /\ GotoAndCall(Top, r)
    BY <1>1, <1>2, RestorePasses DEF ReleaseLock
<1>4. ToSet(stack') = Low \cup {Top, r} /\ ClosedOnce'
    BY <1>1, <1>3, GotoAndCallSet
<1>5. ToSet(stack') = ToSet(stack) \cup {r}
    BY <1>4, StackIs
<1>6. ASSUME NEW x PROVE (Closed(x)' <=> Closed(x)) /\ (Closing(x)' => Closing(x))
    BY <1>3, <1>5 DEF Closed, Closing
<1>7. ASSUME NEW x PROVE Queued(x)' <=> Queued(x)
    BY <1>2 DEF Queued
<1>8. /\ IsInjective(siglist')
      /\ ToSet(siglist') = IF e \in SignalType THEN ToSet(siglist) \cup {e} ELSE ToSet(siglist)
    <2>1. siglist \in Seq(SignalType) /\ IsInjective(siglist) /\ e \notin ToSet(siglist)
        BY <1>1, <1>2 DEF IInv, Types, ListsKept
    <2>2. CASE e \in SignalType
        <3>1. IsInjective(Cons(e, siglist)) /\ ToSet(Cons(e, siglist)) = ToSet(siglist) \cup {e}
            BY <2>1, <2>2, ConsInjects
        <3> QED BY <1>2, <2>2, <3>1
    <2>3. CASE e \notin SignalType
        BY <1>2, <2>1, <2>3
    <2> QED BY <2>2, <2>3
<1>9. ListsKept'
    BY <1>1, <1>2, <1>7, <1>8 DEF ListsKept
<1>10. FramesKept'
    <2> SUFFICES ASSUME NEW g \in ToSet(stack') PROVE FrameKept(g)'
        BY DEF FramesKept
    <2>1. CASE g = r
        BY <1>3, <2>1 DEF FrameKept
    <2>2. CASE g \in ToSet(stack) /\ g.pc # "free"
        <3>1. FrameKept(g)
            BY <2>2 DEF Kept, FramesKept
        <3>2. g.pc \in {"call", "close"} \cup UsePcs => g.ev \in live'
            BY <1>2, <3>1 DEF FrameKept
        <3> QED BY <1>6, <2>2, <3>1, <3>2, FrameStays
    <2>3. CASE g \in ToSet(stack) /\ g.pc = "free"
        <3>1. Unlinked(g.ev)
            BY <2>3 DEF Kept, FramesKept, FrameKept
        <3>2. g.ev # e
            BY <1>2, <3>1 DEF Unlinked
        <3>3. \A h \in ToSet(stack') : h.pc = "call" => h.ev # g.ev
            BY <1>3, <1>5, <3>1 DEF Unlinked
        <3>4. Unlinked(g.ev)'
            BY <1>2, <1>7, <1>8, <3>1, <3>2, <3>3 DEF Unlinked
        <3> QED BY <2>3, <3>4 DEF FrameKept
    <2> QED BY <1>5, <2>1, <2>2, <2>3
<1>11. MembersKept'
    BY <1>1, <1>3, <1>5 DEF MembersKept, NoMembers
<1>12. SignalsKept'
    <2> SUFFICES ASSUME NEW x \in SignalType, signal'[x] = 1
                 PROVE  \/ Queued(x)' \/ Closed(x)'
                        \/ \E g \in ToSet(stack') : g.ev = x /\ g.pc \in {"group", "members"}
        BY DEF SignalsKept
    <2>1. \/ Queued(x) \/ Closed(x)
          \/ \E g \in ToSet(stack) : g.ev = x /\ g.pc \in {"group", "members"}
        BY <1>2 DEF Kept, SignalsKept
    <2> QED BY <1>5, <1>6, <1>7, <2>1
<1>13. LiveKept'
    BY <1>2, <1>6, <1>8 DEF Kept, LiveKept
<1> QED BY <1>4, <1>9, <1>10, <1>11, <1>12, <1>13 DEF Kept

\* CoreCloseEvent begins: no service is in progress on the event.
LEMMA CloseKept ==
    ASSUME OwnersClose, IInv, Levelled, Kept, NEW e \in Events, CloseEvent(e)
    PROVE  Kept'
<1>1. /\ Top.pc = "run" /\ Top.ev \in Callers /\ NoMembers
      /\ ClosedOnce /\ ListsKept /\ FramesKept
    BY StackIs, TopIsNoMember DEF CloseEvent, At, GoodFrame, Kept
<1>2. /\ e \in live /\ e \in Closable /\ ~Closing(e) /\ ~InUse(e)
      /\ UNCHANGED <<queue, siglist, signal, live>>
    BY <1>1 DEF CloseEvent, MayUse, MayClose, OwnersClose, Closable
<1>3. PICK f \in FrameType : f.pc = "close" /\ f.ev = e /\ Call(f)
    <2> DEFINE g == Frame("close", e, 0, 0)
    <2>1. g \in FrameType /\ g.pc = "close" /\ g.ev = e
        BY DEF Frame, FrameType, Pcs, Callers
    <2>2. Call(g)
        BY DEF CloseEvent
    <2> HIDE DEF g
    <2> QED BY <2>1, <2>2
<1>4. ToSet(stack') = ToSet(stack) \cup {f} /\ ClosedOnce'
    <2>1. \A g \in ToSet(stack) : g.pc \in ClosePcs => g.ev # f.ev
        BY <1>2, <1>3 DEF Closing
    <2> QED BY <1>1, <1>3, <2>1, StackIs, SetPush DEF Call, ClosedOnce
<1>5. ASSUME NEW x PROVE (Closed(x)' <=> Closed(x)) /\ (Closing(x)' => Closing(x) \/ x = e)
    BY <1>3, <1>4 DEF Closed, Closing
<1>6. ASSUME NEW x PROVE Queued(x)' <=> Queued(x)
    BY <1>2 DEF Queued
<1>7. ListsKept'
    BY <1>1, <1>2, <1>6 DEF ListsKept
<1>8. ASSUME NEW g \in ToSet(stack) PROVE FrameKept(g)'
    <2>1. FrameKept(g)
        BY <1>1 DEF FramesKept
    <2>2. CASE g.pc = "free"
        <3>1. Unlinked(g.ev)
            BY <2>1, <2>2 DEF FrameKept
        <3>2. \A h \in ToSet(stack') : h.pc = "call" => h.ev # g.ev
            BY <1>3, <1>4, <3>1 DEF Unlinked
        <3>3. Unlinked(g.ev)'
            BY <1>2, <1>6, <3>1, <3>2 DEF Unlinked
        <3> QED BY <2>2, <3>3 DEF FrameKept
    <2>3. CASE g.pc \in UsePcs
        <3>1. g.ev # e /\ g.ev \in live /\ ~Closing(g.ev)
            BY <1>2, <2>1, <2>3 DEF InUse, FrameKept
        <3>2. g.ev \in live' /\ ~Closing(g.ev)'
            BY <1>2, <1>5, <3>1
        <3> QED BY <2>3, <3>2 DEF FrameKept
    <2>4. CASE g.pc \in {"wait", "waited"}
        <3>1. Waiting
            BY <2>4 DEF Waiting, ToSet
        <3>2. \A x \in ToSet(WaitList) : x # e /\ ~Closing(x)
            BY <1>2, <2>1, <2>4, <3>1 DEF InUse, FrameKept
        <3> QED BY <1>5, <2>4, <3>2 DEF FrameKept
    <2>5. CASE g.pc \notin {"free", "wait", "waited"} \cup UsePcs
        BY <1>2, <2>1, <2>5 DEF FrameKept
    <2> QED BY <2>2, <2>3, <2>4, <2>5
<1>9. FramesKept'
    <2>1. FrameKept(f)'
        BY <1>2, <1>3 DEF FrameKept
    <2> QED BY <1>4, <1>8, <2>1 DEF FramesKept
<1>10. MembersKept'
    BY <1>1, <1>3, <1>4 DEF MembersKept, NoMembers
<1>11. SignalsKept'
    <2> SUFFICES ASSUME NEW x \in SignalType, signal'[x] = 1
                 PROVE  \/ Queued(x)' \/ Closed(x)'
                        \/ \E g \in ToSet(stack') : g.ev = x /\ g.pc \in {"group", "members"}
        BY DEF SignalsKept
    <2>1. \/ Queued(x) \/ Closed(x)
          \/ \E g \in ToSet(stack) : g.ev = x /\ g.pc \in {"group", "members"}
        BY <1>2 DEF Kept, SignalsKept
    <2> QED BY <1>4, <1>5, <1>6, <2>1
<1>12. LiveKept'
    BY <1>2, <1>5 DEF Kept, LiveKept
<1> QED BY <1>4, <1>7, <1>9, <1>10, <1>11, <1>12 DEF Kept

\* It unlinks the event; what is left of it is the frame that frees it.
LEMMA CloseUnlinkKept ==
    ASSUME OwnersClose, IInv, Levelled, Kept, CloseUnlink
    PROVE  Kept'
<1>0. PICK e \in Events : e = Top.ev
    BY StackIs DEF CloseUnlink, At, GoodFrame
<1>1. /\ Top.pc = "close" /\ Top \in FrameType /\ NoMembers
      /\ ClosedOnce /\ ListsKept /\ FramesKept /\ tpl \in Int
      /\ e \in live /\ e \in Closable /\ Closing(e)
    <2>1. Top.pc = "close"
        BY DEF CloseUnlink, At
    <2> QED BY <1>0, <2>1, StackIs, TopKept, TopIsNoMember
        DEF Kept, FrameKept, IInv, Types, Closing
<1>2. signal' = signal /\ live' = live /\ siglist' = Unlink(siglist, e)
    BY <1>0 DEF CloseUnlink
<1>3. PICK f \in FrameType, r \in FrameType :
            f.pc = "free" /\ f.ev = e /\ r.pc = "check" /\ GotoAndCall(f, r)
    <2> DEFINE g == [Top EXCEPT !.pc = "free"]
               h == RestoreTpl(tpl)
    <2>1. g \in FrameType /\ g.pc = "free" /\ g.ev = e
        BY <1>0, <1>1 DEF FrameType, Pcs
    <2>2. h \in FrameType /\ h.pc = "check"
        BY <1>1, RestorePasses
    <2>3. GotoAndCall(g, h)
        BY DEF CloseUnlink, ReleaseLock
    <2> HIDE DEF g, h
    <2> QED BY <2>1, <2>2, <2>3
<1>4. ToSet(stack') = Low \cup {f, r} /\ ClosedOnce'
    <2>1. PICK s : s = [stack EXCEPT ![Len(stack)] = f]
        OBVIOUS
    <2>2. Last(stack).pc = "close" /\ Last(stack).ev = f.ev
        BY <1>0, <1>1, <1>3 DEF Top
    <2>3. IsStack(s) /\ ToSet(s) = Low \cup {f} /\ Once(s)
        BY <1>1, <2>1, <2>2, StackIs, SetReplace DEF ClosedOnce, Low
    <2>4. stack' = Append(s, r)
        BY <1>3, <2>1 DEF GotoAndCall
    <2>5. ToSet(stack') = ToSet(s) \cup {r} /\ Once(stack')
        BY <1>3, <2>3, <2>4, SetPush
    <2> QED BY <2>3, <2>5 DEF ClosedOnce
<1>5. /\ IsInjective(siglist') /\ ToSet(siglist') = ToSet(siglist) \ {e}
    BY <1>1, <1>2, UnlinkInjective DEF IInv, Types, ListsKept
<1>6. /\ \A p \in Levels : IsInjective(queue'[p])
      /\ \A x \in SignalType \cup WaitType : Queued(x)' <=> Queued(x) /\ x # e
    <2>1. CASE e \in SignalType \cup WaitType
        <3> DEFINE p == NotifyTpl[e]
                   q == Unlink(queue[p], e)
        <3>1. p \in Levels
            BY <2>1, NotifyLevel
        <3>2. IsInjective(q) /\ ToSet(q) = ToSet(queue[p]) \ {e}
            BY <1>1, <3>1, QueueOf, UnlinkInjective
        <3>3. queue' = [queue EXCEPT ![p] = q]
            BY <1>0, <2>1 DEF CloseUnlink
        <3> HIDE DEF q
        <3>4. \A n \in Levels : IsInjective(queue'[n])
            BY <1>1, <3>1, <3>2, <3>3, OneQueueKept
        <3>5. ASSUME NEW x \in SignalType \cup WaitType
              PROVE  Queued(x)' <=> Queued(x) /\ x # e
            BY <2>1, <3>2, <3>3, OneQueue
        <3> QED BY <3>4, <3>5
    <2>2. CASE e \notin SignalType \cup WaitType
        <3>1. queue' = queue
            BY <1>0, <2>2 DEF CloseUnlink
        <3> QED BY <1>1, <2>2, <3>1 DEF Queued, ListsKept
    <2> QED BY <2>1, <2>2
<1>7. ListsKept'
    BY <1>1, <1>2, <1>5, <1>6 DEF ListsKept
<1>8. ASSUME NEW x
      PROVE  (Closed(x)' <=> Closed(x) \/ x = e) /\ (Closing(x)' => Closing(x))
    <2>1. Closed(x)' <=> Closed(x) \/ x = e
        BY <1>1, <1>3, <1>4, StackIs DEF Closed
    <2>2. Closing(x)' => Closing(x)
        BY <1>1, <1>3, <1>4, StackIs DEF Closing
    <2> QED BY <2>1, <2>2
<1>9. FramesKept'
    <2> SUFFICES ASSUME NEW g \in ToSet(stack') PROVE FrameKept(g)'
        BY DEF FramesKept
    <2>1. CASE g = f
        <3>1. ~Queued(e)' /\ e \notin ToSet(siglist')
            BY <1>5, <1>6 DEF Queued
        <3>2. \A h \in ToSet(stack') : h.pc = "call" => h.ev # e
            BY <1>0, <1>1, <1>3, <1>4, StackIs, NotTaken
        <3>3. Unlinked(e)'
            BY <1>1, <1>2, <3>1, <3>2 DEF Unlinked
        <3> QED BY <1>3, <2>1, <3>3 DEF FrameKept
    <2>2. CASE g = r
        BY <1>3, <2>2 DEF FrameKept
    <2>3. CASE g \in Low /\ g.pc # "free"
        <3>1. FrameKept(g)
            BY <1>1, <2>3, StackIs DEF FramesKept
        <3>2. g.pc \in {"call", "close"} \cup UsePcs => g.ev \in live'
            BY <1>2, <3>1 DEF FrameKept
        <3> QED BY <1>8, <2>3, <3>1, <3>2, FrameStays
    <2>4. CASE g \in Low /\ g.pc = "free"
        <3>1. Unlinked(g.ev)
            BY <1>1, <2>4, StackIs DEF FramesKept, FrameKept
        <3>2. ~Queued(g.ev)' /\ g.ev \notin ToSet(siglist')
            BY <1>5, <1>6, <3>1 DEF Unlinked, Queued
        <3>3. \A h \in ToSet(stack') : h.pc = "call" => h.ev # g.ev
            BY <1>3, <1>4, <3>1, StackIs DEF Unlinked
        <3>4. Unlinked(g.ev)'
            BY <1>2, <3>1, <3>2, <3>3 DEF Unlinked
        <3> QED BY <2>4, <3>4 DEF FrameKept
    <2> QED BY <1>4, <2>1, <2>2, <2>3, <2>4
<1>10. MembersKept'
    BY <1>1, <1>3, <1>4, StackIs DEF MembersKept, NoMembers
<1>11. SignalsKept'
    <2> SUFFICES ASSUME NEW x \in SignalType, signal'[x] = 1
                 PROVE  \/ Queued(x)' \/ Closed(x)'
                        \/ \E g \in ToSet(stack') : g.ev = x /\ g.pc \in {"group", "members"}
        BY DEF SignalsKept
    <2>1. \/ Queued(x) \/ Closed(x)
          \/ \E g \in ToSet(stack) : g.ev = x /\ g.pc \in {"group", "members"}
        BY <1>2 DEF Kept, SignalsKept
    <2> QED BY <1>1, <1>4, <1>6, <1>8, <2>1, StackIs
<1>12. LiveKept'
    BY <1>2, <1>5, <1>8 DEF Kept, LiveKept
<1> QED BY <1>4, <1>7, <1>9, <1>10, <1>11, <1>12 DEF Kept

\* The frame that frees an event is the only one of a CoreCloseEvent of it.
LEMMA FreedOnce ==
    ASSUME IInv, ClosedOnce, Top.pc = "free", NEW f \in Low, f.pc \in ClosePcs
    PROVE  f.ev # Top.ev
<1> DEFINE n == Len(stack)
<1>1. n \in Nat \ {0} /\ DOMAIN stack = 1 .. n /\ Top = stack[n]
    BY StackIs, StackLast DEF IsStack, Top
<1>2. PICK i \in 1 .. n - 1 : f = stack[i]
    BY DEF Low, Lower
<1> HIDE DEF n
<1>3. i \in 1 .. n /\ n \in 1 .. n /\ i # n
    BY <1>1
<1> QED BY <1>1, <1>2, <1>3 DEF ClosedOnce, Once

LEMMA FreeKept ==
    ASSUME IInv, Levelled, Kept, CloseFree
    PROVE  Kept'
<1>1. PICK e \in Events : e = Top.ev
    BY StackIs DEF CloseFree, At, GoodFrame
<1>2. /\ Top.pc = "free" /\ NoMembers /\ ClosedOnce /\ ListsKept
      /\ Unlinked(e)
    BY <1>1, TopKept, TopIsNoMember DEF CloseFree, At, Kept, FrameKept
<1>3. /\ live' = live \ {e} /\ signal' = [signal EXCEPT ![e] = 0]
      /\ queue' = queue /\ siglist' = siglist /\ Return
    BY <1>1 DEF CloseFree
<1>4. ToSet(stack') = Low /\ ClosedOnce'
    BY <1>2, <1>3, StackIs, SetPop DEF Return, ClosedOnce, Low
<1>5. \A x \in Events : signal'[x] = IF x = e THEN 0 ELSE signal[x]
    BY <1>3 DEF IInv, Types
<1>6. ASSUME NEW x PROVE Queued(x)' <=> Queued(x)
    BY <1>3 DEF Queued
<1>7. \A f \in Low : f.pc \in ClosePcs => f.ev # e
    BY <1>1, <1>2, FreedOnce
<1>8. ASSUME NEW x, x # e PROVE Closed(x)' <=> Closed(x)
    BY <1>1, <1>4, <1>8, StackIs DEF Closed
<1>9. Closing(e) /\ \A x : Closing(x)' => Closing(x)
    BY <1>1, <1>2, <1>4, StackIs DEF Closing
<1>10. ListsKept'
    <2>1. ~Queued(e) /\ e \notin ToSet(siglist)
        BY <1>2 DEF Unlinked
    <2>2. \A x \in SignalType \cup WaitType : Queued(x)' => x \in live'
        BY <1>2, <1>3, <1>6, <2>1 DEF ListsKept
    <2> QED BY <1>2, <1>3, <2>1, <2>2 DEF ListsKept
<1>11. FramesKept'
    <2> SUFFICES ASSUME NEW g \in Low PROVE FrameKept(g)'
        BY <1>4 DEF FramesKept
    <2>1. FrameKept(g) /\ g \in ToSet(stack)
        BY StackIs DEF Kept, FramesKept
    <2>2. CASE g.pc = "free"
        <3>1. Unlinked(g.ev) /\ g.ev # e
            BY <1>7, <2>1, <2>2 DEF FrameKept
        <3>2. \A h \in ToSet(stack') : h.pc = "call" => h.ev # g.ev
            BY <1>4, <3>1, StackIs DEF Unlinked
        <3>3. Unlinked(g.ev)'
            BY <1>3, <1>6, <3>1, <3>2 DEF Unlinked
        <3> QED BY <2>2, <3>3 DEF FrameKept
    <2>3. CASE g.pc # "free"
        <3>1. g.pc = "call" => g.ev # e
            BY <1>2, <2>1 DEF Unlinked
        <3>2. g.pc \in UsePcs => g.ev # e
            BY <1>9, <2>1 DEF FrameKept
        <3>3. g.pc = "close" => g.ev # e
            BY <1>7
        <3>4. g.pc \in {"call", "close"} \cup UsePcs => g.ev \in live'
            BY <1>3, <2>1, <3>1, <3>2, <3>3 DEF FrameKept
        <3> QED BY <1>9, <2>1, <2>3, <3>4, FrameStays
    <2> QED BY <2>2, <2>3
<1>12. MembersKept'
    BY <1>2, <1>4, StackIs DEF MembersKept, NoMembers
<1>13. SignalsKept'
    <2> SUFFICES ASSUME NEW x \in SignalType, signal'[x] = 1
                 PROVE  \/ Queued(x)' \/ Closed(x)'
                        \/ \E g \in ToSet(stack') : g.ev = x /\ g.pc \in {"group", "members"}
        BY DEF SignalsKept
    <2>1. x # e /\ signal[x] = 1
        BY <1>5, EventAssumption
    <2>2. \/ Queued(x) \/ Closed(x)
          \/ \E g \in ToSet(stack) : g.ev = x /\ g.pc \in {"group", "members"}
        BY <2>1 DEF Kept, SignalsKept
    <2> QED BY <1>1, <1>4, <1>6, <1>8, <2>1, <2>2, StackIs
<1>14. LiveKept'
    <2> SUFFICES ASSUME NEW x \in SignalType
                 PROVE  /\ x \notin live' => signal'[x] = 0
                        /\ x \in live' => x \in ToSet(siglist') \/ Closed(x)'
        BY DEF LiveKept
    <2>1. CASE x = e
        BY <1>3, <1>5, <2>1
    <2>2. CASE x # e
        BY <1>3, <1>5, <1>8, <2>2, EventAssumption DEF Kept, LiveKept
    <2> QED BY <2>1, <2>2
<1> QED BY <1>4, <1>10, <1>11, <1>12, <1>13, <1>14 DEF Kept

-----------------------------------------------------------------------------
(***************************************************************************)
(* The invariant                                                           *)
(***************************************************************************)
LEMMA InitKept ==
    ASSUME IsInjective(InitSigs), Init
    PROVE  Kept
<1> DEFINE f == Code(App, TPL_APPLICATION)
<1>1. f.pc = "run" /\ f.lo = TPL_APPLICATION
    BY DEF Code, Frame
<1>2. stack = << f >>
    BY DEF Init
<1> HIDE DEF f
<1>3. ToSet(stack) = {f} /\ DOMAIN stack = 1 .. 1
    BY <1>2 DEF ToSet
<1>4. \A x \in SignalType \cup WaitType : ~Queued(x)
    <2>1. \A p \in Levels : ToSet(queue[p]) = {}
        BY DEF Init, ToSet
    <2> QED BY <2>1, NotifyLevel DEF Queued
<1>5. \A p \in Levels : IsInjective(queue[p])
    BY DEF Init, IsInjective
<1>6. ListsKept
    BY <1>4, <1>5 DEF Init, ListsKept
<1>7. FramesKept /\ MembersKept
    BY <1>1, <1>3 DEF FramesKept, FrameKept, MembersKept
<1>8. ClosedOnce
    BY <1>3 DEF ClosedOnce, Once
<1>9. \A x \in SignalType : signal[x] = 0
    BY EventAssumption DEF Init
<1>10. SignalsKept /\ LiveKept
    BY <1>9 DEF SignalsKept, LiveKept, Init
<1> QED BY <1>6, <1>7, <1>8, <1>10 DEF Kept

LEMMA StepKeeps ==
    ASSUME OwnersClose, ~LoadTwice, IInv, Levelled, Kept, [Next]_vars
    PROVE  Kept'
<1>0. CloserOwns
    BY DEF OwnersClose
<1>1. CASE UNCHANGED vars
    BY <1>1 DEF vars, Kept, ListsKept, FramesKept, FrameKept, Unlinked, ClosedOnce,
                MembersKept, MemberKept, SignalsKept, LiveKept, Queued, Closed, Closing
<1>2. CASE CoreStep
    BY <1>0, <1>2, TplKept, MoveOnKept, WaitCheckKept, SignalStepsKept, SignalLockedKept,
       CheckKept, CheckClearKept, TakeKept, GroupLockKept, GroupMemberKept, GroupUnlockKept,
       CloseUnlinkKept, FreeKept DEF CoreStep
<1>3. CASE CodeStep
    BY <1>0, <1>3, TplKept, MoveOnKept, SignalStepsKept, CheckKept, CreateKept,
       CloseKept DEF CodeStep
<1>4. CASE Tick
    BY <1>0, <1>4, TickKept
<1> QED BY <1>1, <1>2, <1>3, <1>4 DEF Next

LEMMA KeptMeans ==
    ASSUME IInv, Levelled, Kept
    PROVE  EventsKept
<1>1. NoDeadEvent
    <2>1. ASSUME NEW e, NEW f \in ToSet(stack), f.ev = e, f.pc \in {"group", "members"}
          PROVE  \E i \in DOMAIN stack : /\ stack[i].ev = e
                                         /\ stack[i].pc \in {"group", "members"}
        BY <2>1 DEF ToSet
    <2>2. ASSUME NEW e, Closed(e)
          PROVE  \E i \in DOMAIN stack : stack[i].ev = e /\ stack[i].pc = "free"
        BY <2>2 DEF Closed, ToSet
    <2> QED BY <2>1, <2>2 DEF Kept, SignalsKept, NoDeadEvent
<1>2. \A p \in Levels : ToSet(queue[p]) \subseteq live
    <2> SUFFICES ASSUME NEW p \in Levels, NEW x \in ToSet(queue[p]) PROVE x \in live
        OBVIOUS
    <2>1. x \in SignalType \cup WaitType /\ NotifyTpl[x] = p
        BY QueueOf DEF Kept
    <2> QED BY <2>1 DEF Kept, ListsKept, Queued
<1>3. \A i \in DOMAIN stack :
         stack[i].pc \in {"call"} \cup UsePcs \cup ClosePcs => stack[i].ev \in live
    BY DEF Kept, FramesKept, FrameKept, Unlinked, ToSet
<1> QED BY <1>1, <1>2, <1>3 DEF EventsKept, OnlyLiveEvents, Kept, ListsKept

-----------------------------------------------------------------------------
(* Where events are closed by their owners, a signaled event is always on  *)
(* its way to its notification function: it is queued, or CoreSignalEvent  *)
(* is about to queue its group, or it is being closed.  And the core holds *)
(* or uses no event that CoreCloseEvent has freed, though its services take*)
(* the lock only after their test of the Signature.  The hypothesis says   *)
(* what the callers of the services owe, which the core does not check.    *)
THEOREM EventsSafe == ~LoadTwice /\ OwnersClose => (Spec => []EventsKept)
<1>1. ASSUME ~LoadTwice PROVE Spec => [](IInv /\ Levelled)
    BY <1>1, LevelledInvariant
<1>2. ASSUME ~LoadTwice, OwnersClose PROVE Init => Kept
    BY <1>2, InitKept DEF OwnersClose
<1>3. ASSUME ~LoadTwice, OwnersClose
      PROVE  IInv /\ Levelled /\ Kept /\ [Next]_vars => Kept'
    BY <1>3, StepKeeps
<1>4. IInv /\ Levelled /\ Kept => EventsKept
    BY KeptMeans
<1>5. ASSUME ~LoadTwice, OwnersClose PROVE Spec => []EventsKept
    BY <1>1, <1>2, <1>3, <1>4, <1>5, PTL DEF Spec
<1> QED BY <1>5

-----------------------------------------------------------------------------
(***************************************************************************)
(* Proof that DxeEvent implements EventNotify: the queues, the pending     *)
(* mask, the lock and the nested dispatchers keep the promise of a         *)
(* preemptive scheduler of notification functions.                         *)
(***************************************************************************)
(***************************************************************************)
(* The inductive invariant adds to IInv and Levelled what the mapping      *)
(* needs: to take an event from a queue is to want it no longer, and the   *)
(* application returns to the level it was called at.                      *)
(***************************************************************************)
QueuesOnce == \A p \in Levels : IsInjective(queue[p])

AppLow == \A f \in ToSet(stack) : IsBottom(f) => f.lo = TPL_APPLICATION

Own == QueuesOnce /\ AppLow

\* The code that the promise is about: what is in progress or about to be called.
IsCode(f) == f.pc \in {"run", "call"}
SameCode  == {f \in ToSet(stack') : IsCode(f)} = {f \in ToSet(stack) : IsCode(f)}

-----------------------------------------------------------------------------
(***************************************************************************)
(* What a step makes of the stack: the frames of G replace the running one.*)
(***************************************************************************)
Becomes(G) == ToSet(stack') = Low \cup G

LEMMA GotoBecomes ==
    ASSUME IInv, NEW f \in FrameType, Goto(f)
    PROVE  Becomes({f})
BY StackIs, SetReplace DEF Goto, Low, Becomes

LEMMA CallBecomes ==
    ASSUME IInv, NEW f \in FrameType, Call(f)
    PROVE  Becomes({Top, f})
<1>1. ToSet(stack') = ToSet(stack) \cup {f}
    BY StackIs, SetPush DEF Call
<1> QED BY <1>1, StackIs DEF Becomes

LEMMA ReturnBecomes ==
    ASSUME IInv, Return
    PROVE  Becomes({})
BY StackIs, SetPop DEF Return, Low, Becomes

LEMMA GotoAndCallBecomes ==
    ASSUME IInv, NEW f \in FrameType, NEW g \in FrameType, GotoAndCall(f, g)
    PROVE  Becomes({f, g})
<1> DEFINE s == [stack EXCEPT ![Len(stack)] = f]
<1>1. IsStack(s) /\ ToSet(s) = Low \cup {f}
    BY StackIs, SetReplace DEF Low
<1>2. stack' = Append(s, g)
    BY DEF GotoAndCall
<1> HIDE DEF s
<1>3. ToSet(stack') = ToSet(s) \cup {g}
    BY <1>1, <1>2, SetPush
<1> QED BY <1>1, <1>3 DEF Becomes

\* CoreRestoreTpl is entered above the frame f, or in place of the running one.
LEMMA ReleaseBecomes ==
    ASSUME IInv
    PROVE  /\ tpl \in Int /\ RestoreTpl(tpl) \in FrameType /\ RestoreTpl(tpl).pc = "check"
           /\ \A f \in FrameType : ReleaseLock(f) => Becomes({f, RestoreTpl(tpl)})
           /\ ReleaseAndReturn => Becomes({RestoreTpl(tpl)})
<1>1. tpl \in Int /\ RestoreTpl(tpl) \in FrameType /\ RestoreTpl(tpl).pc = "check"
    BY RestorePasses DEF IInv, Types
<1> QED BY <1>1, GotoBecomes, GotoAndCallBecomes DEF ReleaseLock, ReleaseAndReturn

LEMMA PushTwoBecomes ==
    ASSUME IInv, NEW s, IsStack(s), NEW F, ToSet(s) = Low \cup F,
           NEW g \in FrameType, NEW h \in FrameType, stack' = Append(Append(s, g), h)
    PROVE  Becomes(F \cup {g, h})
<1> DEFINE r == Append(s, g)
<1>1. IsStack(r) /\ ToSet(r) = ToSet(s) \cup {g}
    BY SetPush
<1> HIDE DEF r
<1>2. ToSet(Append(r, h)) = ToSet(r) \cup {h}
    BY <1>1, SetPush
<1> QED BY <1>1, <1>2 DEF r, Becomes

\* A step of the core or of a caller moves no code of the promise, but its own.
LEMMA CodeStays ==
    ASSUME IInv, NEW G, Becomes(G), \A g \in G : ~IsCode(g) \/ g = Top,
           ~IsCode(Top) \/ Top \in G
    PROVE  SameCode
BY StackIs DEF Becomes, SameCode

-----------------------------------------------------------------------------
(***************************************************************************)
(* What is below the running frame                                         *)
(***************************************************************************)
CodeLevel(f) == IF f.pc = "run" THEN f.hi ELSE NotifyTpl[f.ev]

LEMMA BelowCode ==
    ASSUME IInv, Levelled, Top.pc \in {"run", "take", "call"}, NEW f \in Low, IsCode(f)
    PROVE  CodeLevel(f) \in Int /\ Top.lo \in Int /\ CodeLevel(f) < Top.lo
<1> DEFINE n == Len(stack)
<1>1. IsStack(stack) /\ n \in Nat \ {0} /\ Top = stack[n] /\ Top \in FrameType
    BY StackIs, StackLast DEF Top
<1>2. PICK L \in [1 .. Len(stack) -> Int] : Chain(stack, L)
    BY DEF Levelled, StackLevels, Nested
<1>3. PICK i \in 1 .. n - 1 : f = stack[i]
    BY <1>1 DEF Low, Lower
<1> HIDE DEF n
<1>4. n - 1 \in 1 .. n - 1 /\ i \in 1 .. n /\ n - 1 \in 1 .. n /\ n \in 1 .. n
    BY <1>1, <1>3
<1>5. Above(stack[n - 1], L[n - 1], stack[n], L[n])
    <2>1. n - 1 \in 1 .. Len(stack) - 1 /\ (n - 1) + 1 = n
        BY <1>1, <1>4 DEF n
    <2>2. Above(stack[n - 1], L[n - 1], stack[(n - 1) + 1], L[(n - 1) + 1])
        BY <1>2, <2>1 DEF Chain
    <2> QED BY <2>1, <2>2
<1>6. /\ FrameAt(f, L[i]) /\ FrameAt(Top, L[n])
      /\ L[i] \in Int /\ L[n - 1] \in Int /\ L[n] \in Int /\ Top.lo \in Int
    BY <1>1, <1>2, <1>3, <1>4 DEF Chain, n, FrameType
<1>7. CodeLevel(f) = L[i]
    BY <1>6 DEF CodeLevel, IsCode, FrameAt
<1>8. CASE Top.pc \in {"take", "call"}
    <2>1. L[i] <= L[n - 1]
        BY <1>1, <1>2, <1>3, <1>4 DEF Chain, n
    <2>2. L[n - 1] < L[n] /\ L[n] = Top.lo
        BY <1>1, <1>5, <1>6, <1>8 DEF Above, FrameAt
    <2> QED BY <1>6, <1>7, <2>1, <2>2
\* Code was called by a dispatcher, and that one by a RestoreTPL below its level.
<1>9. CASE Top.pc = "run"
    <2>1. stack[n - 1].pc = "take" /\ Top.lo = L[n - 1] /\ i < n - 1
        <3>1. stack[n - 1].pc = "take" /\ Top.lo = L[n - 1]
            BY <1>1, <1>5, <1>9 DEF Above
        <3>2. i # n - 1
            BY <1>3, <3>1 DEF IsCode
        <3> QED BY <1>1, <1>3, <3>1, <3>2
    <2>2. n - 2 \in 1 .. n - 1 /\ n - 2 \in 1 .. n /\ (n - 2) + 1 = n - 1 /\ i <= n - 2
        BY <1>1, <1>4, <2>1
    <2>3. Above(stack[n - 2], L[n - 2], stack[n - 1], L[n - 1])
        <3>1. Above(stack[n - 2], L[n - 2], stack[(n - 2) + 1], L[(n - 2) + 1])
            BY <1>2, <2>2 DEF Chain, n
        <3> QED BY <2>2, <3>1
    <2>4. L[n - 2] < L[n - 1]
        BY <2>1, <2>3 DEF Above
    <2>5. L[i] <= L[n - 2] /\ L[n - 2] \in Int
        BY <1>2, <1>4, <2>2 DEF Chain, n
    <2> QED BY <1>6, <1>7, <2>1, <2>4, <2>5
<1> QED BY <1>8, <1>9

-----------------------------------------------------------------------------
(***************************************************************************)
(* The steps of the promise that leave the code in progress as it is       *)
(***************************************************************************)
LEMMA SameCodeMeans ==
    ASSUME SameCode
    PROVE  Chosen' = Chosen /\ Active' = Active /\ (AppLow => AppLow')
<1>1. FramesAt("run")' = FramesAt("run")
    BY DEF SameCode, IsCode, FramesAt
<1>2. FramesAt("call")' = FramesAt("call")
    BY DEF SameCode, IsCode, FramesAt
<1>3. AppLow => AppLow'
    BY DEF SameCode, IsCode, AppLow, IsBottom
<1> QED BY <1>1, <1>2, <1>3 DEF Chosen, Active

LEMMA OwnQueue ==
    ASSUME IInv, Levelled, QueuesOnce, NEW p \in Levels
    PROVE  /\ queue[p] \in Seq(SignalType \cup WaitType) /\ IsInjective(queue[p])
           /\ \A x \in ToSet(queue[p]) : x \in SignalType \cup WaitType /\ NotifyTpl[x] = p
<1>1. queue[p] \in Seq(AtLevel(p))
    BY DEF Levelled, QueueLevels
<1>2. \A x \in ToSet(queue[p]) : x \in AtLevel(p)
    BY <1>1, ElementOfSeq DEF ToSet
<1> QED BY <1>2 DEF IInv, Types, QueuesOnce, AtLevel

\* The list of one level is replaced: only e is taken out of it, or only e put in.
LEMMA OwnOneQueue ==
    ASSUME IInv, QueuesOnce, NEW e \in SignalType \cup WaitType, NEW q, IsInjective(q),
           queue' = [queue EXCEPT ![NotifyTpl[e]] = q],
           \A x : x # e => (x \in ToSet(q) <=> x \in ToSet(queue[NotifyTpl[e]]))
    PROVE  /\ QueuesOnce'
           /\ Wanted' = IF e \in ToSet(q) THEN Wanted \cup {e} ELSE Wanted \ {e}
<1>1. NotifyTpl[e] \in Levels
    BY NotifyLevel
<1>2. QueuesOnce'
    BY <1>1 DEF QueuesOnce, IInv, Types
<1>3. \A x \in SignalType \cup WaitType :
         Queued(x)' <=> IF x = e THEN e \in ToSet(q) ELSE Queued(x)
    BY OneQueue
<1> QED BY <1>2, <1>3 DEF Wanted

\* What a step keeps: the promise, and the invariant.
Answered == [Promise!Next]_(Promise!nvars) /\ Own'

LEMMA QuietAnswered ==
    ASSUME Own, SameCode, UNCHANGED queue
    PROVE  Answered
<1>1. Wanted' = Wanted
    BY DEF Wanted, Queued
<1>2. Own'
    BY SameCodeMeans DEF Own, QueuesOnce
<1> QED BY <1>1, <1>2, SameCodeMeans DEF Answered, Promise!nvars

LEMMA NotifyAnswered ==
    ASSUME IInv, Levelled, Own, SameCode, NEW e \in SignalType \cup WaitType, NotifyEvent(e)
    PROVE  Answered
<1> DEFINE p == NotifyTpl[e]
           r == Unlink(queue[p], e)
           q == Append(r, e)
<1>1. p \in Levels
    BY NotifyLevel
<1>2. queue[p] \in Seq(SignalType \cup WaitType) /\ IsInjective(queue[p])
    BY <1>1, OwnQueue DEF Own
<1>3. /\ r \in Seq(SignalType \cup WaitType) /\ IsInjective(r)
      /\ ToSet(r) = ToSet(queue[p]) \ {e}
    BY <1>2, UnlinkInjective
<1> HIDE DEF r
<1>4. IsInjective(q) /\ ToSet(q) = ToSet(r) \cup {e}
    BY <1>3, AppendInjects
<1>5. queue' = [queue EXCEPT ![p] = q]
    BY <1>1 DEF NotifyEvent, r, IInv, Types
<1> HIDE DEF q
<1>6. e \in ToSet(q) /\ \A x : x # e => (x \in ToSet(q) <=> x \in ToSet(queue[p]))
    BY <1>3, <1>4
<1>7. QueuesOnce' /\ Wanted' = Wanted \cup {e}
    BY <1>4, <1>5, <1>6, OwnOneQueue DEF Own
<1>8. Promise!Want(e)
    BY <1>7, SameCodeMeans DEF Promise!Want
<1>9. Own'
    BY <1>7, SameCodeMeans DEF Own
<1> QED BY <1>8, <1>9 DEF Answered, Promise!Next

LEMMA CloseAnswered ==
    ASSUME IInv, Levelled, Own, CloseUnlink
    PROVE  Answered
<1>0. PICK e \in Events : e = Top.ev
    BY StackIs DEF CloseUnlink, At, GoodFrame
<1>1. SameCode
    <2>1. PICK f \in FrameType : f.pc = "free" /\ ReleaseLock(f)
        <3> DEFINE f == [Top EXCEPT !.pc = "free"]
        <3>1. f \in FrameType /\ f.pc = "free"
            BY StackIs DEF FrameType, Pcs
        <3> QED BY <3>1 DEF CloseUnlink
    <2>2. PICK r \in FrameType : r.pc = "check" /\ Becomes({f, r})
        BY <2>1, ReleaseBecomes
    <2> QED BY <2>1, <2>2, CodeStays DEF IsCode, CloseUnlink, At
<1>2. CASE e \notin SignalType \cup WaitType
    BY <1>0, <1>1, <1>2, QuietAnswered DEF CloseUnlink
<1>3. CASE e \in SignalType \cup WaitType
    <2> DEFINE q == Unlink(queue[NotifyTpl[e]], e)
    <2>1. /\ queue[NotifyTpl[e]] \in Seq(SignalType \cup WaitType)
          /\ IsInjective(queue[NotifyTpl[e]])
        BY <1>3, NotifyLevel, OwnQueue DEF Own
    <2>2. IsInjective(q) /\ ToSet(q) = ToSet(queue[NotifyTpl[e]]) \ {e}
        BY <2>1, UnlinkInjective
    <2>3. queue' = [queue EXCEPT ![NotifyTpl[e]] = q]
        BY <1>0, <1>3 DEF CloseUnlink
    <2> HIDE DEF q
    <2>4. QueuesOnce' /\ Wanted' = Wanted \ {e}
        BY <1>3, <2>2, <2>3, OwnOneQueue DEF Own
    <2>5. Own'
        BY <1>1, <2>4, SameCodeMeans DEF Own
    <2>6. CASE e \in Wanted
        <3>1. Promise!Withdraw(e)
            BY <1>1, <2>4, <2>6, SameCodeMeans DEF Promise!Withdraw
        <3> QED BY <1>3, <2>5, <3>1 DEF Answered, Promise!Next
    <2>7. CASE e \notin Wanted
        <3>1. Wanted' = Wanted
            BY <2>4, <2>7
        <3> QED BY <1>1, <2>5, <3>1, SameCodeMeans DEF Answered, Promise!nvars
    <2> QED BY <2>6, <2>7
<1> QED BY <1>2, <1>3

-----------------------------------------------------------------------------
(***************************************************************************)
(* The steps of the promise that change the code in progress               *)
(***************************************************************************)
CodeOf(f)   == [ev |-> f.ev, at |-> f.hi]
ActiveOf(S) == {CodeOf(f) : f \in {g \in S : g.pc = "run"}}
ChosenOf(S) == {f.ev : f \in {g \in S : g.pc = "call"}}

LEMMA CodeNow ==
    ASSUME IInv
    PROVE  /\ Active = ActiveOf(Low) \cup ActiveOf({Top})
           /\ Chosen = ChosenOf(Low) \cup ChosenOf({Top})
<1>1. ToSet(stack) = Low \cup {Top}
    BY StackIs
<1> QED BY <1>1 DEF Active, Chosen, FramesAt, ActiveOf, ChosenOf, CodeOf

LEMMA CodeThen ==
    ASSUME NEW G, Becomes(G)
    PROVE  /\ Active' = ActiveOf(Low) \cup ActiveOf(G)
           /\ Chosen' = ChosenOf(Low) \cup ChosenOf(G)
BY DEF Becomes, Active, Chosen, FramesAt, ActiveOf, ChosenOf, CodeOf

LEMMA CodeOfFrame ==
    ASSUME NEW f
    PROVE  /\ ActiveOf({f}) = IF f.pc = "run" THEN {CodeOf(f)} ELSE {}
           /\ ChosenOf({f}) = IF f.pc = "call" THEN {f.ev} ELSE {}
BY DEF ActiveOf, ChosenOf

LEMMA CodeOfTwo ==
    ASSUME NEW f, NEW g
    PROVE  /\ ActiveOf({f, g}) = ActiveOf({f}) \cup ActiveOf({g})
           /\ ChosenOf({f, g}) = ChosenOf({f}) \cup ChosenOf({g})
BY DEF ActiveOf, ChosenOf

LEMMA CodeBelow ==
    ASSUME IInv, Levelled, Top.pc \in {"run", "take", "call"}
    PROVE  /\ Top.lo \in Int
           /\ \A d \in ActiveOf(Low) : d.at \in Int /\ d.at < Top.lo
           /\ \A e \in ChosenOf(Low) : NotifyTpl[e] \in Int /\ NotifyTpl[e] < Top.lo
<1>1. Top.lo \in Int
    BY StackIs DEF FrameType
<1>2. ASSUME NEW d \in ActiveOf(Low) PROVE d.at \in Int /\ d.at < Top.lo
    <2>1. PICK f \in Low : f.pc = "run" /\ d = CodeOf(f)
        BY DEF ActiveOf
    <2>2. CodeLevel(f) \in Int /\ CodeLevel(f) < Top.lo
        BY <2>1, BelowCode DEF IsCode
    <2> QED BY <2>1, <2>2 DEF CodeLevel, CodeOf
<1>3. ASSUME NEW e \in ChosenOf(Low) PROVE NotifyTpl[e] \in Int /\ NotifyTpl[e] < Top.lo
    <2>1. PICK f \in Low : f.pc = "call" /\ e = f.ev
        BY DEF ChosenOf
    <2>2. CodeLevel(f) \in Int /\ CodeLevel(f) < Top.lo
        BY <2>1, BelowCode DEF IsCode
    <2> QED BY <2>1, <2>2 DEF CodeLevel
<1> QED BY <1>1, <1>2, <1>3

LEMMA RunningCode ==
    ASSUME IInv, Levelled, AppLow, Top.pc = "run"
    PROVE  /\ Active = ActiveOf(Low) \cup {CodeOf(Top)} /\ Chosen = ChosenOf(Low)
           /\ Active \ {CodeOf(Top)} = ActiveOf(Low)
           /\ Promise!Runs(CodeOf(Top))
           /\ Promise!Base(Top.ev) = Top.lo
           /\ Top.lo \in Int /\ Top.hi \in Int /\ Top.lo <= Top.hi
<1>1. Active = ActiveOf(Low) \cup {CodeOf(Top)} /\ Chosen = ChosenOf(Low)
    BY CodeNow, CodeOfFrame
<1>2. /\ FrameAt(Top, tpl) /\ Top \in FrameType /\ Top \in ToSet(stack)
    BY StackIs, RunningLevel DEF Levelled, Restoring
<1>3. Top.lo \in Int /\ Top.hi \in Int /\ Top.lo <= Top.hi
    BY <1>2 DEF FrameAt, FrameType
<1>4. Promise!Base(Top.ev) = Top.lo
    BY <1>2 DEF Promise!Base, FrameAt, AppLow, IsBottom
<1>5. CodeOf(Top).at = Top.hi
    BY DEF CodeOf
<1>6. \A d \in ActiveOf(Low) : d.at < Top.hi
    BY <1>3, CodeBelow
<1>7. CodeOf(Top) \notin ActiveOf(Low)
    BY <1>3, <1>5, <1>6
<1>8. Active \ {CodeOf(Top)} = ActiveOf(Low)
    BY <1>1, <1>7
<1>9. Promise!Runs(CodeOf(Top))
    BY <1>5, <1>6, <1>8 DEF Promise!Runs
<1> QED BY <1>1, <1>3, <1>4, <1>8, <1>9

LEMMA RaiseAnswered ==
    ASSUME IInv, Levelled, Own,
           \E level \in UNION {RaisesTo[c] : c \in Callers} : RaiseTpl(level)
    PROVE  Answered
<1>1. PICK level \in UNION {RaisesTo[c] : c \in Callers} : RaiseTpl(level)
    OBVIOUS
<1>2. level \in TPL_APPLICATION .. 31
    BY EventAssumption DEF TPL_APPLICATION, TPL_HIGH_LEVEL
<1>3. Top.pc = "run" /\ Top.lo = Top.hi /\ level > Top.hi /\ UNCHANGED queue
    BY <1>1 DEF RaiseTpl, At
<1>4. PICK f \in FrameType : /\ f.pc = "run" /\ f.ev = Top.ev /\ f.lo = Top.lo /\ f.hi = level
                             /\ Goto(f)
    <2> DEFINE f == [Top EXCEPT !.hi = level]
    <2>1. level \in Int
        BY RaisedLevel
    <2>2. f \in FrameType /\ f.pc = "run" /\ f.ev = Top.ev /\ f.lo = Top.lo /\ f.hi = level
        BY <1>3, <2>1, StackIs DEF FrameType
    <2> QED BY <1>1, <2>2 DEF RaiseTpl
<1>5. Becomes({f})
    BY <1>4, GotoBecomes
<1>6. Active' = ActiveOf(Low) \cup {CodeOf(f)} /\ Chosen' = ChosenOf(Low)
    <2>1. /\ Active' = ActiveOf(Low) \cup ActiveOf({f})
          /\ Chosen' = ChosenOf(Low) \cup ChosenOf({f})
        BY <1>5, CodeThen
    <2>2. ActiveOf({f}) = {CodeOf(f)} /\ ChosenOf({f}) = {}
        BY <1>4, CodeOfFrame
    <2> QED BY <2>1, <2>2
<1>7. CodeOf(f) = [ev |-> CodeOf(Top).ev, at |-> level]
    BY <1>4 DEF CodeOf
<1>8. Wanted' = Wanted /\ QueuesOnce'
    BY <1>3 DEF Wanted, Queued, Own, QueuesOnce
<1>9. AppLow'
    BY <1>3, <1>4, <1>5, StackIs DEF Becomes, Own, AppLow, IsBottom
<1>10. CodeOf(Top).ev = Top.ev /\ CodeOf(Top).at = Top.hi
    BY DEF CodeOf
<1>11. Promise!Mask(CodeOf(Top), level) /\ CodeOf(Top) \in Active
    BY <1>3, <1>6, <1>7, <1>8, <1>10, RunningCode DEF Own, Promise!Mask, Promise!Code
<1>12. Promise!Next
    BY <1>2, <1>11 DEF Promise!Next
<1> QED BY <1>8, <1>9, <1>12 DEF Answered, Own

LEMMA LowerAnswered ==
    ASSUME IInv, Levelled, Own, LowerTpl
    PROVE  Answered
<1>1. Top.pc = "run" /\ Top.lo < Top.hi /\ UNCHANGED queue
    BY DEF LowerTpl, At
<1>2. Top \in FrameType /\ Top.lo \in Int
    BY StackIs DEF FrameType
<1>3. PICK f \in FrameType : /\ f.pc = "run" /\ f.ev = Top.ev /\ f.lo = Top.lo /\ f.hi = Top.lo
                             /\ GotoAndCall(f, RestoreTpl(Top.lo))
    <2> DEFINE f == [Top EXCEPT !.hi = Top.lo]
    <2>1. f \in FrameType /\ f.pc = "run" /\ f.ev = Top.ev /\ f.lo = Top.lo /\ f.hi = Top.lo
        BY <1>1, <1>2 DEF FrameType
    <2> QED BY <2>1 DEF LowerTpl
<1>4. PICK r \in FrameType : r.pc = "check" /\ r = RestoreTpl(Top.lo)
    BY <1>2, RestorePasses
<1>5. Becomes({f, r})
    BY <1>3, <1>4, GotoAndCallBecomes
<1>6. Active' = ActiveOf(Low) \cup {CodeOf(f)} /\ Chosen' = ChosenOf(Low)
    <2>1. /\ Active' = ActiveOf(Low) \cup ActiveOf({f, r})
          /\ Chosen' = ChosenOf(Low) \cup ChosenOf({f, r})
        BY <1>5, CodeThen
    <2>2. /\ ActiveOf({f, r}) = ActiveOf({f}) \cup ActiveOf({r})
          /\ ChosenOf({f, r}) = ChosenOf({f}) \cup ChosenOf({r})
        BY CodeOfTwo
    <2>3. ActiveOf({f}) = {CodeOf(f)} /\ ChosenOf({f}) = {}
        BY <1>3, CodeOfFrame
    <2>4. ActiveOf({r}) = {} /\ ChosenOf({r}) = {}
        BY <1>4, CodeOfFrame
    <2> QED BY <2>1, <2>2, <2>3, <2>4
<1>7. CodeOf(f) = [ev |-> CodeOf(Top).ev, at |-> Top.lo]
    BY <1>3 DEF CodeOf
<1>8. Wanted' = Wanted /\ QueuesOnce'
    BY <1>1 DEF Wanted, Queued, Own, QueuesOnce
<1>9. AppLow'
    BY <1>1, <1>3, <1>4, <1>5, StackIs DEF Becomes, Own, AppLow, IsBottom
<1>10. CodeOf(Top).ev = Top.ev /\ CodeOf(Top).at = Top.hi
    BY DEF CodeOf
<1>11. Promise!Unmask(CodeOf(Top)) /\ CodeOf(Top) \in Active
    BY <1>1, <1>6, <1>7, <1>8, <1>10, RunningCode DEF Own, Promise!Unmask, Promise!Code
<1>12. Promise!Next
    BY <1>11 DEF Promise!Next
<1> QED BY <1>8, <1>9, <1>12 DEF Answered, Own

LEMMA ReturnAnswered ==
    ASSUME IInv, Levelled, Own, NotifyReturn
    PROVE  Answered
<1>1. Top.pc = "run" /\ Top.ev # App /\ Top.lo = Top.hi /\ UNCHANGED queue
    BY DEF NotifyReturn, At
<1>2. Becomes({})
    BY ReturnBecomes DEF NotifyReturn
<1>3. Active' = ActiveOf(Low) /\ Chosen' = ChosenOf(Low)
    <2>1. /\ Active' = ActiveOf(Low) \cup ActiveOf({})
          /\ Chosen' = ChosenOf(Low) \cup ChosenOf({})
        BY <1>2, CodeThen
    <2>2. ActiveOf({}) = {} /\ ChosenOf({}) = {}
        BY DEF ActiveOf, ChosenOf
    <2> QED BY <2>1, <2>2
<1>4. Wanted' = Wanted /\ QueuesOnce'
    BY <1>1 DEF Wanted, Queued, Own, QueuesOnce
<1>5. AppLow'
    BY <1>2, StackIs DEF Becomes, Own, AppLow
<1>6. CodeOf(Top).ev = Top.ev /\ CodeOf(Top).at = Top.hi
    BY DEF CodeOf
<1>7. \A e \in Chosen : NotifyTpl[e] < CodeOf(Top).at
    BY <1>1, <1>6, CodeBelow, RunningCode DEF Own
<1>8. Promise!Finish(CodeOf(Top)) /\ CodeOf(Top) \in Active
    BY <1>1, <1>3, <1>4, <1>6, <1>7, RunningCode DEF Own, Promise!Finish
<1>9. Promise!Next
    BY <1>8 DEF Promise!Next
<1> QED BY <1>4, <1>5, <1>9 DEF Answered, Own

\* The event at the head of the queue of a level is above all code in progress.
LEMMA TakeAnswered ==
    ASSUME IInv, Levelled, Own, DispatchTake
    PROVE  Answered
<1> DEFINE p == Top.lo
<1>1. Top.pc = "take" /\ p \in Levels /\ Top \in FrameType
    BY StackIs DEF DispatchTake, At, GoodFrame
<1>2. /\ queue[p] \in Seq(SignalType \cup WaitType) /\ queue[p] # << >>
      /\ IsInjective(queue[p])
      /\ \A x \in ToSet(queue[p]) : x \in SignalType \cup WaitType /\ NotifyTpl[x] = p
    BY <1>1, OwnQueue DEF Own, DispatchTake
<1>3. PICK e : e = Head(queue[p])
    OBVIOUS
<1>4. PICK q : q = Tail(queue[p])
    OBVIOUS
<1>5. /\ e \in ToSet(queue[p]) /\ IsInjective(q)
      /\ ToSet(q) = ToSet(queue[p]) \ {e}
    BY <1>2, <1>3, <1>4, TailInjects
<1>6. e \in SignalType \cup WaitType /\ NotifyTpl[e] = p /\ Queued(e)
    BY <1>2, <1>5 DEF Queued
<1>7. queue' = [queue EXCEPT ![NotifyTpl[e]] = q]
    BY <1>1, <1>4, <1>6 DEF DispatchTake, IInv, Types
<1>8. QueuesOnce' /\ Wanted' = Wanted \ {e} /\ e \in Wanted
    BY <1>5, <1>6, <1>7, OwnOneQueue DEF Own, Wanted
<1>9. PICK f \in FrameType : f.pc = "call" /\ f.ev = e /\ ReleaseLock(f)
    <2> DEFINE f == [Top EXCEPT !.pc = "call", !.ev = e]
    <2>1. f \in FrameType /\ f.pc = "call" /\ f.ev = e
        BY <1>1, <1>6, EventAssumption DEF FrameType, Pcs, Callers
    <2>2. ReleaseLock(f)
        BY <1>3 DEF DispatchTake
    <2> QED BY <2>1, <2>2
<1>10. PICK r \in FrameType : r.pc = "check" /\ Becomes({f, r})
    BY <1>9, ReleaseBecomes
<1>11. Active' = Active /\ Chosen' = Chosen \cup {e}
    <2>1. /\ Active' = ActiveOf(Low) \cup ActiveOf({f, r})
          /\ Chosen' = ChosenOf(Low) \cup ChosenOf({f, r})
        BY <1>10, CodeThen
    <2>2. /\ ActiveOf({f, r}) = ActiveOf({f}) \cup ActiveOf({r})
          /\ ChosenOf({f, r}) = ChosenOf({f}) \cup ChosenOf({r})
        BY CodeOfTwo
    <2>3. ActiveOf({f}) = {} /\ ChosenOf({f}) = {e}
        BY <1>9, CodeOfFrame
    <2>4. ActiveOf({r}) = {} /\ ChosenOf({r}) = {}
        BY <1>10, CodeOfFrame
    <2>5. ActiveOf({Top}) = {} /\ ChosenOf({Top}) = {}
        BY <1>1, CodeOfFrame
    <2> QED BY <2>1, <2>2, <2>3, <2>4, <2>5, CodeNow
<1>12. /\ \A c \in Active : NotifyTpl[e] > c.at
       /\ \A g \in Chosen : NotifyTpl[e] > NotifyTpl[g]
    <2>1. ActiveOf({Top}) = {} /\ ChosenOf({Top}) = {}
        BY <1>1, CodeOfFrame
    <2>2. Active = ActiveOf(Low) /\ Chosen = ChosenOf(Low)
        BY <2>1, CodeNow
    <2> QED BY <1>1, <1>6, <2>2, CodeBelow
<1>13. Promise!Choose(e)
    BY <1>8, <1>11, <1>12 DEF Promise!Choose
<1>14. AppLow'
    BY <1>9, <1>10, StackIs DEF Becomes, Own, AppLow, IsBottom
<1> QED BY <1>6, <1>8, <1>13, <1>14 DEF Answered, Own, Promise!Next

LEMMA CallAnswered ==
    ASSUME IInv, Levelled, Own, DispatchCall
    PROVE  Answered
<1>1. /\ Top.pc = "call" /\ Top \in FrameType /\ Top.ev \in SignalType \cup WaitType
      /\ UNCHANGED queue
    BY StackIs DEF DispatchCall, At, GoodFrame
<1>2. PICK e \in SignalType \cup WaitType : e = Top.ev
    BY <1>1
<1>3. FrameAt(Top, tpl) /\ tpl \in Int
    BY <1>1, RunningLevel DEF Levelled, Restoring
<1>4. NotifyTpl[e] = Top.lo /\ tpl = Top.lo /\ Top.lo \in Int
    BY <1>1, <1>2, <1>3 DEF FrameAt
<1>5. PICK f \in FrameType : f.pc = "take" /\ f = Dispatch(Top.lo)
    <2>1. Dispatch(Top.lo) \in FrameType /\ Dispatch(Top.lo).pc = "take"
        BY <1>4 DEF Dispatch, Frame, FrameType, Pcs
    <2> QED BY <2>1
<1>6. PICK g \in FrameType : /\ g.pc = "run" /\ g.ev = e /\ g.hi = NotifyTpl[e]
                             /\ g = Code(Top.ev, tpl)
    BY <1>1, <1>2, <1>4 DEF Code, Frame, FrameType, Pcs
<1>7. Becomes({f, g})
    BY <1>5, <1>6, GotoAndCallBecomes DEF DispatchCall
<1>8. CodeOf(g) = [ev |-> e, at |-> NotifyTpl[e]]
    BY <1>6 DEF CodeOf
<1>9. /\ Active = ActiveOf(Low) /\ Active' = ActiveOf(Low) \cup {CodeOf(g)}
      /\ Chosen = ChosenOf(Low) \cup {e} /\ Chosen' = ChosenOf(Low)
    <2>1. /\ Active' = ActiveOf(Low) \cup ActiveOf({f, g})
          /\ Chosen' = ChosenOf(Low) \cup ChosenOf({f, g})
        BY <1>7, CodeThen
    <2>2. /\ ActiveOf({f, g}) = ActiveOf({f}) \cup ActiveOf({g})
          /\ ChosenOf({f, g}) = ChosenOf({f}) \cup ChosenOf({g})
        BY CodeOfTwo
    <2>3. ActiveOf({f}) = {} /\ ChosenOf({f}) = {}
        BY <1>5, CodeOfFrame
    <2>4. ActiveOf({g}) = {CodeOf(g)} /\ ChosenOf({g}) = {}
        BY <1>6, CodeOfFrame
    <2>5. ActiveOf({Top}) = {} /\ ChosenOf({Top}) = {e}
        BY <1>1, <1>2, CodeOfFrame
    <2> QED BY <2>1, <2>2, <2>3, <2>4, <2>5, CodeNow
<1>10. /\ \A c \in ActiveOf(Low) : NotifyTpl[e] > c.at
       /\ \A h \in ChosenOf(Low) : NotifyTpl[e] > NotifyTpl[h] /\ h # e
    BY <1>1, <1>4, CodeBelow
<1>11. Chosen \ {e} = ChosenOf(Low)
    BY <1>9, <1>10
<1>12. Wanted' = Wanted /\ QueuesOnce'
    BY <1>1 DEF Wanted, Queued, Own, QueuesOnce
<1>13. Promise!Start(e)
    BY <1>8, <1>9, <1>10, <1>11, <1>12 DEF Promise!Start, Promise!Code
<1>14. AppLow'
    <2>1. ~IsBottom(f) /\ ~IsBottom(g)
        BY <1>5, <1>6, EventAssumption DEF IsBottom, Callers
    <2> QED BY <1>7, <2>1, StackIs DEF Becomes, Own, AppLow
<1> QED BY <1>12, <1>13, <1>14 DEF Answered, Own, Promise!Next

-----------------------------------------------------------------------------
(***************************************************************************)
(* The other steps: the code in progress stays as it is, and some queue an *)
(* event.                                                                  *)
(***************************************************************************)
LEMMA FrameIs ==
    ASSUME NEW pc \in Pcs, NEW e \in Callers \cup {None}, NEW lo \in Int, NEW hi \in Int
    PROVE  Frame(pc, e, lo, hi) \in FrameType /\ Frame(pc, e, lo, hi).pc = pc
BY DEF Frame, FrameType

\* A frame that is no code becomes one that is no code, or returns.
LEMMA GotoStays ==
    ASSUME IInv, ~IsCode(Top), NEW f \in FrameType, ~IsCode(f), Goto(f)
    PROVE  SameCode
BY GotoBecomes, CodeStays

LEMMA ReturnStays ==
    ASSUME IInv, ~IsCode(Top), Return \/ ReleaseAndReturn
    PROVE  SameCode
<1>1. CASE Return
    <2>1. Becomes({})
        BY <1>1, ReturnBecomes
    <2> QED BY <2>1, CodeStays
<1>2. CASE ReleaseAndReturn
    <2>1. PICK r \in FrameType : r.pc = "check" /\ Becomes({r})
        BY <1>2, ReleaseBecomes
    <2> QED BY <2>1, CodeStays DEF IsCode
<1> QED BY <1>1, <1>2

LEMMA GotoAndCallStays ==
    ASSUME IInv, ~IsCode(Top), NEW f \in FrameType, ~IsCode(f), NEW g \in FrameType, ~IsCode(g),
           GotoAndCall(f, g)
    PROVE  SameCode
<1>1. Becomes({f, g})
    BY GotoAndCallBecomes
<1> QED BY <1>1, CodeStays

\* The running frame goes on as f once the lock is released.
LEMMA ReleaseStays ==
    ASSUME IInv, NEW f \in FrameType, ReleaseLock(f), f = Top \/ (~IsCode(Top) /\ ~IsCode(f))
    PROVE  SameCode
<1>1. PICK r \in FrameType : r.pc = "check" /\ Becomes({f, r})
    BY ReleaseBecomes
<1> QED BY <1>1, CodeStays DEF IsCode

\* Tpl.c and the dispatcher
LEMMA TplAnswered ==
    ASSUME IInv, Own, ~LoadTwice,
           RestoreCheck \/ RestorePick \/ RestoreLower \/ DispatchDone
    PROVE  Answered
<1>0. Top \in FrameType
    BY StackIs
<1>1. CASE RestoreCheck
    <2>1. PICK f \in FrameType : ~IsCode(f) /\ Goto(f)
        <3>1. CASE Unmasked(Top.lo) = {}
            <4> DEFINE f == [Top EXCEPT !.pc = "lower"]
            <4>1. f \in FrameType /\ ~IsCode(f)
                BY <1>0 DEF FrameType, Pcs, IsCode
            <4>2. Goto(f)
                BY <1>1, <3>1 DEF RestoreCheck
            <4> QED BY <4>1, <4>2
        <3>2. CASE Unmasked(Top.lo) # {}
            <4> DEFINE f == [Top EXCEPT !.pc = "pick", !.hi = HighBitSet64(pending)]
            <4>1. HighBitSet64(pending) \in Int
                BY <3>2, HighBitInMask, LevelsBounded DEF Unmasked, IInv, Types
            <4>2. f \in FrameType /\ ~IsCode(f)
                BY <1>0, <4>1 DEF FrameType, Pcs, IsCode
            <4>3. Goto(f)
                BY <1>1, <3>2 DEF RestoreCheck
            <4> QED BY <4>2, <4>3
        <3> QED BY <3>1, <3>2
    <2>2. SameCode
        BY <1>1, <2>1, GotoStays DEF RestoreCheck, At, IsCode
    <2> QED BY <1>1, <2>2, QuietAnswered DEF RestoreCheck
<1>2. CASE RestorePick
    <2>1. Top.lo \in Int /\ Top.hi \in Int
        BY <1>0 DEF FrameType
    <2>2. PICK f : f = RestoreTpl(Top.lo)
        OBVIOUS
    <2>3. PICK g : g = Dispatch(Top.hi)
        OBVIOUS
    <2>4. f \in FrameType /\ ~IsCode(f)
        BY <2>1, <2>2, RestorePasses DEF IsCode
    <2>5. g \in FrameType /\ ~IsCode(g)
        BY <2>1, <2>3, FrameIs DEF Dispatch, Pcs, IsCode
    <2>6. SameCode
        BY <1>2, <2>2, <2>3, <2>4, <2>5, GotoAndCallStays DEF RestorePick, At, IsCode
    <2> QED BY <1>2, <2>6, QuietAnswered DEF RestorePick
<1>3. CASE RestoreLower
    BY <1>3, ReturnStays, QuietAnswered DEF RestoreLower, At, IsCode
<1>4. CASE DispatchDone
    BY <1>4, ReturnStays, QuietAnswered DEF DispatchDone, At, IsCode
<1> QED BY <1>1, <1>2, <1>3, <1>4

\* CoreSignalEvent, called by code that goes on as it is or by no code
LEMMA SignalAnswered ==
    ASSUME IInv, Levelled, Own, NEW e, NEW f \in FrameType,
           f = Top \/ (~IsCode(Top) /\ ~IsCode(f)), SignalEvent(e, f)
    PROVE  Answered
<1>1. CASE e \notin live
    <2>1. Becomes({f})
        BY <1>1, GotoBecomes DEF SignalEvent
    <2>2. SameCode
        BY <2>1, CodeStays
    <2> QED BY <2>2, QuietAnswered DEF SignalEvent
<1>2. CASE e \in live
    <2>1. PICK g : g = Frame("signal", e, 0, 0)
        OBVIOUS
    <2>2. e \in Callers
        BY <1>2 DEF IInv, Types, Callers
    <2>3. g \in FrameType /\ ~IsCode(g)
        BY <2>1, <2>2, FrameIs DEF Pcs, IsCode
    <2>4. Becomes({f, g})
        BY <1>2, <2>1, <2>3, GotoAndCallBecomes DEF SignalEvent
    <2>5. SameCode
        BY <2>3, <2>4, CodeStays
    <2> QED BY <2>5, QuietAnswered DEF SignalEvent
<1> QED BY <1>1, <1>2

\* CoreSignalEvent in its critical section
LEMMA SignalLockedAnswered ==
    ASSUME IInv, Levelled, Own, SignalAgain \/ SignalFirst
    PROVE  Answered
<1>0. Top \in FrameType /\ ~IsCode(Top)
    BY StackIs DEF SignalAgain, SignalFirst, At, IsCode
<1>1. PICK e : e = Top.ev
    OBVIOUS
<1>2. CASE SignalAgain
    BY <1>0, <1>2, ReturnStays, QuietAnswered DEF SignalAgain
<1>3. CASE SignalFirst /\ e \in SignalType /\ Group[e] # None
    <2>1. PICK g : g = Frame("group", Top.ev, 0, 0)
        OBVIOUS
    <2>2. g \in FrameType /\ ~IsCode(g)
        BY <1>0, <2>1, FrameIs DEF Pcs, FrameType, IsCode
    <2>3. SameCode
        BY <1>0, <1>1, <1>3, <2>1, <2>2, ReleaseStays DEF SignalFirst
    <2> QED BY <1>1, <1>3, <2>3, QuietAnswered DEF SignalFirst
<1>4. CASE SignalFirst /\ ~(e \in SignalType /\ Group[e] # None)
    <2>1. SameCode
        BY <1>0, <1>1, <1>4, ReturnStays DEF SignalFirst
    <2>2. CASE e \in SignalType
        BY <1>1, <1>4, <2>1, <2>2, NotifyAnswered DEF SignalFirst
    <2>3. CASE e \notin SignalType
        BY <1>1, <1>4, <2>1, <2>3, QuietAnswered DEF SignalFirst
    <2> QED BY <2>2, <2>3
<1> QED BY <1>2, <1>3, <1>4

LEMMA SignalStepsAnswered ==
    ASSUME IInv, Levelled, Own, (\E e \in Events : CodeSignals(e)) \/ WaitIdle
    PROVE  Answered
<1>1. CASE \E e \in Events : CodeSignals(e)
    BY <1>1, StackIs, SignalAnswered DEF CodeSignals
<1>2. CASE WaitIdle
    <2>1. PICK f \in FrameType : f.pc = "wait" /\ f = Frame("wait", None, 1, 0)
        <3>1. Frame("wait", None, 1, 0) \in FrameType /\ Frame("wait", None, 1, 0).pc = "wait"
            BY FrameIs DEF Pcs
        <3> QED BY <3>1
    <2>2. ~IsCode(Top) /\ ~IsCode(f) /\ SignalEvent(IdleEvent, f)
        BY <1>2, <2>1 DEF WaitIdle, At, IsCode
    <2> QED BY <2>2, SignalAnswered
<1> QED BY <1>1, <1>2

\* CoreNotifySignalList
LEMMA GroupAnswered ==
    ASSUME IInv, Levelled, Own, GroupLock \/ GroupMember \/ GroupUnlock \/ SignalRelock
    PROVE  Answered
<1>0. Top \in FrameType /\ GoodFrame(Top) /\ tpl \in Int /\ Top.lo \in Int /\ Top.hi \in Int
    BY StackIs DEF IInv, Types, FrameType
<1>1. CASE GroupLock
    <2>1. PICK f : f = Frame("members", Top.ev, 1, tpl)
        OBVIOUS
    <2>2. f \in FrameType /\ ~IsCode(f)
        BY <1>0, <2>1, FrameIs DEF Pcs, FrameType, IsCode
    <2>3. SameCode
        BY <1>1, <2>1, <2>2, GotoStays DEF GroupLock, At, IsCode
    <2> QED BY <1>1, <2>3, QuietAnswered DEF GroupLock
<1>2. CASE GroupMember
    <2>1. PICK f : f = [Top EXCEPT !.lo = @ + 1]
        OBVIOUS
    <2>2. f \in FrameType /\ ~IsCode(f)
        BY <1>0, <1>2, <2>1 DEF GroupMember, At, FrameType, IsCode
    <2>3. SameCode
        BY <1>2, <2>1, <2>2, GotoStays DEF GroupMember, At, IsCode
    <2>4. siglist[Top.lo] \in SignalType
        BY <1>2 DEF GroupMember, IInv, Types
    <2> QED BY <1>2, <2>3, <2>4, NotifyAnswered, QuietAnswered DEF GroupMember
<1>3. CASE GroupUnlock
    <2>1. PICK f : f = Frame("relock", Top.ev, 0, 0)
        OBVIOUS
    <2>2. f \in FrameType /\ ~IsCode(f)
        BY <1>0, <2>1, FrameIs DEF Pcs, FrameType, IsCode
    <2>3. PICK g : g = RestoreTpl(Top.hi)
        OBVIOUS
    <2>4. g \in FrameType /\ ~IsCode(g)
        BY <1>0, <2>3, RestorePasses DEF IsCode
    <2>5. SameCode
        BY <1>3, <2>1, <2>2, <2>3, <2>4, GotoAndCallStays DEF GroupUnlock, At, IsCode
    <2> QED BY <1>3, <2>5, QuietAnswered DEF GroupUnlock
<1>4. CASE SignalRelock
    BY <1>4, ReturnStays, QuietAnswered DEF SignalRelock, At, IsCode
<1> QED BY <1>1, <1>2, <1>3, <1>4

\* CoreCheckEvent
LEMMA CheckAnswered ==
    ASSUME IInv, Levelled, Own,
           (\E e \in Events : CodeChecks(e)) \/ CheckPeek \/ CheckEnqueue \/ CheckLook
    PROVE  Answered
<1>0. Top \in FrameType /\ GoodFrame(Top)
    BY StackIs
<1>1. CASE \E e \in Events : CodeChecks(e)
    <2>1. PICK e \in Events : CodeChecks(e)
        BY <1>1
    <2>2. PICK f : f = Frame("peek", e, 0, 0)
        OBVIOUS
    <2>3. f \in FrameType /\ ~IsCode(f)
        BY <2>2, FrameIs DEF Pcs, Callers, IsCode
    <2>4. Becomes({Top, f})
        BY <2>1, <2>2, <2>3, CallBecomes DEF CodeChecks
    <2>5. SameCode
        BY <2>3, <2>4, CodeStays
    <2> QED BY <2>1, <2>5, QuietAnswered DEF CodeChecks
<1>2. CASE CheckPeek
    <2>1. PICK f : f = [Top EXCEPT !.pc = IF signal[Top.ev] = 0 /\ Top.ev \in WaitType
                                          THEN "enqueue" ELSE "look"]
        OBVIOUS
    <2>2. f \in FrameType /\ ~IsCode(f)
        BY <1>0, <2>1 DEF FrameType, Pcs, IsCode
    <2>3. SameCode
        BY <1>2, <2>1, <2>2, GotoStays DEF CheckPeek, At, IsCode
    <2> QED BY <1>2, <2>3, QuietAnswered DEF CheckPeek
<1>3. CASE CheckEnqueue
    <2>1. PICK f : f = [Top EXCEPT !.pc = "look"]
        OBVIOUS
    <2>2. f \in FrameType /\ ~IsCode(f) /\ Top.ev \in WaitType
        BY <1>0, <1>3, <2>1 DEF CheckEnqueue, At, GoodFrame, FrameType, Pcs, IsCode
    <2>3. SameCode
        BY <1>3, <2>1, <2>2, ReleaseStays DEF CheckEnqueue, At, IsCode
    <2>4. CASE signal[Top.ev] = 0
        BY <1>3, <2>2, <2>3, <2>4, NotifyAnswered DEF CheckEnqueue
    <2>5. CASE signal[Top.ev] # 0
        BY <1>3, <2>3, <2>5, QuietAnswered DEF CheckEnqueue
    <2> QED BY <2>4, <2>5
<1>4. CASE CheckLook
    <2>1. CASE signal[Top.ev] = 0
        BY <1>4, <2>1, ReturnStays, QuietAnswered DEF CheckLook, At, IsCode
    <2>2. CASE signal[Top.ev] # 0
        <3>1. PICK f : f = [Top EXCEPT !.pc = "clear"]
            OBVIOUS
        <3>2. f \in FrameType /\ ~IsCode(f)
            BY <1>0, <3>1 DEF FrameType, Pcs, IsCode
        <3>3. SameCode
            BY <1>4, <2>2, <3>1, <3>2, GotoStays DEF CheckLook, At, IsCode
        <3> QED BY <1>4, <3>3, QuietAnswered DEF CheckLook
    <2> QED BY <2>1, <2>2
<1> QED BY <1>1, <1>2, <1>3, <1>4

\* The answer changes a frame of CoreWaitForEvent only.
LEMMA CheckClearAnswered ==
    ASSUME IInv, Own, CheckClear
    PROVE  Answered
<1> DEFINE n == Len(stack)
           r == RestoreTpl(tpl)
<1>1. /\ n \in Nat /\ n > 1 /\ stack' \in Seq(FrameType) /\ Len(stack') = n
      /\ stack'[n] = r
      /\ \A j \in 1 .. n - 1 :
            \/ stack'[j] = stack[j]
            \/ stack'[j].pc = "waited" /\ stack[j].pc = "waited"
    BY CheckClearStack
<1>2. r.pc = "check"
    BY RestorePasses DEF IInv, Types
<1>3. Top.pc = "clear" /\ stack[n] = Top
    BY StackIs, StackLast DEF CheckClear, At, Top
<1>4. DOMAIN stack' = 1 .. n /\ DOMAIN stack = 1 .. n
    BY <1>1, StackIs DEF IsStack
<1> HIDE DEF n, r
<1>5. \A j \in 1 .. n : j = n \/ j \in 1 .. n - 1
    BY <1>1
<1>6. \A j \in 1 .. n : IsCode(stack'[j]) \/ IsCode(stack[j]) => stack'[j] = stack[j]
    BY <1>1, <1>2, <1>3, <1>5 DEF IsCode
<1>7. SameCode
    BY <1>4, <1>6 DEF SameCode, ToSet
<1> QED BY <1>7, QuietAnswered DEF CheckClear

\* CoreWaitForEvent
LEMMA WaitAnswered ==
    ASSUME IInv, Own, WaitForEvent \/ WaitCheck \/ WaitReturn \/ WaitNext
    PROVE  Answered
<1>0. Top \in FrameType /\ GoodFrame(Top) /\ Top.lo \in Int
    BY StackIs DEF FrameType
<1>1. CASE WaitForEvent
    <2>1. PICK f : f = Frame("wait", None, 1, 0)
        OBVIOUS
    <2>2. f \in FrameType /\ ~IsCode(f)
        BY <2>1, FrameIs DEF Pcs, IsCode
    <2>3. Becomes({Top, f})
        BY <1>1, <2>1, <2>2, CallBecomes DEF WaitForEvent
    <2>4. SameCode
        BY <2>2, <2>3, CodeStays
    <2> QED BY <1>1, <2>4, QuietAnswered DEF WaitForEvent
<1>2. CASE WaitCheck
    <2>1. PICK e : e = WaitList[Top.lo]
        OBVIOUS
    <2>2. e \in Events
        BY <1>0, <1>2, <2>1, EventAssumption, ElementOfSeq DEF WaitCheck, At, GoodFrame
    <2>3. CASE Checkable(e)
        <3>1. PICK f : f = Frame("waited", None, Top.lo, 0)
            OBVIOUS
        <3>2. f \in FrameType /\ ~IsCode(f)
            BY <1>0, <3>1, FrameIs DEF Pcs, IsCode
        <3>3. PICK g : g = Frame("peek", e, 0, 0)
            OBVIOUS
        <3>4. g \in FrameType /\ ~IsCode(g)
            BY <2>2, <3>3, FrameIs DEF Pcs, Callers, IsCode
        <3>5. GotoAndCall(f, g)
            BY <1>2, <2>1, <2>3, <3>1, <3>3 DEF WaitCheck
        <3>6. SameCode
            BY <1>2, <3>2, <3>4, <3>5, GotoAndCallStays DEF WaitCheck, At, IsCode
        <3> QED BY <1>2, <3>6, QuietAnswered DEF WaitCheck
    <2>4. CASE ~Checkable(e)
        <3>1. PICK f : f = Frame("waited", None, Top.lo, 1)
            OBVIOUS
        <3>2. f \in FrameType /\ ~IsCode(f)
            BY <1>0, <3>1, FrameIs DEF Pcs, IsCode
        <3>3. Goto(f)
            BY <1>2, <2>1, <2>4, <3>1 DEF WaitCheck
        <3>4. SameCode
            BY <1>2, <3>2, <3>3, GotoStays DEF WaitCheck, At, IsCode
        <3> QED BY <1>2, <3>4, QuietAnswered DEF WaitCheck
    <2> QED BY <2>3, <2>4
<1>3. CASE WaitReturn
    BY <1>3, ReturnStays, QuietAnswered DEF WaitReturn, At, IsCode
<1>4. CASE WaitNext
    <2>1. PICK f : f = Frame("wait", None, Top.lo + 1, 0)
        OBVIOUS
    <2>2. f \in FrameType /\ ~IsCode(f)
        BY <1>0, <2>1, FrameIs DEF Pcs, IsCode
    <2>3. SameCode
        BY <1>4, <2>1, <2>2, GotoStays DEF WaitNext, At, IsCode
    <2> QED BY <1>4, <2>3, QuietAnswered DEF WaitNext
<1> QED BY <1>1, <1>2, <1>3, <1>4

\* CoreCreateEventInternal, the end of CoreCloseEvent, and interrupts
LEMMA EventAnswered ==
    ASSUME IInv, Own,
           \/ \E e \in Events : CreateEvent(e) \/ CloseEvent(e)
           \/ CloseFree \/ InterruptReturn
    PROVE  Answered
<1>1. CASE \E e \in Events : CreateEvent(e)
    BY <1>1, StackIs, ReleaseStays, QuietAnswered DEF CreateEvent
<1>2. CASE CloseFree
    BY <1>2, ReturnStays, QuietAnswered DEF CloseFree, At, IsCode
<1>3. CASE InterruptReturn
    BY <1>3, ReturnStays, QuietAnswered DEF InterruptReturn, At, IsCode
<1>4. CASE \E e \in Events : CloseEvent(e)
    <2>1. PICK e \in Events : CloseEvent(e)
        BY <1>4
    <2>2. PICK f : f = Frame("close", e, 0, 0)
        OBVIOUS
    <2>3. f \in FrameType /\ ~IsCode(f)
        BY <2>2, FrameIs DEF Pcs, Callers, IsCode
    <2>4. Becomes({Top, f})
        BY <2>1, <2>2, <2>3, CallBecomes DEF CloseEvent
    <2>5. SameCode
        BY <2>3, <2>4, CodeStays
    <2> QED BY <2>1, <2>5, QuietAnswered DEF CloseEvent
<1> QED BY <1>1, <1>2, <1>3, <1>4

LEMMA TickAnswered ==
    ASSUME IInv, Levelled, Own, Tick
    PROVE  Answered
<1>1. PICK e \in IsrSignals \cup {None} : Interrupt(e)
    BY DEF Tick
<1>2. PICK g : g = Frame("iret", None, tpl, 0)
    OBVIOUS
<1>3. g \in FrameType /\ ~IsCode(g)
    <2>1. tpl \in Int
        BY DEF IInv, Types
    <2> QED BY <1>2, <2>1, FrameIs DEF Pcs, IsCode
<1>4. PICK r \in FrameType : r.pc = "check" /\ r = RestoreTpl(tpl)
    BY ReleaseBecomes
<1>5. stack' = Append(Append(stack, g), r)
    BY <1>1, <1>2, <1>4 DEF Interrupt
<1>6. Becomes({Top} \cup {g, r})
    BY <1>3, <1>5, StackIs, PushTwoBecomes
<1>7. SameCode
    BY <1>3, <1>4, <1>6, CodeStays DEF IsCode
<1>8. CASE e # None /\ e \in live /\ signal[e] = 0
    <2>1. e \in SignalType \cup WaitType /\ NotifyEvent(e)
        BY <1>1, <1>8, EventAssumption DEF Interrupt
    <2> QED BY <1>7, <2>1, NotifyAnswered
<1>9. CASE ~(e # None /\ e \in live /\ signal[e] = 0)
    BY <1>1, <1>7, <1>9, QuietAnswered DEF Interrupt
<1> QED BY <1>8, <1>9

-----------------------------------------------------------------------------
(***************************************************************************)
(* DxeEvent implements EventNotify                                         *)
(***************************************************************************)
LEMMA InitAnswered == Init => Promise!Init /\ Own
<1> SUFFICES ASSUME Init PROVE Promise!Init /\ Own
    OBVIOUS
<1>1. PICK f : f = Code(App, TPL_APPLICATION)
    OBVIOUS
<1>2. /\ f.pc = "run" /\ f.ev = App
      /\ f.lo = TPL_APPLICATION /\ f.hi = TPL_APPLICATION
    BY <1>1 DEF Code, Frame
<1>3. ToSet(stack) = {f}
    BY <1>1 DEF Init, ToSet
<1>4. FramesAt("run") = {f} /\ FramesAt("call") = {}
    BY <1>2, <1>3 DEF FramesAt
<1>5. Active = {[ev |-> App, at |-> TPL_APPLICATION]} /\ Chosen = {}
    BY <1>2, <1>4 DEF Active, Chosen
<1>6. Wanted = {}
    <2> SUFFICES ASSUME NEW e \in SignalType \cup WaitType PROVE ~Queued(e)
        BY DEF Wanted
    <2>1. queue[NotifyTpl[e]] = << >>
        BY NotifyLevel DEF Init
    <2> QED BY <2>1 DEF Queued, ToSet
<1>7. Promise!Init
    BY <1>5, <1>6 DEF Promise!Init, Promise!Code
<1>8. QueuesOnce
    BY DEF QueuesOnce, Init, IsInjective
<1>9. AppLow
    BY <1>2, <1>3 DEF AppLow
<1> QED BY <1>7, <1>8, <1>9 DEF Own

LEMMA StepAnswered ==
    ASSUME IInv, Levelled, Own, ~LoadTwice, [Next]_vars
    PROVE  Answered
<1>1. CASE CoreStep
    BY <1>1, TplAnswered, TakeAnswered, CallAnswered, GroupAnswered, CheckAnswered,
       CheckClearAnswered, WaitAnswered, SignalStepsAnswered, SignalLockedAnswered,
       CloseAnswered, EventAnswered DEF CoreStep
<1>2. CASE CodeStep
    BY <1>2, ReturnAnswered, LowerAnswered, RaiseAnswered, WaitAnswered, SignalStepsAnswered,
       CheckAnswered, EventAnswered DEF CodeStep
<1>3. CASE Tick
    BY <1>3, TickAnswered
<1>4. CASE UNCHANGED vars
    BY <1>4, QuietAnswered DEF vars, SameCode
<1> QED BY <1>1, <1>2, <1>3, <1>4 DEF Next

(* The event services are a preemptive scheduler: a notification function  *)
(* runs only for an event that was signaled and not chosen since, once for *)
(* each choice, above the level of all code in progress, and the code that *)
(* it preempts goes on where it was, at its level.  It holds for any       *)
(* events, levels, groups and callers, and whoever closes an event, in the *)
(* build that loads gEventPending once per iteration of CoreRestoreTpl.    *)
THEOREM PromiseKept == ~LoadTwice => (Spec => ImplementsNotify)
<1>1. ASSUME ~LoadTwice PROVE Spec => [](IInv /\ Levelled)
    BY <1>1, LevelledInvariant
<1>2. Init => Promise!Init /\ Own
    BY InitAnswered
<1>3. ASSUME ~LoadTwice
      PROVE  IInv /\ Levelled /\ Own /\ [Next]_vars
                => Own' /\ [Promise!Next]_(Promise!nvars)
    BY <1>3, StepAnswered DEF Answered
<1>4. ASSUME ~LoadTwice PROVE Spec => Promise!Init /\ [][Promise!Next]_(Promise!nvars)
    BY <1>1, <1>2, <1>3, <1>4, PTL DEF Spec
<1> QED BY <1>4 DEF ImplementsNotify
=============================================================================

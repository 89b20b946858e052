--------------------------- MODULE DxeTimerProofs ---------------------------
(***************************************************************************)
(* Proofs about DxeTimer: the timer list stays sorted at every moment a    *)
(* tick may look at it, and no timer expires before its time.              *)
(***************************************************************************)
EXTENDS DxeTimer, EventListProofs

-----------------------------------------------------------------------------
(***************************************************************************)
(* Lists in the order of a trigger time                                    *)
(***************************************************************************)
\* s is in the order of t and holds nothing twice.
Sorted(s, t) ==
    \A i, j \in DOMAIN s : i < j => t[s[i]] <= t[s[j]] /\ s[i] # s[j]

\* Taking an entry off keeps the order of the others, whatever becomes of
\* the entry's own time.
LEMMA UnlinkSorted ==
    ASSUME NEW s \in Seq(Timers), NEW e, NEW t, NEW u, Sorted(s, t),
           \A f \in Timers : f # e => u[f] = t[f]
    PROVE  /\ Unlink(s, e) \in Seq(Timers)
           /\ Sorted(Unlink(s, e), u)
           /\ ToSet(Unlink(s, e)) = ToSet(s) \ {e}
<1>0. \A i \in 1 .. Len(s) : s[i] \in Timers
    BY ElementOfSeq
<1>1. CASE e \notin ToSet(s)
    <2>1. \A i \in 1 .. Len(s) : s[i] # e
        BY <1>1 DEF ToSet
    <2>2. Unlink(s, e) = s
        BY <1>1 DEF Unlink
    <2> QED BY <1>0, <1>1, <2>1, <2>2 DEF Sorted
<1>2. CASE e \in ToSet(s)
    <2> DEFINE r == Unlink(s, e)
    <2>1. PICK k \in 1 .. Len(s) :
              /\ s[k] = e
              /\ r \in Seq(Timers)
              /\ Len(r) = Len(s) - 1
              /\ \A i \in 1 .. Len(s) - 1 :
                    r[i] = IF i < k THEN s[i] ELSE s[i + 1]
        BY <1>2, UnlinkEntry
    <2> HIDE DEF r
    <2>2. \A i \in 1 .. Len(s) : i # k => s[i] # e
        BY <2>1 DEF Sorted
    <2>3. ToSet(r) = ToSet(s) \ {e}
        <3>1. IsInjective(s)
            BY DEF IsInjective, Sorted
        <3> QED BY <3>1, UnlinkInjective DEF r
    <2>4. Sorted(r, u)
        <3> SUFFICES ASSUME NEW i \in 1 .. Len(s) - 1,
                            NEW j \in 1 .. Len(s) - 1, i < j
                     PROVE  u[r[i]] <= u[r[j]] /\ r[i] # r[j]
            BY <2>1 DEF Sorted
        <3> DEFINE m == IF i < k THEN i ELSE i + 1
                   n == IF j < k THEN j ELSE j + 1
        <3>1. /\ m \in 1 .. Len(s) /\ n \in 1 .. Len(s) /\ m < n
              /\ m # k /\ n # k
            BY <2>1
        <3>2. r[i] = s[m] /\ r[j] = s[n]
            BY <2>1
        <3> HIDE DEF m, n
        <3>3. t[s[m]] <= t[s[n]] /\ s[m] # s[n]
            BY <3>1 DEF Sorted
        <3>4. u[s[m]] = t[s[m]] /\ u[s[n]] = t[s[n]]
            BY <1>0, <2>2, <3>1
        <3> QED BY <3>2, <3>3, <3>4
    <2> QED BY <2>1, <2>3, <2>4 DEF r
<1> QED BY <1>1, <1>2

LEMMA TailSorted ==
    ASSUME NEW s \in Seq(Timers), s # << >>, NEW t, Sorted(s, t)
    PROVE  /\ Head(s) \in Timers /\ Tail(s) \in Seq(Timers)
           /\ Sorted(Tail(s), t)
           /\ ToSet(Tail(s)) \subseteq ToSet(s) \ {Head(s)}
<1>1. /\ Head(s) \in Timers /\ Tail(s) \in Seq(Timers)
      /\ Len(Tail(s)) = Len(s) - 1
      /\ \A i \in 1 .. Len(s) - 1 : Tail(s)[i] = s[i + 1]
    BY HeadTailProperties
<1>2. Len(s) \in Nat \ {0} /\ Head(s) = s[1]
    BY EmptySeq
<1>3. Sorted(Tail(s), t)
    BY <1>1, <1>2 DEF Sorted
<1>4. ASSUME NEW x \in ToSet(Tail(s)) PROVE x \in ToSet(s) \ {Head(s)}
    <2>1. PICK i \in 1 .. Len(s) - 1 : x = s[i + 1]
        BY <1>1, <1>4 DEF ToSet
    <2> QED BY <1>2, <2>1 DEF ToSet, Sorted
<1> QED BY <1>1, <1>3, <1>4

\* r is s with e before its kth entry, the first that expires later.
InsertedAt(k, s, e, expiry, r) ==
    /\ r \in Seq(Timers) /\ Len(r) = Len(s) + 1
    /\ \A i \in 1 .. Len(s) + 1 :
          r[i] = IF i < k THEN s[i] ELSE IF i = k THEN e ELSE s[i - 1]
    /\ \A i \in 1 .. Len(s) : i < k <=> trigger[s[i]] <= expiry

LEMMA InsertEntry ==
    ASSUME NEW s \in Seq(Timers), NEW e \in Timers, NEW expiry \in Nat,
           trigger \in [Timers -> Nat], Sorted(s, trigger)
    PROVE  \E k \in 1 .. Len(s) + 1 :
              InsertedAt(k, s, e, expiry, Insert(s, e, expiry))
<1> DEFINE later == {i \in DOMAIN s : trigger[s[i]] > expiry}
           k == IF later = {} THEN Len(s) + 1
                ELSE CHOOSE i \in later : \A j \in later : i <= j
           a == SubSeq(s, 1, k - 1)
           b == SubSeq(s, k, Len(s))
<1>0. Len(s) \in Nat /\ \A i \in 1 .. Len(s) : s[i] \in Timers
    BY ElementOfSeq
<1>10. later \subseteq 1 .. Len(s)
    OBVIOUS
<1>1. IF later = {} THEN k = Len(s) + 1
      ELSE k \in later /\ \A i \in later : k <= i
    <2>1. later \subseteq Nat
        BY <1>0, <1>10
    <2> HIDE DEF later
    <2> QED BY <2>1, LeastNat
<1>2. k \in 1 .. Len(s) + 1 /\ \A i \in later : k <= i
    <2> HIDE DEF later, k
    <2>1. CASE later = {}
        BY <1>0, <1>1, <2>1
    <2>2. CASE later # {}
        <3>1. k \in later /\ \A i \in later : k <= i
            BY <1>1, <2>2
        <3>2. k \in 1 .. Len(s)
            BY <1>10, <3>1
        <3> QED BY <1>0, <3>1, <3>2
    <2> QED BY <2>1, <2>2
<1>9. \A i \in 1 .. Len(s) : i < k <=> trigger[s[i]] <= expiry
    <2> SUFFICES ASSUME NEW i \in 1 .. Len(s)
                 PROVE  i < k <=> trigger[s[i]] <= expiry
        OBVIOUS
    <2> HIDE DEF k
    <2>1. trigger[s[i]] \in Nat
        BY <1>0
    <2>2. CASE i < k
        <3>1. i \notin later
            <4> HIDE DEF later
            <4> QED BY <1>0, <1>2, <2>2
        <3> QED BY <2>1, <2>2, <3>1
    <2>3. CASE ~(i < k)
        <3>1. k \in later
            <4> HIDE DEF later
            <4> QED BY <1>0, <1>1, <2>3
        <3>2. k \in 1 .. Len(s) /\ trigger[s[k]] > expiry
            BY <3>1
        <3>3. k = i \/ trigger[s[k]] <= trigger[s[i]]
            <4> HIDE DEF later
            <4>1. k = i \/ k < i
                BY <1>0, <2>3, <3>2
            <4> QED BY <1>0, <3>2, <4>1 DEF Sorted
        <3>4. trigger[s[k]] \in Nat
            BY <1>0, <3>2
        <3> HIDE DEF later
        <3> QED BY <2>1, <2>3, <3>2, <3>3, <3>4
    <2> QED BY <2>2, <2>3
<1>3. Insert(s, e, expiry) = a \o <<e>> \o b
    BY DEF Insert, InsertAt
<1> HIDE DEF k, later
<1>4. /\ a \in Seq(Timers) /\ Len(a) = k - 1
      /\ \A i \in 1 .. k - 1 : a[i] = s[i]
    <2>1. \A i \in 1 .. k - 1 : s[i] \in Timers
        BY <1>0, <1>2
    <2> QED BY <1>0, <1>2, <2>1, SubSeqProperties
<1>5. /\ b \in Seq(Timers) /\ Len(b) = Len(s) - k + 1
      /\ \A i \in 1 .. Len(s) - k + 1 : b[i] = s[k + i - 1]
    <2>1. \A i \in k .. Len(s) : s[i] \in Timers
        BY <1>0, <1>2
    <2> QED BY <1>0, <1>2, <2>1, SubSeqProperties
<1> HIDE DEF a, b
<1>6. /\ a \o <<e>> \in Seq(Timers) /\ Len(a \o <<e>>) = k
      /\ \A i \in 1 .. k : (a \o <<e>>)[i] = IF i < k THEN s[i] ELSE e
    <2>1. <<e>> \in Seq(Timers) /\ Len(<<e>>) = 1 /\ <<e>>[1] = e
        OBVIOUS
    <2>2. /\ a \o <<e>> \in Seq(Timers) /\ Len(a \o <<e>>) = k
          /\ \A i \in 1 .. k :
                (a \o <<e>>)[i] = IF i <= k - 1 THEN a[i] ELSE <<e>>[i - (k - 1)]
        BY <1>2, <1>4, <2>1, ConcatProperties
    <2> QED BY <1>2, <1>4, <2>1, <2>2
<1> DEFINE c == a \o <<e>>
<1>11. /\ c \in Seq(Timers) /\ Len(c) = k
      /\ \A i \in 1 .. k : c[i] = IF i < k THEN s[i] ELSE e
    BY <1>6
<1>12. Insert(s, e, expiry) = c \o b
    BY <1>3
<1> HIDE DEF c
<1>7. /\ c \o b \in Seq(Timers) /\ Len(c \o b) = Len(s) + 1
      /\ \A i \in 1 .. Len(s) + 1 :
            (c \o b)[i] = IF i <= k THEN c[i] ELSE b[i - k]
    <2>1. Len(c) + Len(b) = Len(s) + 1
        BY <1>0, <1>2, <1>5, <1>11
    <2>2. /\ c \o b \in Seq(Timers) /\ Len(c \o b) = Len(c) + Len(b)
          /\ \A i \in 1 .. Len(c) + Len(b) :
                (c \o b)[i] = IF i <= Len(c) THEN c[i] ELSE b[i - Len(c)]
        <3>1. c \in Seq(Timers) /\ b \in Seq(Timers)
            BY <1>5, <1>11
        <3> QED BY <3>1, ConcatProperties
    <2> QED BY <1>11, <2>1, <2>2
<1>8. ASSUME NEW i \in 1 .. Len(s) + 1
      PROVE  (c \o b)[i] = IF i < k THEN s[i] ELSE IF i = k THEN e ELSE s[i - 1]
    <2>1. CASE i <= k
        BY <1>0, <1>2, <1>7, <1>11, <2>1
    <2>2. CASE i > k
        <3>1. i - k \in 1 .. Len(s) - k + 1 /\ k + (i - k) - 1 = i - 1
            BY <1>0, <1>2, <2>2
        <3>2. b[i - k] = s[i - 1]
            BY <1>5, <3>1
        <3>3. ~(i <= k) /\ ~(i < k) /\ i # k
            BY <1>0, <1>2, <2>2
        <3>4. (c \o b)[i] = b[i - k]
            BY <1>7, <3>3
        <3> QED BY <3>2, <3>3, <3>4
    <2>3. i <= k \/ i > k
        BY <1>0, <1>2
    <2> QED BY <2>1, <2>2, <2>3
<1>13. InsertedAt(k, s, e, expiry, c \o b)
    BY <1>9, <1>7, <1>8 DEF InsertedAt
<1> QED BY <1>2, <1>12, <1>13

\* Inserting an entry by its own time keeps the order.
LEMMA InsertSorted ==
    ASSUME NEW s \in Seq(Timers), NEW e \in Timers, e \notin ToSet(s),
           trigger \in [Timers -> Nat], Sorted(s, trigger),
           NEW t \in [Timers -> Nat], \A f \in Timers : f # e => t[f] = trigger[f],
           NEW expiry, expiry = t[e]
    PROVE  /\ Insert(s, e, expiry) \in Seq(Timers)
           /\ Sorted(Insert(s, e, expiry), t)
           /\ ToSet(Insert(s, e, expiry)) \subseteq ToSet(s) \cup {e}
<1> DEFINE r == Insert(s, e, expiry)
<1>1. expiry \in Nat
    OBVIOUS
<1>9. PICK k \in 1 .. Len(s) + 1 : InsertedAt(k, s, e, expiry, r)
    BY <1>1, InsertEntry
<1>2. /\ r \in Seq(Timers) /\ Len(r) = Len(s) + 1
      /\ \A i \in 1 .. Len(s) + 1 :
            r[i] = IF i < k THEN s[i] ELSE IF i = k THEN e ELSE s[i - 1]
      /\ \A i \in 1 .. Len(s) : i < k <=> trigger[s[i]] <= expiry
    BY <1>9 DEF InsertedAt
<1> HIDE DEF r
<1>3. /\ Len(s) \in Nat
      /\ \A i \in 1 .. Len(s) :
            /\ s[i] \in Timers /\ s[i] \in ToSet(s) /\ s[i] # e
            /\ t[s[i]] = trigger[s[i]] /\ t[s[i]] \in Nat
    <2>1. \A i \in 1 .. Len(s) : s[i] \in Timers /\ s[i] \in ToSet(s)
        BY ElementOfSeq DEF ToSet
    <2> QED BY <2>1
\* Where an entry of the new list was in the old one.
<1> DEFINE old(i) == IF i < k THEN i ELSE i - 1
<1>4. \A i \in 1 .. Len(s) + 1 : i # k =>
          /\ old(i) \in 1 .. Len(s) /\ r[i] = s[old(i)]
          /\ i < k <=> t[r[i]] <= expiry
          /\ r[i] # e
    <2> SUFFICES ASSUME NEW i \in 1 .. Len(s) + 1, i # k
                 PROVE  /\ old(i) \in 1 .. Len(s) /\ r[i] = s[old(i)]
                        /\ i < k <=> t[r[i]] <= expiry
                        /\ r[i] # e
        OBVIOUS
    <2>1. CASE i < k
        <3>1. old(i) = i /\ i \in 1 .. Len(s)
            BY <1>2, <1>3, <2>1
        <3> HIDE DEF old
        <3> QED BY <1>2, <1>3, <2>1, <3>1
    <2>2. CASE i > k
        <3>1. old(i) = i - 1 /\ i - 1 \in 1 .. Len(s) /\ ~(i < k) /\ ~(i - 1 < k)
            BY <1>2, <1>3, <2>2
        <3> HIDE DEF old
        <3>2. r[i] = s[i - 1]
            BY <1>2, <2>2, <3>1
        <3>3. ~(trigger[s[i - 1]] <= expiry) /\ s[i - 1] # e
            BY <1>2, <1>3, <3>1
        <3> QED BY <1>3, <3>1, <3>2, <3>3
    <2>3. i < k \/ i > k
        BY <1>2, <1>3
    <2> QED BY <2>1, <2>2, <2>3
<1>5. ASSUME NEW i \in 1 .. Len(s) + 1, NEW j \in 1 .. Len(s) + 1,
             i < j, i # k, j # k
      PROVE  old(i) < old(j)
    <2>1. i \in Int /\ j \in Int /\ k \in Int
        BY <1>2, <1>3
    <2> QED BY <1>5, <2>1
<1> HIDE DEF old
<1>6. ASSUME NEW i \in 1 .. Len(s) + 1, NEW j \in 1 .. Len(s) + 1, i < j
      PROVE  t[r[i]] <= t[r[j]] /\ r[i] # r[j]
    <2>1. CASE i = k
        <3>1. j # k /\ ~(j < k) /\ r[i] = e
            BY <1>2, <1>6, <2>1
        <3>2. ~(t[r[j]] <= expiry) /\ r[j] # e /\ t[r[j]] \in Nat
            BY <1>3, <1>4, <3>1
        <3>3. t[r[i]] = expiry
            BY <3>1
        <3> QED BY <1>1, <3>1, <3>2, <3>3
    <2>2. CASE j = k
        <3>1. i # k /\ i < k /\ r[j] = e
            BY <1>2, <1>6, <2>2
        <3> QED BY <1>4, <3>1
    <2>3. CASE i # k /\ j # k
        <3>1. /\ old(i) \in 1 .. Len(s) /\ old(j) \in 1 .. Len(s)
              /\ old(i) < old(j) /\ r[i] = s[old(i)] /\ r[j] = s[old(j)]
            BY <1>4, <1>5, <1>6, <2>3
        <3>2. s[old(i)] # s[old(j)] /\ trigger[s[old(i)]] <= trigger[s[old(j)]]
            BY <1>3, <3>1 DEF Sorted
        <3> QED BY <1>3, <3>1, <3>2
    <2> QED BY <2>1, <2>2, <2>3
<1>7. Sorted(r, t)
    BY <1>2, <1>3, <1>6 DEF Sorted
<1>8. ASSUME NEW x \in ToSet(r) PROVE x \in ToSet(s) \cup {e}
    <2>1. PICK i \in 1 .. Len(s) + 1 : x = r[i]
        BY <1>2, <1>8 DEF ToSet
    <2>2. CASE i = k
        <3>1. x = e
            BY <1>2, <2>1, <2>2
        <3> QED BY <3>1
    <2>3. CASE i # k
        BY <1>3, <1>4, <2>1, <2>3
    <2> QED BY <2>2, <2>3
<1> QED BY <1>2, <1>7, <1>8 DEF r

-----------------------------------------------------------------------------
(***************************************************************************)
(* The inductive invariant: the timer that CoreSetTimer or CoreCheckTimers *)
(* has in hand is off the list, so that writing its TriggerTime disturbs   *)
(* no order and inserting it repeats no entry.                             *)
(***************************************************************************)
InHand == pc \in {"settime", "setinsert", "rearm"}

HandOff == InHand => op.ev \in Timers /\ op.ev \notin ToSet(list)

IInv == TypeOK /\ ListSorted /\ HandOff

\* A value of 64 bits is a number.
LEMMA U64Nat == ASSUME NEW n \in Nat PROVE U64(n) \in Nat
<1>1. 2^Width \in Nat \ {0}
    BY TimerAssumption
<1> QED BY <1>1 DEF U64

LEMMA InitIInv == Init => IInv
<1> SUFFICES ASSUME Init PROVE IInv
    OBVIOUS
<1>1. list \in Seq(Timers) /\ DOMAIN list = {}
    BY EmptySeq DEF Init
<1>2. Never \in Nat /\ MaxTime \in Nat
    BY TimerAssumption DEF Never
<1>3. due \in [Timers -> Nat] /\ time \in 0 .. MaxTime /\ now \in 0 .. MaxTime
    BY <1>2 DEF Init
<1>4. op.ev \in Timers \cup {None} /\ op.type \in Types /\ op.delay \in Nat
    BY DEF Init, NoOp, Types
<1>5. TypeOK
    BY <1>1, <1>3, <1>4 DEF Init, TypeOK
<1> QED BY <1>1, <1>5 DEF Init, IInv, ListSorted, HandOff, InHand

\* SetTimer takes the timer off the list before it writes its TriggerTime.
LEMMA SetTimerKeeps ==
    ASSUME IInv, NEW e \in Timers, NEW type \in Types, NEW delay \in Delays,
           SetTimer(e, type, delay)
    PROVE  IInv'
<1>1. /\ list' \in Seq(Timers) /\ Sorted(list', trigger')
      /\ ToSet(list') = ToSet(list) \ {e}
    <2>1. list \in Seq(Timers) /\ Sorted(list, trigger)
        BY DEF IInv, TypeOK, ListSorted, Sorted
    <2>2. \A f \in Timers : f # e => trigger'[f] = trigger[f]
        BY DEF IInv, TypeOK, SetTimer
    <2>3. list' = Unlink(list, e)
        BY DEF SetTimer
    <2> QED BY <2>1, <2>2, <2>3, UnlinkSorted
<1>2. op'.ev = e /\ op'.type \in Types /\ op'.delay \in Nat
    <2>1. delay \in Nat /\ TimerPeriod \in Nat
        BY TimerAssumption
    <2> QED BY <2>1 DEF SetTimer
<1>3. Never \in Nat
    BY TimerAssumption DEF Never
<1>4. TypeOK'
    BY <1>1, <1>2, <1>3 DEF IInv, TypeOK, SetTimer
<1>5. HandOff'
    BY <1>1, <1>2 DEF HandOff
<1> QED BY <1>1, <1>4, <1>5 DEF IInv, ListSorted, Sorted

LEMMA SetTriggerTimeKeeps == IInv /\ SetTriggerTime => IInv'
<1> SUFFICES ASSUME IInv, SetTriggerTime PROVE IInv'
    OBVIOUS
<1>1. op.ev \in Timers /\ op.ev \notin ToSet(list)
    BY DEF IInv, HandOff, InHand, SetTriggerTime
<1>2. time + op.delay \in Nat /\ U64(time + op.delay) \in Nat
    <2>1. time + op.delay \in Nat
        BY TimerAssumption DEF IInv, TypeOK
    <2> QED BY <2>1, U64Nat
<1>3. TypeOK'
    BY <1>2 DEF IInv, TypeOK, SetTriggerTime
<1>4. ListSorted'
    <2>1. \A i \in DOMAIN list : list[i] # op.ev /\ list[i] \in Timers
        BY <1>1, ElementOfSeq DEF IInv, TypeOK, ToSet
    <2>2. \A f \in Timers : f # op.ev => trigger'[f] = trigger[f]
        BY DEF IInv, TypeOK, SetTriggerTime
    <2>3. list' = list
        BY DEF SetTriggerTime
    <2> QED BY <2>1, <2>2, <2>3 DEF IInv, ListSorted
<1>5. HandOff'
    BY <1>1 DEF HandOff, SetTriggerTime
<1> QED BY <1>3, <1>4, <1>5 DEF IInv

LEMMA SetInsertKeeps == IInv /\ SetInsert => IInv'
<1> SUFFICES ASSUME IInv, SetInsert PROVE IInv'
    OBVIOUS
<1>1. op.ev \in Timers /\ op.ev \notin ToSet(list)
    BY DEF IInv, HandOff, InHand, SetInsert
<1>2. /\ list' \in Seq(Timers) /\ Sorted(list', trigger)
    <2>1. /\ list \in Seq(Timers) /\ Sorted(list, trigger)
          /\ trigger \in [Timers -> Nat]
        BY DEF IInv, TypeOK, ListSorted, Sorted
    <2>2. list' = Insert(list, op.ev, trigger[op.ev])
        BY DEF SetInsert
    <2> QED BY <1>1, <2>1, <2>2, InsertSorted
<1>3. TypeOK'
    BY <1>2 DEF IInv, TypeOK, SetInsert
<1>4. ListSorted' /\ HandOff'
    BY <1>2 DEF ListSorted, Sorted, HandOff, InHand, SetInsert
<1> QED BY <1>3, <1>4 DEF IInv

LEMMA CheckExpiredKeeps == IInv /\ CheckExpired => IInv'
<1> SUFFICES ASSUME IInv, CheckExpired PROVE IInv'
    OBVIOUS
<1>1. /\ Head(list) \in Timers
      /\ list' \in Seq(Timers) /\ Sorted(list', trigger)
      /\ Head(list) \notin ToSet(list')
    <2>1. list \in Seq(Timers) /\ Sorted(list, trigger)
        BY DEF IInv, TypeOK, ListSorted, Sorted
    <2>2. list # << >> /\ list' = Tail(list)
        BY DEF CheckExpired
    <2> QED BY <2>1, <2>2, TailSorted
<1>2. op'.ev = Head(list) /\ op'.type \in Types /\ op'.delay \in Nat
    BY DEF CheckExpired, NoOp, Types
<1>3. Never \in Nat
    BY TimerAssumption DEF Never
<1>4. TypeOK'
    BY <1>1, <1>2, <1>3 DEF IInv, TypeOK, CheckExpired
<1>5. ListSorted'
    BY <1>1 DEF ListSorted, Sorted, CheckExpired
<1>6. HandOff'
    BY <1>1, <1>2 DEF HandOff
<1> QED BY <1>4, <1>5, <1>6 DEF IInv

LEMMA CheckRearmKeeps == IInv /\ CheckRearm => IInv'
<1> SUFFICES ASSUME IInv, CheckRearm PROVE IInv'
    OBVIOUS
<1>1. op.ev \in Timers /\ op.ev \notin ToSet(list)
    BY DEF IInv, HandOff, InHand, CheckRearm
<1>2. /\ trigger[op.ev] + period[op.ev] \in Nat /\ now \in Nat
      /\ U64(trigger[op.ev] + period[op.ev]) \in Nat
    <2>1. trigger[op.ev] + period[op.ev] \in Nat /\ now \in Nat
        BY <1>1, TimerAssumption DEF IInv, TypeOK
    <2> QED BY <2>1, U64Nat
<1>3. /\ trigger' \in [Timers -> Nat] /\ due' \in [Timers -> Nat]
      /\ \A f \in Timers : f # op.ev => trigger'[f] = trigger[f]
    BY <1>1, <1>2 DEF IInv, TypeOK, CheckRearm
<1>4. list' \in Seq(Timers) /\ Sorted(list', trigger')
    <2>1. /\ list \in Seq(Timers) /\ Sorted(list, trigger)
          /\ trigger \in [Timers -> Nat]
        BY DEF IInv, TypeOK, ListSorted, Sorted
    <2>2. list' = Insert(list, op.ev, trigger'[op.ev])
        BY DEF CheckRearm
    <2> QED BY <1>1, <1>3, <2>1, <2>2, InsertSorted
<1>5. TypeOK'
    BY <1>3, <1>4 DEF IInv, TypeOK, CheckRearm
<1>6. ListSorted' /\ HandOff'
    BY <1>4 DEF ListSorted, Sorted, HandOff, InHand, CheckRearm
<1> QED BY <1>5, <1>6 DEF IInv

\* The steps that leave the list and the timers alone.
LEMMA OthersKeep ==
    ASSUME IInv,
           \/ Unlock \/ CheckTimers \/ CheckTime \/ CheckDone
           \/ \E e \in Timers : Notify(e)
           \/ \E duration \in Durations : TimerTick(duration)
           \/ UNCHANGED vars
    PROVE  IInv'
<1>1. UNCHANGED <<list, trigger, period, due>>
    BY DEF Unlock, CheckTimers, CheckTime, CheckDone, Notify, TimerTick, vars
<1>2. ListSorted'
    BY <1>1 DEF IInv, ListSorted
<1>3. HandOff'
    <2>1. InHand' => UNCHANGED <<pc, op>>
        BY DEF InHand, Unlock, CheckTimers, CheckTime, CheckDone, Notify,
               TimerTick, vars
    <2> QED BY <1>1, <2>1 DEF IInv, HandOff, InHand
<1>4. TypeOK'
    <2>1. MaxTime \in Nat
        BY TimerAssumption
    <2>2. CASE Unlock
        BY <2>1, <2>2 DEF IInv, TypeOK, Unlock, NoOp, Types
    <2>3. CASE CheckTimers
        BY <2>3 DEF IInv, TypeOK, CheckTimers
    <2>4. CASE CheckTime
        BY <2>4 DEF IInv, TypeOK, CheckTime
    <2>5. CASE CheckDone
        BY <2>5 DEF IInv, TypeOK, CheckDone
    <2>6. ASSUME NEW e \in Timers, Notify(e) PROVE TypeOK'
        BY <2>6 DEF IInv, TypeOK, Notify
    <2>7. ASSUME NEW duration \in Durations, TimerTick(duration) PROVE TypeOK'
        <3>1. duration \in Nat /\ time \in 0 .. MaxTime
            BY TimerAssumption DEF IInv, TypeOK
        <3>2. time' \in 0 .. MaxTime
            BY <2>1, <2>7, <3>1 DEF TimerTick
        <3>3. check' \in BOOLEAN
            BY <2>7 DEF IInv, TypeOK, TimerTick
        <3> QED BY <2>7, <3>2, <3>3 DEF IInv, TypeOK, TimerTick
    <2>8. CASE UNCHANGED vars
        BY <2>8 DEF IInv, TypeOK, vars
    <2> QED BY <2>2, <2>3, <2>4, <2>5, <2>6, <2>7, <2>8
<1> QED BY <1>2, <1>3, <1>4 DEF IInv

LEMMA NextIInv == IInv /\ [Next]_vars => IInv'
BY SetTimerKeeps, SetTriggerTimeKeeps, SetInsertKeeps, CheckExpiredKeeps,
   CheckRearmKeeps, OthersKeep DEF Next, LockStep

LEMMA SpecIInv == Spec => []IInv
BY InitIInv, NextIInv, PTL DEF Spec

(* The timer list is in the order of TriggerTime and holds an event once   *)
(* at every moment, so the head that CoreTimerTick looks at without the    *)
(* lock is the next timer to expire; for any timers, delays and durations. *)
THEOREM TimersSorted == Spec => []TimerInv
<1>1. IInv => TimerInv
    BY DEF IInv, TimerInv
<1> QED BY <1>1, SpecIInv, PTL

-----------------------------------------------------------------------------
(***************************************************************************)
(* No timer is early.  Nothing in Timer.c keeps the sum of the time and a  *)
(* delay within 64 bits: what a caller may rely on is stated for sums that *)
(* fit.                                                                    *)
(***************************************************************************)
NoWrap == \A d \in Delays \cup {TimerPeriod} : MaxTime + d < 2^Width

Waits == Delays \cup {TimerPeriod, 0}

\* A timer on the list, or about to be linked, does not expire before it is
\* due; what CoreCheckTimers compares with is never in the future.
Honest(e) == due[e] <= trigger[e]

OnTime ==
    /\ now <= time
    /\ \A e \in Timers : period[e] \in Waits
    /\ op.delay \in Waits
    /\ \A e \in ToSet(list) : Honest(e)
    /\ pc = "setinsert" => Honest(op.ev)
    /\ pc = "rearm" => trigger[op.ev] <= now

LEMMA WaitFits ==
    ASSUME NoWrap, NEW n \in 0 .. MaxTime, NEW d \in Waits
    PROVE  /\ n + d \in Nat /\ U64(n + d) = n + d
           /\ d \in Nat
<1>1. d \in Nat /\ MaxTime \in Nat
    BY TimerAssumption DEF Waits
<1>2. MaxTime < 2^Width /\ 2^Width \in Nat \ {0}
    BY TimerAssumption
<1>3. MaxTime + d < 2^Width
    BY <1>1, <1>2 DEF NoWrap, Waits
<1> DEFINE w == 2^Width
<1>4. n + d \in Nat /\ n + d < w /\ w \in Nat \ {0}
    BY <1>1, <1>2, <1>3
<1> HIDE DEF w
<1>5. (n + d) % w = n + d
    BY <1>4
<1> QED BY <1>1, <1>4, <1>5 DEF U64, w

LEMMA InitOnTime == Init => OnTime
<1> SUFFICES ASSUME Init PROVE OnTime
    OBVIOUS
<1>1. ToSet(list) = {}
    BY DEF Init, ToSet
<1>2. now <= time /\ op.delay = 0
    BY DEF Init, NoOp
<1>3. \A e \in Timers : period[e] \in Waits
    BY DEF Init, Waits
<1> QED BY <1>1, <1>2, <1>3 DEF Init, OnTime, Waits

LEMMA SetOnTime ==
    ASSUME IInv, OnTime, NEW e \in Timers, NEW type \in Types,
           NEW delay \in Delays, SetTimer(e, type, delay)
    PROVE  OnTime'
<1>1. ToSet(list') = ToSet(list) \ {e}
    <2>1. list \in Seq(Timers) /\ Sorted(list, trigger) /\ list' = Unlink(list, e)
        BY DEF IInv, TypeOK, ListSorted, Sorted, SetTimer
    <2> QED BY <2>1, UnlinkSorted
<1>2. op'.delay \in Waits
    BY DEF SetTimer, Waits
<1>3. \A f \in Timers : period'[f] \in Waits
    <2>1. period' = [period EXCEPT ![e] = IF type = "periodic" THEN op'.delay ELSE 0]
        BY DEF SetTimer
    <2>2. period \in [Timers -> Nat] /\ 0 \in Waits
        BY DEF IInv, TypeOK, Waits
    <2>3. (IF type = "periodic" THEN op'.delay ELSE 0) \in Waits
        BY <1>2, <2>2
    <2> QED BY <2>1, <2>2, <2>3 DEF OnTime
<1>4. \A f \in ToSet(list') : Honest(f)'
    <2> SUFFICES ASSUME NEW f \in ToSet(list), f # e PROVE Honest(f)'
        BY <1>1
    <2>1. f \in Timers
        BY ElementOfSeq DEF IInv, TypeOK, ToSet
    <2>2. due'[f] = due[f] /\ trigger'[f] = trigger[f]
        BY <2>1 DEF IInv, TypeOK, SetTimer
    <2> QED BY <2>2 DEF OnTime, Honest
<1> QED BY <1>2, <1>3, <1>4 DEF OnTime, SetTimer

LEMMA SetTriggerOnTime == ASSUME NoWrap, IInv, OnTime, SetTriggerTime PROVE OnTime'
<1>1. op.ev \in Timers /\ op.ev \notin ToSet(list)
    BY DEF IInv, HandOff, InHand, SetTriggerTime
<1>2. U64(time + op.delay) = time + op.delay /\ time + op.delay \in Nat
    BY WaitFits DEF IInv, TypeOK, OnTime
<1>3. Honest(op.ev)'
    BY <1>1, <1>2 DEF Honest, IInv, TypeOK, SetTriggerTime
<1>4. \A f \in ToSet(list) : Honest(f)'
    <2> SUFFICES ASSUME NEW f \in ToSet(list) PROVE Honest(f)'
        OBVIOUS
    <2>1. f \in Timers /\ f # op.ev
        BY <1>1, ElementOfSeq DEF IInv, TypeOK, ToSet
    <2>2. due'[f] = due[f] /\ trigger'[f] = trigger[f]
        BY <2>1 DEF IInv, TypeOK, SetTriggerTime
    <2> QED BY <2>2 DEF OnTime, Honest
<1>5. time \in Nat
    BY TimerAssumption DEF IInv, TypeOK
<1> QED BY <1>3, <1>4, <1>5 DEF OnTime, Honest, SetTriggerTime

LEMMA SetInsertOnTime == ASSUME IInv, OnTime, SetInsert PROVE OnTime'
<1>1. op.ev \in Timers /\ op.ev \notin ToSet(list)
    BY DEF IInv, HandOff, InHand, SetInsert
<1>2. ToSet(list') \subseteq ToSet(list) \cup {op.ev}
    <2>1. /\ list \in Seq(Timers) /\ Sorted(list, trigger)
          /\ trigger \in [Timers -> Nat]
          /\ list' = Insert(list, op.ev, trigger[op.ev])
        BY DEF IInv, TypeOK, ListSorted, Sorted, SetInsert
    <2> QED BY <1>1, <2>1, InsertSorted
<1>3. \A f \in ToSet(list') : Honest(f)'
    BY <1>2 DEF OnTime, Honest, SetInsert
<1> QED BY <1>3 DEF OnTime, SetInsert

LEMMA ExpiredOnTime == ASSUME IInv, OnTime, CheckExpired PROVE OnTime'
<1> DEFINE e == Head(list)
<1>1. /\ e \in Timers /\ ToSet(list') \subseteq ToSet(list) \ {e}
    <2>1. /\ list \in Seq(Timers) /\ Sorted(list, trigger)
          /\ list # << >> /\ list' = Tail(list)
        BY DEF IInv, TypeOK, ListSorted, Sorted, CheckExpired
    <2> QED BY <2>1, TailSorted
<1>2. \A f \in ToSet(list') : Honest(f)'
    <2> SUFFICES ASSUME NEW f \in ToSet(list), f # e PROVE Honest(f)'
        BY <1>1
    <2>1. f \in Timers
        BY ElementOfSeq DEF IInv, TypeOK, ToSet
    <2>2. due'[f] = due[f] /\ trigger'[f] = trigger[f]
        BY <2>1 DEF IInv, TypeOK, CheckExpired
    <2> QED BY <2>2 DEF OnTime, Honest
<1>3. op'.ev = e /\ op'.delay \in Waits /\ trigger[e] <= now
    BY DEF CheckExpired, NoOp, Waits
<1> QED BY <1>2, <1>3 DEF OnTime, CheckExpired

LEMMA RearmOnTime == ASSUME NoWrap, IInv, OnTime, CheckRearm PROVE OnTime'
<1> DEFINE e == op.ev
           next == trigger[e] + period[e]
<1>1. e \in Timers /\ e \notin ToSet(list)
    BY DEF IInv, HandOff, InHand, CheckRearm
<1>2. /\ trigger[e] \in Nat /\ now \in 0 .. MaxTime /\ trigger[e] <= now
      /\ MaxTime \in Nat
    BY <1>1, TimerAssumption DEF IInv, TypeOK, OnTime, CheckRearm
<1>3. U64(next) = next /\ next \in Nat
    <2>1. trigger[e] \in 0 .. MaxTime
        BY <1>2
    <2>2. period[e] \in Waits
        BY <1>1 DEF OnTime
    <2> QED BY <2>1, <2>2, WaitFits
<1>4. /\ trigger' = [trigger EXCEPT ![e] = IF next <= now THEN now ELSE next]
      /\ due' = [due EXCEPT ![e] = IF next <= now THEN now ELSE next]
    BY <1>3 DEF CheckRearm
<1> HIDE DEF next
<1>5. Honest(e)'
    <2>1. /\ trigger'[e] = IF next <= now THEN now ELSE next
          /\ due'[e] = IF next <= now THEN now ELSE next
        BY <1>1, <1>4 DEF IInv, TypeOK
    <2>2. UNCHANGED op
        BY DEF CheckRearm
    <2> QED BY <1>2, <1>3, <2>1, <2>2 DEF Honest
<1>6. ToSet(list') \subseteq ToSet(list) \cup {e}
    <2>1. /\ list \in Seq(Timers) /\ Sorted(list, trigger)
          /\ trigger \in [Timers -> Nat]
          /\ list' = Insert(list, e, trigger'[e])
        BY DEF IInv, TypeOK, ListSorted, Sorted, CheckRearm
    <2>2. /\ trigger' \in [Timers -> Nat]
          /\ \A f \in Timers : f # e => trigger'[f] = trigger[f]
        <3>1. (IF next <= now THEN now ELSE next) \in Nat
            BY <1>2, <1>3
        <3> QED BY <1>4, <2>1, <3>1
    <2> QED BY <1>1, <2>1, <2>2, InsertSorted
<1>7. \A f \in ToSet(list') : Honest(f)'
    <2> SUFFICES ASSUME NEW f \in ToSet(list') PROVE Honest(f)'
        OBVIOUS
    <2>1. CASE f = e
        BY <1>5, <2>1 DEF CheckRearm, Honest
    <2>2. CASE f # e
        <3>0. f \in ToSet(list)
            BY <1>6, <2>2
        <3>1. f \in ToSet(list) /\ f \in Timers
            BY <3>0, ElementOfSeq DEF IInv, TypeOK, ToSet
        <3>2. due'[f] = due[f] /\ trigger'[f] = trigger[f]
            BY <1>4, <2>2, <3>1 DEF IInv, TypeOK
        <3> QED BY <3>1, <3>2 DEF OnTime, Honest
    <2> QED BY <2>1, <2>2
<1> QED BY <1>7 DEF OnTime, CheckRearm

LEMMA OthersOnTime ==
    ASSUME IInv, OnTime,
           \/ Unlock \/ CheckTimers \/ CheckTime \/ CheckDone
           \/ \E e \in Timers : Notify(e)
           \/ \E duration \in Durations : TimerTick(duration)
           \/ UNCHANGED vars
    PROVE  OnTime'
<1>1. UNCHANGED <<list, trigger, period, due>>
    BY DEF Unlock, CheckTimers, CheckTime, CheckDone, Notify, TimerTick, vars
<1>2. now' <= time'
    <2>1. time \in Nat /\ now \in Nat /\ now <= time
        BY TimerAssumption DEF IInv, TypeOK, OnTime
    <2>2. ASSUME NEW duration \in Durations, TimerTick(duration)
          PROVE  now' <= time'
        <3>1. duration \in Nat /\ MaxTime \in Nat /\ time \in 0 .. MaxTime
            BY TimerAssumption DEF IInv, TypeOK
        <3> QED BY <2>1, <2>2, <3>1 DEF TimerTick
    <2>3. CASE Unlock
        BY <2>1, <2>3 DEF Unlock
    <2>4. CASE CheckTime
        BY <2>1, <2>4 DEF CheckTime
    <2>5. CASE UNCHANGED <<time, now>>
        BY <2>1, <2>5
    <2> QED BY <2>2, <2>3, <2>4, <2>5
        DEF CheckTimers, CheckDone, Notify, vars
<1>3. op'.delay \in Waits
    <2>1. CASE Unlock
        BY <2>1 DEF Unlock, NoOp, Waits
    <2>2. CASE UNCHANGED op
        BY <2>2 DEF OnTime
    <2> QED BY <2>1, <2>2
        DEF CheckTimers, CheckTime, CheckDone, Notify, TimerTick, vars
<1>4. pc' \in {"setinsert", "rearm"} => UNCHANGED <<pc, op, now>>
    BY DEF Unlock, CheckTimers, CheckTime, CheckDone, Notify, TimerTick, vars
<1> QED BY <1>1, <1>2, <1>3, <1>4 DEF OnTime, Honest

LEMMA NextOnTime == ASSUME NoWrap PROVE IInv /\ OnTime /\ [Next]_vars => OnTime'
BY SetOnTime, SetTriggerOnTime, SetInsertOnTime, ExpiredOnTime, RearmOnTime,
   OthersOnTime DEF Next, LockStep

LEMMA ExpiredIsDue ==
    IInv /\ OnTime => (CheckExpired => due[Head(list)] <= time)
<1> SUFFICES ASSUME IInv, OnTime, CheckExpired PROVE due[Head(list)] <= time
    OBVIOUS
<1>1. Head(list) \in Timers /\ Head(list) \in ToSet(list)
    <2>1. list \in Seq(Timers) /\ list # << >>
        BY DEF IInv, TypeOK, CheckExpired
    <2>2. Head(list) = list[1] /\ 1 \in DOMAIN list
        BY <2>1, EmptySeq
    <2> QED BY <2>1, <2>2, HeadTailProperties DEF ToSet
<1>2. /\ due[Head(list)] <= trigger[Head(list)]
      /\ trigger[Head(list)] <= now /\ now <= time
    BY <1>1 DEF OnTime, Honest, CheckExpired
<1>3. /\ due[Head(list)] \in Nat /\ trigger[Head(list)] \in Nat
      /\ now \in Nat /\ time \in Nat
    BY <1>1, TimerAssumption DEF IInv, TypeOK
<1> QED BY <1>2, <1>3

(* CoreCheckTimers signals a timer only when its caller's delay, or its    *)
(* period, has passed, however many ticks come between the reading of the  *)
(* time, the insertion and the check; when time plus delay fits 64 bits.   *)
THEOREM NotEarly == ASSUME NoWrap PROVE Spec => NeverEarly
<1>1. Init /\ [][Next]_vars => []OnTime
    <2>1. Init => IInv /\ OnTime
        BY InitIInv, InitOnTime
    <2>2. IInv /\ OnTime /\ [Next]_vars => IInv' /\ OnTime'
        BY NextIInv, NextOnTime
    <2> QED BY <2>1, <2>2, PTL
<1> QED BY <1>1, SpecIInv, ExpiredIsDue, PTL DEF Spec, NeverEarly
=============================================================================

---------------------------- MODULE MpInitProofs ----------------------------
(***************************************************************************)
(* Proofs about MpInit, for every number of APs.                           *)
(***************************************************************************)
EXTENDS MpInit, EventListProofs, FiniteSetTheorems

-----------------------------------------------------------------------------
(***************************************************************************)
(* The list of steps.                                                      *)
(***************************************************************************)
\* How a call is made, and the procedures that a wake-up is for
Modes == {"poll", "block"}
Kinds == {"null", "sync", "proc", "relocate"}

\* The steps of a wake-up, those that make a call, and those that may end one
Wakes  == {"zero", "ready", "init", "awake", "count", "idle"}
Starts == {"startAll", "startSingle", "startThis"}
Checks == {"see", "decide", "report"}

\* Every step that there may be
Steps ==
    [do : Wakes \union Starts \union Checks \union
            {"look", "reclaim", "tell", "forget", "pending", "return", "end", "gone"},
     p : 0 .. N + 1, i : 0 .. N + 1, x : Kinds \union Modes \union {""}]

\* What a step is for, by its name: WakeUpAP and its callers make no others.
WellFormed(a) ==
    /\ a.do \in Wakes =>
          /\ a.x \in Kinds /\ a.p \in 0 .. N
          /\ a.p # All => a.i = a.p /\ a.x \in {"proc", "null"}
          /\ a.p = All => a.x # "null"
          /\ a.p = All /\ a.do \in {"ready", "awake", "idle"} => a.i \in APs
          /\ a.p = All /\ a.do \in {"zero", "init", "count"} => a.i = 0
          /\ a.do \in {"count", "idle"} => a.x \in {"null", "sync"}
    /\ a.do \in {"look", "decide", "report", "see", "reclaim"} \union Starts => a.x \in Modes
    /\ a.do \in {"look", "report", "see", "tell", "forget", "pending", "startThis"} => a.i = a.p
    /\ a.do = "look" => a.p \in 1 .. N + 1
    /\ a.do \in {"see", "startThis"} => a.p \in APs
    /\ a.do \in {"report", "tell", "forget"} => a.p \in 0 .. N
    /\ a.do \in {"decide", "startAll", "startSingle", "return", "end", "gone"} =>
          a.p = All /\ a.i = 0
    /\ a.do = "reclaim" => a.p = All /\ a.i \in APs
    /\ a.do \in {"tell", "forget", "pending", "return", "end"} => a.x = ""
    /\ a.do = "gone" => a.x = "relocate"

First(a) == IF a.p = All THEN 1 ELSE a.p

\* What may come right behind a step.  With it a list of steps is as the functions
\* of the BSP nest: a wake-up within a check, a check within a call.
Follows(a, b) ==
    /\ a.do \notin {"return", "end", "gone"}
    /\ a.do = "zero"   => b.do = "ready" /\ b.p = a.p /\ b.x = a.x /\ b.i = First(a)
    /\ a.do = "ready"  => b.do = "init" /\ b.p = a.p /\ b.x = a.x
    /\ a.do = "init"   => b.do = "awake" /\ b.p = a.p /\ b.x = a.x /\ b.i = First(a)
    /\ a.do = "awake" /\ a.x = "proc" =>
          /\ b.do \in {"see", "look", "return"}
          /\ b.do = "see" => b.p = a.p /\ b.x = "block"
    /\ a.do = "awake" /\ a.x \in {"sync", "null"} =>
          b.do = "count" /\ b.p = a.p /\ b.x = a.x
    /\ a.do = "awake" /\ a.x = "relocate" => b.do = "gone"
    /\ a.do = "count"  => b.do = "idle" /\ b.p = a.p /\ b.x = a.x /\ b.i = First(a)
    /\ a.do = "idle"   =>
          /\ a.x = "null"
          /\ \/ b.do = "reclaim" /\ b.i = a.p + 1
             \/ b.do = "report" /\ (b.p = a.p \/ (b.p = All /\ a.p = N))
    /\ a.do = "look"   => b.do = "decide" /\ b.x = a.x
    /\ a.do \in Checks => b.do = IF a.x = "poll" THEN "pending" ELSE "return"
    /\ a.do = "reclaim" => b.do = "report" /\ b.p = All /\ b.x = a.x
    /\ a.do = "tell"   => b.do = "forget" /\ b.p = a.p
    /\ a.do = "forget" => b.do = "pending"
    /\ a.do = "pending" => b.do \in Starts \union {"end"}
    /\ a.do \in Starts => b.do = "return"

\* What may be last
Ends(a) == a.do \in {"return", "end", "gone"} \/ (a.do = "idle" /\ a.x = "sync")

\* The steps of a list
Items(t) == {t[k] : k \in 1 .. Len(t)}

\* The lists of steps that occur
Program(t) ==
    /\ t \in Seq(Steps)
    /\ \A k \in 1 .. Len(t) : WellFormed(t[k])
    /\ \A k \in 1 .. Len(t) - 1 : Follows(t[k], t[k + 1])
    /\ t # << >> => Ends(t[Len(t)])

-----------------------------------------------------------------------------
\* The BSP is at a step for x.
Doing(x) == todo # << >> /\ Top.x = x
\* The first wake-up of all APs is yet to come or in progress.
Booting == phase = "off" \/ Doing("sync")
\* APs are there for calls.
Working == phase = "boot" /\ ~Doing("sync")

\* The phases and what is done in each; what is done while mStopCheckAllApsStatus is
\* not set is the timer event's.
PhaseOK ==
    /\ phase = "off" => todo = << >> /\ stop
    /\ phase = "boot" => ~Doing("relocate")
    /\ phase = "os" => todo = << >> \/ Doing("relocate")
    /\ phase = "boot" /\ ~stop /\ todo # << >> => todo[Len(todo)].do = "end"

\* The AP is one that the step is for.
Wakes1(p) == Top.p \in {All, p}
\* The AP is about to be marked for a wake-up.
ToReady(p) == \/ At("zero") /\ Wakes1(p)
              \/ At("ready") /\ Wakes1(p) /\ p >= Top.i
\* The AP is marked, and is about to be started anew.
ToInit(p)  == \/ At("ready") /\ Wakes1(p) /\ p < Top.i
              \/ At("init") /\ Wakes1(p)

\* The APs that are yet to increment FinishedCount
Flying == {p \in APs : pc[p] \in {"start", "check", "busy", "locked", "run", "finish",
                                  "release", "count"}}

\* FinishedCount and the APs that are yet to increment it: two for each AP at most, and
\* one before a wake-up, which starts from 0.
CountOK ==
    /\ finished + Cardinality(Flying) <= 2 * N
    /\ At("ready") \/ At("init") => finished + Cardinality(Flying) <= N

\* An AP on its way
PlaceOK(p) ==
    /\ lock[p] <=> pc[p] \in {"locked", "release"}
    /\ signal[p] => pc[p] = "start" \/ ToInit(p)
    /\ ToReady(p) \/ ToInit(p) => pc[p] \in {"pei", "parked", "count", "hung"}
    /\ ToInit(p) => state[p] = "ready" /\ function[p] = Top.x
    /\ state[p] = "ready" => ToInit(p) \/ pc[p] \in {"start", "check", "busy", "finish"}
    /\ pc[p] \in {"start", "check"} => state[p] = "ready"
    /\ pc[p] = "busy" => state[p] = "ready"
    /\ pc[p] \in {"locked", "run"} => state[p] = "busy"
    /\ pc[p] \in {"busy", "locked", "run"} =>
          procedure[p] = function[p] /\ function[p] # "null"
    /\ pc[p] = "hung" => state[p] = "busy" \/ ToInit(p)
    /\ pc[p] = "finish" => procedure[p] = "null" /\ state[p] \in {"ready", "busy"}
    /\ pc[p] = "release" => state[p] = "finished"
    /\ pc[p] \in {"count", "parked", "pei"} =>
          state[p] \in {"finished", "idle", "disabled"} \/ ToInit(p)
    /\ pc[p] = "gone" => phase = "os"
    /\ pc[p] = "pei" => Booting
    /\ ran[p] # "bad"

\* At the start all APs are synchronised and made idle, and no call is outstanding.
BootOK ==
    Booting =>
       /\ \A p \in APs : by[p] = Nobody
       /\ event = {} /\ group.waiting = {} /\ group.running = 0 /\ group.start = 0
       /\ phase = "off" =>
             finished = 0 /\ \A p \in APs : pc[p] = "pei" /\ state[p] = "idle"
       /\ At("zero") \/ At("ready") \/ At("init") =>
             /\ finished = 0
             /\ \A p \in APs : pc[p] = "pei" /\ (ToReady(p) => state[p] = "idle")
       /\ At("awake") \/ At("count") =>
             /\ finished <= Cardinality({p \in APs : pc[p] = "parked"})
             /\ \A p \in APs :
                   /\ pc[p] \notin {"pei", "hung"}
                   /\ pc[p] \in {"start", "check", "busy", "locked", "run"} =>
                         function[p] = "sync"
       /\ At("idle") =>
             \A p \in APs : pc[p] = "parked" /\ (p < Top.i => state[p] = "idle")

\* At the end of boot all APs are sent away, and no call is outstanding.
LeaveOK ==
    phase = "os" =>
       /\ \A p \in APs : by[p] = Nobody
       /\ event = {} /\ group.waiting = {}
       /\ toFinish + Cardinality({p \in APs : pc[p] = "gone"}) = N
       /\ \A p \in APs :
             /\ ToReady(p) => pc[p] \in {"parked", "count"} /\ state[p] \in {"idle", "disabled"}
             /\ ToInit(p) => pc[p] \in {"parked", "count"}
             /\ ~ToReady(p) /\ ~ToInit(p) =>
                   /\ pc[p] \in {"start", "check", "busy", "locked", "run", "gone"}
                   /\ pc[p] # "gone" => function[p] = "relocate"

\* The calls
Ending == IF Top.x = "null" THEN by[Top.p] ELSE Top.p
\* A call ends in a time-out.
Resetting == At("reclaim") \/ At("report") \/ Doing("null")
Reclaiming == Resetting /\ Ending = All

\* The outstanding calls: each is answered by the timer event or checked by the call
\* itself, has an AP, and has its WaitEvent if it was polled.
CallsOK ==
    /\ \A p \in APs : by[p] \in {Nobody, All, p}
    /\ owed = IF At("forget") THEN event \ {Top.p} ELSE event
    /\ At("tell") \/ At("forget") => Top.p \in event /\ \A p \in APs : by[p] # Top.p
    /\ \A c \in event : (\E p \in APs : by[p] = c) \/ ((At("tell") \/ At("forget")) /\ Top.p = c)
    /\ \A p \in APs : by[p] # Nobody =>
          by[p] \in event \/ \E a \in Items(todo) :
                                a.do \in Checks /\ a.x = "block" /\ a.p = by[p]
    /\ \A a \in Items(todo) :
          /\ a.do \in Checks =>
                /\ a.x = "poll" => a.p \in event
                /\ a.x = "block" => a.p \notin event
                /\ \E p \in APs : by[p] = a.p
          /\ a.do = "startThis" => by[a.p] = Nobody
          /\ a.do = "startAll" => \A p \in APs : state[p] # "disabled"

\* The counts of StartupAllAPs and the APs that it waits for
GroupOK ==
    /\ \A p \in group.waiting : by[p] = All
    /\ group.running + Cardinality(group.waiting) <= group.start
    /\ ~Reclaiming =>
          /\ group.running + Cardinality(group.waiting) = group.start
          /\ \A p \in APs : by[p] = All /\ p \notin group.waiting =>
                state[p] = "idle" /\ ran[p] = "yes"
          /\ (\E p \in APs : by[p] = All) /\ group.waiting = {} => At("look") \/ At("decide")

\* It is the turn of the AP, the first that a sequential call waits for.
Turn(p) == by[p] = All /\ group.single => \A q \in group.waiting : p <= q

\* Before its turn, or woken up in this moment
Fresh(p) == ToReady(p) \/ ~Turn(p)

\* An AP that is asked by a call that is not ending in a time-out
LiveOK(p) ==
    /\ state[p] # "disabled"
    /\ pc[p] \in {"start", "check", "busy", "locked"} \/ ToInit(p) => ran[p] = "no"
    /\ pc[p] \in {"start", "check", "busy", "locked", "run"} => function[p] = "proc"
    /\ pc[p] \in {"run", "hung"} => ran[p] = "in"
    /\ pc[p] = "finish" => ran[p] = "yes" /\ state[p] = "busy"
    /\ state[p] = "finished" => ran[p] = "yes"
    /\ by[p] = p \/ p \in group.waiting =>
          /\ state[p] = "idle" => ran[p] = "no" 
          /\ state[p] = "idle" <=> Fresh(p)

\* An AP that no call asked: it has nothing left to do that matters.
RestOK(p) ==
    /\ state[p] \in {"idle", "disabled"} /\ ~signal[p]
    /\ pc[p] \in {"parked", "count"} /\ ~ToReady(p) /\ ~ToInit(p)

\* An AP of a call that ends in a time-out
EndingOK(p) ==
    /\ pc[p] = "hung" => ran[p] = "in"
    /\ IF Doing("null") /\ p = Top.p
       THEN /\ At("zero") \/ At("ready") \/ At("init") => pc[p] \in {"parked", "hung"}
            /\ At("awake") \/ At("count") =>
                  /\ pc[p] \in {"start", "check", "finish", "release", "count", "parked"}
                  /\ pc[p] \in {"start", "check"} => function[p] = "null"
            /\ At("idle") => pc[p] = "parked"
            /\ p \notin group.waiting
       ELSE /\ ~ToReady(p) /\ ~ToInit(p)
            /\ p \notin group.waiting => state[p] = "idle" /\ pc[p] = "parked"

\* The AP was asked by a call that goes on.
Live(p) == by[p] # Nobody /\ ~(Resetting /\ by[p] = Ending)

\* Each AP does what the call that asked it is for.
WorkOK ==
    Working =>
       /\ \A p \in APs :
             /\ by[p] = Nobody => RestOK(p)
             /\ Live(p) => LiveOK(p)
             /\ Resetting /\ by[p] = Ending => EndingOK(p)
             /\ ToReady(p) \/ ToInit(p) => by[p] # Nobody
             /\ (ToReady(p) \/ ToInit(p)) /\ by[p] = All /\ Doing("proc") =>
                   p \in group.waiting
             /\ ToReady(p) /\ Doing("proc") =>
                   state[p] = "idle" /\ pc[p] \in {"parked", "count"} /\ Turn(p)
             /\ ToInit(p) /\ Doing("proc") => pc[p] \in {"parked", "count"}

\* While APs are reset nothing else goes on, and those that are left are behind.
ResetOK ==
    /\ \A a \in Items(todo) : a.do \in {"reclaim", "report"} =>
          Resetting /\ a.p = Ending
    /\ Resetting =>
          /\ \A p \in APs : pc[p] \in {"parked", "hung"} \/ (Doing("null") /\ p = Top.p)
          /\ Ending # Nobody
          /\ Ending = All =>
                /\ At("reclaim") => \A q \in group.waiting : q >= Top.i
                /\ Doing("null") => \A q \in group.waiting : q > Top.p
                /\ At("report") => group.waiting = {}
    /\ Doing("null") =>
          /\ At("ready") \/ At("init") => finished = 0
          /\ At("awake") \/ At("count") => finished = 0 \/ (finished = 1 /\ pc[Top.p] = "parked")

\* The inductive invariant
IInv ==
    /\ TypeOK /\ Program(todo) /\ PhaseOK /\ CountOK /\ (\A p \in APs : PlaceOK(p))
    /\ BootOK /\ LeaveOK /\ CallsOK /\ GroupOK /\ WorkOK /\ ResetOK

-----------------------------------------------------------------------------
\* Without its first step a list of steps is one still.
LEMMA Popped ==
    ASSUME NEW t, Program(t), t # << >>
    PROVE  /\ Program(Tail(t)) /\ Head(t) \in Steps /\ WellFormed(Head(t))
           /\ Items(t) = {Head(t)} \union Items(Tail(t))
           /\ \/ Tail(t) = << >> /\ Ends(Head(t)) /\ t[Len(t)] = Head(t)
              \/ /\ Tail(t) # << >>
                 /\ Head(Tail(t)) \in Steps /\ WellFormed(Head(Tail(t)))
                 /\ Follows(Head(t), Head(Tail(t)))
                 /\ Tail(t)[Len(Tail(t))] = t[Len(t)]
<1> DEFINE u == Tail(t)
<1>1. t \in Seq(Steps) /\ Len(t) \in Nat \ {0} /\ Head(t) = t[1]
    BY EmptySeq DEF Program
<1>2. /\ u \in Seq(Steps) /\ Len(u) = Len(t) - 1
      /\ \A k \in 1 .. Len(u) : u[k] = t[k + 1]
    BY <1>1
<1>3. Head(t) \in Steps /\ WellFormed(Head(t))
    BY <1>1 DEF Program
<1>4. Items(t) = {Head(t)} \union Items(u)
    <2>1. 1 .. Len(t) = {1} \union {k + 1 : k \in 1 .. Len(u)}
        <3>1. \A k \in 2 .. Len(t) : k - 1 \in 1 .. Len(u) /\ k = (k - 1) + 1
            BY <1>1, <1>2
        <3>2. \A k \in 1 .. Len(t) : k = 1 \/ k \in 2 .. Len(t)
            BY <1>1
        <3>3. \A k \in 1 .. Len(u) : k + 1 \in 1 .. Len(t)
            BY <1>1, <1>2
        <3>4. 1 \in 1 .. Len(t)
            BY <1>1
        <3> QED BY <3>1, <3>2, <3>3, <3>4
    <2>2. Items(t) = {t[1]} \union {t[k + 1] : k \in 1 .. Len(u)}
        BY <2>1 DEF Items
    <2>3. Items(u) = {t[k + 1] : k \in 1 .. Len(u)}
        BY <1>2 DEF Items
    <2> QED BY <1>1, <2>2, <2>3
<1>5. /\ \A k \in 1 .. Len(u) : WellFormed(u[k])
      /\ \A k \in 1 .. Len(u) - 1 : Follows(u[k], u[k + 1])
    <2>1. \A k \in 1 .. Len(u) : k + 1 \in 1 .. Len(t)
        BY <1>1, <1>2
    <2>2. \A k \in 1 .. Len(u) - 1 : k + 1 \in 1 .. Len(t) - 1 /\ k \in 1 .. Len(u) /\ k + 1 \in 1 .. Len(u)
        BY <1>1, <1>2
    <2> QED BY <2>1, <2>2, <1>2 DEF Program
<1>6. CASE Len(t) = 1
    <2>1. u = << >>
        <3>1. Len(u) = 0 /\ u \in Seq(Steps)
            BY <1>2, <1>6
        <3> HIDE DEF u
        <3> QED BY <3>1, EmptySeq
    <2>2. Ends(Head(t)) /\ t[Len(t)] = Head(t)
        BY <1>1, <1>6 DEF Program
    <2> QED BY <1>2, <1>3, <1>4, <1>5, <2>1, <2>2 DEF Program
<1>7. CASE Len(t) # 1
    <2>1. Len(u) \in Nat \ {0} /\ u # << >> /\ Head(u) = u[1] /\ u[1] = t[2]
        BY <1>1, <1>2, <1>7
    <2>2. u[Len(u)] = t[Len(t)]
        BY <1>1, <1>2, <2>1
    <2>3. Follows(t[1], t[2]) /\ t[2] \in Steps /\ WellFormed(t[2])
        <3> DEFINE n == Len(t)
        <3>0. n \in Nat /\ n # 0 /\ n # 1
            BY <1>1, <1>7
        <3>1. 1 \in 1 .. n - 1 /\ 1 + 1 \in 1 .. n /\ 1 + 1 = 2
            <4> HIDE DEF n
            <4> QED BY <3>0
        <3>2. Follows(t[1], t[1 + 1]) /\ WellFormed(t[1 + 1]) /\ t[1 + 1] \in Steps
            BY <1>1, <3>1 DEF Program
        <3> QED BY <3>1, <3>2
    <2> QED BY <1>1, <1>2, <1>3, <1>4, <1>5, <2>1, <2>2, <2>3 DEF Program
<1> QED BY <1>6, <1>7

\* A step in front of a list that may follow it makes a list of steps.
LEMMA Pushed ==
    ASSUME NEW u, Program(u), NEW a \in Steps, WellFormed(a),
           u # << >> => Follows(a, Head(u)),
           u = << >> => Ends(a)
    PROVE  /\ Program(<< a >> \o u) /\ << a >> \o u # << >>
           /\ Head(<< a >> \o u) = a /\ Tail(<< a >> \o u) = u
           /\ Items(<< a >> \o u) = {a} \union Items(u)
           /\ (<< a >> \o u)[Len(<< a >> \o u)] = IF u = << >> THEN a ELSE u[Len(u)]
<1> DEFINE v == << a >> \o u
<1>1. /\ u \in Seq(Steps) /\ v \in Seq(Steps) /\ Len(v) = Len(u) + 1 /\ v[1] = a
      /\ Len(u) \in Nat
      /\ \A k \in 2 .. Len(v) : v[k] = u[k - 1]
    BY DEF Program
<1>2. v # << >> /\ Head(v) = a
    BY <1>1
<1>3. Tail(v) = u
    BY <1>1
<1>4. \A k \in 1 .. Len(v) : WellFormed(v[k])
    <2>1. \A k \in 1 .. Len(v) : k = 1 \/ (k \in 2 .. Len(v) /\ k - 1 \in 1 .. Len(u))
        BY <1>1
    <2> QED BY <1>1, <2>1 DEF Program
<1>5. \A k \in 1 .. Len(v) - 1 : Follows(v[k], v[k + 1])
    <2> TAKE k \in 1 .. Len(v) - 1
    <2>1. CASE k = 1
        <3>1. u # << >> /\ Head(u) = u[1] /\ v[2] = u[1]
            BY <1>1, <2>1, EmptySeq
        <3> QED BY <1>1, <2>1, <3>1
    <2>2. CASE k # 1
        <3>1. k - 1 \in 1 .. Len(u) - 1 /\ k \in 2 .. Len(v) /\ k + 1 \in 2 .. Len(v) /\ (k - 1) + 1 = k
              /\ (k + 1) - 1 = k
            BY <1>1, <2>2
        <3>2. v[k] = u[k - 1] /\ v[k + 1] = u[k]
            BY <1>1, <3>1
        <3>3. Follows(u[k - 1], u[(k - 1) + 1])
            BY <3>1 DEF Program
        <3> QED BY <3>1, <3>2, <3>3
    <2> QED BY <2>1, <2>2
<1>6. v[Len(v)] = IF u = << >> THEN a ELSE u[Len(u)]
    <2>1. CASE u = << >>
        BY <1>1, <2>1
    <2>2. CASE u # << >>
        <3>1. Len(u) \in Nat \ {0}
            BY <1>1, <2>2, EmptySeq
        <3> QED BY <1>1, <2>2, <3>1
    <2> QED BY <2>1, <2>2
<1>7. Ends(v[Len(v)])
    BY <1>6 DEF Program
<1>8. Program(v)
    BY <1>1, <1>4, <1>5, <1>7 DEF Program
<1>9. Items(v) = {a} \union Items(u)
    <2>1. Items(v) = {Head(v)} \union Items(Tail(v))
        BY <1>8, <1>2, Popped
    <2> QED BY <1>2, <1>3, <2>1
<1> QED BY <1>2, <1>3, <1>6, <1>8, <1>9

\* A step
Cell(do, p, i, x) == [do |-> do, p |-> p, i |-> i, x |-> x]

\* The numbers of APs, calls and steps
LEMMA Bounds ==
    /\ N \in Nat /\ N >= 1 /\ All = 0 /\ All \in 0 .. N /\ All \in 0 .. N + 1
    /\ 1 \in APs /\ 1 \in 0 .. N + 1
    /\ \A p \in APs : p \in 0 .. N /\ p \in 0 .. N + 1 /\ p # All /\ p \in Nat /\ p # Nobody
    /\ \A p \in 0 .. N : p \in 0 .. N + 1 /\ (p # All => p \in APs)
BY MpAssumption DEF All, APs, Nobody

\* Brackets do not matter.
LEMMA FourSteps ==
    ASSUME NEW S, NEW u \in Seq(S), NEW a \in S, NEW b \in S, NEW c \in S, NEW d \in S
    PROVE  (((<< a >> \o << b >>) \o << c >>) \o << d >>) \o u
              = << a >> \o (<< b >> \o (<< c >> \o (<< d >> \o u)))
<1> DEFINE sa == << a >>
           sb == << b >>
           sc == << c >>
           sd == << d >>
<1>1. sa \in Seq(S) /\ sb \in Seq(S) /\ sc \in Seq(S) /\ sd \in Seq(S)
    OBVIOUS
<1> HIDE DEF sa, sb, sc, sd
<1> DEFINE ab == sa \o sb
           abc == ab \o sc
           du == sd \o u
           cdu == sc \o du
<1>2. ab \in Seq(S) /\ abc \in Seq(S) /\ du \in Seq(S) /\ cdu \in Seq(S)
    BY <1>1
<1>3. (abc \o sd) \o u = abc \o du
    <2> HIDE DEF abc
    <2> QED BY <1>1, <1>2, ConcatAssociative
<1>4. abc \o du = ab \o cdu
    <2>1. ab \in Seq(S) /\ sc \in Seq(S) /\ du \in Seq(S)
        BY <1>1, <1>2
    <2> HIDE DEF ab, du
    <2> QED BY <2>1, ConcatAssociative
<1>5. ab \o cdu = sa \o (sb \o cdu)
    <2> HIDE DEF cdu
    <2> QED BY <1>1, <1>2, ConcatAssociative
<1> QED BY <1>3, <1>4, <1>5, Zenon DEF sa, sb, sc, sd

\* A wake-up before steps that follow it
LEMMA WakeProgram ==
    ASSUME NEW u, Program(u), u # << >>, NEW p \in 0 .. N, NEW f \in Kinds,
           p = All => f # "null", p # All => f \in {"proc", "null"},
           Follows(Cell("awake", p, IF p = All THEN 1 ELSE p, f), Head(u)),
           NEW w, w = IF p = All THEN WakeUpAll(f) ELSE WakeUpAP(p, f)
    PROVE  /\ Program(w \o u) /\ w \o u # << >>
           /\ Head(w \o u) = Cell("zero", p, p, f)
           /\ Items(u) \subseteq Items(w \o u)
           /\ \A a \in Items(w \o u) : a.do \in Wakes \/ a \in Items(u)
           /\ (w \o u)[Len(w \o u)] = u[Len(u)]
<1> DEFINE i == IF p = All THEN 1 ELSE p
           a1 == Cell("zero", p, p, f)
           a2 == Cell("ready", p, i, f)
           a3 == Cell("init", p, p, f)
           a4 == Cell("awake", p, i, f)
           u4 == << a4 >> \o u
           u3 == << a3 >> \o u4
           u2 == << a2 >> \o u3
           u1 == << a1 >> \o u2
<1>0. /\ {a1, a2, a3, a4} \subseteq Steps
      /\ WellFormed(a1) /\ WellFormed(a2) /\ WellFormed(a3) /\ WellFormed(a4)
      /\ Follows(a1, a2) /\ Follows(a2, a3) /\ Follows(a3, a4)
    <2>1. i \in APs /\ i \in 0 .. N + 1 /\ p \in 0 .. N + 1 /\ (p = All => p = 0) /\ (p # All => i = p)
        BY Bounds
    <2> HIDE DEF i
    <2>2. {a1, a2, a3, a4} \subseteq Steps
        <3>1. /\ {"zero", "ready", "init", "awake"} \subseteq Wakes
              /\ \A d \in Wakes, q \in 0 .. N + 1, j \in 0 .. N + 1 : Cell(d, q, j, f) \in Steps
            BY DEF Steps, Cell, Wakes
        <3> QED BY <2>1, <3>1
    <2>3. WellFormed(a1) /\ WellFormed(a2) /\ WellFormed(a3) /\ WellFormed(a4)
        BY <2>1 DEF WellFormed, Cell, Wakes, Starts, Kinds
    <2>4. Follows(a1, a2) /\ Follows(a2, a3) /\ Follows(a3, a4)
        BY <2>1 DEF Follows, Cell, Wakes, Starts, Checks, First, i
    <2> QED BY <2>2, <2>3, <2>4
<1>1. w \o u = u1
    <2>1. w = ((<< a1 >> \o << a2 >>) \o << a3 >>) \o << a4 >>
        <3>1. CASE p = All
            BY <3>1 DEF WakeUpAll, Step, ForAPs, Cell
        <3>2. CASE p # All
            BY <3>2 DEF WakeUpAP, Step, Cell
        <3> QED BY <3>1, <3>2
    <2>2. u \in Seq(Steps)
        BY DEF Program
    <2> HIDE DEF a1, a2, a3, a4
    <2>3. (((<< a1 >> \o << a2 >>) \o << a3 >>) \o << a4 >>) \o u = u1
        BY <1>0, <2>2, FourSteps
    <2> QED BY <2>1, <2>3
<1> HIDE DEF a1, a2, a3, a4, i
<1>2. /\ Program(u4) /\ u4 # << >> /\ Head(u4) = a4 /\ Items(u4) = {a4} \union Items(u)
      /\ u4[Len(u4)] = u[Len(u)]
    BY <1>0, Pushed DEF a4, i
<1> HIDE DEF u4
<1>3. /\ Program(u3) /\ u3 # << >> /\ Head(u3) = a3 /\ Items(u3) = {a3} \union Items(u4)
      /\ u3[Len(u3)] = u4[Len(u4)]
    BY <1>0, <1>2, Pushed
<1> HIDE DEF u3
<1>4. /\ Program(u2) /\ u2 # << >> /\ Head(u2) = a2 /\ Items(u2) = {a2} \union Items(u3)
      /\ u2[Len(u2)] = u3[Len(u3)]
    BY <1>0, <1>3, Pushed
<1> HIDE DEF u2
<1>5. /\ Program(u1) /\ u1 # << >> /\ Head(u1) = a1 /\ Items(u1) = {a1} \union Items(u2)
      /\ u1[Len(u1)] = u2[Len(u2)]
    BY <1>0, <1>4, Pushed
<1> HIDE DEF u1
<1>6. /\ a1.do \in Wakes /\ a2.do \in Wakes /\ a3.do \in Wakes /\ a4.do \in Wakes
    BY DEF a1, a2, a3, a4, Cell, Wakes
<1>7. \A a \in Items(w \o u) : a.do \in Wakes \/ a \in Items(u)
    BY <1>1, <1>2, <1>3, <1>4, <1>5, <1>6
<1> QED BY <1>1, <1>2, <1>3, <1>4, <1>5, <1>7 DEF a1
\* A step is its four fields.
LEMMA CellIs ==
    /\ \A a \in Steps : a = Cell(a.do, a.p, a.i, a.x)
    /\ \A a, b \in Steps : a.do = b.do /\ a.p = b.p /\ a.i = b.i /\ a.x = b.x => a = b
<1>1. \A D, P, I, X : \A a \in [do : D, p : P, i : I, x : X] :
          a = [do |-> a.do, p |-> a.p, i |-> a.i, x |-> a.x]
    OBVIOUS
<1>2. \A a \in Steps : a = Cell(a.do, a.p, a.i, a.x)
    BY <1>1 DEF Steps, Cell
<1> QED BY <1>2 DEF Cell

\* The step for another AP is a step.
LEMMA CellStep ==
    ASSUME NEW a \in Steps, NEW j \in 0 .. N + 1
    PROVE  Cell(a.do, a.p, j, a.x) \in Steps
BY DEF Steps, Cell

\* Steps of which nothing needs to be known before they are taken
Harmless == Wakes \union {"look", "tell", "forget", "pending"}

\* What a step of the BSP leaves of the list
Kept(new) ==
    /\ Program(todo')
    /\ todo' # << >> => (todo')[Len(todo')].do = todo[Len(todo)].do
    /\ \A a \in Items(todo) : a = Top \/ a \in Items(todo')
    /\ \A a \in Items(todo') : a.do \in Harmless \/ a \in Items(todo) \/ a \in new

\* The first step is to be taken for another AP.
Repeats == Top.p = All /\ Top.i \in 1 .. N - 1

\* The first step is one of the list.
LEMMA TopIs ==
    ASSUME Program(todo), todo # << >>
    PROVE  /\ Top \in Steps /\ WellFormed(Top) /\ Top \in Items(todo)
           /\ Top = Cell(Top.do, Top.p, Top.i, Top.x)
           /\ Program(Tail(todo))
BY Popped, CellIs DEF Top

\* A step that is taken once is replaced by those it calls for.
LEMMA DoSteps ==
    ASSUME Program(todo), todo # << >>, ~Repeats, NEW s \in Seq(Steps), Do(s)
    PROVE  todo' = s \o Tail(todo) /\ UNCHANGED <<stop, phase>>
<1>1. Again = << >>
    BY DEF Again, Repeats
<1>2. s \o << >> = s
    OBVIOUS
<1> QED BY <1>1, <1>2 DEF Do

\* A step is taken, for the next AP or for the last one.
LEMMA TakenAgain ==
    ASSUME Program(todo), todo # << >>, Do(<< >>), Repeats,
           Top.do \in {"ready", "awake"} \/ (Top.do = "idle" /\ Top.x = "sync")
    PROVE  /\ Kept({}) /\ todo' # << >> /\ Top' = Cell(Top.do, All, Top.i + 1, Top.x)
           /\ UNCHANGED <<stop, phase>>
<1> DEFINE u == Tail(todo)
           a == Cell(Top.do, All, Top.i + 1, Top.x)
<1>1. Top \in Steps /\ WellFormed(Top) /\ Program(u) /\ Top = Cell(Top.do, Top.p, Top.i, Top.x)
    BY TopIs
<1>2. Top.p = All /\ Top.i \in 1 .. N - 1 /\ Top.i + 1 \in APs /\ Top.i + 1 \in 0 .. N + 1
    BY Bounds DEF Repeats, APs
<1>3. a \in Steps
    BY <1>1, <1>2, CellStep
<1>4. todo' = << a >> \o u /\ UNCHANGED <<stop, phase>>
    <2>1. [Top EXCEPT !.i = @ + 1] = a
        <3>1. \A d, p, i, x, j : [Cell(d, p, i, x) EXCEPT !.i = j] = Cell(d, p, j, x)
            BY DEF Cell
        <3> QED BY <1>1, <1>2, <3>1
    <2>2. Again = << a >>
        BY <2>1 DEF Again, Repeats
    <2>3. << >> \o << a >> = << a >>
        BY <1>3
    <2> QED BY <2>2, <2>3 DEF Do
<1>5. WellFormed(a)
    BY <1>1, <1>2 DEF WellFormed, Cell, Starts, Wakes, Kinds
<1>6. u # << >> => Follows(a, Head(u))
    <2>1. u # << >> => Follows(Top, Head(u))
        BY Popped DEF Top
    <2> QED BY <2>1, <1>2 DEF Follows, Cell, Starts, Checks, First
<1>7. u = << >> => Ends(a) /\ todo[Len(todo)] = Top
    <2>1. u = << >> => Ends(Top) /\ todo[Len(todo)] = Top
        BY Popped DEF Top
    <2> QED BY <2>1 DEF Ends, Cell
<1> HIDE DEF a
<1>8. /\ Program(todo') /\ todo' # << >> /\ Head(todo') = a
      /\ Items(todo') = {a} \union Items(u)
    BY <1>1, <1>3, <1>4, <1>5, <1>6, <1>7, Pushed
<1>9. Items(todo) = {Top} \union Items(u)
    BY Popped DEF Top
<1>10. (todo')[Len(todo')].do = todo[Len(todo)].do
    <2>1. (todo')[Len(todo')] = IF u = << >> THEN a ELSE u[Len(u)]
        BY <1>1, <1>3, <1>4, <1>5, <1>6, <1>7, Pushed
    <2>2. u # << >> => u[Len(u)] = todo[Len(todo)]
        BY Popped
    <2>3. a.do = Top.do
        BY DEF a, Cell
    <2> QED BY <1>7, <2>1, <2>2, <2>3
<1>11. a.do \in Harmless
    BY DEF a, Cell, Wakes, Harmless
<1>12. Top' = a
    BY <1>8 DEF Top
<1>13. Kept({})
    BY <1>8, <1>9, <1>10, <1>11 DEF Kept
<1> QED BY <1>4, <1>8, <1>12, <1>13 DEF a

\* A step is taken, and the one behind it is next.
LEMMA Taken ==
    ASSUME Program(todo), todo # << >>, Do(<< >>), ~Repeats
    PROVE  /\ Kept({}) /\ UNCHANGED <<stop, phase>> /\ todo' = Tail(todo)
           /\ todo' = << >> => Ends(Top)
           /\ todo' # << >> => Top' \in Steps /\ WellFormed(Top') /\ Follows(Top, Top')
<1>1. << >> \in Seq(Steps) /\ << >> \o Tail(todo) = Tail(todo)
    BY Popped DEF Program
<1>2. todo' = Tail(todo) /\ UNCHANGED <<stop, phase>>
    BY <1>1, DoSteps
<1> QED BY <1>2, Popped DEF Kept, Top
\* What comes after a step of a wake-up
WakeThen ==
    /\ Top.do = "zero" => todo' # << >> /\ Top' = Cell("ready", Top.p, First(Top), Top.x)
    /\ Top.do = "ready" =>
          /\ todo' # << >>
          /\ Top' = IF Repeats THEN Cell("ready", All, Top.i + 1, Top.x)
                    ELSE Cell("init", Top.p, Top.p, Top.x)
    /\ Top.do = "init" => todo' # << >> /\ Top' = Cell("awake", Top.p, First(Top), Top.x)
    /\ Top.do = "awake" =>
          /\ todo' # << >>
          /\ Repeats => Top' = Cell("awake", All, Top.i + 1, Top.x)
          /\ ~Repeats /\ Top.x = "proc" =>
                /\ Top'.do \in {"see", "look", "return"} /\ Top'.x \in Modes \union {""}
                /\ Top'.do = "see" => Top'.p = Top.p
          /\ ~Repeats /\ Top.x \in {"sync", "null"} =>
                Top' = Cell("count", Top.p, Top.p, Top.x)
          /\ ~Repeats /\ Top.x = "relocate" => Top' = Cell("gone", All, All, "relocate")
    /\ Top.do = "count" => todo' # << >> /\ Top' = Cell("idle", Top.p, First(Top), Top.x)
    /\ Top.do = "idle" /\ Top.x = "sync" =>
          IF Repeats THEN todo' # << >> /\ Top' = Cell("idle", All, Top.i + 1, Top.x)
          ELSE todo' = << >>
    /\ Top.do = "idle" /\ Top.x # "sync" =>
          /\ todo' # << >> /\ Top.x = "null" /\ Top'.x \in Modes
          /\ \/ Top'.do = "reclaim" /\ Top'.i = Top.p + 1 /\ Top'.p = All
             \/ Top'.do = "report" /\ (Top'.p = Top.p \/ (Top'.p = All /\ Top.p = N))

\* A step of a wake-up is followed by the next one.
LEMMA WakeNext ==
    ASSUME Program(todo), todo # << >>, Do(<< >>), Top.do \in Wakes
    PROVE  Kept({}) /\ UNCHANGED <<stop, phase>> /\ WakeThen
<1>1. Top \in Steps /\ WellFormed(Top)
    BY TopIs
<1>2. /\ Top.x \in Kinds /\ Top.p \in 0 .. N /\ (Top.p # All => Top.p \in APs)
      /\ Top.do \in {"zero", "ready", "init", "awake", "count", "idle"}
    BY <1>1, Bounds DEF WellFormed, Wakes
<1>3. CASE Repeats
    <2>1. Top.do \in {"ready", "awake"} \/ (Top.do = "idle" /\ Top.x = "sync")
        <3>1. Top.p = All /\ Top.i # 0
            BY <1>3 DEF Repeats
        <3>2. Top.do \notin {"zero", "init", "count"}
            BY <1>1, <3>1 DEF WellFormed, Wakes
        <3>3. Top.do = "idle" => Top.x = "sync"
            BY <1>1, <3>1 DEF WellFormed, Wakes
        <3> QED BY <1>2, <3>2, <3>3
    <2>2. /\ Kept({}) /\ todo' # << >> /\ Top' = Cell(Top.do, All, Top.i + 1, Top.x)
          /\ UNCHANGED <<stop, phase>>
        BY <1>3, <2>1, TakenAgain
    <2>3. WakeThen
        BY <1>3, <2>1, <2>2 DEF WakeThen
    <2> QED BY <2>2, <2>3
<1>4. CASE ~Repeats
    <2>1. /\ Kept({}) /\ UNCHANGED <<stop, phase>>
          /\ todo' = << >> => Ends(Top)
          /\ todo' # << >> => Top' \in Steps /\ WellFormed(Top') /\ Follows(Top, Top')
        BY <1>4, Taken
    <2>2. CASE todo' = << >>
        <3>1. Top.do = "idle" /\ Top.x = "sync"
            BY <1>2, <2>1, <2>2 DEF Ends
        <3> QED BY <1>4, <2>1, <2>2, <3>1 DEF WakeThen
    <2>3. CASE todo' # << >>
        <3>1. Top' \in Steps /\ WellFormed(Top') /\ Follows(Top, Top')
            BY <2>1, <2>3
        <3> DEFINE b == Top'
        <3>2. b = Cell(b.do, b.p, b.i, b.x)
            BY <3>1, CellIs
        <3> HIDE DEF b
        <3>3. b \in Steps /\ WellFormed(b) /\ Follows(Top, b)
            BY <3>1 DEF b
        <3>4. Top.do = "idle" => Top.x # "sync"
            BY <3>3 DEF Follows
        <3>5. Top.do \in {"zero", "init", "count"} =>
                 b = Cell(IF Top.do = "zero" THEN "ready" ELSE IF Top.do = "init" THEN "awake" ELSE "idle",
                          Top.p, First(Top), Top.x)
            BY <3>2, <3>3 DEF Follows
        <3>6. Top.do = "ready" => b = Cell("init", Top.p, Top.p, Top.x)
            <4>1. Top.do = "ready" => b.do = "init" /\ b.p = Top.p /\ b.x = Top.x
                BY <3>3 DEF Follows
            <4>2. b.do = "init" => b.i = b.p
                BY <3>3, Bounds DEF WellFormed, Wakes
            <4> QED BY <3>2, <4>1, <4>2
        <3>7. Top.do = "awake" =>
                /\ Top.x = "proc" =>
                      /\ b.do \in {"see", "look", "return"} /\ b.x \in Modes \union {""}
                      /\ b.do = "see" => b.p = Top.p
                /\ Top.x \in {"sync", "null"} => b = Cell("count", Top.p, Top.p, Top.x)
                /\ Top.x = "relocate" => b = Cell("gone", All, All, "relocate")
            <4>1. Top.do = "awake" /\ Top.x = "proc" =>
                      /\ b.do \in {"see", "look", "return"}
                      /\ b.do = "see" => b.p = Top.p
                BY <3>3 DEF Follows
            <4>2. b.do \in {"see", "look", "return"} => b.x \in Modes \union {""}
                BY <3>3 DEF WellFormed
            <4>3. Top.do = "awake" /\ Top.x \in {"sync", "null"} =>
                      b.do = "count" /\ b.p = Top.p /\ b.x = Top.x
                BY <3>3 DEF Follows
            <4>4. b.do = "count" => b.i = b.p
                BY <3>3, Bounds DEF WellFormed, Wakes
            <4>5. Top.do = "awake" /\ Top.x = "relocate" => b.do = "gone"
                BY <3>3 DEF Follows
            <4>6. b.do = "gone" => b.p = All /\ b.i = All /\ b.x = "relocate"
                BY <3>3, Bounds DEF WellFormed
            <4> QED BY <3>2, <4>1, <4>2, <4>3, <4>4, <4>5, <4>6
        <3>8. Top.do = "idle" =>
                 /\ Top.x = "null" /\ b.x \in Modes
                 /\ \/ b.do = "reclaim" /\ b.i = Top.p + 1 /\ b.p = All
                    \/ b.do = "report" /\ (b.p = Top.p \/ (b.p = All /\ Top.p = N))
            BY <3>3 DEF Follows, WellFormed
        <3> QED BY <1>2, <1>4, <2>1, <2>3, <3>4, <3>5, <3>6, <3>7, <3>8 DEF WakeThen, b
    <2> QED BY <2>2, <2>3
<1> QED BY <1>3, <1>4

-----------------------------------------------------------------------------
\* What a step, or two, before the rest make of the list
LEMMA OneStep ==
    ASSUME Program(todo), todo # << >>,
           NEW a \in Steps, WellFormed(a), a.do # "idle",
           NEW u, Program(u), u # << >>, Follows(a, Head(u)),
           u[Len(u)].do = todo[Len(todo)].do,
           \A b \in Items(todo) : b = Top \/ b \in Items(u),
           NEW new, \A b \in Items(u) : b.do \in Harmless \/ b \in Items(todo) \/ b \in new,
           a.do \in Harmless \/ a \in new \/ a = Top,
           todo' = << a >> \o u
    PROVE  Kept(new) /\ todo' # << >> /\ Top' = a
<1>1. /\ Program(todo') /\ todo' # << >> /\ Head(todo') = a
      /\ Items(todo') = {a} \union Items(u)
      /\ (todo')[Len(todo')].do = todo[Len(todo)].do
    BY Pushed
<1>2. Top \in Items(todo)
    BY TopIs
<1> QED BY <1>1, <1>2 DEF Kept, Top

\* What is behind the first step
LEMMA RestIs ==
    ASSUME Program(todo), todo # << >>, ~Ends(Top)
    PROVE  LET u == Tail(todo)
           IN  /\ Program(u) /\ u # << >> /\ Follows(Top, Head(u))
               /\ Head(u) \in Steps /\ WellFormed(Head(u))
               /\ u[Len(u)].do = todo[Len(todo)].do
               /\ \A b \in Items(todo) : b = Top \/ b \in Items(u)
               /\ \A b \in Items(u) : b \in Items(todo)
BY Popped DEF Top
\* A wake-up is a list of steps.
LEMMA WakeSeq ==
    ASSUME NEW p \in 0 .. N, NEW f \in Kinds
    PROVE  /\ p # All => WakeUpAP(p, f) \in Seq(Steps)
           /\ p = All => WakeUpAll(f) \in Seq(Steps)
<1>1. p \in 0 .. N + 1 /\ 1 \in 0 .. N + 1
    BY Bounds
<1>2. \A d \in Wakes, i \in {1, p} : Cell(d, p, i, f) \in Steps
    BY <1>1 DEF Steps, Cell
<1>3. \A d \in Wakes, i \in {1, p} : << Cell(d, p, i, f) >> \in Seq(Steps)
    BY <1>2
<1>4. {"zero", "ready", "init", "awake"} \subseteq Wakes
    BY DEF Wakes
<1>5. \A d \in Wakes : Step(d, p, f) \in Seq(Steps)
    BY <1>3 DEF Step, Cell
<1>6. p = All => \A d \in Wakes : ForAPs(d, f) \in Seq(Steps)
    BY <1>3 DEF ForAPs, Cell
<1> HIDE DEF Steps
<1>7. \A s, t \in Seq(Steps) : s \o t \in Seq(Steps)
    OBVIOUS
<1> QED BY <1>4, <1>5, <1>6, <1>7 DEF WakeUpAP, WakeUpAll

\* The first of some APs
LEMMA MinIs ==
    ASSUME NEW S, S \subseteq APs, S # {}
    PROVE  Min(S) \in S /\ Min(S) \in APs /\ \A y \in S : Min(S) <= y
<1>1. S \subseteq Nat
    BY Bounds
<1>2. \E x \in S : \A y \in S : x <= y
    BY <1>1, LeastNat
<1> QED BY <1>2 DEF Min

\* The next step in the loop of CheckAllAPs
Left == {p \in group.waiting : p >= Top.p}
Later == group.waiting \ {Min(Left)}
WakesNext == group.single /\ Later # {}

\* What follows a look of CheckAllAPs: a wake-up of the next AP in a sequential call, a
\* look at the next one, or the decision.
LEMMA LookNext ==
    ASSUME Program(todo), group.waiting \subseteq APs, Look
    PROVE  /\ Kept({}) /\ UNCHANGED <<stop, phase>> /\ todo' # << >>
           /\ Left = {} => Top'.do = "decide" /\ Top'.x = Top.x
           /\ Left # {} /\ (state[Min(Left)] # "finished" \/ ~WakesNext) =>
                 Top' = Cell("look", Min(Left) + 1, Min(Left) + 1, Top.x)
           /\ Left # {} /\ state[Min(Left)] = "finished" /\ WakesNext =>
                 Top' = Cell("zero", Min(Later), Min(Later), "proc")
<1> DEFINE u == Tail(todo)
           p == Min(Left)
           a == Cell("look", p + 1, p + 1, Top.x)
           v == << a >> \o u
<1>1. /\ todo # << >> /\ Top.do = "look" /\ Top \in Steps /\ WellFormed(Top)
      /\ Top.x \in Modes /\ Top.p \in 1 .. N + 1
    BY TopIs DEF Look, At, WellFormed
<1>2. ~Repeats /\ ~Ends(Top)
    BY <1>1, Bounds DEF Repeats, Ends
<1>3. /\ Program(u) /\ u # << >> /\ Follows(Top, Head(u)) /\ Head(u) \in Steps /\ WellFormed(Head(u))
      /\ u[Len(u)].do = todo[Len(todo)].do
      /\ \A b \in Items(todo) : b = Top \/ b \in Items(u)
      /\ \A b \in Items(u) : b \in Items(todo)
    BY <1>1, <1>2, RestIs
<1>4. Head(u).do = "decide" /\ Head(u).x = Top.x
    BY <1>1, <1>3 DEF Follows
<1>5. CASE Left = {}
    <2>1. Do(<< >>)
        BY <1>1, <1>5 DEF Look, Left
    <2>2. Kept({}) /\ UNCHANGED <<stop, phase>> /\ todo' = u
        BY <1>1, <1>2, <2>1, Taken
    <2> QED BY <1>3, <1>4, <1>5, <2>2 DEF Top
<1>6. CASE Left # {}
    <2>1. p \in Left /\ p \in APs /\ p + 1 \in 1 .. N + 1 /\ p + 1 \in 0 .. N + 1 /\ p + 1 # All
        <3>1. Left \subseteq APs
            BY DEF Left
        <3>2. p \in Left /\ p \in APs
            BY <1>6, <3>1, MinIs
        <3> QED BY <3>2, Bounds DEF APs
    <2>2. a \in Steps /\ WellFormed(a) /\ a.do = "look"
        <3>1. a \in Steps
            BY <1>1, <2>1 DEF Steps, Cell
        <3> QED BY <1>1, <2>1, <3>1 DEF WellFormed, Cell, Wakes, Starts
    <2>3. Follows(a, Head(u))
        BY <1>1, <1>4 DEF Follows, Cell, Checks, Starts
    <2>4. << a >> \in Seq(Steps)
        BY <2>2
    <2>5. Step("look", p + 1, Top.x) = << a >>
        BY DEF Step, Cell
    <2>6. CASE state[p] # "finished" \/ ~WakesNext
        <3>1. Do(<< a >>)
            <4>1. CASE state[p] # "finished"
                BY <1>1, <1>6, <2>5, <4>1 DEF Look, Left
            <4>2. CASE state[p] = "finished"
                <5>1. Do(<< >> \o << a >>)
                    BY <1>1, <1>6, <2>5, <2>6, <4>2 DEF Look, Left, Later, WakesNext
                <5>2. << >> \o << a >> = << a >>
                    BY <2>4
                <5> QED BY <5>1, <5>2
            <4> QED BY <4>1, <4>2
        <3>2. todo' = << a >> \o u /\ UNCHANGED <<stop, phase>>
            BY <1>1, <1>2, <2>4, <3>1, DoSteps
        <3> HIDE DEF a
        <3>3. Kept({}) /\ todo' # << >> /\ Top' = a
            BY <1>1, <1>3, <2>2, <2>3, <3>2, OneStep DEF Harmless
        <3> QED BY <1>6, <2>6, <3>2, <3>3 DEF a
    <2>7. CASE state[p] = "finished" /\ WakesNext
        <3> DEFINE q == Min(Later)
                   w == WakeUpAP(q, "proc")
        <3>1. q \in APs /\ q \in 0 .. N /\ q # All
            <4>1. Later \subseteq APs
                BY DEF Later
            <4> QED BY <2>7, <4>1, MinIs, Bounds DEF WakesNext
        <3>2. Do(w \o << a >>)
            BY <1>1, <1>6, <2>5, <2>7 DEF Look, Left, Later, WakesNext
        <3> HIDE DEF a, q
        <3>3. w \in Seq(Steps)
            <4>1. "proc" \in Kinds
                BY DEF Kinds
            <4> QED BY <3>1, <4>1, WakeSeq
        <3>4. w \o << a >> \in Seq(Steps)
            BY <2>4, <3>3
        <3>5. todo' = (w \o << a >>) \o u /\ UNCHANGED <<stop, phase>>
            BY <1>1, <1>2, <3>2, <3>4, DoSteps
        <3>6. (w \o << a >>) \o u = w \o v
            <4>1. u \in Seq(Steps)
                BY <1>3 DEF Program
            <4> HIDE DEF w
            <4> QED BY <2>4, <3>3, <4>1, ConcatAssociative
        <3>7. /\ Program(v) /\ v # << >> /\ Head(v) = a /\ Items(v) = {a} \union Items(u)
              /\ v[Len(v)].do = todo[Len(todo)].do
            BY <1>3, <2>2, <2>3, Pushed
        <3> HIDE DEF v
        <3>8. Follows(Cell("awake", q, IF q = All THEN 1 ELSE q, "proc"), Head(v))
            BY <2>2, <3>7 DEF Follows, Cell, Checks, Starts, Wakes
        <3>9. /\ Program(todo') /\ todo' # << >> /\ Head(todo') = Cell("zero", q, q, "proc")
              /\ Items(v) \subseteq Items(todo')
              /\ \A b \in Items(todo') : b.do \in Wakes \/ b \in Items(v)
              /\ (todo')[Len(todo')] = v[Len(v)]
            <4>1. /\ "proc" \in Kinds /\ (q = All => "proc" # "null") /\ (q # All => "proc" \in {"proc", "null"})
                  /\ w = (IF q = All THEN WakeUpAll("proc") ELSE WakeUpAP(q, "proc"))
                BY <3>1 DEF Kinds
            <4>2. todo' = w \o v
                BY <3>5, <3>6
            <4> HIDE DEF w
            <4> QED BY <3>1, <3>7, <3>8, <4>1, <4>2, WakeProgram
        <3>10. Kept({})
            BY <1>3, <2>2, <3>7, <3>9 DEF Kept, Harmless
        <3> QED BY <1>6, <2>7, <3>5, <3>9, <3>10 DEF Top, q
    <2> QED BY <2>6, <2>7
<1> QED BY <1>5, <1>6

\* A wake-up before the rest
LEMMA WakeStep ==
    ASSUME Program(todo), todo # << >>,
           NEW v, Program(v), v # << >>, NEW p \in 0 .. N, NEW f \in Kinds,
           p = All => f # "null", p # All => f \in {"proc", "null"},
           Follows(Cell("awake", p, IF p = All THEN 1 ELSE p, f), Head(v)),
           v[Len(v)].do = todo[Len(todo)].do,
           \A b \in Items(todo) : b = Top \/ b \in Items(v),
           NEW new, \A b \in Items(v) : b.do \in Harmless \/ b \in Items(todo) \/ b \in new,
           NEW w, w = (IF p = All THEN WakeUpAll(f) ELSE WakeUpAP(p, f)),
           todo' = w \o v
    PROVE  Kept(new) /\ todo' # << >> /\ Top' = Cell("zero", p, p, f)
<1>1. /\ Program(todo') /\ todo' # << >> /\ Head(todo') = Cell("zero", p, p, f)
      /\ Items(v) \subseteq Items(todo')
      /\ \A b \in Items(todo') : b.do \in Wakes \/ b \in Items(v)
      /\ (todo')[Len(todo')] = v[Len(v)]
    BY WakeProgram
<1> QED BY <1>1 DEF Kept, Harmless, Top

\* What may still be behind a check
LEMMA BehindEnd ==
    ASSUME NEW u, Program(u), u # << >>, Head(u).do \in {"return", "end", "gone"}
    PROVE  Tail(u) = << >> /\ Items(u) = {Head(u)}
<1>1. Tail(u) = << >> /\ Items(u) = {Head(u)} \union Items(Tail(u))
    BY Popped DEF Follows
<1>2. Items(<< >>) = {}
    BY DEF Items
<1> QED BY <1>1, <1>2

\* Behind a call is only the return from it.
LEMMA BehindStart ==
    ASSUME NEW u, Program(u), u # << >>, Head(u).do \in Starts
    PROVE  \A b \in Items(u) : b = Head(u) \/ b.do = "return"
<1> DEFINE v == Tail(u)
<1>1. /\ Program(v) /\ Items(u) = {Head(u)} \union Items(v)
      /\ v # << >> /\ Follows(Head(u), Head(v))
    BY Popped DEF Ends, Starts
<1>2. Head(v).do = "return"
    BY <1>1 DEF Follows, Starts
<1>3. Items(v) = {Head(v)}
    BY <1>1, <1>2, BehindEnd
<1> QED BY <1>1, <1>2, <1>3

\* What may be behind a check
Pendings == Starts \union {"pending", "return", "end"}

\* Behind the rest of CheckAndUpdateApsStatus is a call or the end of the timer event.
LEMMA BehindPending ==
    ASSUME NEW u, Program(u), u # << >>, Head(u).do = "pending"
    PROVE  \A b \in Items(u) : b.do \in Pendings
<1> DEFINE v == Tail(u)
<1>1. /\ Program(v) /\ Items(u) = {Head(u)} \union Items(v)
      /\ v # << >> /\ Follows(Head(u), Head(v))
    BY Popped DEF Ends
<1>2. Head(v).do \in Starts \union {"end"}
    BY <1>1 DEF Follows
<1>3. \A b \in Items(v) : b = Head(v) \/ b.do = "return"
    <2>1. CASE Head(v).do = "end"
        BY <1>1, <2>1, BehindEnd
    <2>2. CASE Head(v).do \in Starts
        BY <1>1, <2>2, BehindStart
    <2> QED BY <1>2, <2>1, <2>2
<1> QED BY <1>1, <1>2, <1>3 DEF Pendings

\* Behind a check is the rest of CheckAndUpdateApsStatus, or the return from a call.
LEMMA BehindCheck ==
    ASSUME Program(todo), todo # << >>, Top.do \in Checks
    PROVE  \A b \in Items(Tail(todo)) : b.do \in Pendings
<1> DEFINE u == Tail(todo)
<1>1. Program(u) /\ u # << >> /\ Follows(Top, Head(u))
    BY RestIs DEF Ends, Checks
<1>2. Head(u).do \in {"pending", "return"}
    BY <1>1 DEF Follows
<1>3. CASE Head(u).do = "pending"
    BY <1>1, <1>3, BehindPending
<1>4. CASE Head(u).do = "return"
    BY <1>1, <1>4, BehindEnd DEF Pendings
<1> QED BY <1>2, <1>3, <1>4

\* After a check
LEMMA AnswerNext ==
    ASSUME Program(todo), todo # << >>, Top.do \in Checks, Do(Answer(Top.p, Top.x))
    PROVE  /\ Kept({}) /\ UNCHANGED <<stop, phase>> /\ todo' # << >>
           /\ \A b \in Items(todo') : b.do \in Pendings \union {"tell", "forget"}
           /\ Top.x = "poll" => Top' = Cell("tell", Top.p, Top.p, "")
           /\ Top.x # "poll" => Top.x = "block" /\ Top'.do = "return" /\ Top'.x = ""
<1> DEFINE u == Tail(todo)
           c == Top.p
           a1 == Cell("tell", c, c, "")
           a2 == Cell("forget", c, c, "")
           v == << a2 >> \o u
<1>1. /\ Top \in Steps /\ WellFormed(Top) /\ Top.x \in Modes /\ Top.p \in 0 .. N
      /\ Top.p \in 0 .. N + 1
    BY TopIs, Bounds DEF WellFormed, Checks
<1>2. ~Repeats /\ ~Ends(Top)
    <2>1. Top.p = All => Top.i = 0
        BY <1>1, Bounds DEF WellFormed, Checks
    <2> QED BY <2>1 DEF Repeats, Ends, Checks
<1>3. /\ Program(u) /\ u # << >> /\ Follows(Top, Head(u)) /\ Head(u) \in Steps /\ WellFormed(Head(u))
      /\ u[Len(u)].do = todo[Len(todo)].do
      /\ \A b \in Items(todo) : b = Top \/ b \in Items(u)
      /\ \A b \in Items(u) : b \in Items(todo)
    BY <1>1, <1>2, RestIs
<1>4. \A b \in Items(u) : b.do \in Pendings
    BY BehindCheck
<1>5. CASE Top.x = "poll"
    <2>1. Head(u).do = "pending"
        BY <1>3, <1>5 DEF Follows
    <2>2. a1 \in Steps /\ a2 \in Steps
        BY <1>1 DEF Steps, Cell
    <2>3. WellFormed(a1) /\ WellFormed(a2) /\ Follows(a1, a2) /\ Follows(a2, Head(u))
        <3>1. WellFormed(a1) /\ WellFormed(a2)
            BY <1>1 DEF WellFormed, Cell, Wakes, Starts
        <3>2. Follows(a1, a2) /\ Follows(a2, Head(u))
            BY <2>1 DEF Follows, Cell, Starts, Checks
        <3> QED BY <3>1, <3>2
    <2>4. a1.do = "tell" /\ a2.do = "forget"
        BY DEF Cell
    <2>5. todo' = << a1 >> \o v /\ UNCHANGED <<stop, phase>>
        <3>1. Do(<< a1 >> \o << a2 >>)
            BY <1>5 DEF Answer, Step, Cell
        <3> HIDE DEF a1, a2
        <3>2. << a1 >> \o << a2 >> \in Seq(Steps) /\ << a1 >> \in Seq(Steps) /\ << a2 >> \in Seq(Steps)
            BY <2>2
        <3>3. todo' = (<< a1 >> \o << a2 >>) \o u /\ UNCHANGED <<stop, phase>>
            BY <1>2, <3>1, <3>2, DoSteps
        <3>4. u \in Seq(Steps)
            BY <1>3 DEF Program
        <3>5. (<< a1 >> \o << a2 >>) \o u = << a1 >> \o (<< a2 >> \o u)
            BY <3>2, <3>4, ConcatAssociative
        <3> QED BY <3>3, <3>5
    <2> HIDE DEF a1, a2
    <2>6. /\ Program(v) /\ v # << >> /\ Head(v) = a2 /\ Items(v) = {a2} \union Items(u)
          /\ v[Len(v)].do = todo[Len(todo)].do
        BY <1>3, <2>2, <2>3, Pushed
    <2>7. Items(<< a1 >> \o v) = {a1} \union Items(v)
        BY <2>2, <2>3, <2>6, Pushed
    <2> HIDE DEF v
    <2>8. Kept({}) /\ todo' # << >> /\ Top' = a1
        BY <1>3, <2>2, <2>3, <2>4, <2>5, <2>6, OneStep DEF Harmless
    <2> QED BY <1>4, <1>5, <2>4, <2>5, <2>6, <2>7, <2>8 DEF a1
<1>6. CASE Top.x # "poll"
    <2>1. Do(<< >>)
        BY <1>6 DEF Answer
    <2>2. Kept({}) /\ UNCHANGED <<stop, phase>> /\ todo' = u
        BY <1>2, <2>1, Taken
    <2>3. Head(u).do = "return" /\ Head(u).x = ""
        BY <1>3, <1>6 DEF Follows, WellFormed
    <2> QED BY <1>1, <1>3, <1>4, <1>6, <2>2, <2>3 DEF Top, Modes
<1> QED BY <1>5, <1>6

\* The first of some calls
LEMMA LeastIs ==
    ASSUME NEW S, S \subseteq 0 .. N, S # {}
    PROVE  Min(S) \in S /\ Min(S) \in 0 .. N /\ \A y \in S : Min(S) <= y
<1>1. S \subseteq Nat
    BY Bounds
<1>2. \E x \in S : \A y \in S : x <= y
    BY <1>1, LeastNat
<1> QED BY <1>2 DEF Min

\* A step before the rest, in the place of the one that is taken
LEMMA Chain1 ==
    ASSUME Program(todo), todo # << >>, ~Repeats, ~Ends(Top),
           NEW a \in Steps, WellFormed(a), Follows(a, Head(Tail(todo))), Do(<< a >>),
           NEW new, a.do \in Harmless \/ a \in new
    PROVE  /\ Kept(new) /\ UNCHANGED <<stop, phase>> /\ todo' # << >> /\ Top' = a
           /\ Items(todo') = {a} \union Items(Tail(todo))
<1> DEFINE u == Tail(todo)
<1>1. /\ Program(u) /\ u # << >> /\ u[Len(u)].do = todo[Len(todo)].do
      /\ \A b \in Items(todo) : b = Top \/ b \in Items(u)
      /\ \A b \in Items(u) : b \in Items(todo)
    BY RestIs
<1>2. << a >> \in Seq(Steps)
    OBVIOUS
<1>3. todo' = << a >> \o u /\ UNCHANGED <<stop, phase>>
    BY <1>2, DoSteps
<1>4. /\ Program(todo') /\ todo' # << >> /\ Head(todo') = a
      /\ Items(todo') = {a} \union Items(u)
      /\ (todo')[Len(todo')].do = todo[Len(todo)].do
    BY <1>1, <1>3, Pushed
<1> QED BY <1>1, <1>3, <1>4 DEF Kept, Top

\* Two steps
LEMMA Chain2 ==
    ASSUME Program(todo), todo # << >>, ~Repeats, ~Ends(Top),
           NEW a \in Steps, NEW b \in Steps, WellFormed(a), WellFormed(b), Follows(a, b),
           Follows(b, Head(Tail(todo))), Do(<< a >> \o << b >>),
           NEW new, a.do \in Harmless \/ a \in new, b.do \in Harmless \/ b \in new
    PROVE  /\ Kept(new) /\ UNCHANGED <<stop, phase>> /\ todo' # << >> /\ Top' = a
           /\ Items(todo') = {a, b} \union Items(Tail(todo))
<1> DEFINE u == Tail(todo)
           v == << b >> \o u
<1>1. /\ Program(u) /\ u # << >> /\ u[Len(u)].do = todo[Len(todo)].do
      /\ \A c \in Items(todo) : c = Top \/ c \in Items(u)
      /\ \A c \in Items(u) : c \in Items(todo)
      /\ u \in Seq(Steps)
    BY RestIs DEF Program
<1>2. << a >> \in Seq(Steps) /\ << b >> \in Seq(Steps)
    OBVIOUS
<1>3. << a >> \o << b >> \in Seq(Steps)
    BY <1>2
<1>4. todo' = (<< a >> \o << b >>) \o u /\ UNCHANGED <<stop, phase>>
    BY <1>3, DoSteps
<1>5. (<< a >> \o << b >>) \o u = << a >> \o v
    BY <1>1, <1>2, ConcatAssociative
<1>6. /\ Program(v) /\ v # << >> /\ Head(v) = b /\ Items(v) = {b} \union Items(u)
      /\ v[Len(v)].do = todo[Len(todo)].do
    BY <1>1, Pushed
<1> HIDE DEF v
<1>7. /\ Program(todo') /\ todo' # << >> /\ Head(todo') = a
      /\ Items(todo') = {a} \union Items(v)
      /\ (todo')[Len(todo')].do = todo[Len(todo)].do
    BY <1>4, <1>5, <1>6, Pushed
<1> QED BY <1>1, <1>4, <1>6, <1>7 DEF Kept, Top

\* Three steps
LEMMA Chain3 ==
    ASSUME Program(todo), todo # << >>, ~Repeats, ~Ends(Top),
           NEW a \in Steps, NEW b \in Steps, NEW c \in Steps,
           WellFormed(a), WellFormed(b), WellFormed(c), Follows(a, b), Follows(b, c),
           Follows(c, Head(Tail(todo))), Do((<< a >> \o << b >>) \o << c >>),
           NEW new, a.do \in Harmless \/ a \in new, b.do \in Harmless \/ b \in new,
           c.do \in Harmless \/ c \in new
    PROVE  /\ Kept(new) /\ UNCHANGED <<stop, phase>> /\ todo' # << >> /\ Top' = a
           /\ Items(todo') = {a, b, c} \union Items(Tail(todo))
<1> DEFINE u == Tail(todo)
           v == << c >> \o u
           w == << b >> \o v
<1>1. /\ Program(u) /\ u # << >> /\ u[Len(u)].do = todo[Len(todo)].do
      /\ \A e \in Items(todo) : e = Top \/ e \in Items(u)
      /\ \A e \in Items(u) : e \in Items(todo)
      /\ u \in Seq(Steps)
    BY RestIs DEF Program
<1>2. << a >> \in Seq(Steps) /\ << b >> \in Seq(Steps) /\ << c >> \in Seq(Steps)
    OBVIOUS
<1>3. << a >> \o << b >> \in Seq(Steps)
    BY <1>2
<1>4. (<< a >> \o << b >>) \o << c >> \in Seq(Steps)
    BY <1>2, <1>3
<1>5. todo' = ((<< a >> \o << b >>) \o << c >>) \o u /\ UNCHANGED <<stop, phase>>
    BY <1>4, DoSteps
<1>6. /\ Program(v) /\ v # << >> /\ Head(v) = c /\ Items(v) = {c} \union Items(u)
      /\ v[Len(v)].do = todo[Len(todo)].do
    BY <1>1, Pushed
<1>7. v \in Seq(Steps)
    BY <1>6 DEF Program
<1>8. ((<< a >> \o << b >>) \o << c >>) \o u = << a >> \o w
    <2>1. ((<< a >> \o << b >>) \o << c >>) \o u = (<< a >> \o << b >>) \o v
        <3> DEFINE ab == << a >> \o << b >>
        <3>1. ab \in Seq(Steps)
            BY <1>3
        <3> HIDE DEF ab
        <3> QED BY <3>1, <1>1, <1>2, ConcatAssociative DEF ab
    <2>2. (<< a >> \o << b >>) \o v = << a >> \o w
        <3> HIDE DEF v
        <3> QED BY <1>2, <1>7, ConcatAssociative
    <2> QED BY <2>1, <2>2
<1>81. todo' = << a >> \o w
    BY <1>5, <1>8
<1> HIDE DEF v
<1>9. /\ Program(w) /\ w # << >> /\ Head(w) = b /\ Items(w) = {b} \union Items(v)
      /\ w[Len(w)].do = todo[Len(todo)].do
    BY <1>6, Pushed
<1> HIDE DEF w
<1>10. /\ Program(todo') /\ todo' # << >> /\ Head(todo') = a
       /\ Items(todo') = {a} \union Items(w)
       /\ (todo')[Len(todo')].do = todo[Len(todo)].do
    BY <1>81, <1>9, Pushed
<1> QED BY <1>1, <1>5, <1>6, <1>9, <1>10 DEF Kept, Top

\* Where no loop is
LEMMA OnlyOnce ==
    ASSUME Program(todo), todo # << >>,
           Top.do \notin {"ready", "awake", "idle", "reclaim", "return", "end", "gone"}
    PROVE  ~Repeats /\ ~Ends(Top) /\ Top \in Steps /\ WellFormed(Top)
<1>1. Top \in Steps /\ WellFormed(Top)
    BY TopIs
<1>2. Top.do \in {"zero", "init", "count"} \union Starts \union Checks \union
                 {"look", "tell", "forget", "pending"}
    BY <1>1 DEF Steps, Wakes
<1>3. Top.p = All => Top.i = 0
    <2>1. Top.do \in {"zero", "init", "count"} /\ Top.p = All => Top.i = 0
        BY <1>1 DEF WellFormed, Wakes
    <2>2. Top.do \notin {"zero", "init", "count"} => Top.i = Top.p \/ Top.i = 0
        BY <1>1, <1>2 DEF WellFormed, Starts, Checks
    <2> QED BY <2>1, <2>2, Bounds
<1> QED BY <1>1, <1>2, <1>3 DEF Repeats, Ends, Starts, Checks

-----------------------------------------------------------------------------
(***************************************************************************)
(* What each step of the BSP leaves of the list.                           *)
(***************************************************************************)
\* A step that calls for nothing is followed by the one behind it.
LEMMA PlainNext ==
    ASSUME Program(todo), todo # << >>, Do(<< >>),
           Top.do \in Starts \union Checks \union {"look", "tell", "forget", "pending"}
    PROVE  /\ Kept({}) /\ UNCHANGED <<stop, phase>> /\ todo' = Tail(todo) /\ todo' # << >>
           /\ Top' \in Steps /\ WellFormed(Top') /\ Follows(Top, Top')
<1>1. ~Repeats /\ ~Ends(Top)
    BY OnlyOnce DEF Starts, Checks
<1> QED BY <1>1, Taken

\* After the last step the BSP is back in the application.
LEMMA EndNext ==
    ASSUME Program(todo), todo # << >>,
           \/ Top.do \in {"end", "gone"} /\ Do(<< >>)
           \/ Top.do = "return" /\ todo' = Tail(todo)
    PROVE  todo' = << >> /\ (Top.do \in {"end", "gone"} => UNCHANGED <<stop, phase>>)
<1>1. Tail(todo) = << >>
    BY BehindEnd DEF Top
<1>2. CASE Top.do = "return"
    BY <1>1, <1>2
<1>3. CASE Top.do \in {"end", "gone"} /\ Do(<< >>)
    <2>1. Top.p = All /\ Top.i = 0
        BY <1>3, TopIs DEF WellFormed
    <2>2. ~Repeats
        BY <2>1 DEF Repeats
    <2> QED BY <1>1, <1>3, <2>2, Taken
<1> QED BY <1>2, <1>3

\* CheckAndUpdateApsStatus checks the next call with a WaitEvent, or is done.
LEMMA PendingNext ==
    ASSUME Program(todo), event \subseteq {All} \union APs, Pending
    PROVE  /\ UNCHANGED <<stop, phase>> /\ todo' # << >>
           /\ \/ Kept({}) /\ Top'.do \in Starts \union {"end"}
              \/ \E c \in event :
                    /\ Kept({Cell(IF c = All THEN "decide" ELSE "see", c, c, "poll")})
                    /\ Top' = Cell(IF c = All THEN "look" ELSE "see",
                                   IF c = All THEN 1 ELSE c, IF c = All THEN 1 ELSE c, "poll")
<1> DEFINE u == Tail(todo)
           left == {c \in event : c >= Top.p}
           c == Min(left)
           e == Cell("pending", c + 1, c + 1, "")
<1>1. todo # << >> /\ Top.do = "pending"
    BY DEF Pending, At
<1>2. ~Repeats /\ ~Ends(Top) /\ Top \in Steps /\ WellFormed(Top)
    BY <1>1, OnlyOnce
<1>3. Program(u) /\ u # << >> /\ Follows(Top, Head(u))
    BY <1>1, <1>2, RestIs
<1>4. Head(u).do \in Starts \union {"end"}
    BY <1>1, <1>3 DEF Follows
<1>5. CASE left = {}
    <2>1. Do(<< >>)
        BY <1>5 DEF Pending
    <2> QED BY <1>1, <1>4, <2>1, PlainNext DEF Top
<1>6. CASE left # {}
    <2>1. c \in event /\ c \in 0 .. N /\ c + 1 \in 0 .. N + 1 /\ (c # All => c \in APs) /\ c \in 0 .. N + 1
        <3>1. left \subseteq 0 .. N
            BY Bounds
        <3>2. c \in left /\ c \in 0 .. N
            BY <1>6, <3>1, LeastIs
        <3> HIDE DEF c
        <3> QED BY <3>2, Bounds
    <2>2. Do(IF left = {} THEN << >>
             ELSE (IF c = All THEN CheckAllAPs("poll") ELSE Step("see", c, "poll"))
                  \o Step("pending", c + 1, ""))
        BY DEF Pending
    <2> HIDE DEF c, left
    <2>3. e \in Steps /\ WellFormed(e) /\ Follows(e, Head(u)) /\ e.do = "pending"
        <3>1. e \in Steps
            BY <2>1 DEF Steps, Cell
        <3>2. WellFormed(e)
            BY DEF WellFormed, Cell, Wakes, Starts
        <3>3. Follows(e, Head(u))
            BY <1>4 DEF Follows, Cell, Checks, Starts
        <3> QED BY <3>1, <3>2, <3>3 DEF Cell
    <2>4. Step("pending", c + 1, "") = << e >>
        BY DEF Step, Cell
    <2>5. CASE c = All
        <3> DEFINE a == Cell("look", 1, 1, "poll")
                   b == Cell("decide", All, All, "poll")
        <3>1. a \in Steps /\ b \in Steps /\ a.do = "look"
            BY Bounds DEF Steps, Cell, Modes, Checks
        <3>2. WellFormed(a) /\ WellFormed(b)
            BY Bounds DEF WellFormed, Cell, Wakes, Starts, Modes
        <3>3. Follows(a, b) /\ Follows(b, e)
            BY DEF Follows, Cell, Checks, Starts
        <3>4. CheckAllAPs("poll") = << a >> \o << b >>
            BY DEF CheckAllAPs, Step, Cell
        <3> HIDE DEF a, b, e
        <3>5. Do((<< a >> \o << b >>) \o << e >>)
            BY <1>6, <2>2, <2>4, <2>5, <3>4
        <3>6. Kept({b}) /\ UNCHANGED <<stop, phase>> /\ todo' # << >> /\ Top' = a
            BY <1>1, <1>2, <2>3, <3>1, <3>2, <3>3, <3>5, Chain3 DEF Harmless
        <3> QED BY <2>1, <2>5, <3>6 DEF a, b
    <2>6. CASE c # All
        <3> DEFINE a == Cell("see", c, c, "poll")
        <3>1. a \in Steps
            BY <2>1 DEF Steps, Cell, Modes, Checks
        <3>2. WellFormed(a)
            BY <2>1, <2>6 DEF WellFormed, Cell, Wakes, Starts, Modes
        <3>3. Follows(a, e)
            BY DEF Follows, Cell, Checks, Starts
        <3>4. Step("see", c, "poll") = << a >>
            BY DEF Step, Cell
        <3> HIDE DEF a, e
        <3>5. Do(<< a >> \o << e >>)
            BY <1>6, <2>2, <2>4, <2>6, <3>4
        <3>6. Kept({a}) /\ UNCHANGED <<stop, phase>> /\ todo' # << >> /\ Top' = a
            BY <1>1, <1>2, <2>3, <3>1, <3>2, <3>3, <3>5, Chain2 DEF Harmless
        <3> QED BY <2>1, <2>6, <3>6 DEF a
    <2> QED BY <2>5, <2>6
<1> QED BY <1>5, <1>6

\* CheckAllAPs once more
LEMMA DecideNext ==
    ASSUME Program(todo), At("decide"), Top.x = "block", Do(CheckAllAPs("block"))
    PROVE  /\ Kept({Top}) /\ Top \in Items(todo') /\ UNCHANGED <<stop, phase>>
           /\ todo' # << >> /\ Top' = Cell("look", 1, 1, "block")
<1> DEFINE a == Cell("look", 1, 1, "block")
           b == Cell("decide", All, All, "block")
<1>1. todo # << >> /\ Top.do = "decide"
    BY DEF At
<1>2. ~Repeats /\ ~Ends(Top) /\ Top \in Steps /\ WellFormed(Top)
    BY <1>1, OnlyOnce
<1>3. Top = b
    <2>1. Top.p = All /\ Top.i = All
        BY <1>1, <1>2, Bounds DEF WellFormed
    <2> QED BY <1>1, <1>2, <2>1, CellIs
<1>4. Follows(Top, Head(Tail(todo)))
    BY <1>1, <1>2, RestIs
<1>5. a \in Steps /\ a.do = "look"
    BY Bounds DEF Steps, Cell, Modes
<1>6. WellFormed(a)
    BY Bounds DEF WellFormed, Cell, Wakes, Starts, Modes
<1>7. Follows(a, b)
    BY DEF Follows, Cell, Checks, Starts
<1>8. CheckAllAPs("block") = << a >> \o << b >>
    BY DEF CheckAllAPs, Step, Cell
<1> HIDE DEF a, b
<1>9. Do(<< a >> \o << b >>)
    BY <1>8
<1>10. /\ Kept({b}) /\ UNCHANGED <<stop, phase>> /\ todo' # << >> /\ Top' = a
       /\ Items(todo') = {a, b} \union Items(Tail(todo))
    BY <1>1, <1>2, <1>3, <1>4, <1>5, <1>6, <1>7, <1>9, Chain2 DEF Harmless
<1> QED BY <1>3, <1>10 DEF a

\* When StartupAllAPs is out of time its APs are reset one by one, and it reports.
LEMMA DecideOverNext ==
    ASSUME Program(todo), At("decide"),
           Do(ForAPs("reclaim", Top.x) \o Step("report", All, Top.x))
    PROVE  LET a == Cell("reclaim", All, 1, Top.x)
               b == Cell("report", All, All, Top.x)
           IN  /\ Kept({a, b}) /\ b \in Items(todo') /\ UNCHANGED <<stop, phase>>
               /\ todo' # << >> /\ Top' = a /\ Top = Cell("decide", All, All, Top.x)
<1> DEFINE a == Cell("reclaim", All, 1, Top.x)
           b == Cell("report", All, All, Top.x)
<1>1. todo # << >> /\ Top.do = "decide"
    BY DEF At
<1>2. ~Repeats /\ ~Ends(Top) /\ Top \in Steps /\ WellFormed(Top)
    BY <1>1, OnlyOnce
<1>3. Top = Cell("decide", All, All, Top.x) /\ Top.x \in Modes
    <2>1. Top.p = All /\ Top.i = All /\ Top.x \in Modes
        BY <1>1, <1>2, Bounds DEF WellFormed
    <2> QED BY <1>1, <1>2, <2>1, CellIs
<1>4. Follows(Top, Head(Tail(todo)))
    BY <1>1, <1>2, RestIs
<1>5. a \in Steps /\ b \in Steps
    BY <1>3, Bounds DEF Steps, Cell, Checks
<1>6. WellFormed(a) /\ WellFormed(b)
    BY <1>3, Bounds DEF WellFormed, Cell, Wakes, Starts
<1>7. Follows(a, b) /\ Follows(b, Head(Tail(todo)))
    BY <1>1, <1>4 DEF Follows, Cell, Checks, Starts
<1>8. Do(<< a >> \o << b >>)
    BY DEF ForAPs, Step, Cell
<1> HIDE DEF a, b
<1>9. /\ Kept({a, b}) /\ UNCHANGED <<stop, phase>> /\ todo' # << >> /\ Top' = a
      /\ Items(todo') = {a, b} \union Items(Tail(todo))
    BY <1>1, <1>2, <1>5, <1>6, <1>7, <1>8, Chain2
<1> QED BY <1>3, <1>9 DEF a, b

\* An AP is reset before steps that follow it.
LEMMA ResetProgram ==
    ASSUME NEW u, Program(u), u # << >>, NEW p \in APs,
           \/ Head(u).do = "reclaim" /\ Head(u).i = p + 1
           \/ Head(u).do = "report" /\ (Head(u).p = p \/ (Head(u).p = All /\ p = N)),
           NEW w, w = ResetProcessorToIdleState(p)
    PROVE  /\ Program(w \o u) /\ w \o u # << >> /\ Head(w \o u) = Cell("zero", p, p, "null")
           /\ Items(u) \subseteq Items(w \o u)
           /\ \A a \in Items(w \o u) : a.do \in Wakes \/ a \in Items(u)
           /\ (w \o u)[Len(w \o u)] = u[Len(u)]
<1> DEFINE a == Cell("count", p, p, "null")
           b == Cell("idle", p, p, "null")
           v1 == << b >> \o u
           v == << a >> \o v1
           k == WakeUpAP(p, "null")
<1>1. p \in 0 .. N /\ p # All /\ p \in 0 .. N + 1
    BY Bounds
<1>2. a \in Steps /\ b \in Steps
    BY <1>1 DEF Steps, Cell, Wakes, Kinds
<1>3. WellFormed(a) /\ WellFormed(b)
    BY <1>1 DEF WellFormed, Cell, Wakes, Starts, Kinds
<1>4. Follows(a, b) /\ Follows(b, Head(u))
    BY <1>1 DEF Follows, Cell, Checks, Starts, First
<1>5. a.do \in Wakes /\ b.do \in Wakes
    BY DEF Cell, Wakes
<1>6. w = (k \o << a >>) \o << b >>
    BY DEF ResetProcessorToIdleState, Step, Cell
<1>7. Follows(Cell("awake", p, IF p = All THEN 1 ELSE p, "null"), a)
    BY <1>1 DEF Follows, Cell, Checks, Starts
<1>8. k \in Seq(Steps) /\ "null" \in Kinds
    BY <1>1, WakeSeq DEF Kinds
<1> HIDE DEF a, b, k
<1>9. << a >> \in Seq(Steps) /\ << b >> \in Seq(Steps) /\ u \in Seq(Steps)
    BY <1>2 DEF Program
<1>10. w \o u = k \o v
    <2>1. (k \o << a >>) \in Seq(Steps) /\ v1 \in Seq(Steps)
        BY <1>8, <1>9
    <2>2. ((k \o << a >>) \o << b >>) \o u = (k \o << a >>) \o v1
        <3> DEFINE ka == k \o << a >>
        <3>1. ka \in Seq(Steps)
            BY <2>1
        <3> HIDE DEF ka
        <3> QED BY <3>1, <1>9, ConcatAssociative DEF ka
    <2>3. (k \o << a >>) \o v1 = k \o v
        <3> HIDE DEF v1
        <3> QED BY <1>8, <1>9, <2>1, ConcatAssociative
    <2> QED BY <1>6, <2>2, <2>3
<1>11. /\ Program(v1) /\ v1 # << >> /\ Head(v1) = b /\ Items(v1) = {b} \union Items(u)
       /\ v1[Len(v1)] = u[Len(u)]
    BY <1>2, <1>3, <1>4, Pushed
<1> HIDE DEF v1
<1>12. /\ Program(v) /\ v # << >> /\ Head(v) = a /\ Items(v) = {a} \union Items(v1)
       /\ v[Len(v)] = v1[Len(v1)]
    BY <1>2, <1>3, <1>4, <1>11, Pushed
<1> HIDE DEF v
<1>13. /\ Program(k \o v) /\ k \o v # << >> /\ Head(k \o v) = Cell("zero", p, p, "null")
       /\ Items(v) \subseteq Items(k \o v)
       /\ \A e \in Items(k \o v) : e.do \in Wakes \/ e \in Items(v)
       /\ (k \o v)[Len(k \o v)] = v[Len(v)]
    <2>1. k = (IF p = All THEN WakeUpAll("null") ELSE WakeUpAP(p, "null"))
        BY <1>1 DEF k
    <2> QED BY <1>1, <1>7, <1>8, <1>12, <2>1, WakeProgram
<1> QED BY <1>5, <1>10, <1>11, <1>12, <1>13

\* When StartupThisAP is out of time its AP is reset, and it reports.
LEMMA SeeOverNext ==
    ASSUME Program(todo), At("see"),
           Do(ResetProcessorToIdleState(Top.p) \o Step("report", Top.p, Top.x))
    PROVE  LET b == Cell("report", Top.p, Top.p, Top.x)
           IN  /\ Kept({b}) /\ b \in Items(todo') /\ UNCHANGED <<stop, phase>> /\ todo' # << >>
               /\ Top' = Cell("zero", Top.p, Top.p, "null") /\ Top.p \in APs /\ Top.x \in Modes
<1> DEFINE u == Tail(todo)
           b == Cell("report", Top.p, Top.p, Top.x)
           v == << b >> \o u
           w == ResetProcessorToIdleState(Top.p)
<1>1. todo # << >> /\ Top.do = "see"
    BY DEF At
<1>2. ~Repeats /\ ~Ends(Top) /\ Top \in Steps /\ WellFormed(Top)
    BY <1>1, OnlyOnce
<1>3. Top.p \in APs /\ Top.p \in 0 .. N + 1 /\ Top.p \in 0 .. N /\ Top.x \in Modes
    BY <1>1, <1>2, Bounds DEF WellFormed
<1>4. /\ Program(u) /\ u # << >> /\ Follows(Top, Head(u))
      /\ u[Len(u)].do = todo[Len(todo)].do
      /\ \A e \in Items(todo) : e = Top \/ e \in Items(u)
      /\ \A e \in Items(u) : e \in Items(todo)
    BY <1>1, <1>2, RestIs
<1>5. b \in Steps
    BY <1>3 DEF Steps, Cell, Checks
<1>6. WellFormed(b)
    BY <1>3, Bounds DEF WellFormed, Cell, Wakes, Starts
<1>7. Follows(b, Head(u))
    BY <1>1, <1>4 DEF Follows, Cell, Checks, Starts
<1>8. b.do = "report" /\ b.p = Top.p
    BY DEF Cell
<1>9. Do(w \o << b >>)
    BY DEF Step, Cell
<1> HIDE DEF b
<1>10. w \in Seq(Steps) /\ << b >> \in Seq(Steps)
    <2> DEFINE k == WakeUpAP(Top.p, "null")
               x == Cell("count", Top.p, Top.p, "null")
               y == Cell("idle", Top.p, Top.p, "null")
    <2>1. "null" \in Kinds /\ Top.p # All
        BY <1>3, Bounds DEF Kinds
    <2>2. k \in Seq(Steps)
        BY <1>3, <2>1, WakeSeq
    <2>3. << x >> \in Seq(Steps) /\ << y >> \in Seq(Steps)
        BY <1>3 DEF Steps, Cell, Wakes, Kinds
    <2>4. w = (k \o << x >>) \o << y >>
        BY DEF ResetProcessorToIdleState, Step, Cell
    <2> HIDE DEF k, x, y, w
    <2> QED BY <1>5, <2>2, <2>3, <2>4
<1>11. todo' = w \o v /\ UNCHANGED <<stop, phase>>
    <2> HIDE DEF w
    <2>1. w \o << b >> \in Seq(Steps)
        BY <1>10
    <2>2. todo' = (w \o << b >>) \o u /\ UNCHANGED <<stop, phase>>
        BY <1>1, <1>2, <1>9, <2>1, DoSteps
    <2>3. u \in Seq(Steps)
        BY <1>4 DEF Program
    <2>4. (w \o << b >>) \o u = w \o v
        BY <1>10, <2>3, ConcatAssociative
    <2> QED BY <2>2, <2>4
<1>12. /\ Program(v) /\ v # << >> /\ Head(v) = b /\ Items(v) = {b} \union Items(u)
       /\ v[Len(v)].do = todo[Len(todo)].do
    BY <1>4, <1>5, <1>6, <1>7, Pushed
<1> HIDE DEF v
<1>13. /\ Program(w \o v) /\ w \o v # << >> /\ Head(w \o v) = Cell("zero", Top.p, Top.p, "null")
       /\ Items(v) \subseteq Items(w \o v)
       /\ \A a \in Items(w \o v) : a.do \in Wakes \/ a \in Items(v)
       /\ (w \o v)[Len(w \o v)] = v[Len(v)]
    BY <1>3, <1>8, <1>12, ResetProgram
<1>14. Kept({b})
    BY <1>4, <1>11, <1>12, <1>13 DEF Kept, Harmless
<1> QED BY <1>3, <1>11, <1>12, <1>13, <1>14 DEF Top, b

\* The next AP of StartupAllAPs is reset, if it has not finished.
LEMMA ReclaimNext ==
    ASSUME Program(todo), At("reclaim"),
           Do(IF Top.i \in group.waiting THEN ResetProcessorToIdleState(Top.i) ELSE << >>)
    PROVE  /\ Kept({Cell("reclaim", All, Top.i + 1, Top.x)})
           /\ UNCHANGED <<stop, phase>> /\ todo' # << >> /\ Top.p = All /\ Top.i \in APs
           /\ Top.i \in group.waiting => Top' = Cell("zero", Top.i, Top.i, "null")
           /\ Top.i \notin group.waiting /\ Top.i # N =>
                 Top' = Cell("reclaim", All, Top.i + 1, Top.x)
           /\ Top.i \notin group.waiting /\ Top.i = N =>
                 Top' = Cell("report", All, All, Top.x)
<1> DEFINE u == Tail(todo)
           p == Top.i
           a == Cell("reclaim", All, p + 1, Top.x)
           b == Cell("report", All, All, Top.x)
           v == Again \o u
           w == ResetProcessorToIdleState(p)
           s == IF p \in group.waiting THEN w ELSE << >>
<1>1. todo # << >> /\ Top.do = "reclaim" /\ Top \in Steps /\ WellFormed(Top)
      /\ Top = Cell(Top.do, Top.p, Top.i, Top.x)
    BY TopIs DEF At
<1>2. Top.p = All /\ p \in APs /\ p \in 0 .. N /\ Top.x \in Modes /\ (p # N => p \in 1 .. N - 1)
    <2>1. Top.p = All /\ p \in APs /\ Top.x \in Modes
        BY <1>1 DEF WellFormed
    <2> QED BY <2>1, Bounds DEF APs
<1>3. ~Ends(Top)
    BY <1>1 DEF Ends
<1>4. /\ Program(u) /\ u # << >> /\ Follows(Top, Head(u)) /\ Head(u) \in Steps /\ WellFormed(Head(u))
      /\ u[Len(u)].do = todo[Len(todo)].do
      /\ \A e \in Items(todo) : e = Top \/ e \in Items(u)
      /\ \A e \in Items(u) : e \in Items(todo)
    BY <1>1, <1>3, RestIs
<1>5. Head(u) = b
    <2>1. Head(u).do = "report" /\ Head(u).p = All /\ Head(u).x = Top.x /\ Head(u).i = Head(u).p
        BY <1>1, <1>4 DEF Follows, WellFormed
    <2> QED BY <1>4, <2>1, CellIs
<1>6. /\ Program(v) /\ v # << >> /\ v[Len(v)].do = todo[Len(todo)].do
      /\ \A e \in Items(todo) : e = Top \/ e \in Items(v)
      /\ \A e \in Items(v) : e = a \/ e \in Items(todo)
      /\ Head(v) = IF p = N THEN b ELSE a
      /\ Again \in Seq(Steps)
    <2>1. CASE p = N
        <3>1. Again = << >>
            BY <1>2, <2>1, Bounds DEF Again
        <3>2. v = u /\ << >> \in Seq(Steps)
            BY <3>1, <1>4 DEF Program
        <3> QED BY <1>4, <1>5, <2>1, <3>1, <3>2
    <2>2. CASE p # N
        <3>1. a \in Steps
            <4>1. p + 1 \in 0 .. N + 1
                BY <1>2, Bounds
            <4> QED BY <1>1, <1>2, <4>1, CellStep
        <3>2. WellFormed(a)
            <4>1. p + 1 \in APs
                BY <1>2, <2>2, Bounds DEF APs
            <4> QED BY <1>2, <4>1 DEF WellFormed, Cell, Wakes, Starts
        <3>3. Follows(a, Head(u))
            <4>1. a.do = "reclaim" /\ a.x = Top.x
                BY DEF Cell
            <4>2. Head(u).do = "report" /\ Head(u).p = All /\ Head(u).x = Top.x
                <5>1. b.do = "report" /\ b.p = All /\ b.x = Top.x
                    BY DEF Cell
                <5> HIDE DEF b, u
                <5> QED BY <1>5, <5>1
            <4> HIDE DEF a, u
            <4> QED BY <4>1, <4>2 DEF Follows, Checks, Starts
        <3>4. Again = << a >>
            <4>1. [Top EXCEPT !.i = @ + 1] = a
                <5>1. \A d, q, i, x, j : [Cell(d, q, i, x) EXCEPT !.i = j] = Cell(d, q, j, x)
                    BY DEF Cell
                <5> QED BY <1>1, <1>2, <5>1
            <4> QED BY <1>2, <2>2, <4>1 DEF Again
        <3> HIDE DEF a
        <3>5. v = << a >> \o u /\ << a >> \in Seq(Steps)
            BY <3>1, <3>4
        <3>6. /\ Program(v) /\ v # << >> /\ Head(v) = a /\ Items(v) = {a} \union Items(u)
              /\ v[Len(v)].do = todo[Len(todo)].do
            BY <1>4, <3>1, <3>2, <3>3, <3>5, Pushed
        <3> QED BY <1>4, <2>2, <3>4, <3>5, <3>6
    <2> QED BY <2>1, <2>2
<1>7. Do(s)
    OBVIOUS
<1>8. CASE p \in group.waiting
    <2> HIDE DEF w
    <2>1. w \in Seq(Steps)
        <3> DEFINE k == WakeUpAP(p, "null")
                   x == Cell("count", p, p, "null")
                   y == Cell("idle", p, p, "null")
        <3>1. "null" \in Kinds /\ p # All /\ p \in 0 .. N + 1
            BY <1>2, Bounds DEF Kinds
        <3>2. k \in Seq(Steps)
            BY <1>2, <3>1, WakeSeq
        <3>3. << x >> \in Seq(Steps) /\ << y >> \in Seq(Steps)
            BY <3>1 DEF Steps, Cell, Wakes
        <3>4. w = (k \o << x >>) \o << y >>
            BY DEF ResetProcessorToIdleState, Step, Cell, w
        <3> HIDE DEF k, x, y
        <3> QED BY <3>2, <3>3, <3>4
    <2>2. todo' = w \o v /\ UNCHANGED <<stop, phase>>
        <3>1. todo' = (w \o Again) \o u /\ UNCHANGED <<stop, phase>>
            BY <1>7, <1>8 DEF Do
        <3>2. u \in Seq(Steps)
            BY <1>4 DEF Program
        <3> QED BY <1>6, <2>1, <3>1, <3>2, ConcatAssociative
    <2>3. \/ Head(v).do = "reclaim" /\ Head(v).i = p + 1
          \/ Head(v).do = "report" /\ (Head(v).p = p \/ (Head(v).p = All /\ p = N))
        BY <1>6 DEF Cell
    <2> HIDE DEF v, a, b
    <2>4. /\ Program(w \o v) /\ w \o v # << >> /\ Head(w \o v) = Cell("zero", p, p, "null")
          /\ Items(v) \subseteq Items(w \o v)
          /\ \A e \in Items(w \o v) : e.do \in Wakes \/ e \in Items(v)
          /\ (w \o v)[Len(w \o v)] = v[Len(v)]
        BY <1>2, <1>6, <2>3, ResetProgram DEF w
    <2>5. Kept({a})
        BY <1>6, <2>2, <2>4 DEF Kept, Harmless
    <2> QED BY <1>2, <1>8, <2>2, <2>4, <2>5 DEF Top, a
<1>9. CASE p \notin group.waiting
    <2>1. todo' = v /\ UNCHANGED <<stop, phase>>
        <3>1. todo' = (<< >> \o Again) \o u /\ UNCHANGED <<stop, phase>>
            BY <1>7, <1>9 DEF Do
        <3>2. << >> \o Again = Again
            BY <1>6
        <3> QED BY <3>1, <3>2
    <2> HIDE DEF v
    <2>2. Kept({a})
        BY <1>6, <2>1 DEF Kept
    <2> QED BY <1>2, <1>6, <1>9, <2>1, <2>2 DEF Top
<1> QED BY <1>8, <1>9

\* Brackets do not matter.
LEMMA Regroup ==
    \A a, b, c \in Seq(Steps) : (a \o b) \o c = a \o (b \o c)
<1> TAKE a, b, c \in Seq(Steps)
<1> QED BY ConcatAssociative

\* A call wakes up an AP, or all, and then checks or returns.
LEMMA StartNext ==
    ASSUME Program(todo), todo # << >>, Top.do \in Starts, NEW p \in 0 .. N,
           NEW s \in Seq(Steps), Program(s \o Tail(todo)), s \o Tail(todo) # << >>,
           LET v == s \o Tail(todo)
           IN  /\ Head(v).do \in {"see", "look", "return"}
               /\ Head(v).do = "see" => Head(v).p = p /\ Head(v).x = "block"
               /\ \A b \in Items(Tail(todo)) : b \in Items(v)
               /\ v[Len(v)].do = todo[Len(todo)].do,
           NEW new, \A b \in Items(s \o Tail(todo)) :
                       b.do \in Harmless \/ b \in Items(todo) \/ b \in new,
           NEW w, w = (IF p = All THEN WakeUpAll("proc") ELSE WakeUpAP(p, "proc")),
           Do(w \o s)
    PROVE  /\ Kept(new) /\ UNCHANGED <<stop, phase>> /\ todo' # << >>
           /\ Top' = Cell("zero", p, p, "proc")
           /\ Items(s \o Tail(todo)) \subseteq Items(todo')
           /\ \A b \in Items(todo') : b.do \in Wakes \/ b \in Items(s \o Tail(todo))
<1> DEFINE u == Tail(todo)
           v == s \o u
<1>1. ~Repeats /\ ~Ends(Top)
    BY OnlyOnce DEF Starts
<1>2. /\ Program(u) /\ u # << >>
      /\ \A b \in Items(todo) : b = Top \/ b \in Items(u)
    BY <1>1, RestIs
<1>3. w \in Seq(Steps) /\ "proc" \in Kinds
    BY WakeSeq DEF Kinds
<1>4. w \o s \in Seq(Steps) /\ u \in Seq(Steps)
    BY <1>2, <1>3 DEF Program
<1>5. todo' = w \o v /\ UNCHANGED <<stop, phase>>
    <2>1. todo' = (w \o s) \o u /\ UNCHANGED <<stop, phase>>
        BY <1>1, <1>4, DoSteps
    <2> HIDE DEF u
    <2>2. (w \o s) \o u = w \o (s \o u)
        BY <1>3, <1>4, Regroup
    <2> QED BY <2>1, <2>2
<1>6. /\ Program(v) /\ v # << >> /\ Head(v).do \in {"see", "look", "return"}
      /\ Head(v).do = "see" => Head(v).p = p /\ Head(v).x = "block"
      /\ \A b \in Items(u) : b \in Items(v)
      /\ v[Len(v)].do = todo[Len(todo)].do
      /\ \A b \in Items(v) : b.do \in Harmless \/ b \in Items(todo) \/ b \in new
    OBVIOUS
<1>7. Follows(Cell("awake", p, IF p = All THEN 1 ELSE p, "proc"), Head(v))
    <2> HIDE DEF v
    <2> QED BY <1>6 DEF Follows, Cell, Checks, Starts
<1> HIDE DEF v
<1>8. /\ Program(w \o v) /\ w \o v # << >> /\ Head(w \o v) = Cell("zero", p, p, "proc")
      /\ Items(v) \subseteq Items(w \o v)
      /\ \A b \in Items(w \o v) : b.do \in Wakes \/ b \in Items(v)
      /\ (w \o v)[Len(w \o v)] = v[Len(v)]
    BY <1>3, <1>6, <1>7, WakeProgram
<1>9. Kept(new)
    BY <1>2, <1>5, <1>6, <1>8 DEF Kept, Harmless
<1> QED BY <1>5, <1>8, <1>9 DEF Top, v

\* StartupThisAP wakes its AP up, and then checks it if it blocks.
LEMMA StartThisNext ==
    ASSUME Program(todo), At("startThis"),
           Do(WakeUpAP(Top.p, "proc")
              \o IF Top.x = "block" THEN Step("see", Top.p, "block") ELSE << >>)
    PROVE  LET a == Cell("see", Top.p, Top.p, "block")
           IN  /\ Kept(IF Top.x = "block" THEN {a} ELSE {})
               /\ UNCHANGED <<stop, phase>> /\ todo' # << >>
               /\ Top' = Cell("zero", Top.p, Top.p, "proc") /\ Top.p \in APs /\ Top.x \in Modes
               /\ \A b \in Items(todo') :
                     b.do \in Wakes \union {"return"} \/ (Top.x = "block" /\ b = a)
               /\ Top.x = "block" => a \in Items(todo')
<1> DEFINE u == Tail(todo)
           a == Cell("see", Top.p, Top.p, "block")
           s == IF Top.x = "block" THEN << a >> ELSE << >>
           w == WakeUpAP(Top.p, "proc")
           new == IF Top.x = "block" THEN {a} ELSE {}
<1>1. todo # << >> /\ Top.do = "startThis" /\ Top.do \in Starts
    BY DEF At, Starts
<1>2. ~Repeats /\ ~Ends(Top) /\ Top \in Steps /\ WellFormed(Top)
    BY <1>1, OnlyOnce
<1>3. Top.p \in APs /\ Top.p \in 0 .. N + 1 /\ Top.p \in 0 .. N /\ Top.p # All /\ Top.x \in Modes
    BY <1>1, <1>2, Bounds DEF WellFormed, Starts
<1>4. /\ Program(u) /\ u # << >> /\ Follows(Top, Head(u))
      /\ u[Len(u)].do = todo[Len(todo)].do
      /\ \A e \in Items(todo) : e = Top \/ e \in Items(u)
      /\ \A e \in Items(u) : e \in Items(todo)
    BY <1>1, <1>2, RestIs
<1>5. Head(u).do = "return" /\ Items(u) = {Head(u)}
    <2>1. Head(u).do = "return"
        <3> HIDE DEF u
        <3> QED BY <1>1, <1>4 DEF Follows
    <2> QED BY <1>4, <2>1, BehindEnd
<1>6. a \in Steps /\ a.do = "see" /\ a.p = Top.p /\ a.x = "block"
    BY <1>3 DEF Steps, Cell, Checks, Modes
<1>7. WellFormed(a) /\ Follows(a, Head(u))
    <2>1. WellFormed(a)
        BY <1>3 DEF WellFormed, Cell, Wakes, Starts, Modes
    <2> HIDE DEF a, u
    <2>2. Follows(a, Head(u))
        BY <1>5, <1>6 DEF Follows, Checks, Starts
    <2> QED BY <2>1, <2>2
<1>8. Do(w \o s)
    BY DEF Step, Cell
<1> HIDE DEF a, w
<1>9. /\ s \in Seq(Steps) /\ Program(s \o u) /\ s \o u # << >>
      /\ Items(s \o u) = Items(u) \union new
      /\ (s \o u)[Len(s \o u)].do = todo[Len(todo)].do
      /\ Head(s \o u).do \in {"see", "look", "return"}
      /\ Head(s \o u).do = "see" => Head(s \o u) = a
    <2>1. CASE Top.x = "block"
        <3>1. s = << a >> /\ new = {a} /\ << a >> \in Seq(Steps)
            BY <1>6, <2>1
        <3> HIDE DEF u, s, new
        <3> QED BY <1>4, <1>6, <1>7, <3>1, Pushed
    <2>2. CASE Top.x # "block"
        <3>1. s = << >> /\ new = {} /\ << >> \in Seq(Steps)
            BY <2>2
        <3>2. << >> \o u = u
            BY <1>4 DEF Program
        <3> HIDE DEF u, s, new
        <3> QED BY <1>4, <1>5, <3>1, <3>2
    <2> QED BY <2>1, <2>2
<1>10. w = (IF Top.p = All THEN WakeUpAll("proc") ELSE WakeUpAP(Top.p, "proc"))
    BY <1>3 DEF w
<1>11. \A b \in Items(s \o u) : b.do \in Harmless \/ b \in Items(todo) \/ b \in new
    BY <1>4, <1>9
<1> HIDE DEF s, new
<1>12. /\ Kept(new) /\ UNCHANGED <<stop, phase>> /\ todo' # << >>
       /\ Top' = Cell("zero", Top.p, Top.p, "proc")
       /\ Items(s \o u) \subseteq Items(todo')
       /\ \A b \in Items(todo') : b.do \in Wakes \/ b \in Items(s \o u)
    BY <1>1, <1>3, <1>6, <1>8, <1>9, <1>10, <1>11, StartNext
<1>13. Top.x = "block" => a \in Items(todo')
    BY <1>9, <1>12 DEF new
<1>14. \A b \in Items(todo') : b.do \in Wakes \union {"return"} \/ (Top.x = "block" /\ b = a)
    BY <1>5, <1>9, <1>12 DEF new
<1> QED BY <1>3, <1>12, <1>13, <1>14 DEF a, new

\* StartupAllAPs wakes up all APs or the first one, and then checks them if it blocks.
LEMMA StartAllNext ==
    ASSUME Program(todo), todo # << >>, Top.do \in {"startAll", "startSingle"},
           NEW p \in 0 .. N, NEW w, w = (IF p = All THEN WakeUpAll("proc") ELSE WakeUpAP(p, "proc")),
           Do(w \o IF Top.x = "block" THEN CheckAllAPs("block") ELSE << >>)
    PROVE  LET b == Cell("decide", All, All, "block")
           IN  /\ Kept(IF Top.x = "block" THEN {b} ELSE {})
               /\ UNCHANGED <<stop, phase>> /\ todo' # << >>
               /\ Top' = Cell("zero", p, p, "proc") /\ Top.p = All /\ Top.x \in Modes
               /\ \A e \in Items(todo') :
                     e.do \in Wakes \union {"look", "return"} \/ (Top.x = "block" /\ e = b)
               /\ Top.x = "block" => b \in Items(todo')
<1> DEFINE u == Tail(todo)
           a == Cell("look", 1, 1, "block")
           b == Cell("decide", All, All, "block")
           s == IF Top.x = "block" THEN << a >> \o << b >> ELSE << >>
           new == IF Top.x = "block" THEN {b} ELSE {}
           more == IF Top.x = "block" THEN {a, b} ELSE {}
<1>1. Top.do \in Starts
    BY DEF Starts
<1>2. ~Repeats /\ ~Ends(Top) /\ Top \in Steps /\ WellFormed(Top)
    BY <1>1, OnlyOnce DEF Starts
<1>3. Top.p = All /\ Top.x \in Modes
    BY <1>1, <1>2 DEF WellFormed, Starts
<1>4. /\ Program(u) /\ u # << >> /\ Follows(Top, Head(u))
      /\ u[Len(u)].do = todo[Len(todo)].do
      /\ \A e \in Items(todo) : e = Top \/ e \in Items(u)
      /\ \A e \in Items(u) : e \in Items(todo)
    BY <1>1, <1>2, RestIs
<1>5. Head(u).do = "return" /\ Items(u) = {Head(u)}
    <2>1. Head(u).do = "return"
        <3> HIDE DEF u
        <3> QED BY <1>1, <1>4 DEF Follows
    <2> QED BY <1>4, <2>1, BehindEnd
<1>6. a \in Steps /\ b \in Steps /\ a.do = "look" /\ b.do = "decide" /\ b.x = "block"
    BY Bounds DEF Steps, Cell, Checks, Modes
<1>7. WellFormed(a) /\ WellFormed(b) /\ Follows(a, b) /\ Follows(b, Head(u))
    <2>1. WellFormed(a) /\ WellFormed(b)
        BY Bounds DEF WellFormed, Cell, Wakes, Starts, Modes
    <2>2. Follows(a, b)
        BY DEF Follows, Cell, Checks, Starts
    <2> HIDE DEF b, u
    <2>3. Follows(b, Head(u))
        BY <1>5, <1>6 DEF Follows, Checks, Starts
    <2> QED BY <2>1, <2>2, <2>3
<1>8. Do(w \o s)
    BY DEF CheckAllAPs, Step, Cell
<1> HIDE DEF a, b
<1>9. /\ s \in Seq(Steps) /\ Program(s \o u) /\ s \o u # << >>
      /\ Items(s \o u) = Items(u) \union more
      /\ (s \o u)[Len(s \o u)].do = todo[Len(todo)].do
      /\ Head(s \o u).do \in {"look", "return"}
    <2>1. CASE Top.x = "block"
        <3> DEFINE v == << b >> \o u
        <3>1. s = << a >> \o << b >> /\ more = {a, b} /\ << a >> \in Seq(Steps) /\ << b >> \in Seq(Steps)
            BY <1>6, <2>1
        <3>2. u \in Seq(Steps) /\ << a >> \o << b >> \in Seq(Steps)
            BY <1>4, <3>1 DEF Program
        <3> HIDE DEF u
        <3>3. s \o u = << a >> \o v
            BY <3>1, <3>2, ConcatAssociative
        <3>4. /\ Program(v) /\ v # << >> /\ Head(v) = b /\ Items(v) = {b} \union Items(u)
              /\ v[Len(v)].do = todo[Len(todo)].do
            BY <1>4, <1>6, <1>7, Pushed
        <3> HIDE DEF v
        <3>5. LET x == << a >> \o v
              IN  /\ Program(x) /\ x # << >> /\ Head(x) = a /\ Items(x) = {a} \union Items(v)
                  /\ x[Len(x)].do = todo[Len(todo)].do
            BY <1>6, <1>7, <3>4, Pushed
        <3> HIDE DEF s, more
        <3> QED BY <1>6, <3>1, <3>2, <3>3, <3>4, <3>5
    <2>2. CASE Top.x # "block"
        <3>1. s = << >> /\ more = {} /\ << >> \in Seq(Steps)
            BY <2>2
        <3>2. << >> \o u = u
            BY <1>4 DEF Program
        <3> HIDE DEF u, s, more
        <3> QED BY <1>4, <1>5, <3>1, <3>2
    <2> QED BY <2>1, <2>2
<1>10. \A e \in Items(s \o u) : e.do \in Harmless \/ e \in Items(todo) \/ e \in new
    BY <1>4, <1>6, <1>9 DEF Harmless
<1>11. Items(u) \subseteq Items(s \o u)
    BY <1>9
<1> HIDE DEF s
<1>12. /\ Kept(new) /\ UNCHANGED <<stop, phase>> /\ todo' # << >>
       /\ Top' = Cell("zero", p, p, "proc")
       /\ Items(s \o u) \subseteq Items(todo')
       /\ \A e \in Items(todo') : e.do \in Wakes \/ e \in Items(s \o u)
    <2> HIDE DEF new
    <2> QED BY <1>1, <1>8, <1>9, <1>10, <1>11, StartNext
<1>13. Top.x = "block" => b \in Items(todo')
    BY <1>9, <1>12
<1>14. \A e \in Items(todo') :
          e.do \in Wakes \union {"look", "return"} \/ (Top.x = "block" /\ e = b)
    BY <1>5, <1>6, <1>9, <1>12
<1> QED BY <1>3, <1>12, <1>13, <1>14 DEF b

\* One step alone
LEMMA Alone ==
    ASSUME NEW a \in Steps, WellFormed(a), Ends(a)
    PROVE  /\ Program(<< a >>) /\ << a >> # << >> /\ Head(<< a >>) = a /\ Items(<< a >>) = {a}
           /\ << a >>[Len(<< a >>)] = a
<1>1. Program(<< >>) /\ Items(<< >>) = {}
    BY DEF Program, Items
<1>2. << a >> \o << >> = << a >>
    OBVIOUS
<1>3. /\ Program(<< a >> \o << >>) /\ << a >> \o << >> # << >> /\ Head(<< a >> \o << >>) = a
      /\ Items(<< a >> \o << >>) = {a} \union Items(<< >>)
      /\ (<< a >> \o << >>)[Len(<< a >> \o << >>)] = a
    BY <1>1, Pushed
<1> QED BY <1>1, <1>2, <1>3

\* MpInitLibInitialize is a list of steps.
LEMMA BootNext ==
    ASSUME todo' = MpInitLibInitialize
    PROVE  /\ Program(todo') /\ todo' # << >> /\ Top' = Cell("zero", All, All, "sync")
           /\ \A b \in Items(todo') : b.do \in Wakes
<1> DEFINE a == Cell("count", All, All, "sync")
           b == Cell("idle", All, 1, "sync")
           u == << b >>
           v == << a >> \o u
           w == WakeUpAll("sync")
<1>1. a \in Steps /\ b \in Steps
    BY Bounds DEF Steps, Cell, Wakes, Kinds
<1>2. WellFormed(a) /\ WellFormed(b)
    BY Bounds DEF WellFormed, Cell, Wakes, Starts, Kinds
<1>3. Follows(a, b)
    BY DEF Follows, Cell, Checks, Starts, First
<1>4. Ends(b) /\ a.do \in Wakes /\ b.do \in Wakes /\ a = Cell("count", 0, 0, "sync")
    BY DEF Ends, Cell, Wakes, All
<1>5. Follows(Cell("awake", All, 1, "sync"), a)
    BY DEF Follows, Cell, Checks, Starts
<1>6. "sync" \in Kinds /\ All \in 0 .. N
    BY Bounds DEF Kinds
<1>7. w \in Seq(Steps)
    BY <1>6, WakeSeq
<1>8. todo' = (w \o << a >>) \o << b >>
    BY DEF MpInitLibInitialize, Step, ForAPs, Cell
<1> HIDE DEF a, b, w
<1>9. << a >> \in Seq(Steps) /\ << b >> \in Seq(Steps)
    BY <1>1
<1>10. todo' = w \o v
    BY <1>7, <1>8, <1>9, Regroup
<1>11. Program(u) /\ u # << >> /\ Head(u) = b /\ Items(u) = {b}
    BY <1>1, <1>2, <1>4, Alone
<1> HIDE DEF u
<1>12. Program(v) /\ v # << >> /\ Head(v) = a /\ Items(v) = {a} \union Items(u)
    BY <1>1, <1>2, <1>3, <1>11, Pushed
<1> HIDE DEF v
<1>13. /\ Program(w \o v) /\ w \o v # << >> /\ Head(w \o v) = Cell("zero", All, All, "sync")
       /\ \A e \in Items(w \o v) : e.do \in Wakes \/ e \in Items(v)
    <2>1. w = (IF All = All THEN WakeUpAll("sync") ELSE WakeUpAP(All, "sync"))
        BY DEF w
    <2>2. Follows(Cell("awake", All, IF All = All THEN 1 ELSE All, "sync"), Head(v))
        BY <1>5, <1>12
    <2>3. (All = All => "sync" # "null") /\ (All # All => "sync" \in {"proc", "null"})
        OBVIOUS
    <2> QED BY <1>6, <1>12, <2>1, <2>2, <2>3, WakeProgram
<1> QED BY <1>4, <1>10, <1>11, <1>12, <1>13 DEF Top

\* MpInitChangeApLoopCallback is a list of steps.
LEMMA LeaveNext ==
    ASSUME todo' = WakeUpAll("relocate") \o Step("gone", All, "relocate")
    PROVE  /\ Program(todo') /\ todo' # << >> /\ Top' = Cell("zero", All, All, "relocate")
           /\ \A b \in Items(todo') : b.do \in Wakes \union {"gone"}
<1> DEFINE a == Cell("gone", All, All, "relocate")
           v == << a >>
           w == WakeUpAll("relocate")
<1>1. a \in Steps /\ a.do = "gone"
    BY Bounds DEF Steps, Cell, Kinds
<1>2. WellFormed(a)
    BY Bounds DEF WellFormed, Cell, Wakes, Starts, Kinds
<1>3. Ends(a)
    BY DEF Ends, Cell
<1>4. Follows(Cell("awake", All, IF All = All THEN 1 ELSE All, "relocate"), a)
    BY DEF Follows, Cell, Checks, Starts
<1>5. todo' = w \o v
    BY DEF Step, Cell
<1> HIDE DEF a, w
<1>6. Program(v) /\ v # << >> /\ Head(v) = a /\ Items(v) = {a}
    BY <1>1, <1>2, <1>3, Alone
<1> HIDE DEF v
<1>7. /\ Program(w \o v) /\ w \o v # << >> /\ Head(w \o v) = Cell("zero", All, All, "relocate")
      /\ \A e \in Items(w \o v) : e.do \in Wakes \/ e \in Items(v)
    <2>1. w = (IF All = All THEN WakeUpAll("relocate") ELSE WakeUpAP(All, "relocate"))
        BY DEF w
    <2>2. Follows(Cell("awake", All, IF All = All THEN 1 ELSE All, "relocate"), Head(v))
        BY <1>4, <1>6
    <2>3. (All = All => "relocate" # "null") /\ (All # All => "relocate" \in {"proc", "null"})
        OBVIOUS
    <2>4. "relocate" \in Kinds /\ All \in 0 .. N
        BY Bounds DEF Kinds
    <2> QED BY <1>6, <2>1, <2>2, <2>3, <2>4, WakeProgram
<1> QED BY <1>1, <1>5, <1>6, <1>7 DEF Top

\* Two steps alone
LEMMA TwoAlone ==
    ASSUME NEW a \in Steps, NEW b \in Steps, WellFormed(a), WellFormed(b), Follows(a, b), Ends(b)
    PROVE  LET t == (<< a >> \o << b >>) \o << >>
           IN  /\ Program(t) /\ t # << >> /\ Head(t) = a /\ Items(t) = {a, b} /\ t[Len(t)] = b
<1> DEFINE v == << b >>
           t == << a >> \o v
<1>1. (<< a >> \o << b >>) \o << >> = t
    OBVIOUS
<1>2. Program(v) /\ v # << >> /\ Head(v) = b /\ Items(v) = {b} /\ v[Len(v)] = b
    BY Alone
<1> HIDE DEF v
<1>3. Program(t) /\ t # << >> /\ Head(t) = a /\ Items(t) = {a} \union Items(v) /\ t[Len(t)] = v[Len(v)]
    BY <1>2, Pushed
<1> HIDE DEF t
<1> QED BY <1>1, <1>2, <1>3

\* Three steps alone
LEMMA ThreeAlone ==
    ASSUME NEW a \in Steps, NEW b \in Steps, NEW c \in Steps,
           WellFormed(a), WellFormed(b), WellFormed(c), Follows(a, b), Follows(b, c), Ends(c)
    PROVE  LET t == ((<< a >> \o << b >>) \o << c >>) \o << >>
           IN  Program(t) /\ t # << >> /\ Head(t) = a /\ Items(t) = {a, b, c}
<1> DEFINE v == << c >>
           w == << b >> \o v
           t == << a >> \o w
<1>1. ((<< a >> \o << b >>) \o << c >>) \o << >> = t
    OBVIOUS
<1>2. Program(v) /\ v # << >> /\ Head(v) = c /\ Items(v) = {c}
    BY Alone
<1> HIDE DEF v
<1>3. Program(w) /\ w # << >> /\ Head(w) = b /\ Items(w) = {b} \union Items(v)
    BY <1>2, Pushed
<1> HIDE DEF w
<1>4. Program(t) /\ t # << >> /\ Head(t) = a /\ Items(t) = {a} \union Items(w)
    BY <1>3, Pushed
<1> HIDE DEF t
<1> QED BY <1>1, <1>2, <1>3, <1>4

\* The timer event is a list of steps.
LEMMA CheckNext ==
    ASSUME todo = << >>, todo' = CheckAndUpdateApsStatus \o Step("end", All, "") \o todo
    PROVE  /\ Program(todo') /\ todo' # << >> /\ Top' = Cell("pending", All, All, "")
           /\ \A b \in Items(todo') : b.do \in {"pending", "end"}
           /\ (todo')[Len(todo')].do = "end"
<1> DEFINE a == Cell("pending", All, All, "")
           b == Cell("end", All, All, "")
           t == (<< a >> \o << b >>) \o << >>
<1>1. a \in Steps /\ b \in Steps /\ a.do = "pending" /\ b.do = "end"
    BY Bounds DEF Steps, Cell
<1>2. WellFormed(a) /\ WellFormed(b)
    BY Bounds DEF WellFormed, Cell, Wakes, Starts
<1>3. Ends(b) /\ Follows(a, b)
    BY DEF Ends, Follows, Cell, Checks, Starts
<1>4. todo' = t
    BY DEF CheckAndUpdateApsStatus, Step, Cell
<1> HIDE DEF a, b
<1>5. Program(t) /\ t # << >> /\ Head(t) = a /\ Items(t) = {a, b} /\ t[Len(t)] = b
    BY <1>1, <1>2, <1>3, TwoAlone
<1> HIDE DEF t
<1> QED BY <1>1, <1>4, <1>5 DEF Top, a

\* A call from the application is a list of steps.
LEMMA CallNext ==
    ASSUME todo = << >>, NEW s \in Steps, WellFormed(s), s.do \in Starts,
           todo' = CheckAndUpdateApsStatus \o << s >> \o Step("return", All, "") \o todo
    PROVE  /\ Program(todo') /\ todo' # << >> /\ Top' = Cell("pending", All, All, "")
           /\ \A b \in Items(todo') : b = s \/ b.do \in {"pending", "return"}
<1> DEFINE a == Cell("pending", All, All, "")
           b == Cell("return", All, All, "")
           t == ((<< a >> \o << s >>) \o << b >>) \o << >>
<1>1. a \in Steps /\ b \in Steps /\ a.do = "pending" /\ b.do = "return"
    BY Bounds DEF Steps, Cell
<1>2. WellFormed(a) /\ WellFormed(b)
    BY Bounds DEF WellFormed, Cell, Wakes, Starts
<1>3. Ends(b) /\ Follows(a, s) /\ Follows(s, b)
    <2>1. Ends(b)
        BY DEF Ends, Cell
    <2> HIDE DEF a, b
    <2> QED BY <1>1, <2>1 DEF Follows, Checks, Starts
<1>4. todo' = t
    BY DEF CheckAndUpdateApsStatus, Step, Cell
<1> HIDE DEF a, b
<1>5. Program(t) /\ t # << >> /\ Head(t) = a /\ Items(t) = {a, s, b}
    BY <1>1, <1>2, <1>3, ThreeAlone
<1> HIDE DEF t
<1> QED BY <1>1, <1>4, <1>5 DEF Top, a

-----------------------------------------------------------------------------
(***************************************************************************)
(* Steps of the BSP that neither wake up nor reset an AP.                  *)
(***************************************************************************)
\* The BSP wakes nobody up, and resets nobody.
Calm == todo = << >> \/ Top.do \notin Wakes \union {"reclaim", "report"}

\* Then no AP is about to be started.
LEMMA CalmTop ==
    ASSUME Program(todo), Calm
    PROVE  /\ \A p \in APs : ~ToReady(p) /\ ~ToInit(p)
           /\ ~Resetting /\ ~Doing("sync") /\ ~Doing("null") /\ ~Doing("proc")
           /\ ~At("zero") /\ ~At("ready") /\ ~At("init") /\ ~At("awake")
           /\ ~At("count") /\ ~At("idle") /\ ~At("reclaim") /\ ~At("report")
<1>1. CASE todo = << >>
    BY <1>1 DEF ToReady, ToInit, Resetting, Doing, At
<1>2. CASE todo # << >> /\ Top.do \notin Wakes \union {"reclaim", "report"}
    <2>1. Top \in Steps /\ WellFormed(Top)
        BY <1>2, TopIs
    <2>2. Top.x \notin {"sync", "null", "proc"}
        <3>1. Top.do \in {"look", "decide", "see"} \union Starts => Top.x \in Modes
            BY <2>1 DEF WellFormed
        <3>2. Top.do \in {"tell", "forget", "pending", "return", "end"} => Top.x = ""
            BY <2>1 DEF WellFormed
        <3>3. Top.do = "gone" => Top.x = "relocate"
            BY <2>1 DEF WellFormed
        <3>4. Top.do \in Starts \union {"look", "decide", "see", "tell", "forget", "pending",
                                         "return", "end", "gone"}
            BY <1>2, <2>1 DEF Steps, Checks
        <3> QED BY <3>1, <3>2, <3>3, <3>4 DEF Modes
    <2>3. Top.do \notin {"zero", "ready", "init", "awake", "count", "idle", "reclaim", "report"}
        BY <1>2 DEF Wakes
    <2> QED BY <1>2, <2>2, <2>3 DEF ToReady, ToInit, Resetting, Doing, At
<1> QED BY <1>1, <1>2 DEF Calm

\* The same of the next state
LEMMA CalmNext ==
    ASSUME Program(todo'), Calm'
    PROVE  /\ \A p \in APs : ~ToReady(p)' /\ ~ToInit(p)'
           /\ ~Resetting' /\ ~Doing("sync")' /\ ~Doing("null")' /\ ~Doing("proc")'
           /\ ~At("zero")' /\ ~At("ready")' /\ ~At("init")' /\ ~At("awake")'
           /\ ~At("count")' /\ ~At("idle")' /\ ~At("reclaim")' /\ ~At("report")'
<1>1. CASE todo' = << >>
    BY <1>1 DEF ToReady, ToInit, Resetting, Doing, At
<1>2. CASE todo' # << >> /\ Top'.do \notin Wakes \union {"reclaim", "report"}
    <2>1. Top' \in Steps /\ WellFormed(Top')
        BY <1>2, Popped DEF Top
    <2>2. Top'.x \notin {"sync", "null", "proc"}
        <3>1. Top'.do \in {"look", "decide", "see"} \union Starts => Top'.x \in Modes
            BY <2>1 DEF WellFormed
        <3>2. Top'.do \in {"tell", "forget", "pending", "return", "end"} => Top'.x = ""
            BY <2>1 DEF WellFormed
        <3>3. Top'.do = "gone" => Top'.x = "relocate"
            BY <2>1 DEF WellFormed
        <3>4. Top'.do \in Starts \union {"look", "decide", "see", "tell", "forget", "pending",
                                         "return", "end", "gone"}
            BY <1>2, <2>1 DEF Steps, Checks
        <3> QED BY <3>1, <3>2, <3>3, <3>4 DEF Modes
    <2>3. Top'.do \notin {"zero", "ready", "init", "awake", "count", "idle", "reclaim", "report"}
        BY <1>2 DEF Wakes
    <2> QED BY <1>2, <2>2, <2>3 DEF ToReady, ToInit, Resetting, Doing, At
<1> QED BY <1>1, <1>2 DEF Calm

\* What the APs read and write
Settings == <<pc, procedure, lock, state, function, signal, finished, toFinish>>

\* A step from a calm list to another that leaves APs and calls alone keeps all of the
\* invariant but the parts about the list and the outstanding calls.
LEMMA Quiet ==
    ASSUME IInv, Program(todo'), Calm, Calm', phase' = phase, phase # "off",
           UNCHANGED Settings, UNCHANGED <<group, by, ran>>,
           phase = "boot" \/ event' = event,
           (\E p \in APs : by[p] = All) /\ group.waiting = {} => At("look")' \/ At("decide")',
           \A a \in Items(todo') : a.do \notin {"reclaim", "report"}
    PROVE  /\ CountOK' /\ (\A p \in APs : PlaceOK(p)') /\ BootOK' /\ LeaveOK'
           /\ GroupOK' /\ WorkOK' /\ ResetOK'
<1>0. /\ Program(todo) /\ CountOK /\ (\A p \in APs : PlaceOK(p)) /\ BootOK /\ LeaveOK
      /\ GroupOK /\ WorkOK /\ ResetOK
    BY DEF IInv
<1>1. /\ \A p \in APs : ~ToReady(p) /\ ~ToInit(p)
      /\ ~Resetting /\ ~Doing("sync") /\ ~Doing("null") /\ ~Doing("proc")
      /\ ~At("zero") /\ ~At("ready") /\ ~At("init") /\ ~At("awake")
      /\ ~At("count") /\ ~At("idle") /\ ~At("reclaim") /\ ~At("report")
    BY <1>0, CalmTop
<1>2. /\ \A p \in APs : ~ToReady(p)' /\ ~ToInit(p)'
      /\ ~Resetting' /\ ~Doing("sync")' /\ ~Doing("null")' /\ ~Doing("proc")'
      /\ ~At("zero")' /\ ~At("ready")' /\ ~At("init")' /\ ~At("awake")'
      /\ ~At("count")' /\ ~At("idle")' /\ ~At("reclaim")' /\ ~At("report")'
    BY CalmNext
<1>3. /\ UNCHANGED <<pc, procedure, lock, state, function, signal, finished, toFinish>>
    BY DEF Settings
<1>4. ~Booting /\ ~Booting' /\ (Working' <=> Working) /\ ~Reclaiming /\ ~Reclaiming'
    BY <1>1, <1>2 DEF Booting, Working, Reclaiming
<1>5. CountOK'
    BY <1>0, <1>2, <1>3 DEF CountOK, Flying
<1>6. \A p \in APs : PlaceOK(p)'
    <2> TAKE p \in APs
    <2> QED BY <1>0, <1>1, <1>2, <1>3, <1>4 DEF PlaceOK
<1>7. BootOK'
    BY <1>4 DEF BootOK
<1>8. LeaveOK'
    <2>1. CASE phase # "os"
        BY <2>1 DEF LeaveOK
    <2>2. CASE phase = "os"
        <3>1. event' = event
            BY <2>2
        <3> QED BY <1>0, <1>1, <1>2, <1>3, <2>2, <3>1 DEF LeaveOK
    <2> QED BY <2>1, <2>2
<1>9. GroupOK'
    BY <1>0, <1>3, <1>4 DEF GroupOK
<1>10. WorkOK'
    <2> SUFFICES ASSUME Working' PROVE WorkOK'
        BY DEF WorkOK
    <2>1. Working
        BY <1>4
    <2>2. \A p \in APs :
             /\ (Live(p)' <=> Live(p)) /\ (RestOK(p)' <=> RestOK(p)) /\ (LiveOK(p)' <=> LiveOK(p))
        <3> TAKE p \in APs
        <3>1. Live(p)' <=> Live(p)
            BY <1>1, <1>2 DEF Live
        <3>2. RestOK(p)' <=> RestOK(p)
            BY <1>1, <1>2, <1>3 DEF RestOK
        <3>3. Fresh(p)' <=> Fresh(p)
            BY <1>1, <1>2 DEF Fresh, Turn
        <3>4. LiveOK(p)' <=> LiveOK(p)
            BY <1>1, <1>2, <1>3, <3>3 DEF LiveOK
        <3> QED BY <3>1, <3>2, <3>4
    <2> QED BY <1>0, <1>1, <1>2, <2>1, <2>2 DEF WorkOK
<1>11. ResetOK'
    BY <1>2 DEF ResetOK
<1> QED BY <1>5, <1>6, <1>7, <1>8, <1>9, <1>10, <1>11

\* A step within a list keeps the phase.
LEMMA PhaseKept ==
    ASSUME PhaseOK, todo # << >>, NEW new, Kept(new), UNCHANGED <<stop, phase>>,
           phase = "boot" => ~Doing("relocate")',
           phase = "os" => todo' = << >> \/ Doing("relocate")'
    PROVE  PhaseOK' /\ phase # "off"
<1>1. phase # "off"
    BY DEF PhaseOK
<1>2. phase = "boot" /\ ~stop /\ todo' # << >> => (todo')[Len(todo')].do = "end"
    BY DEF PhaseOK, Kept
<1> QED BY <1>1, <1>2 DEF PhaseOK

\* The outstanding calls stay what they are if nothing of the list is lost.
LEMMA CallsKept ==
    ASSUME CallsOK, todo # << >>, NEW new, Kept(new), UNCHANGED <<by, event, owed>>,
           \A p \in APs : state'[p] = "disabled" => state[p] = "disabled",
           Top.do \notin {"tell", "forget"},
           todo' # << >> => Top'.do \notin {"tell", "forget"},
           Top.do \in Checks /\ Top.x = "block" =>
              \E b \in Items(todo') : b.do \in Checks /\ b.x = "block" /\ b.p = Top.p,
           \A a \in new :
              /\ a.do \in Checks =>
                    /\ a.x = "poll" => a.p \in event
                    /\ a.x = "block" => a.p \notin event
                    /\ \E p \in APs : by[p] = a.p
              /\ a.do \notin {"startThis", "startAll"}
    PROVE  CallsOK'
<1>1. ~At("tell") /\ ~At("forget") /\ ~At("tell")' /\ ~At("forget")'
    BY DEF At
<1>2. owed' = IF At("forget")' THEN event' \ {Top'.p} ELSE event'
    BY <1>1 DEF CallsOK
<1>3. \A c \in event' : \E p \in APs : by'[p] = c
    BY <1>1 DEF CallsOK
<1>4. \A p \in APs : by'[p] # Nobody =>
          by'[p] \in event' \/ \E a \in Items(todo') :
                                  a.do \in Checks /\ a.x = "block" /\ a.p = by'[p]
    <2> SUFFICES ASSUME NEW p \in APs, by[p] # Nobody, by[p] \notin event
                 PROVE  \E a \in Items(todo') : a.do \in Checks /\ a.x = "block" /\ a.p = by[p]
        OBVIOUS
    <2>1. PICK a \in Items(todo) : a.do \in Checks /\ a.x = "block" /\ a.p = by[p]
        BY DEF CallsOK
    <2>2. a = Top \/ a \in Items(todo')
        BY DEF Kept
    <2> QED BY <2>1, <2>2
<1>5. \A a \in Items(todo') :
          /\ a.do \in Checks =>
                /\ a.x = "poll" => a.p \in event'
                /\ a.x = "block" => a.p \notin event'
                /\ \E p \in APs : by'[p] = a.p
          /\ a.do = "startThis" => by'[a.p] = Nobody
          /\ a.do = "startAll" => \A p \in APs : state'[p] # "disabled"
    <2> TAKE a \in Items(todo')
    <2>1. a.do \in Harmless \/ a \in Items(todo) \/ a \in new
        BY DEF Kept
    <2>2. CASE a.do \in Harmless
        BY <2>2 DEF Harmless, Wakes, Checks
    <2>3. CASE a \in Items(todo)
        BY <2>3 DEF CallsOK
    <2>4. CASE a \in new
        BY <2>4
    <2> QED BY <2>1, <2>2, <2>3, <2>4
<1> QED BY <1>1, <1>2, <1>3, <1>4, <1>5 DEF CallsOK

\* Types, when APs and calls are left alone
LEMMA TypesKept ==
    ASSUME TypeOK, UNCHANGED Settings, UNCHANGED <<group, by, ran>>,
           stop' \in BOOLEAN, phase' \in {"off", "boot", "os"}, over' \subseteq over,
           event' \subseteq {All} \union APs, owed' \subseteq {All} \union APs
    PROVE  TypeOK'
BY DEF TypeOK, Settings

\* A calm step within a list
LEMMA QuietStep ==
    ASSUME IInv, todo # << >>, todo' # << >>, Calm, Calm', NEW new, Kept(new),
           \A a \in new : a.do \notin {"reclaim", "report"},
           Top.do # "gone", Top'.do # "gone", UNCHANGED <<stop, phase>>,
           UNCHANGED Settings, UNCHANGED <<group, over, by, ran>>,
           event' \subseteq {All} \union APs, owed' \subseteq {All} \union APs,
           (\E p \in APs : by[p] = All) /\ group.waiting = {} => At("look")' \/ At("decide")',
           CallsOK'
    PROVE  IInv'
<1>0. TypeOK /\ Program(todo) /\ PhaseOK /\ ResetOK
    BY DEF IInv
<1>1. ~Resetting
    BY <1>0, CalmTop
<1>2. phase = "boot"
    <2>1. Top.x # "relocate"
        <3>1. Top \in Steps /\ WellFormed(Top) /\ Top.do \notin Wakes
            BY <1>0, TopIs DEF Calm
        <3>2. Top.do \in {"look", "decide", "report", "see", "reclaim"} \union Starts => Top.x \in Modes
            BY <3>1 DEF WellFormed
        <3>3. Top.do \in {"tell", "forget", "pending", "return", "end"} => Top.x = ""
            BY <3>1 DEF WellFormed
        <3>4. Top.do \in Starts \union {"look", "decide", "report", "see", "reclaim", "tell",
                                         "forget", "pending", "return", "end"}
            BY <3>1 DEF Steps, Checks
        <3> QED BY <3>2, <3>3, <3>4 DEF Modes
    <2> QED BY <1>0, <2>1 DEF PhaseOK, Doing, TypeOK
<1>3. Program(todo') /\ \A a \in Items(todo') : a.do \notin {"reclaim", "report"}
    <2>1. \A a \in Items(todo') : a.do \in Harmless \/ a \in Items(todo) \/ a \in new
        BY DEF Kept
    <2>2. \A a \in Items(todo) : a.do \notin {"reclaim", "report"}
        BY <1>0, <1>1 DEF ResetOK
    <2> QED BY <2>1, <2>2 DEF Kept, Harmless, Wakes
<1>4. ~Doing("relocate")'
    <2>1. Top' \in Steps /\ WellFormed(Top') /\ Top'.do \notin Wakes
        BY <1>3, Popped DEF Top, Calm
    <2>2. Top'.do \in {"look", "decide", "report", "see", "reclaim"} \union Starts => Top'.x \in Modes
        BY <2>1 DEF WellFormed
    <2>3. Top'.do \in {"tell", "forget", "pending", "return", "end"} => Top'.x = ""
        BY <2>1 DEF WellFormed
    <2>4. Top'.do \in Starts \union {"look", "decide", "report", "see", "reclaim", "tell",
                                     "forget", "pending", "return", "end"}
        BY <2>1 DEF Steps, Checks
    <2> QED BY <2>2, <2>3, <2>4 DEF Modes, Doing
<1>5. PhaseOK'
    BY <1>0, <1>2, <1>4, PhaseKept
<1>6. TypeOK'
    BY <1>0, TypesKept DEF TypeOK
<1>7. /\ CountOK' /\ (\A p \in APs : PlaceOK(p)') /\ BootOK' /\ LeaveOK'
      /\ GroupOK' /\ WorkOK' /\ ResetOK'
    BY <1>2, <1>3, Quiet
<1> QED BY <1>3, <1>5, <1>6, <1>7 DEF IInv

\* An outstanding call of all APs has one to wait for, but where it is checked.
LEMMA StillWaits ==
    ASSUME GroupOK, ~Reclaiming, ~At("look"), ~At("decide")
    PROVE  ~((\E p \in APs : by[p] = All) /\ group.waiting = {})
BY DEF GroupOK

\* CheckThisAP finds an AP that has not finished: nothing changes.
LEMMA SeeNotReadyKeeps == ASSUME IInv, SeeNotReady PROVE IInv'
<1>0. Program(todo) /\ PhaseOK /\ GroupOK /\ CallsOK /\ TypeOK
    BY DEF IInv
<1>1. todo # << >> /\ Top.do = "see" /\ Do(<< >>) /\ Top.x = "poll"
    BY DEF SeeNotReady, At
<1>2. /\ Kept({}) /\ UNCHANGED <<stop, phase>> /\ todo' # << >> /\ Follows(Top, Top')
    BY <1>0, <1>1, PlainNext DEF Checks
<1>3. Top'.do = "pending"
    BY <1>1, <1>2 DEF Follows, Checks
<1>4. UNCHANGED Settings /\ UNCHANGED <<group, event, over, by, ran, owed>>
    BY DEF SeeNotReady, Settings, apVars, callVars, history
<1>5. Calm /\ Calm'
    BY <1>1, <1>2, <1>3 DEF Calm, Wakes
<1>6. ~Reclaiming /\ ~At("look") /\ ~At("decide")
    BY <1>0, <1>1, <1>5, CalmTop DEF Reclaiming, At
<1>7. CallsOK'
    <2>1. \A p \in APs : state'[p] = "disabled" => state[p] = "disabled"
        BY <1>4 DEF Settings
    <2> QED BY <1>0, <1>1, <1>2, <1>3, <1>4, <2>1, CallsKept
<1> QED BY <1>0, <1>1, <1>2, <1>3, <1>4, <1>5, <1>6, <1>7, StillWaits, QuietStep DEF TypeOK

\* CheckAllAPs finds that it must go on: it looks again, or the timer event will.
LEMMA DecideNotReadyKeeps == ASSUME IInv, DecideNotReady PROVE IInv'
<1>0. Program(todo) /\ PhaseOK /\ GroupOK /\ CallsOK /\ TypeOK
    BY DEF IInv
<1>1. todo # << >> /\ Top.do = "decide" /\ group.running # group.start
    BY DEF DecideNotReady, At
<1>2. UNCHANGED Settings /\ UNCHANGED <<group, event, over, by, ran, owed>>
    BY DEF DecideNotReady, Settings, apVars, callVars, history
<1>3. Calm
    BY <1>1 DEF Calm, Wakes
<1>4. ~Reclaiming
    BY <1>0, <1>3, CalmTop DEF Reclaiming
<1>5. group.waiting # {}
    <2>1. group.running + Cardinality(group.waiting) = group.start
        BY <1>0, <1>4 DEF GroupOK
    <2>2. group.running \in Nat
        BY <1>0, Bounds DEF TypeOK
    <2>3. group.waiting = {} => Cardinality(group.waiting) = 0
        BY FS_EmptySet
    <2> DEFINE n == Cardinality(group.waiting)
    <2>4. n = 0 => group.running + n = group.running
        BY <2>2
    <2> HIDE DEF n
    <2>5. n # 0
        BY <1>1, <2>1, <2>4 DEF n
    <2> QED BY <2>3, <2>5 DEF n
<1>6. \A p \in APs : state'[p] = "disabled" => state[p] = "disabled"
    BY <1>2 DEF Settings
<1>7. CASE Top.x = "poll" /\ Do(<< >>)
    <2>1. /\ Kept({}) /\ UNCHANGED <<stop, phase>> /\ todo' # << >> /\ Follows(Top, Top')
        BY <1>0, <1>1, <1>7, PlainNext DEF Checks
    <2>2. Top'.do = "pending"
        BY <1>1, <1>7, <2>1 DEF Follows, Checks
    <2>3. Calm'
        BY <2>2 DEF Calm, Wakes
    <2>4. CallsOK'
        BY <1>0, <1>1, <1>2, <1>6, <1>7, <2>1, <2>2, CallsKept
    <2> QED BY <1>0, <1>1, <1>2, <1>3, <1>5, <2>1, <2>2, <2>3, <2>4, QuietStep DEF TypeOK
<1>8. CASE Top.x = "block" /\ Do(CheckAllAPs("block"))
    <2>1. /\ Kept({Top}) /\ Top \in Items(todo') /\ UNCHANGED <<stop, phase>>
          /\ todo' # << >> /\ Top' = Cell("look", 1, 1, "block")
        BY <1>0, <1>1, <1>8, DecideNext DEF At
    <2>2. Top'.do = "look"
        BY <2>1 DEF Cell
    <2>3. Calm'
        BY <2>2 DEF Calm, Wakes
    <2>4. CallsOK'
        <3>1. Top \in Items(todo)
            BY <1>0, <1>1, TopIs
        <3>2. /\ Top.x = "block" => Top.p \notin event
              /\ \E p \in APs : by[p] = Top.p
            BY <1>0, <1>1, <3>1 DEF CallsOK, Checks
        <3> QED BY <1>0, <1>1, <1>2, <1>6, <1>8, <2>1, <2>2, <3>2, CallsKept
    <2> QED BY <1>0, <1>1, <1>2, <1>3, <1>5, <2>1, <2>2, <2>3, <2>4, QuietStep DEF TypeOK
<1> QED BY <1>7, <1>8 DEF DecideNotReady

\* CheckAndUpdateApsStatus goes on to the next call with a WaitEvent.
LEMMA PendingKeeps == ASSUME IInv, Pending PROVE IInv'
<1>0. Program(todo) /\ PhaseOK /\ GroupOK /\ CallsOK /\ TypeOK
    BY DEF IInv
<1>1. todo # << >> /\ Top.do = "pending"
    BY DEF Pending, At
<1>2. UNCHANGED Settings /\ UNCHANGED <<group, event, over, by, ran, owed>>
    BY DEF Pending, Settings, apVars, callVars, history
<1>3. Calm
    BY <1>1 DEF Calm, Wakes
<1>4. ~Reclaiming /\ ~At("look") /\ ~At("decide") /\ ~At("tell") /\ ~At("forget")
    BY <1>0, <1>1, <1>3, CalmTop DEF Reclaiming, At
<1>5. event \subseteq {All} \union APs
    BY <1>0 DEF TypeOK
<1>6. /\ UNCHANGED <<stop, phase>> /\ todo' # << >>
      /\ \/ Kept({}) /\ Top'.do \in Starts \union {"end"}
         \/ \E c \in event :
               /\ Kept({Cell(IF c = All THEN "decide" ELSE "see", c, c, "poll")})
               /\ Top' = Cell(IF c = All THEN "look" ELSE "see",
                              IF c = All THEN 1 ELSE c, IF c = All THEN 1 ELSE c, "poll")
    BY <1>0, <1>5, PendingNext
<1>7. \A p \in APs : state'[p] = "disabled" => state[p] = "disabled"
    BY <1>2 DEF Settings
<1>8. CASE Kept({}) /\ Top'.do \in Starts \union {"end"}
    <2>1. Calm' /\ Top'.do \notin {"tell", "forget", "gone"}
        BY <1>8 DEF Calm, Wakes, Starts
    <2>2. CallsOK'
        BY <1>0, <1>1, <1>2, <1>6, <1>7, <1>8, <2>1, CallsKept DEF Checks
    <2> QED BY <1>0, <1>1, <1>2, <1>3, <1>4, <1>6, <1>8, <2>1, <2>2, StillWaits, QuietStep DEF TypeOK
<1>9. CASE \E c \in event :
               /\ Kept({Cell(IF c = All THEN "decide" ELSE "see", c, c, "poll")})
               /\ Top' = Cell(IF c = All THEN "look" ELSE "see",
                              IF c = All THEN 1 ELSE c, IF c = All THEN 1 ELSE c, "poll")
    <2>1. PICK c \in event :
               /\ Kept({Cell(IF c = All THEN "decide" ELSE "see", c, c, "poll")})
               /\ Top' = Cell(IF c = All THEN "look" ELSE "see",
                              IF c = All THEN 1 ELSE c, IF c = All THEN 1 ELSE c, "poll")
        BY <1>9
    <2> DEFINE a == Cell(IF c = All THEN "decide" ELSE "see", c, c, "poll")
    <2>2. Top'.do \in {"look", "see"}
        BY <2>1 DEF Cell
    <2>3. Calm' /\ Top'.do \notin {"tell", "forget", "gone"}
        BY <2>2 DEF Calm, Wakes
    <2>4. a.do \in {"decide", "see"} /\ a.x = "poll" /\ a.p = c
        BY DEF Cell
    <2>5. \E p \in APs : by[p] = c
        BY <1>0, <1>4 DEF CallsOK
    <2> HIDE DEF a
    <2>6. Kept({a})
        BY <2>1 DEF a
    <2>7. CallsOK'
        BY <1>0, <1>1, <1>2, <1>6, <1>7, <2>3, <2>4, <2>5, <2>6, CallsKept DEF Checks
    <2> QED BY <1>0, <1>1, <1>2, <1>3, <1>4, <1>6, <2>3, <2>4, <2>6, <2>7, StillWaits, QuietStep DEF TypeOK
<1> QED BY <1>6, <1>8, <1>9

\* The WaitEvent is signaled: the call is owed nothing any longer.
LEMMA TellKeeps == ASSUME IInv, Tell PROVE IInv'
<1>0. Program(todo) /\ PhaseOK /\ GroupOK /\ CallsOK /\ TypeOK
    BY DEF IInv
<1>1. todo # << >> /\ Top.do = "tell" /\ Do(<< >>) /\ owed' = owed \ {Top.p}
    BY DEF Tell, At
<1>2. /\ Kept({}) /\ UNCHANGED <<stop, phase>> /\ todo' # << >> /\ Follows(Top, Top')
    BY <1>0, <1>1, PlainNext
<1>3. Top'.do = "forget" /\ Top'.p = Top.p
    BY <1>1, <1>2 DEF Follows
<1>4. UNCHANGED Settings /\ UNCHANGED <<group, event, over, by, ran>>
    BY DEF Tell, Settings, apVars, callVars
<1>5. Calm /\ Calm'
    BY <1>1, <1>2, <1>3 DEF Calm, Wakes
<1>6. ~Reclaiming /\ ~At("look") /\ ~At("decide") /\ ~At("forget") /\ At("tell")
    BY <1>0, <1>1, <1>5, CalmTop DEF Reclaiming, At
<1>7. ~At("tell")' /\ At("forget")'
    BY <1>2, <1>3 DEF At
<1>8. CallsOK'
    <2>1. UNCHANGED <<by, event, state>>
        BY <1>4 DEF Settings
    <2>2. owed' = event' \ {Top'.p}
        BY <1>0, <1>1, <1>3, <1>6, <2>1 DEF CallsOK
    <2>3. Top'.p \in event' /\ \A p \in APs : by'[p] # Top'.p
        BY <1>0, <1>3, <1>6, <2>1 DEF CallsOK
    <2>4. \A a \in Items(todo') : a.do \in Harmless \/ a \in Items(todo)
        BY <1>2 DEF Kept
    <2>5. \A a \in Items(todo) : a \in Items(todo') \/ a.do = "tell"
        BY <1>1, <1>2 DEF Kept
    <2>6. \A p \in APs : by'[p] # Nobody =>
              by'[p] \in event' \/ \E a \in Items(todo') :
                                      a.do \in Checks /\ a.x = "block" /\ a.p = by'[p]
        BY <1>0, <2>1, <2>5 DEF CallsOK, Checks
    <2>7. \A a \in Items(todo') :
              /\ a.do \in Checks =>
                    /\ a.x = "poll" => a.p \in event'
                    /\ a.x = "block" => a.p \notin event'
                    /\ \E p \in APs : by'[p] = a.p
              /\ a.do = "startThis" => by'[a.p] = Nobody
              /\ a.do = "startAll" => \A p \in APs : state'[p] # "disabled"
        BY <1>0, <2>1, <2>4 DEF CallsOK, Checks, Harmless, Wakes
    <2> QED BY <1>0, <1>3, <1>6, <1>7, <2>1, <2>2, <2>3, <2>6, <2>7 DEF CallsOK
<1>9. owed' \subseteq {All} \union APs
    BY <1>0, <1>1 DEF TypeOK
<1> QED BY <1>0, <1>1, <1>2, <1>3, <1>4, <1>5, <1>6, <1>8, <1>9, StillWaits, QuietStep DEF TypeOK

\* The WaitEvent is forgotten.
LEMMA ForgetKeeps == ASSUME IInv, Forget PROVE IInv'
<1>0. Program(todo) /\ PhaseOK /\ GroupOK /\ CallsOK /\ TypeOK
    BY DEF IInv
<1>1. todo # << >> /\ Top.do = "forget" /\ Do(<< >>) /\ event' = event \ {Top.p}
    BY DEF Forget, At
<1>2. /\ Kept({}) /\ UNCHANGED <<stop, phase>> /\ todo' # << >> /\ Follows(Top, Top')
    BY <1>0, <1>1, PlainNext
<1>3. Top'.do = "pending"
    BY <1>1, <1>2 DEF Follows
<1>4. UNCHANGED Settings /\ UNCHANGED <<group, over, by, ran, owed>>
    BY DEF Forget, Settings, apVars, history
<1>5. Calm /\ Calm'
    BY <1>1, <1>2, <1>3 DEF Calm, Wakes
<1>6. ~Reclaiming /\ ~At("look") /\ ~At("decide") /\ At("forget")
    BY <1>0, <1>1, <1>5, CalmTop DEF Reclaiming, At
<1>7. ~At("tell")' /\ ~At("forget")'
    BY <1>2, <1>3 DEF At
<1>8. CallsOK'
    <2>1. UNCHANGED <<by, owed, state>>
        BY <1>4 DEF Settings
    <2>2. owed' = event'
        BY <1>0, <1>1, <1>6, <2>1 DEF CallsOK
    <2>3. \A p \in APs : by[p] # Top.p
        BY <1>0, <1>6 DEF CallsOK
    <2>4. \A a \in Items(todo') : a.do \in Harmless \/ a \in Items(todo)
        BY <1>2 DEF Kept
    <2>5. \A a \in Items(todo) : a \in Items(todo') \/ a.do = "forget"
        BY <1>1, <1>2 DEF Kept
    <2>6. \A p \in APs : by'[p] # Nobody =>
              by'[p] \in event' \/ \E a \in Items(todo') :
                                      a.do \in Checks /\ a.x = "block" /\ a.p = by'[p]
        BY <1>0, <1>1, <2>1, <2>3, <2>5 DEF CallsOK, Checks
    <2>7. \A a \in Items(todo') :
              /\ a.do \in Checks =>
                    /\ a.x = "poll" => a.p \in event'
                    /\ a.x = "block" => a.p \notin event'
                    /\ \E p \in APs : by'[p] = a.p
              /\ a.do = "startThis" => by'[a.p] = Nobody
              /\ a.do = "startAll" => \A p \in APs : state'[p] # "disabled"
        BY <1>0, <1>1, <2>1, <2>3, <2>4 DEF CallsOK, Checks, Harmless, Wakes
    <2>8. \A c \in event' : \E p \in APs : by'[p] = c
        BY <1>0, <1>1, <2>1 DEF CallsOK
    <2> QED BY <1>0, <1>7, <2>1, <2>2, <2>6, <2>7, <2>8 DEF CallsOK
<1>9. event' \subseteq {All} \union APs
    BY <1>0, <1>1 DEF TypeOK
<1> QED BY <1>0, <1>1, <1>2, <1>3, <1>4, <1>5, <1>6, <1>8, <1>9, StillWaits, QuietStep DEF TypeOK

\* A call is refused.
LEMMA RefuseKeeps == ASSUME IInv, RefuseAllAPs \/ RefuseThisAP PROVE IInv'
<1>0. Program(todo) /\ PhaseOK /\ GroupOK /\ CallsOK /\ TypeOK
    BY DEF IInv
<1>1. todo # << >> /\ Top.do \in Starts /\ Do(<< >>)
    BY DEF RefuseAllAPs, RefuseThisAP, At, Starts
<1>2. /\ Kept({}) /\ UNCHANGED <<stop, phase>> /\ todo' # << >> /\ Follows(Top, Top')
    BY <1>0, <1>1, PlainNext
<1>3. Top'.do = "return"
    BY <1>1, <1>2 DEF Follows
<1>4. UNCHANGED Settings /\ UNCHANGED <<group, event, over, by, ran, owed>>
    BY DEF RefuseAllAPs, RefuseThisAP, Settings, apVars, callVars, history
<1>5. Calm /\ Calm'
    BY <1>1, <1>2, <1>3 DEF Calm, Wakes, Starts
<1>6. ~Reclaiming /\ ~At("look") /\ ~At("decide")
    BY <1>0, <1>1, <1>5, CalmTop DEF Reclaiming, At, Starts
<1>7. CallsOK'
    <2>1. \A p \in APs : state'[p] = "disabled" => state[p] = "disabled"
        BY <1>4 DEF Settings
    <2>2. Top.do \notin {"tell", "forget"} /\ Top.do \notin Checks
        BY <1>1 DEF Starts, Checks
    <2> QED BY <1>0, <1>1, <1>2, <1>3, <1>4, <2>1, <2>2, CallsKept
<1>8. Top.do # "gone"
    BY <1>1 DEF Starts
<1> QED BY <1>0, <1>1, <1>2, <1>3, <1>4, <1>5, <1>6, <1>7, <1>8, StillWaits, QuietStep DEF TypeOK

\* The empty list
LEMMA Nothing == Program(<< >>) /\ Items(<< >>) = {}
BY DEF Program, Items

\* The timer event or a call returns.
LEMMA ReturnKeeps == ASSUME IInv, EndCheck \/ Return \/ WaitGone PROVE IInv'
<1>0. Program(todo) /\ PhaseOK /\ GroupOK /\ CallsOK /\ TypeOK
    BY DEF IInv
<1>1. /\ todo # << >> /\ Top.do \in {"end", "gone", "return"}
      /\ \/ Top.do \in {"end", "gone"} /\ Do(<< >>)
         \/ Top.do = "return" /\ todo' = Tail(todo) /\ stop' = FALSE /\ UNCHANGED phase
    BY DEF EndCheck, Return, WaitGone, At
<1>2. todo' = << >> /\ phase' = phase /\ stop' \in BOOLEAN
    <2>1. todo' = << >> /\ (Top.do \in {"end", "gone"} => UNCHANGED <<stop, phase>>)
        BY <1>0, <1>1, EndNext
    <2> QED BY <1>0, <1>1, <2>1 DEF TypeOK
<1>3. UNCHANGED Settings /\ UNCHANGED <<group, event, over, by, ran, owed>>
    BY DEF EndCheck, Return, WaitGone, Settings, apVars, callVars, history
<1>4. Program(todo') /\ Items(todo') = {} /\ Items(todo) = {Top}
    BY <1>0, <1>1, <1>2, Nothing, BehindEnd DEF Top
<1>5. Calm /\ Calm'
    BY <1>1, <1>2 DEF Calm, Wakes
<1>6. ~Reclaiming /\ ~At("look") /\ ~At("decide") /\ ~At("tell") /\ ~At("forget")
    BY <1>0, <1>1, <1>5, CalmTop DEF Reclaiming, At
<1>7. ~At("tell")' /\ ~At("forget")' /\ ~Doing("relocate")'
    BY <1>2 DEF At, Doing
<1>8. phase # "off"
    BY <1>0, <1>1 DEF PhaseOK
<1>9. PhaseOK'
    BY <1>2, <1>7, <1>8 DEF PhaseOK
<1>10. TypeOK'
    BY <1>0, <1>2, <1>3, TypesKept DEF TypeOK
<1>11. CallsOK'
    <2>1. Top.do \notin Checks
        BY <1>1 DEF Checks
    <2> QED BY <1>0, <1>3, <1>4, <1>6, <1>7, <2>1 DEF CallsOK
<1>12. /\ CountOK' /\ (\A p \in APs : PlaceOK(p)') /\ BootOK' /\ LeaveOK'
       /\ GroupOK' /\ WorkOK' /\ ResetOK'
    BY <1>0, <1>2, <1>3, <1>4, <1>5, <1>6, <1>8, StillWaits, Quiet
<1> QED BY <1>4, <1>9, <1>10, <1>11, <1>12 DEF IInv

\* The callers keep to the rules, and no time-out comes too early.
Orderly == Careful /\ AllEnabled /\ Prompt /\ ~Renews

\* From nothing
LEMMA FromNothing ==
    ASSUME IInv, todo = << >>, todo' # << >>, Program(todo'), phase = "boot", phase' = "boot",
           stop' \in BOOLEAN,
           Top'.do = "pending", Top'.x = "",
           stop' \/ (todo')[Len(todo')].do = "end",
           UNCHANGED Settings, UNCHANGED <<callVars, history>>,
           \A a \in Items(todo') : a.do \in Starts \union {"pending", "end", "return"},
           \A a \in Items(todo') :
              /\ a.do = "startThis" => by[a.p] = Nobody
              /\ a.do = "startAll" => \A p \in APs : state[p] # "disabled"
    PROVE  IInv'
<1>0. Program(todo) /\ PhaseOK /\ GroupOK /\ CallsOK /\ TypeOK
    BY DEF IInv
<1>1. Calm /\ Calm'
    BY DEF Calm, Wakes
<1>2. ~Reclaiming /\ ~At("look") /\ ~At("decide") /\ ~At("tell") /\ ~At("forget")
    BY <1>0, <1>1, CalmTop DEF Reclaiming, At
<1>3. ~At("tell")' /\ ~At("forget")' /\ ~Doing("relocate")'
    BY DEF At, Doing
<1>4. PhaseOK'
    BY <1>3 DEF PhaseOK
<1>5. UNCHANGED <<group, event, over, by, ran, owed>>
    BY DEF callVars, history
<1>6. TypeOK'
    BY <1>0, <1>5, TypesKept DEF TypeOK
<1>7. CallsOK'
    <2>1. Items(todo) = {}
        BY Nothing
    <2>2. \A a \in Items(todo') : a.do \notin Checks
        BY DEF Checks, Starts
    <2>3. state' = state
        BY DEF Settings
    <2> QED BY <1>0, <1>2, <1>3, <1>5, <2>1, <2>2, <2>3 DEF CallsOK
<1>8. \A a \in Items(todo') : a.do \notin {"reclaim", "report"}
    BY DEF Starts
<1>9. /\ CountOK' /\ (\A p \in APs : PlaceOK(p)') /\ BootOK' /\ LeaveOK'
      /\ GroupOK' /\ WorkOK' /\ ResetOK'
    BY <1>0, <1>1, <1>2, <1>5, <1>8, StillWaits, Quiet
<1> QED BY <1>4, <1>6, <1>7, <1>9 DEF IInv

\* The timer event comes: it finds the application's code, for mStopCheckAllApsStatus
\* is set while a call is in progress.
LEMMA CheckApsStatusKeeps == ASSUME IInv, CheckApsStatus PROVE IInv'
<1>0. Program(todo) /\ PhaseOK /\ TypeOK
    BY DEF IInv
<1>1. todo = << >>
    <2>1. SUFFICES ASSUME todo # << >> PROVE FALSE
        OBVIOUS
    <2>2. todo[Len(todo)].do = "end"
        BY <1>0, <2>1 DEF PhaseOK, CheckApsStatus
    <2>3. todo \in Seq(Steps) /\ Len(todo) \in Nat /\ Len(todo) # 0
        BY <1>0, <2>1, EmptySeq DEF Program
    <2>4. Len(todo) \in DOMAIN todo
        BY <2>3
    <2> QED BY <2>2, <2>4 DEF CheckApsStatus
<1>2. /\ Program(todo') /\ todo' # << >> /\ Top' = Cell("pending", All, All, "")
      /\ \A b \in Items(todo') : b.do \in {"pending", "end"}
      /\ (todo')[Len(todo')].do = "end"
    BY <1>1, CheckNext DEF CheckApsStatus
<1>3. Top'.do = "pending" /\ Top'.x = ""
    BY <1>2 DEF Cell
<1>4. UNCHANGED Settings /\ UNCHANGED <<callVars, history, stop, phase>> /\ phase = "boot"
    BY DEF CheckApsStatus, Settings, apVars
<1> QED BY <1>0, <1>1, <1>2, <1>3, <1>4, FromNothing DEF TypeOK, Starts

\* The application calls StartupAllAPs or StartupThisAP.
LEMMA StartupKeeps ==
    ASSUME Orderly, IInv,
           NEW x \in {"poll", "block"},
           \/ \E sequential \in BOOLEAN : StartupAllAPs(sequential, x)
           \/ \E p \in APs : StartupThisAP(p, x)
    PROVE  IInv'
<1>0. Program(todo) /\ PhaseOK /\ TypeOK
    BY DEF IInv
<1>1. CASE \E sequential \in BOOLEAN : StartupAllAPs(sequential, x)
    <2>1. PICK sequential \in BOOLEAN : StartupAllAPs(sequential, x)
        BY <1>1
    <2> DEFINE s == Cell(IF sequential THEN "startSingle" ELSE "startAll", All, All, x)
    <2>2. todo = << >> /\ phase = "boot" /\ stop' = TRUE
        BY <2>1 DEF StartupAllAPs, MayCall, Orderly
    <2>3. s \in Steps /\ WellFormed(s) /\ s.do \in {"startSingle", "startAll"}
          /\ (s.do = "startAll" <=> ~sequential)
        <3>1. s \in Steps
            BY Bounds DEF Steps, Cell, Starts, Modes
        <3>2. WellFormed(s)
            BY Bounds DEF WellFormed, Cell, Wakes, Starts, Modes
        <3> QED BY <3>1, <3>2 DEF Cell
    <2>4. todo' = CheckAndUpdateApsStatus \o << s >> \o Step("return", All, "") \o todo
        BY <2>1 DEF StartupAllAPs, Step, Cell
    <2>5. UNCHANGED Settings /\ UNCHANGED <<callVars, history, phase>>
        BY <2>1 DEF StartupAllAPs, Settings, apVars
    <2>6. ~sequential => \A p \in APs : state[p] # "disabled"
        BY <2>1 DEF StartupAllAPs, Orderly
    <2> HIDE DEF s
    <2>7. /\ Program(todo') /\ todo' # << >> /\ Top' = Cell("pending", All, All, "")
          /\ \A b \in Items(todo') : b = s \/ b.do \in {"pending", "return"}
        BY <2>2, <2>3, <2>4, CallNext DEF Starts
    <2>8. Top'.do = "pending" /\ Top'.x = ""
        BY <2>7 DEF Cell
    <2> QED BY <2>2, <2>3, <2>5, <2>6, <2>7, <2>8, FromNothing DEF Starts
<1>2. CASE \E p \in APs : StartupThisAP(p, x)
    <2>1. PICK p \in APs : StartupThisAP(p, x)
        BY <1>2
    <2> DEFINE s == Cell("startThis", p, p, x)
    <2>2. todo = << >> /\ phase = "boot" /\ stop' = TRUE /\ by[p] = Nobody
        BY <2>1 DEF StartupThisAP, MayCall, Orderly
    <2>3. s \in Steps /\ WellFormed(s) /\ s.do = "startThis" /\ s.p = p
        <3>1. s \in Steps
            BY Bounds DEF Steps, Cell, Starts, Modes
        <3>2. WellFormed(s)
            BY Bounds DEF WellFormed, Cell, Wakes, Starts, Modes
        <3> QED BY <3>1, <3>2 DEF Cell
    <2>4. todo' = CheckAndUpdateApsStatus \o << s >> \o Step("return", All, "") \o todo
        BY <2>1 DEF StartupThisAP, Step, Cell
    <2>5. UNCHANGED Settings /\ UNCHANGED <<callVars, history, phase>>
        BY <2>1 DEF StartupThisAP, Settings, apVars
    <2> HIDE DEF s
    <2>6. /\ Program(todo') /\ todo' # << >> /\ Top' = Cell("pending", All, All, "")
          /\ \A b \in Items(todo') : b = s \/ b.do \in {"pending", "return"}
        BY <2>2, <2>3, <2>4, CallNext DEF Starts
    <2>7. Top'.do = "pending" /\ Top'.x = ""
        BY <2>6 DEF Cell
    <2> QED BY <2>2, <2>3, <2>5, <2>6, <2>7, FromNothing DEF Starts
<1> QED BY <1>1, <1>2

\* The time of a call is up.
LEMMA ExpireKeeps == ASSUME IInv, NEW c \in {All} \union APs, Expire(c) PROVE IInv'
<1>1. UNCHANGED <<bspVars, apVars, group, event, history>> /\ over' = over \union {c}
    BY DEF Expire
<1>2. TypeOK'
    BY <1>1 DEF IInv, TypeOK, bspVars, apVars, history
<1>3. /\ Program(todo)' /\ PhaseOK' /\ CountOK' /\ (\A p \in APs : PlaceOK(p)')
      /\ BootOK' /\ LeaveOK' /\ CallsOK' /\ GroupOK' /\ WorkOK' /\ ResetOK'
    <2>0. UNCHANGED <<todo, stop, phase, pc, procedure, lock, state, function, signal, finished,
                      toFinish, group, event, by, ran, owed>>
        BY <1>1 DEF bspVars, apVars, history
    <2>1. Program(todo)' /\ PhaseOK' /\ CountOK'
        BY <2>0 DEF IInv, PhaseOK, CountOK, Doing, At, Top, Flying
    <2>2. \A p \in APs : PlaceOK(p)'
        BY <2>0 DEF IInv, PlaceOK, ToReady, ToInit, Wakes1, Booting, Doing, At, Top
    <2>3. BootOK' /\ LeaveOK'
        BY <2>0 DEF IInv, BootOK, LeaveOK, ToReady, ToInit, Wakes1, Booting, Doing, At, Top
    <2>4. CallsOK' /\ ResetOK' /\ GroupOK'
        BY <2>0 DEF IInv, CallsOK, ResetOK, GroupOK, Reclaiming, Resetting, Ending, Doing, At, Top
    <2>5. WorkOK'
        <3>1. Working => WorkOK'
            BY <2>0 DEF IInv, WorkOK, Working, RestOK, Live, LiveOK, EndingOK, Fresh, Turn, ToReady, ToInit,
                        Wakes1, Resetting, Ending, Doing, At, Top
        <3>2. Working' <=> Working
            BY <2>0 DEF Working, Doing, Top
        <3> QED BY <3>1, <3>2 DEF WorkOK
    <2> QED BY <2>1, <2>2, <2>3, <2>4, <2>5
<1> QED BY <1>2, <1>3 DEF IInv

\* An AP that nobody asked is enabled or disabled.
LEMMA EnableDisableKeeps ==
    ASSUME Orderly, IInv, NEW p \in APs, NEW s \in {"idle", "disabled"}, EnableDisableAP(p, s)
    PROVE  IInv'
<1>0. /\ Program(todo) /\ PhaseOK /\ GroupOK /\ CallsOK /\ TypeOK /\ CountOK /\ WorkOK
      /\ \A q \in APs : PlaceOK(q)
    BY DEF IInv
<1>1. /\ todo = << >> /\ todo' = todo /\ phase = "boot" /\ by[p] = Nobody
      /\ state' = [state EXCEPT ![p] = s]
      /\ UNCHANGED <<stop, phase, pc, procedure, lock, function, signal, finished, toFinish>>
      /\ UNCHANGED <<group, event, over, by, ran, owed>>
    BY DEF EnableDisableAP, Orderly, MayCall, SetApState, bspVars, Others, callVars, history
<1>2. Program(todo') /\ Calm /\ Calm' /\ Items(todo') = {}
    BY <1>0, <1>1, Nothing DEF Calm
<1>3. /\ \A q \in APs : ~ToReady(q) /\ ~ToInit(q)
      /\ ~Resetting /\ ~Doing("sync") /\ ~Doing("null") /\ ~Doing("proc")
    BY <1>0, <1>2, CalmTop
<1>4. /\ \A q \in APs : ~ToReady(q)' /\ ~ToInit(q)'
      /\ ~Resetting' /\ ~Doing("sync")' /\ ~Doing("null")' /\ ~Doing("proc")'
      /\ ~At("ready")' /\ ~At("init")'
    BY <1>2, CalmNext
<1>5. ~Booting /\ ~Booting' /\ Working /\ Working' /\ ~Reclaiming /\ ~Reclaiming'
      /\ ~At("tell") /\ ~At("forget") /\ ~At("tell")' /\ ~At("forget")' /\ ~Doing("relocate")'
      /\ ~At("look") /\ ~At("decide")
    BY <1>1, <1>3, <1>4 DEF Booting, Working, Reclaiming, At, Doing
<1>6. TypeOK'
    BY <1>0, <1>1 DEF TypeOK
<1>7. PhaseOK' /\ CountOK'
    BY <1>0, <1>1, <1>4, <1>5 DEF PhaseOK, CountOK, Flying
<1>8. \A q \in APs : q # p => state'[q] = state[q]
    BY <1>0, <1>1 DEF TypeOK
<1>9. state'[p] = s
    BY <1>0, <1>1 DEF TypeOK
<1>10. RestOK(p)
    BY <1>0, <1>1, <1>5 DEF WorkOK
<1>11. \A q \in APs : PlaceOK(q)'
    <2> TAKE q \in APs
    <2>1. CASE q = p
        <3>1. pc[p] \in {"parked", "count"} /\ ~signal[p] /\ PlaceOK(p)
            BY <1>0, <1>10 DEF RestOK
        <3> QED BY <1>1, <1>3, <1>4, <1>9, <2>1, <3>1 DEF PlaceOK
    <2>2. CASE q # p
        <3>1. PlaceOK(q) /\ state'[q] = state[q]
            BY <1>0, <1>8, <2>2
        <3> QED BY <1>1, <1>3, <1>4, <1>5, <3>1 DEF PlaceOK
    <2> QED BY <2>1, <2>2
<1>12. BootOK' /\ LeaveOK'
    BY <1>1, <1>5 DEF BootOK, LeaveOK
<1>13. CallsOK'
    BY <1>0, <1>1, <1>2, <1>5 DEF CallsOK
<1>14. GroupOK'
    <2>1. \A q \in APs : by[q] = All => state'[q] = state[q]
        BY <1>1, <1>8 DEF Nobody, All
    <2> QED BY <1>0, <1>1, <1>5, <2>1 DEF GroupOK
<1>15. WorkOK'
    <2>1. \A q \in APs : by'[q] = Nobody => RestOK(q)'
        <3> TAKE q \in APs
        <3>1. CASE q = p
            BY <1>1, <1>4, <1>9, <1>10, <3>1 DEF RestOK
        <3>2. CASE q # p
            BY <1>0, <1>1, <1>4, <1>5, <1>8, <3>2 DEF RestOK, WorkOK
        <3> QED BY <3>1, <3>2
    <2>2. \A q \in APs : Live(q)' => LiveOK(q)'
        <3> TAKE q \in APs
        <3> HAVE Live(q)'
        <3>1. Live(q) /\ q # p /\ state'[q] = state[q]
            BY <1>1, <1>3, <1>8 DEF Live
        <3>2. LiveOK(q)
            BY <1>0, <1>5, <3>1 DEF WorkOK
        <3>3. Fresh(q)' <=> Fresh(q)
            BY <1>1, <1>3, <1>4 DEF Fresh, Turn
        <3> QED BY <1>1, <1>3, <1>4, <3>1, <3>2, <3>3 DEF LiveOK
    <2> QED BY <1>4, <2>1, <2>2 DEF WorkOK
<1>16. ResetOK'
    BY <1>2, <1>4 DEF ResetOK
<1> QED BY <1>2, <1>6, <1>7, <1>11, <1>12, <1>13, <1>14, <1>15, <1>16 DEF IInv

\* What an AP that nobody asked may be doing
LEMMA NobodyAsked ==
    ASSUME IInv, todo = << >>, phase = "boot", NEW p \in APs, by[p] = Nobody
    PROVE  RestOK(p)
BY DEF IInv, WorkOK, Working, Doing

\* What the next step is, field by field
LEMMA CellTop ==
    ASSUME NEW d, NEW p, NEW i, NEW x, todo' # << >>, Top' = Cell(d, p, i, x)
    PROVE  /\ Top'.do = d /\ Top'.p = p /\ Top'.i = i /\ Top'.x = x
           /\ \A y : Doing(y)' <=> y = x
           /\ \A e : At(e)' <=> e = d
BY DEF Cell, Doing, At

\* The end of boot: with nothing owed no call is outstanding.
LEMMA LeaveKeeps == ASSUME Orderly, IInv, MpInitChangeApLoopCallback PROVE IInv'
<1>0. /\ Program(todo) /\ PhaseOK /\ GroupOK /\ CallsOK /\ TypeOK /\ CountOK /\ WorkOK
      /\ \A q \in APs : PlaceOK(q)
    BY DEF IInv
<1>1. /\ todo = << >> /\ phase = "boot" /\ phase' = "os" /\ owed = {} /\ toFinish' = N
      /\ UNCHANGED <<stop, pc, procedure, lock, state, function, signal, finished>>
      /\ UNCHANGED <<group, event, over, by, ran, owed>>
    BY DEF MpInitChangeApLoopCallback, Orderly, MayCall, callVars, history
<1>2. /\ Program(todo') /\ todo' # << >> /\ Top' = Cell("zero", All, All, "relocate")
      /\ \A b \in Items(todo') : b.do \in Wakes \union {"gone"}
    BY LeaveNext DEF MpInitChangeApLoopCallback
<1>3. /\ Top'.do = "zero" /\ Top'.p = All /\ Top'.x = "relocate" /\ Doing("relocate")' /\ At("zero")'
      /\ ~Doing("sync")' /\ ~Doing("null")' /\ ~At("tell")' /\ ~At("forget")'
      /\ ~At("ready")' /\ ~At("init")' /\ ~At("awake")' /\ ~At("idle")' /\ ~At("count")'
      /\ ~At("reclaim")' /\ ~At("report")'
    BY <1>2, CellTop
<1>4. ~At("tell") /\ ~At("forget") /\ Items(todo) = {}
    BY <1>1, Nothing DEF At
<1>5. event = {} /\ \A p \in APs : by[p] = Nobody
    <2>1. event = {}
        BY <1>0, <1>1, <1>4 DEF CallsOK
    <2> QED BY <1>0, <1>4, <2>1 DEF CallsOK
<1>6. \A p \in APs : RestOK(p)
    BY <1>1, <1>5, NobodyAsked
<1>7. TypeOK'
    BY <1>0, <1>1, Bounds DEF TypeOK
<1>8. PhaseOK' /\ CountOK'
    BY <1>0, <1>1, <1>2, <1>3 DEF PhaseOK, CountOK, Flying
<1>9. \A p \in APs : ToReady(p)' /\ ~ToInit(p)'
    BY <1>3 DEF ToReady, ToInit, Wakes1
<1>10. \A p \in APs : PlaceOK(p)'
    <2> TAKE p \in APs
    <2>1. PlaceOK(p) /\ pc[p] \in {"parked", "count"} /\ ~ToReady(p) /\ ~ToInit(p)
        BY <1>0, <1>6 DEF RestOK
    <2> QED BY <1>1, <1>9, <2>1 DEF PlaceOK
<1>11. BootOK'
    BY <1>1, <1>3 DEF BootOK, Booting
<1>12. LeaveOK'
    <2>1. group.waiting = {}
        <3>1. \A p \in group.waiting : p \in APs
            BY <1>0 DEF TypeOK
        <3> QED BY <1>0, <1>5, <3>1, Bounds DEF GroupOK, Nobody, All
    <2>2. {p \in APs : pc'[p] = "gone"} = {}
        BY <1>1, <1>6 DEF RestOK
    <2>3. toFinish' + Cardinality({p \in APs : pc'[p] = "gone"}) = N
        <3> DEFINE S == {p \in APs : pc'[p] = "gone"}
        <3>1. Cardinality(S) = 0
            BY <2>2, FS_EmptySet
        <3> HIDE DEF S
        <3>2. toFinish' + Cardinality(S) = N
            BY <1>1, <3>1, Bounds
        <3> QED BY <3>2 DEF S
    <2> QED BY <1>1, <1>5, <1>6, <1>9, <2>1, <2>3 DEF LeaveOK, RestOK
<1>13. CallsOK'
    <2>1. \A b \in Items(todo') : b.do \notin Checks \union {"startThis", "startAll"}
        BY <1>2 DEF Wakes, Checks
    <2> QED BY <1>0, <1>1, <1>3, <1>4, <1>5, <2>1 DEF CallsOK, Checks
<1>14. ~Reclaiming /\ ~Resetting' /\ ~Reclaiming'
    BY <1>1, <1>3 DEF Reclaiming, Resetting, Doing, At
<1>15. GroupOK'
    <2>1. \A p \in APs : by[p] # All
        BY <1>5 DEF Nobody, All
    <2> QED BY <1>0, <1>1, <1>14, <2>1 DEF GroupOK
<1>16. WorkOK'
    BY <1>1 DEF WorkOK, Working
<1>17. ResetOK'
    <2>1. \A b \in Items(todo') : b.do \notin {"reclaim", "report"}
        BY <1>2 DEF Wakes
    <2> QED BY <1>3, <1>14, <2>1 DEF ResetOK
<1> QED BY <1>2, <1>7, <1>8, <1>10, <1>11, <1>12, <1>13, <1>15, <1>16, <1>17 DEF IInv

\* MpInitLibInitialize
LEMMA BootKeeps == ASSUME IInv, Boot PROVE IInv'
<1>0. /\ Program(todo) /\ PhaseOK /\ GroupOK /\ CallsOK /\ TypeOK /\ CountOK /\ BootOK
      /\ \A q \in APs : PlaceOK(q)
    BY DEF IInv
<1>1. /\ phase = "off" /\ phase' = "boot" /\ todo' = MpInitLibInitialize
      /\ UNCHANGED <<stop, pc, procedure, lock, state, function, signal, finished, toFinish>>
      /\ UNCHANGED <<group, event, over, by, ran, owed>>
    BY DEF Boot, apVars, callVars, history
<1>2. todo = << >> /\ stop
    BY <1>0, <1>1 DEF PhaseOK
<1>3. /\ Program(todo') /\ todo' # << >> /\ Top' = Cell("zero", All, All, "sync")
      /\ \A b \in Items(todo') : b.do \in Wakes
    BY <1>1, BootNext
<1>4. /\ Top'.do = "zero" /\ Top'.p = All /\ Top'.x = "sync" /\ Doing("sync")' /\ At("zero")'
      /\ ~Doing("relocate")' /\ ~Doing("null")' /\ ~At("tell")' /\ ~At("forget")'
      /\ ~At("ready")' /\ ~At("init")' /\ ~At("awake")' /\ ~At("idle")' /\ ~At("count")'
      /\ ~At("reclaim")' /\ ~At("report")'
    BY <1>3, CellTop
<1>5. ~At("tell") /\ ~At("forget") /\ Items(todo) = {}
    BY <1>2, Nothing DEF At
<1>6. /\ \A p \in APs : by[p] = Nobody /\ pc[p] = "pei" /\ state[p] = "idle"
      /\ event = {} /\ group.waiting = {} /\ group.running = 0 /\ group.start = 0
    BY <1>0, <1>1 DEF BootOK, Booting
<1>7. TypeOK'
    BY <1>0, <1>1 DEF TypeOK
<1>8. PhaseOK' /\ CountOK'
    BY <1>0, <1>1, <1>2, <1>3, <1>4 DEF PhaseOK, CountOK, Flying
<1>9. \A p \in APs : ToReady(p)' /\ ~ToInit(p)'
    BY <1>4 DEF ToReady, ToInit, Wakes1
<1>10. \A p \in APs : PlaceOK(p)'
    <2> TAKE p \in APs
    <2>1. PlaceOK(p) /\ pc[p] = "pei" /\ ~ToReady(p) /\ ~ToInit(p) /\ Booting'
        BY <1>0, <1>2, <1>4, <1>6 DEF ToReady, ToInit, At, Booting
    <2> QED BY <1>1, <1>9, <2>1 DEF PlaceOK
<1>11. BootOK'
    <2>1. finished' = 0
        BY <1>0, <1>1 DEF BootOK, Booting
    <2> QED BY <1>1, <1>4, <1>6, <2>1 DEF BootOK
<1>12. LeaveOK' /\ WorkOK'
    BY <1>1, <1>4 DEF LeaveOK, WorkOK, Working
<1>13. CallsOK'
    <2>1. \A b \in Items(todo') : b.do \notin Checks \union {"startThis", "startAll"}
        BY <1>3 DEF Wakes, Checks
    <2> QED BY <1>0, <1>1, <1>4, <1>5, <1>6, <2>1 DEF CallsOK, Checks
<1>14. ~Reclaiming /\ ~Resetting' /\ ~Reclaiming'
    BY <1>2, <1>4 DEF Reclaiming, Resetting, Doing, At
<1>15. GroupOK'
    <2>1. \A p \in APs : by[p] # All
        BY <1>6 DEF Nobody, All
    <2> QED BY <1>0, <1>1, <1>14, <2>1 DEF GroupOK
<1>16. ResetOK'
    <2>1. \A b \in Items(todo') : b.do \notin {"reclaim", "report"}
        BY <1>3 DEF Wakes
    <2> QED BY <1>4, <1>14, <2>1 DEF ResetOK
<1> QED BY <1>3, <1>7, <1>8, <1>10, <1>11, <1>12, <1>13, <1>15, <1>16 DEF IInv

-----------------------------------------------------------------------------
(***************************************************************************)
(* The end of a call.                                                      *)
(***************************************************************************)
\* What holds at a check: the call it is for is outstanding.
LEMMA AtCheck ==
    ASSUME IInv, todo # << >>, Top.do \in Checks
    PROVE  /\ phase = "boot" /\ Working /\ ~Booting /\ Top \in Items(todo)
           /\ Top \in Steps /\ WellFormed(Top) /\ Top.x \in Modes /\ Top.p \in {All} \union APs
           /\ \A p \in APs : ~ToReady(p) /\ ~ToInit(p)
           /\ ~Doing("sync") /\ ~Doing("null") /\ ~Doing("proc") /\ ~Doing("relocate")
           /\ ~At("tell") /\ ~At("forget") /\ ~At("look")
           /\ Resetting <=> Top.do = "report"
           /\ Resetting => Ending = Top.p
           /\ \E p \in APs : by[p] = Top.p
           /\ Top.x = "poll" => Top.p \in event
           /\ Top.x = "block" => Top.p \notin event
<1>0. Program(todo) /\ PhaseOK /\ CallsOK /\ TypeOK
    BY DEF IInv
<1>1. Top \in Items(todo) /\ Top \in Steps /\ WellFormed(Top)
    BY <1>0, TopIs
<1>2. Top.x \in Modes /\ Top.p \in {All} \union APs
    BY <1>1, Bounds DEF WellFormed, Checks
<1>3. ~Doing("sync") /\ ~Doing("null") /\ ~Doing("proc") /\ ~Doing("relocate") /\ Top.x # "null"
    BY <1>2 DEF Doing, Modes
<1>4. phase = "boot" /\ Working /\ ~Booting
    BY <1>0, <1>3 DEF PhaseOK, TypeOK, Working, Booting
<1>5. /\ \A p \in APs : ~ToReady(p) /\ ~ToInit(p)
      /\ ~At("tell") /\ ~At("forget") /\ ~At("look") /\ ~At("reclaim")
    BY DEF ToReady, ToInit, At, Checks
<1>6. (Resetting <=> Top.do = "report") /\ Ending = Top.p
    BY <1>3, <1>5 DEF Resetting, Ending, At
<1>7. /\ \E p \in APs : by[p] = Top.p
      /\ Top.x = "poll" => Top.p \in event
      /\ Top.x = "block" => Top.p \notin event
    BY <1>0, <1>1 DEF CallsOK
<1> QED BY <1>1, <1>2, <1>3, <1>4, <1>5, <1>6, <1>7

\* A call is answered, and its APs are idle: that they are is what keeps the rest.
LEMMA CheckEnds ==
    ASSUME IInv, todo # << >>, Top.do \in Checks, Result(Top.p), Do(Answer(Top.p, Top.x)),
           UNCHANGED Others, state' \in [APs -> {"idle", "ready", "busy", "finished", "disabled"}],
           \A p \in APs : by[p] = Top.p =>
              state'[p] = "idle" /\ ~signal[p] /\ pc[p] \in {"parked", "count"},
           \A p \in APs : by[p] # Top.p => state'[p] = state[p]
    PROVE  IInv'
<1> DEFINE c == Top.p
<1>0. /\ Program(todo) /\ PhaseOK /\ GroupOK /\ CallsOK /\ TypeOK /\ CountOK /\ WorkOK /\ ResetOK
      /\ \A q \in APs : PlaceOK(q)
    BY DEF IInv
<1>1. /\ phase = "boot" /\ Working /\ ~Booting /\ Top \in Items(todo)
      /\ Top \in Steps /\ WellFormed(Top) /\ Top.x \in Modes /\ c \in {All} \union APs
      /\ \A p \in APs : ~ToReady(p) /\ ~ToInit(p)
      /\ ~Doing("sync") /\ ~Doing("null") /\ ~Doing("proc") /\ ~Doing("relocate")
      /\ ~At("tell") /\ ~At("forget") /\ ~At("look")
      /\ Resetting <=> Top.do = "report"
      /\ Resetting => Ending = c
      /\ \E p \in APs : by[p] = c
      /\ Top.x = "poll" => c \in event
      /\ Top.x = "block" => c \notin event
    BY AtCheck
<1>2. /\ Kept({}) /\ UNCHANGED <<stop, phase>> /\ todo' # << >>
      /\ \A b \in Items(todo') : b.do \in Pendings \union {"tell", "forget"}
      /\ Top.x = "poll" => Top' = Cell("tell", c, c, "")
      /\ Top.x # "poll" => Top.x = "block" /\ Top'.do = "return" /\ Top'.x = ""
    BY <1>0, AnswerNext
<1>3. /\ UNCHANGED <<pc, procedure, lock, function, signal, finished, toFinish>>
      /\ by' = [p \in APs |-> IF by[p] = c THEN Nobody ELSE by[p]]
      /\ ran' = [p \in APs |-> IF by[p] = c THEN "no" ELSE ran[p]]
      /\ group' = (IF c = All THEN NoGroup ELSE group)
      /\ over' = over \ {c} /\ owed' = owed /\ event' = event
    BY DEF Result, Others
<1>4. Top'.do \in {"tell", "return"} /\ Top'.x = "" /\ (Top'.do = "tell" <=> Top.x = "poll")
      /\ (Top'.do = "tell" => Top'.p = c)
    <2>1. CASE Top.x = "poll"
        <3>1. Top' = Cell("tell", c, c, "") /\ todo' # << >>
            BY <1>2, <2>1
        <3>2. Top'.do = "tell" /\ Top'.p = c /\ Top'.x = ""
            BY <3>1, CellTop
        <3> QED BY <2>1, <3>2
    <2>2. CASE Top.x # "poll"
        <3>1. Top'.do = "return" /\ Top'.x = ""
            BY <1>2, <2>2
        <3> QED BY <2>2, <3>1
    <2> QED BY <2>1, <2>2
<1>5. Calm' /\ Program(todo')
    BY <1>2, <1>4 DEF Calm, Wakes, Kept
<1>6. /\ \A p \in APs : ~ToReady(p)' /\ ~ToInit(p)'
      /\ ~Resetting' /\ ~Doing("sync")' /\ ~Doing("null")' /\ ~Doing("proc")'
      /\ ~At("zero")' /\ ~At("ready")' /\ ~At("init")' /\ ~At("awake")'
      /\ ~At("count")' /\ ~At("idle")' /\ ~At("reclaim")' /\ ~At("report")'
    BY <1>5, CalmNext
<1>7. ~Doing("relocate")' /\ ~At("forget")' /\ ~Booting' /\ Working' /\ ~Reclaiming'
      /\ (At("tell")' <=> Top.x = "poll")
    BY <1>1, <1>2, <1>4, <1>6 DEF Doing, At, Booting, Working, Reclaiming
<1>8. /\ \A p \in APs : by[p] = c => by'[p] = Nobody /\ ran'[p] = "no"
      /\ \A p \in APs : by[p] # c => by'[p] = by[p] /\ ran'[p] = ran[p]
      /\ \A p \in APs : by'[p] # c
    BY <1>1, <1>3 DEF Nobody, APs, All
<1>9. TypeOK'
    <2>1. group' \in [start : 0 .. N, running : 0 .. N, waiting : SUBSET APs, single : BOOLEAN]
          /\ group'.running <= group'.start
        BY <1>0, <1>3, Bounds DEF TypeOK, NoGroup
    <2>2. by' \in [APs -> {Nobody, All} \union APs] /\ ran' \in [APs -> {"no", "in", "yes", "bad"}]
        BY <1>0, <1>3 DEF TypeOK
    <2> QED BY <1>0, <1>2, <1>3, <2>1, <2>2 DEF TypeOK
<1>10. PhaseOK'
    BY <1>0, <1>1, <1>2, <1>7, PhaseKept
<1>11. CountOK'
    BY <1>0, <1>3, <1>6 DEF CountOK, Flying
<1>12. \A p \in APs : PlaceOK(p)'
    <2> TAKE p \in APs
    <2>0. PlaceOK(p)
        BY <1>0
    <2>1. CASE by[p] = c
        BY <1>1, <1>2, <1>3, <1>6, <1>8, <2>0, <2>1 DEF PlaceOK
    <2>2. CASE by[p] # c
        <3>1. state'[p] = state[p] /\ ran'[p] = ran[p]
            BY <1>8, <2>2
        <3> QED BY <1>1, <1>2, <1>3, <1>6, <1>7, <2>0, <3>1 DEF PlaceOK
    <2> QED BY <2>1, <2>2
<1>13. BootOK' /\ LeaveOK'
    BY <1>1, <1>2, <1>7 DEF BootOK, LeaveOK
<1>14. CallsOK'
    <2>1. \A a \in Items(todo') : a.do \in Harmless \/ a \in Items(todo)
        BY <1>2 DEF Kept
    <2>2. \A a \in Items(todo') : a.do \notin Checks
        BY <1>2 DEF Pendings, Checks, Starts
    <2>3. \A a \in Items(todo') :
              /\ a.do = "startThis" => by'[a.p] = Nobody
              /\ a.do = "startAll" => \A p \in APs : state'[p] # "disabled"
        <3> TAKE a \in Items(todo')
        <3>1. a.do = "startThis" => by'[a.p] = Nobody
            <4> HAVE a.do = "startThis"
            <4>1. a \in Items(todo)
                BY <2>1 DEF Harmless, Wakes
            <4>2. by[a.p] = Nobody
                BY <1>0, <4>1 DEF CallsOK
            <4>3. a.p \in APs
                <5>1. Program(todo')
                    BY <1>5
                <5>2. WellFormed(a)
                    BY <5>1 DEF Program, Items
                <5> QED BY <5>2 DEF WellFormed
            <4> QED BY <1>8, <4>2, <4>3
        <3>2. a.do = "startAll" => \A p \in APs : state'[p] # "disabled"
            <4> HAVE a.do = "startAll"
            <4>1. a \in Items(todo)
                BY <2>1 DEF Harmless, Wakes
            <4>2. \A p \in APs : state[p] # "disabled"
                BY <1>0, <4>1 DEF CallsOK
            <4> QED BY <4>2
        <3> QED BY <3>1, <3>2
    <2>4. \A p \in APs : by'[p] \in {Nobody, All, p}
        BY <1>0, <1>8 DEF CallsOK
    <2>5. owed' = (IF At("forget")' THEN event' \ {Top'.p} ELSE event')
        BY <1>0, <1>1, <1>3, <1>7 DEF CallsOK
    <2>6. At("tell")' \/ At("forget")' => Top'.p \in event' /\ \A p \in APs : by'[p] # Top'.p
        <3> SUFFICES ASSUME At("tell")' PROVE Top'.p \in event' /\ \A p \in APs : by'[p] # Top'.p
            BY <1>7
        <3>1. Top.x = "poll" /\ Top'.p = c
            BY <1>4, <1>7
        <3>2. Top'.p \in event'
            BY <1>1, <1>3, <3>1
        <3> HIDE DEF c
        <3>3. \A p \in APs : by'[p] # Top'.p
            BY <1>8, <3>1
        <3> QED BY <3>2, <3>3
    <2>7. \A e \in event' : (\E p \in APs : by'[p] = e) \/ ((At("tell")' \/ At("forget")') /\ Top'.p = e)
        <3> TAKE e \in event'
        <3>1. PICK p \in APs : by[p] = e
            BY <1>0, <1>1, <1>3 DEF CallsOK
        <3>2. CASE e = c
            BY <1>1, <1>2, <1>3, <1>4, <1>7, <3>2
        <3>3. CASE e # c
            BY <1>8, <3>1, <3>3
        <3> QED BY <3>2, <3>3
    <2>8. \A p \in APs : by'[p] # Nobody =>
              by'[p] \in event' \/ \E a \in Items(todo') :
                                      a.do \in Checks /\ a.x = "block" /\ a.p = by'[p]
        <3> TAKE p \in APs
        <3> HAVE by'[p] # Nobody
        <3>1. by[p] # c /\ by'[p] = by[p]
            BY <1>8
        <3>2. CASE by[p] \in event
            BY <1>3, <3>1, <3>2
        <3>3. CASE by[p] \notin event
            <4>1. PICK a \in Items(todo) : a.do \in Checks /\ a.x = "block" /\ a.p = by[p]
                BY <1>0, <3>1, <3>3 DEF CallsOK
            <4>2. a \in Items(todo')
                BY <1>2, <3>1, <4>1 DEF Kept
            <4> QED BY <3>1, <4>1, <4>2
        <3> QED BY <3>2, <3>3
    <2> QED BY <2>2, <2>3, <2>4, <2>5, <2>6, <2>7, <2>8 DEF CallsOK
<1>15. GroupOK'
    <2>1. CASE c = All
        <3>1. group' = NoGroup /\ \A p \in APs : by'[p] # All
            BY <1>3, <1>8, <2>1
        <3>2. group'.running = 0 /\ group'.start = 0 /\ group'.waiting = {}
            BY <3>1 DEF NoGroup
        <3>3. Cardinality(group'.waiting) = 0
            BY <3>2, FS_EmptySet
        <3>4. group'.running + Cardinality(group'.waiting) = group'.start
            <4> DEFINE n == Cardinality(group'.waiting)
            <4>1. n = 0
                BY <3>3
            <4> HIDE DEF n
            <4>2. group'.running + n = group'.start
                BY <3>2, <4>1
            <4> QED BY <4>2 DEF n
        <3>5. group'.running + Cardinality(group'.waiting) <= group'.start
            BY <3>2, <3>4
        <3> QED BY <1>7, <3>1, <3>2, <3>4, <3>5 DEF GroupOK
    <2>2. CASE c # All
        <3>1. group' = group
            BY <1>3, <2>2
        <3>2. \A p \in APs : by'[p] = All <=> by[p] = All
            BY <1>8, <2>2 DEF Nobody, All
        <3>3. \A p \in APs : by[p] = All => state'[p] = state[p] /\ ran'[p] = ran[p]
            BY <1>8, <2>2
        <3>4. ~Reclaiming /\ ~At("decide")
            <4>1. ~Reclaiming
                BY <1>1, <2>2 DEF Reclaiming
            <4>2. ~At("decide")
                BY <1>1, <2>2 DEF At, WellFormed
            <4> QED BY <4>1, <4>2
        <3>5. group.waiting \subseteq APs
            BY <1>0 DEF TypeOK
        <3> QED BY <1>0, <1>1, <1>7, <3>1, <3>2, <3>3, <3>4, <3>5 DEF GroupOK
    <2> QED BY <2>1, <2>2
<1>16. WorkOK'
    <2>1. \A p \in APs : by'[p] = Nobody => RestOK(p)'
        <3> TAKE p \in APs
        <3> HAVE by'[p] = Nobody
        <3>1. CASE by[p] = c
            BY <1>3, <1>6, <3>1 DEF RestOK
        <3>2. CASE by[p] # c
            <4>1. RestOK(p) /\ state'[p] = state[p]
                BY <1>0, <1>1, <1>8, <3>2 DEF WorkOK
            <4> QED BY <1>3, <1>6, <4>1 DEF RestOK
        <3> QED BY <3>1, <3>2
    <2>2. \A p \in APs : Live(p)' => LiveOK(p)'
        <3> TAKE p \in APs
        <3> HAVE Live(p)'
        <3>1. by[p] # c /\ by'[p] = by[p] /\ by[p] # Nobody /\ ran'[p] = ran[p] /\ state'[p] = state[p]
            BY <1>8 DEF Live
        <3>2. Live(p)
            BY <1>1, <3>1 DEF Live
        <3>3. LiveOK(p)
            BY <1>0, <1>1, <3>2 DEF WorkOK
        <3>4. (p \in group'.waiting <=> p \in group.waiting) /\ (Turn(p)' <=> Turn(p))
            <4>1. CASE c = All
                <5>1. p \notin group.waiting
                    BY <1>0, <3>1, <4>1 DEF GroupOK
                <5>2. group'.waiting = {}
                    BY <1>3, <4>1 DEF NoGroup
                <5> QED BY <3>1, <4>1, <5>1, <5>2 DEF Turn
            <4>2. CASE c # All
                BY <1>3, <3>1, <4>2 DEF Turn
            <4> QED BY <4>1, <4>2
        <3>5. Fresh(p)' <=> Fresh(p)
            BY <1>1, <1>6, <3>4 DEF Fresh
        <3> QED BY <1>1, <1>3, <1>6, <3>1, <3>3, <3>4, <3>5 DEF LiveOK
    <2> QED BY <1>6, <2>1, <2>2 DEF WorkOK
<1>17. ResetOK'
    <2>1. \A a \in Items(todo') : a.do \notin {"reclaim", "report"}
        BY <1>2 DEF Pendings, Starts
    <2> QED BY <1>6, <2>1 DEF ResetOK
<1> QED BY <1>5, <1>9, <1>10, <1>11, <1>12, <1>13, <1>14, <1>15, <1>16, <1>17 DEF IInv

\* How many APs there may be
LEMMA Finite ==
    ASSUME NEW S, S \subseteq APs
    PROVE  /\ IsFiniteSet(S) /\ Cardinality(S) \in Nat /\ Cardinality(S) <= N
           /\ Cardinality(S) = 0 <=> S = {}
           /\ Cardinality(S) = N => S = APs
<1>1. IsFiniteSet(APs) /\ Cardinality(APs) = N
    <2>1. N \in Nat /\ 1 \in Int /\ N \in Int /\ (1 > N => N = 0)
        BY Bounds
    <2>2. IsFiniteSet(1 .. N)
        BY <2>1, FS_Interval
    <2>3. Cardinality(1 .. N) = IF 1 > N THEN 0 ELSE N - 1 + 1
        BY <2>1, FS_Interval
    <2>4. Cardinality(1 .. N) = N
        BY <2>1, <2>3, Bounds
    <2> QED BY <2>2, <2>4 DEF APs
<1>2. IsFiniteSet(S) /\ Cardinality(S) <= N
    BY <1>1, FS_Subset
<1>3. Cardinality(S) \in Nat
    BY <1>2, FS_CardinalityType
<1>4. Cardinality(S) = 0 <=> S = {}
    BY <1>2, FS_EmptySet
<1>5. Cardinality(S) = N => S = APs
    BY <1>1, FS_Subset
<1> QED BY <1>2, <1>3, <1>4, <1>5

\* An AP that has finished, and let go of its lock, is past all that matters.
LEMMA Settles ==
    ASSUME NEW p \in APs, TypeOK, PlaceOK(p), phase = "boot", ~Booting, ~ToInit(p),
           state[p] \in {"idle", "disabled"} \/ (state[p] = "finished" /\ ~lock[p])
    PROVE  pc[p] \in {"parked", "count"} /\ ~signal[p]
<1>1. pc[p] \in {"pei", "parked", "start", "check", "busy", "locked", "run", "hung",
                 "gone", "finish", "release", "count"}
    BY DEF TypeOK
<1> QED BY <1>1 DEF PlaceOK

\* When all of StartupAllAPs have been counted it waits for none.
LEMMA NoneWaits ==
    ASSUME TypeOK, GroupOK, ~Reclaiming, group.running = group.start
    PROVE  group.waiting = {}
<1> DEFINE n == Cardinality(group.waiting)
<1>1. group.waiting \subseteq APs /\ group.running \in Nat
    BY Bounds DEF TypeOK
<1>2. n \in Nat /\ (n = 0 <=> group.waiting = {})
    BY <1>1, Finite
<1>3. group.running + n = group.start
    BY DEF GroupOK
<1> HIDE DEF n
<1>4. n = 0
    BY <1>1, <1>2, <1>3
<1> QED BY <1>2, <1>4

\* StartupAllAPs ends when all its APs have been counted: all have run the procedure.
LEMMA DecideFinishedKeeps ==
    ASSUME IInv, DecideFinished
    PROVE  IInv' /\ Top.p = All /\ \A p \in APs : by[p] = Top.p => ran[p] = "yes"
<1>0. /\ Program(todo) /\ GroupOK /\ TypeOK /\ \A q \in APs : PlaceOK(q)
    BY DEF IInv
<1>1. todo # << >> /\ Top.do = "decide" /\ Top.do \in Checks
    BY DEF DecideFinished, At, Checks
<1>2. /\ phase = "boot" /\ Working /\ ~Booting /\ WellFormed(Top)
      /\ \A p \in APs : ~ToReady(p) /\ ~ToInit(p)
      /\ ~Resetting
    BY <1>1, AtCheck
<1>3. Top.p = All
    BY <1>1, <1>2 DEF WellFormed
<1>4. ~Reclaiming
    BY <1>2 DEF Reclaiming
<1>5. group.waiting = {}
    BY <1>0, <1>4, NoneWaits DEF DecideFinished
<1>6. \A p \in APs : by[p] = Top.p => state[p] = "idle" /\ ran[p] = "yes"
    BY <1>0, <1>3, <1>4, <1>5 DEF GroupOK
<1>7. /\ UNCHANGED <<pc, procedure, lock, state, function, signal, finished, toFinish>>
      /\ Result(Top.p) /\ Do(Answer(Top.p, Top.x))
    BY <1>3 DEF DecideFinished, apVars
<1>8. \A p \in APs : by[p] = Top.p =>
          state'[p] = "idle" /\ ~signal[p] /\ pc[p] \in {"parked", "count"}
    <2> TAKE p \in APs
    <2> HAVE by[p] = Top.p
    <2>1. state[p] = "idle"
        BY <1>6
    <2> QED BY <1>0, <1>2, <1>7, <2>1, Settles
<1>9. UNCHANGED Others /\ state' \in [APs -> {"idle", "ready", "busy", "finished", "disabled"}]
    BY <1>0, <1>7 DEF Others, TypeOK
<1>10. \A p \in APs : by[p] # Top.p => state'[p] = state[p]
    BY <1>7
<1> QED BY <1>1, <1>3, <1>6, <1>7, <1>8, <1>9, <1>10, CheckEnds

\* A call ends in a time-out: its APs have been reset and are idle.
LEMMA ReportKeeps == ASSUME IInv, Report PROVE IInv'
<1>0. /\ Program(todo) /\ GroupOK /\ TypeOK /\ WorkOK /\ ResetOK /\ \A q \in APs : PlaceOK(q)
    BY DEF IInv
<1>1. todo # << >> /\ Top.do = "report" /\ Top.do \in Checks
    BY DEF Report, At, Checks
<1>2. /\ phase = "boot" /\ Working /\ ~Booting /\ Top.p \in {All} \union APs
      /\ \A p \in APs : ~ToReady(p) /\ ~ToInit(p)
      /\ Resetting /\ Ending = Top.p /\ ~Doing("null")
    BY <1>1, AtCheck
<1>3. /\ UNCHANGED <<pc, procedure, lock, state, function, signal, finished, toFinish>>
      /\ Result(Top.p) /\ Do(Answer(Top.p, Top.x))
    BY DEF Report, apVars
<1>4. \A p \in APs : by[p] = Top.p =>
          state'[p] = "idle" /\ ~signal[p] /\ pc[p] \in {"parked", "count"}
    <2> TAKE p \in APs
    <2> HAVE by[p] = Top.p
    <2>1. EndingOK(p)
        BY <1>0, <1>2 DEF WorkOK
    <2>2. p \notin group.waiting
        <3>1. CASE Top.p = All
            BY <1>0, <1>1, <1>2, <3>1 DEF ResetOK, At
        <3>2. CASE Top.p # All
            BY <1>0, <3>2 DEF GroupOK
        <3> QED BY <3>1, <3>2
    <2>3. state[p] = "idle"
        BY <1>2, <2>1, <2>2 DEF EndingOK
    <2> QED BY <1>0, <1>2, <1>3, <2>3, Settles
<1>5. UNCHANGED Others /\ state' \in [APs -> {"idle", "ready", "busy", "finished", "disabled"}]
    BY <1>0, <1>3 DEF Others, TypeOK
<1>6. \A p \in APs : by[p] # Top.p => state'[p] = state[p]
    BY <1>3
<1> QED BY <1>1, <1>3, <1>4, <1>5, <1>6, CheckEnds

\* StartupThisAP ends when its AP has finished: it has run the procedure.
LEMMA SeeFinishedKeeps ==
    ASSUME IInv, SeeFinished
    PROVE  IInv' /\ \A p \in APs : by[p] = Top.p => ran[p] = "yes"
<1>0. /\ Program(todo) /\ GroupOK /\ TypeOK /\ WorkOK /\ CallsOK /\ \A q \in APs : PlaceOK(q)
    BY DEF IInv
<1>1. todo # << >> /\ Top.do = "see" /\ Top.do \in Checks
    BY DEF SeeFinished, At, Checks
<1>2. /\ phase = "boot" /\ Working /\ ~Booting /\ WellFormed(Top)
      /\ \A p \in APs : ~ToReady(p) /\ ~ToInit(p)
      /\ ~Resetting
    BY <1>1, AtCheck
<1>3. /\ UNCHANGED <<pc, procedure, lock, function, signal, finished, toFinish>>
      /\ Result(Top.p) /\ Do(Answer(Top.p, Top.x)) /\ UNCHANGED Others
      /\ state[Top.p] = "finished" /\ ~lock[Top.p] /\ state' = [state EXCEPT ![Top.p] = "idle"]
    BY DEF SeeFinished, Others, SetApState
<1>4. Top.p \in APs /\ Top.p # All
    BY <1>1, <1>2, Bounds DEF WellFormed
<1>5. \A p \in APs : by[p] = Top.p => p = Top.p
    BY <1>0, <1>4, Bounds DEF CallsOK
<1>6. \A p \in APs : by[p] = Top.p =>
          state'[p] = "idle" /\ ~signal[p] /\ pc[p] \in {"parked", "count"} /\ ran[p] = "yes"
    <2> TAKE p \in APs
    <2> HAVE by[p] = Top.p
    <2>1. p = Top.p
        BY <1>5
    <2>2. state'[p] = "idle"
        BY <1>0, <1>3, <2>1 DEF TypeOK
    <2>3. Live(p)
        BY <1>2, <1>4, Bounds DEF Live
    <2>4. ran[p] = "yes"
        BY <1>0, <1>2, <1>3, <2>1, <2>3 DEF WorkOK, LiveOK
    <2>5. ~signal[p] /\ pc[p] \in {"parked", "count"}
        BY <1>0, <1>2, <1>3, <2>1, Settles
    <2> QED BY <2>2, <2>4, <2>5
<1>7. state' \in [APs -> {"idle", "ready", "busy", "finished", "disabled"}]
    BY <1>0, <1>3 DEF TypeOK
<1>8. \A p \in APs : by[p] # Top.p => state'[p] = state[p]
    <2> TAKE p \in APs
    <2> HAVE by[p] # Top.p
    <2>1. CASE p # Top.p
        BY <1>0, <1>3, <2>1 DEF TypeOK
    <2>2. CASE p = Top.p
        \* a check is for an AP that the call asked
        <3>1. \E q \in APs : by[q] = Top.p
            BY <1>1, AtCheck
        <3> QED BY <1>5, <2>2, <3>1
    <2> QED BY <2>1, <2>2
<1> QED BY <1>1, <1>3, <1>6, <1>7, <1>8, CheckEnds

-----------------------------------------------------------------------------
(***************************************************************************)
(* The steps of the APs.                                                   *)
(***************************************************************************)
\* What does not change while the list of steps and the calls are as they are
LEMMA SameTop ==
    ASSUME UNCHANGED <<todo, phase, group, by>>
    PROVE  /\ Top' = Top /\ (\A d : At(d)' <=> At(d)) /\ (\A x : Doing(x)' <=> Doing(x))
           /\ \A q : /\ ToReady(q)' <=> ToReady(q)
                     /\ ToInit(q)' <=> ToInit(q)
                     /\ Fresh(q)' <=> Fresh(q)
                     /\ Live(q)' <=> Live(q)
           /\ Booting' <=> Booting
           /\ Working' <=> Working
           /\ Resetting' <=> Resetting
           /\ Reclaiming' <=> Reclaiming
           /\ Ending' = Ending
<1>1. Top' = Top /\ (\A d : At(d)' <=> At(d)) /\ (\A x : Doing(x)' <=> Doing(x))
    BY DEF Top, At, Doing
<1>2. (Booting' <=> Booting) /\ (Working' <=> Working) /\ (Resetting' <=> Resetting)
      /\ Ending' = Ending
    BY <1>1 DEF Booting, Working, Resetting, Ending
<1>3. Reclaiming' <=> Reclaiming
    BY <1>2 DEF Reclaiming
<1>4. \A q : (ToReady(q)' <=> ToReady(q)) /\ (ToInit(q)' <=> ToInit(q))
    BY <1>1 DEF ToReady, ToInit, Wakes1
<1>5. \A q : Fresh(q)' <=> Fresh(q)
    BY <1>4 DEF Fresh, Turn
<1>6. \A q : Live(q)' <=> Live(q)
    BY <1>2 DEF Live
<1> QED BY <1>1, <1>2, <1>3, <1>4, <1>5, <1>6

\* Nothing of this AP changes.
Same(p) ==
    /\ pc'[p] = pc[p] /\ procedure'[p] = procedure[p] /\ lock'[p] = lock[p]
    /\ state'[p] = state[p] /\ signal'[p] = signal[p] /\ ran'[p] = ran[p]

\* The AP goes to l, and this is what it leaves behind.
To(p, l, pr, lk, st, sg, rn) ==
    /\ pc'[p] = l /\ procedure'[p] = pr /\ lock'[p] = lk
    /\ state'[p] = st /\ signal'[p] = sg /\ ran'[p] = rn

\* What has been run once the procedure is called
RanThen(p) ==
    IF procedure[p] # "proc" THEN ran[p]
    ELSE IF by[p] # Nobody /\ ran[p] = "no" THEN "in" ELSE "bad"

\* A step of an AP that is where the others of its code may bring it
Moves(p) ==
    \/ pc[p] = "start" /\ To(p, "check", procedure[p], lock[p], state[p], FALSE, ran[p])
    \/ /\ pc[p] = "check" /\ state[p] = "ready"
       /\ To(p, IF function[p] = "null" THEN "finish" ELSE "busy",
             function[p], lock[p], state[p], signal[p], ran[p])
    \/ pc[p] = "busy" /\ To(p, "locked", procedure[p], TRUE, "busy", signal[p], ran[p])
    \/ pc[p] = "locked" /\ To(p, "run", procedure[p], FALSE, state[p], signal[p], RanThen(p))
    \/ /\ pc[p] = "run" /\ procedure[p] # "relocate"
       /\ To(p, "finish", "null", lock[p], state[p], signal[p],
             IF procedure[p] = "proc" /\ ran[p] = "in" THEN "yes" ELSE ran[p])
    \/ /\ pc[p] = "run" /\ procedure[p] = "proc"
       /\ To(p, "hung", procedure[p], lock[p], state[p], signal[p], ran[p])
    \/ /\ pc[p] = "run" /\ procedure[p] = "relocate"
       /\ To(p, "gone", procedure[p], lock[p], state[p], signal[p], ran[p])
    \/ pc[p] = "finish" /\ To(p, "release", procedure[p], TRUE, "finished", signal[p], ran[p])
    \/ pc[p] = "release" /\ To(p, "count", procedure[p], FALSE, state[p], signal[p], ran[p])
    \/ pc[p] = "count" /\ To(p, "parked", procedure[p], lock[p], state[p], signal[p], ran[p])

\* A step of the AP and what it leaves alone
ApMoves(p) ==
    /\ UNCHANGED <<todo, stop, phase, function, group, event, over, by, owed>>
    /\ \A q \in APs : q # p => Same(q)
    /\ Moves(p)
    /\ finished' = IF pc[p] = "count" THEN finished + 1 ELSE finished
    /\ toFinish' = IF pc'[p] = "gone" THEN toFinish - 1 ELSE toFinish
    /\ pc' \in [APs -> {"pei", "parked", "start", "check", "busy", "locked", "run", "hung",
                        "gone", "finish", "release", "count"}]
    /\ procedure' \in [APs -> {"null", "sync", "proc", "relocate"}]
    /\ lock' \in [APs -> BOOLEAN] /\ signal' \in [APs -> BOOLEAN]
    /\ state' \in [APs -> {"idle", "ready", "busy", "finished", "disabled"}]
    /\ ran' \in [APs -> {"no", "in", "yes", "bad"}]

\* Each step of an AP is one of those.
LEMMA ApStepMoves ==
    ASSUME IInv, NEW p \in APs, ApStep(p)
    PROVE  ApMoves(p)
<1>0. TypeOK /\ PlaceOK(p)
    BY DEF IInv
<1>1. CASE ClearSignal(p)
    BY <1>0, <1>1 DEF TypeOK, ClearSignal, Goto, bspVars, callVars, history, ApMoves, Moves, To, Same
<1>2. CASE CheckReady(p)
    <2>1. state[p] = "ready"
        BY <1>0, <1>2 DEF CheckReady, PlaceOK
    <2> QED BY <1>0, <1>2, <2>1
            DEF TypeOK, CheckReady, Goto, bspVars, callVars, history, ApMoves, Moves, To, Same
<1>3. CASE SetBusy(p)
    BY <1>0, <1>3 DEF TypeOK, SetBusy, Locked, SetApState, Goto, bspVars, callVars, history,
                      ApMoves, Moves, To, Same
<1>4. CASE CallProcedure(p)
    BY <1>0, <1>4 DEF TypeOK, CallProcedure, Release, Goto, bspVars, callVars,
                      ApMoves, Moves, To, Same, RanThen
<1>5. CASE EndProcedure(p)
    BY <1>0, <1>5 DEF TypeOK, EndProcedure, Goto, bspVars, callVars, ApMoves, Moves, To, Same
<1>6. CASE Hang(p)
    BY <1>0, <1>6 DEF TypeOK, Hang, Goto, bspVars, callVars, history, ApMoves, Moves, To, Same
<1>7. CASE RelocateApLoop(p)
    BY <1>0, <1>7 DEF TypeOK, RelocateApLoop, Goto, bspVars, callVars, history, ApMoves, Moves,
                      To, Same
<1>8. CASE SetFinished(p)
    BY <1>0, <1>8 DEF TypeOK, SetFinished, Locked, SetApState, Goto, bspVars, callVars, history,
                      ApMoves, Moves, To, Same
<1>9. CASE ReleaseFinished(p)
    BY <1>0, <1>9 DEF TypeOK, ReleaseFinished, Release, Goto, bspVars, callVars, history,
                      ApMoves, Moves, To, Same
<1>10. CASE Park(p)
    BY <1>0, <1>10 DEF TypeOK, Park, Goto, bspVars, callVars, history, ApMoves, Moves, To, Same
<1> QED BY <1>1, <1>2, <1>3, <1>4, <1>5, <1>6, <1>7, <1>8, <1>9, <1>10 DEF ApStep

\* The steps that are of a wake-up
LEMMA WakesOnly ==
    ASSUME Program(todo), todo # << >>
    PROVE  /\ Top.x \in {"sync", "null", "proc"} => Top.do \in Wakes
           /\ Top.x = "relocate" => Top.do \in Wakes \union {"gone"}
           /\ Top.do \in Wakes <=> At("zero") \/ At("ready") \/ At("init")
                                   \/ At("awake") \/ At("count") \/ At("idle")
<1>1. Top \in Steps /\ WellFormed(Top)
    BY TopIs
<1>2. Top.do \in {"look", "decide", "report", "see", "reclaim"} \union Starts => Top.x \in Modes
    BY <1>1 DEF WellFormed
<1>3. Top.do \in {"tell", "forget", "pending", "return", "end"} => Top.x = ""
    BY <1>1 DEF WellFormed
<1>4. Top.do = "gone" => Top.x = "relocate"
    BY <1>1 DEF WellFormed
<1>5. Top.do \in Wakes \union Starts \union {"look", "decide", "report", "see", "reclaim", "tell",
                                 "forget", "pending", "return", "end", "gone"}
    BY <1>1 DEF Steps, Checks
<1> QED BY <1>2, <1>3, <1>4, <1>5 DEF Modes, At, Wakes

\* Where an AP is before its procedure has returned
Early == {"start", "check", "busy", "locked", "run"}

\* Where an AP that moves may be: at the start of the system, on its way out of it, left
\* alone, at work for a call, or reset at the end of one
BootPlace(p) ==
    /\ Booting /\ phase # "os" /\ by[p] = Nobody
    /\ At("awake") \/ At("count")
    /\ pc[p] \in Early => function[p] = "sync"
LeavePlace(p) ==
    /\ phase = "os" /\ ~Booting /\ by[p] = Nobody
    /\ pc[p] # "count" => pc[p] \in Early /\ function[p] = "relocate"
RestPlace(p) == Working /\ ~Booting /\ by[p] = Nobody /\ pc[p] = "count"
LivePlace(p) == Working /\ ~Booting /\ Live(p) /\ LiveOK(p)
ResetPlace(p) ==
    /\ Working /\ ~Booting /\ Resetting /\ by[p] = Ending /\ by[p] # Nobody
    /\ p = Top.p /\ Doing("null")
    /\ At("awake") \/ At("count")
    /\ pc[p] \in {"start", "check", "finish", "release", "count"}
    /\ pc[p] \in {"start", "check"} => function[p] = "null"

\* An AP that takes a step is on its way for one of these reasons.
LEMMA ApPlaces ==
    ASSUME IInv, NEW p \in APs, Moves(p)
    PROVE  /\ phase # "off" /\ p \in Flying /\ (pc[p] # "count" => ~ToReady(p) /\ ~ToInit(p))
           /\ BootPlace(p) \/ LeavePlace(p) \/ RestPlace(p) \/ LivePlace(p) \/ ResetPlace(p)
<1>0. /\ Program(todo) /\ PhaseOK /\ TypeOK /\ BootOK /\ LeaveOK /\ WorkOK /\ ResetOK
      /\ CallsOK /\ GroupOK /\ PlaceOK(p)
    BY DEF IInv
<1>1. pc[p] \in Early \union {"finish", "release", "count"}
    BY DEF Moves, Early
<1>2. p \in Flying /\ pc[p] # "pei" /\ pc[p] # "parked" /\ pc[p] # "hung"
    BY <1>1 DEF Flying, Early
<1>3. pc[p] # "count" => ~ToReady(p) /\ ~ToInit(p)
    BY <1>0, <1>1 DEF PlaceOK, Early
<1>4. phase # "off"
    BY <1>0, <1>2 DEF BootOK, Booting
<1>5. CASE Booting
    <2>1. todo # << >> /\ Doing("sync") /\ phase # "os"
        BY <1>0, <1>4, <1>5 DEF Booting, Doing, PhaseOK
    <2>2. At("zero") \/ At("ready") \/ At("init") \/ At("awake") \/ At("count") \/ At("idle")
        BY <1>0, <2>1, WakesOnly DEF Doing
    <2>3. At("awake") \/ At("count")
        BY <1>0, <1>2, <1>5, <2>2 DEF BootOK
    <2> QED BY <1>0, <1>1, <1>2, <1>3, <1>4, <1>5, <2>1, <2>3 DEF BootOK, BootPlace, Early
<1>6. CASE ~Booting /\ phase = "os"
    BY <1>0, <1>1, <1>2, <1>3, <1>4, <1>6 DEF LeaveOK, LeavePlace, Early
<1>7. CASE ~Booting /\ phase # "os"
    <2>1. Working /\ phase = "boot"
        BY <1>0, <1>4, <1>7 DEF TypeOK, Working, Booting
    <2>2. CASE by[p] = Nobody
        BY <1>0, <1>1, <1>2, <1>3, <1>4, <1>7, <2>1, <2>2 DEF WorkOK, RestOK, RestPlace, Early
    <2>3. CASE Live(p)
        BY <1>0, <1>2, <1>3, <1>4, <1>7, <2>1, <2>3 DEF WorkOK, LivePlace
    <2>4. CASE by[p] # Nobody /\ ~Live(p)
        <3>1. Resetting /\ by[p] = Ending
            BY <2>4 DEF Live
        <3>2. EndingOK(p) /\ Doing("null") /\ p = Top.p
            BY <1>0, <1>2, <2>1, <3>1 DEF WorkOK, ResetOK
        <3>3. At("zero") \/ At("ready") \/ At("init") \/ At("awake") \/ At("count") \/ At("idle")
            BY <1>0, <3>2, WakesOnly DEF Doing
        <3>4. At("awake") \/ At("count")
            BY <1>2, <3>2, <3>3 DEF EndingOK
        <3>5. /\ pc[p] \in {"start", "check", "finish", "release", "count"}
              /\ pc[p] \in {"start", "check"} => function[p] = "null"
            BY <1>2, <3>2, <3>4 DEF EndingOK
        <3> QED BY <1>2, <1>3, <1>4, <1>7, <2>1, <2>4, <3>1, <3>2, <3>4, <3>5 DEF ResetPlace
    <2> QED BY <2>2, <2>3, <2>4
<1> QED BY <1>5, <1>6, <1>7

\* Where the step takes it
LEMMA ApGoes ==
    ASSUME IInv, NEW p \in APs, ApMoves(p)
    PROVE  /\ pc'[p] # "pei" /\ (pc'[p] = "parked" <=> pc[p] = "count")
           /\ pc[p] # "parked" /\ pc[p] # "gone"
           /\ pc'[p] = "gone" => phase = "os"
           /\ pc'[p] = "gone" \/ pc'[p] = "hung" \/ pc'[p] = "parked"
                 \/ pc'[p] \in Early \union {"finish", "release", "count"}
           /\ pc'[p] \in Early => pc[p] \in Early
           /\ pc'[p] = "hung" => LivePlace(p)
           /\ ran'[p] # "bad" /\ (~LivePlace(p) => ran'[p] = ran[p])
           /\ state'[p] = state[p]
                 \/ (state[p] \in {"ready", "busy"} /\ state'[p] \in {"busy", "finished"})
           /\ pc[p] = "count" => state'[p] = state[p] /\ signal'[p] = signal[p]
                                  /\ ran'[p] = ran[p] /\ pc'[p] = "parked"
           /\ LeavePlace(p) /\ pc[p] # "count" => pc'[p] \in Early \union {"gone"}
           /\ PlaceOK(p)'
<1>0. PlaceOK(p)
    BY DEF IInv
<1>1. /\ p \in Flying /\ (pc[p] # "count" => ~ToReady(p) /\ ~ToInit(p))
      /\ BootPlace(p) \/ LeavePlace(p) \/ RestPlace(p) \/ LivePlace(p) \/ ResetPlace(p)
    BY ApPlaces DEF ApMoves
<1>2. Moves(p) /\ UNCHANGED <<todo, phase, group, by, function>>
    BY DEF ApMoves
<1>3. (ToReady(p)' <=> ToReady(p)) /\ (ToInit(p)' <=> ToInit(p)) /\ (Booting' <=> Booting)
      /\ Top' = Top
    BY <1>2, SameTop
<1>4. /\ pc'[p] # "pei" /\ (pc'[p] = "parked" <=> pc[p] = "count")
      /\ pc[p] # "parked" /\ pc[p] # "gone"
      /\ pc'[p] = "gone" \/ pc'[p] = "hung" \/ pc'[p] = "parked"
            \/ pc'[p] \in Early \union {"finish", "release", "count"}
      /\ pc'[p] \in Early => pc[p] \in Early
      /\ pc'[p] = "hung" => pc[p] = "run" /\ procedure[p] = "proc"
      /\ pc'[p] = "gone" => pc[p] = "run" /\ procedure[p] = "relocate"
      /\ pc[p] = "count" => state'[p] = state[p] /\ signal'[p] = signal[p]
                            /\ ran'[p] = ran[p] /\ pc'[p] = "parked"
    BY <1>2 DEF Moves, To, Early
<1>5. state'[p] = state[p]
         \/ (state[p] \in {"ready", "busy"} /\ state'[p] \in {"busy", "finished"})
    BY <1>0, <1>2 DEF Moves, To, PlaceOK
<1>6. pc[p] \in {"busy", "locked", "run"} => procedure[p] = function[p] /\ function[p] # "null"
    BY <1>0 DEF PlaceOK
<1>7. pc[p] = "run" /\ procedure[p] = "proc" => LivePlace(p)
    BY <1>1, <1>6 DEF BootPlace, LeavePlace, RestPlace, ResetPlace, Early
<1>8. pc[p] = "run" /\ procedure[p] = "relocate" => phase = "os"
    BY <1>1, <1>6 DEF BootPlace, LeavePlace, RestPlace, ResetPlace, Early, LivePlace, LiveOK
<1>9. pc[p] = "locked" /\ procedure[p] = "proc" => LivePlace(p) /\ by[p] # Nobody /\ ran[p] = "no"
    <2>1. pc[p] = "locked" /\ procedure[p] = "proc" => LivePlace(p)
        BY <1>1, <1>6 DEF BootPlace, LeavePlace, RestPlace, ResetPlace, Early
    <2> QED BY <2>1 DEF LivePlace, LiveOK, Live
<1>10. ran'[p] # "bad" /\ (~LivePlace(p) => ran'[p] = ran[p])
    BY <1>0, <1>2, <1>7, <1>9 DEF Moves, To, RanThen, PlaceOK
<1>11. LeavePlace(p) /\ pc[p] # "count" => pc'[p] \in Early \union {"gone"}
    <2>1. LeavePlace(p) /\ pc[p] # "count" => pc[p] \in Early /\ function[p] = "relocate"
        BY DEF LeavePlace
    <2> QED BY <1>2, <1>6, <2>1 DEF Moves, To, Early
<1>12. pc'[p] = "gone" => phase' = "os"
    BY <1>2, <1>4, <1>8
<1>13. PlaceOK(p)'
    <2>1. pc[p] # "count" => ~ToReady(p)' /\ ~ToInit(p)'
        BY <1>1, <1>3
    <2>2. function'[p] = function[p]
        BY <1>2
    <2> QED BY <1>0, <1>2, <1>3, <1>10, <1>12, <2>1, <2>2 DEF PlaceOK, Moves, To
<1> QED BY <1>2, <1>4, <1>5, <1>7, <1>10, <1>11, <1>12, <1>13

\* One AP more, one AP less
LEMMA OneMore ==
    ASSUME NEW S, S \subseteq APs, NEW p \in APs
    PROVE  /\ p \notin S => Cardinality(S \union {p}) = Cardinality(S) + 1
           /\ p \in S => Cardinality(S \ {p}) = Cardinality(S) - 1
<1>1. IsFiniteSet(S)
    BY Finite
<1> QED BY <1>1, FS_AddElement, FS_RemoveElement

\* The counts, when an AP takes a step: an AP counts itself once per start.
LEMMA ApCounts ==
    ASSUME IInv, NEW p \in APs, ApMoves(p)
    PROVE  /\ CountOK' /\ TypeOK'
           /\ At("awake") \/ At("count") => (BootOK => (Booting =>
                 finished' <= Cardinality({q \in APs : pc'[q] = "parked"})))
           /\ phase = "os" => toFinish' + Cardinality({q \in APs : pc'[q] = "gone"}) = N
<1>0. TypeOK /\ CountOK /\ BootOK /\ LeaveOK
    BY DEF IInv
<1>1. /\ UNCHANGED <<todo, stop, phase, function, group, event, over, by, owed>>
      /\ \A q \in APs : q # p => pc'[q] = pc[q]
      /\ finished' = IF pc[p] = "count" THEN finished + 1 ELSE finished
      /\ toFinish' = IF pc'[p] = "gone" THEN toFinish - 1 ELSE toFinish
    BY DEF ApMoves, Same
<1>2. /\ pc'[p] = "parked" <=> pc[p] = "count"
      /\ pc[p] # "parked" /\ pc[p] # "gone"
      /\ pc'[p] = "gone" => phase = "os"
      /\ pc'[p] = "gone" \/ pc'[p] = "hung" \/ pc'[p] = "parked"
            \/ pc'[p] \in Early \union {"finish", "release", "count"}
    BY ApGoes
<1>3. p \in Flying
    BY ApPlaces DEF ApMoves
<1>4. (\A d : At(d)' <=> At(d)) /\ finished \in Nat /\ N \in Nat /\ toFinish \in 0 .. N
    BY <1>0, <1>1, SameTop, MpAssumption DEF TypeOK
<1> DEFINE F == Cardinality(Flying)
           F1 == Cardinality(Flying')
           P == {q \in APs : pc[q] = "parked"}
           P1 == {q \in APs : pc'[q] = "parked"}
           G == {q \in APs : pc[q] = "gone"}
           G1 == {q \in APs : pc'[q] = "gone"}
<1>5. F \in Nat /\ F1 \in Nat /\ (pc[p] = "count" => F1 = F - 1) /\ F1 <= F
    <2>1. CASE pc'[p] \in {"gone", "hung", "parked"}
        <3>1. Flying' = Flying \ {p}
            BY <1>1, <2>1 DEF Flying
        <3>2. F1 = F - 1 /\ F \in Nat /\ F1 \in Nat
            BY <1>3, <3>1, Finite, OneMore DEF Flying
        <3> HIDE DEF F, F1
        <3> QED BY <3>2
    <2>2. CASE pc'[p] \notin {"gone", "hung", "parked"}
        <3>1. Flying' = Flying
            BY <1>1, <1>2, <1>3, <2>2 DEF Flying, Early
        <3>2. F1 = F /\ F \in Nat
            BY <3>1, Finite DEF Flying
        <3> HIDE DEF F, F1
        <3> QED BY <1>2, <2>2, <3>2
    <2> QED BY <2>1, <2>2
<1>6. CountOK'
    <2>1. /\ finished + F <= 2 * N
          /\ At("ready") \/ At("init") => finished + F <= N
        BY <1>0 DEF CountOK
    <2>2. finished' + F1 <= finished + F
        <3> HIDE DEF F, F1
        <3> QED BY <1>1, <1>4, <1>5
    <2>3. /\ finished' + F1 <= 2 * N
          /\ At("ready")' \/ At("init")' => finished' + F1 <= N
        <3> HIDE DEF F, F1
        <3> QED BY <1>1, <1>4, <1>5, <2>1, <2>2
    <2> QED BY <2>3 DEF CountOK
<1>7. finished' \in 0 .. 2 * N
    <2>1. finished' + F1 <= 2 * N
        BY <1>6 DEF CountOK
    <2> HIDE DEF F1
    <2> QED BY <1>1, <1>4, <1>5, <2>1
<1>8. At("awake") \/ At("count") => (Booting => finished' <= Cardinality(P1))
    <2> SUFFICES ASSUME At("awake") \/ At("count"), Booting PROVE finished' <= Cardinality(P1)
        OBVIOUS
    <2>1. finished <= Cardinality(P) /\ Cardinality(P) \in Nat
        BY <1>0, Finite DEF BootOK
    <2>2. CASE pc[p] = "count"
        <3>1. P1 = P \union {p} /\ p \notin P
            BY <1>1, <1>2, <2>2
        <3>2. Cardinality(P1) = Cardinality(P) + 1
            BY <3>1, OneMore
        <3> DEFINE n == Cardinality(P)
        <3>3. Cardinality(P1) = n + 1 /\ finished <= n /\ n \in Nat
            BY <2>1, <3>2
        <3> HIDE DEF n, P1
        <3> QED BY <1>1, <1>4, <2>2, <3>3
    <2>3. CASE pc[p] # "count"
        <3>1. P1 = P
            BY <1>1, <1>2, <2>3
        <3> QED BY <1>1, <2>1, <2>3, <3>1
    <2> QED BY <2>2, <2>3
<1>9. toFinish' \in 0 .. N /\ (phase = "os" => toFinish' + Cardinality(G1) = N)
    <2>1. phase = "os" => toFinish + Cardinality(G) = N
        BY <1>0 DEF LeaveOK
    <2>2. CASE pc'[p] = "gone"
        <3>1. G1 = G \union {p} /\ p \notin G
            BY <1>1, <1>2, <2>2
        <3>2. Cardinality(G1) = Cardinality(G) + 1
            BY <3>1, OneMore
        <3>3. Cardinality(G1) <= N /\ Cardinality(G) \in Nat
            BY Finite
        <3> DEFINE n == Cardinality(G)
        <3>4. Cardinality(G1) = n + 1 /\ n + 1 <= N /\ n \in Nat /\ toFinish + n = N
            BY <1>2, <2>1, <2>2, <3>2, <3>3
        <3> HIDE DEF n, G1
        <3> QED BY <1>1, <1>4, <2>2, <3>4
    <2>3. CASE pc'[p] # "gone"
        <3>1. G1 = G
            BY <1>1, <1>2, <2>3
        <3> QED BY <1>1, <1>4, <2>1, <2>3, <3>1
    <2> QED BY <2>2, <2>3
<1>10. TypeOK'
    BY <1>0, <1>1, <1>7, <1>9 DEF TypeOK, ApMoves
<1> QED BY <1>6, <1>8, <1>9, <1>10

\* Each step of an AP keeps the invariant, whatever the BSP is at.
LEMMA ApStepKeeps == ASSUME IInv, NEW p \in APs, ApStep(p) PROVE IInv'
<1>0. /\ Program(todo) /\ PhaseOK /\ TypeOK /\ BootOK /\ LeaveOK /\ WorkOK /\ ResetOK
      /\ CallsOK /\ GroupOK /\ \A q \in APs : PlaceOK(q)
    BY DEF IInv
<1>1. /\ ApMoves(p) /\ Moves(p)
      /\ UNCHANGED <<todo, stop, phase, function, group, event, over, by, owed>>
      /\ \A q \in APs : q # p => Same(q)
      /\ finished' = IF pc[p] = "count" THEN finished + 1 ELSE finished
    BY ApStepMoves DEF ApMoves
<1>2. /\ Top' = Top /\ (\A d : At(d)' <=> At(d)) /\ (\A x : Doing(x)' <=> Doing(x))
      /\ \A q : /\ ToReady(q)' <=> ToReady(q)
                /\ ToInit(q)' <=> ToInit(q)
                /\ Fresh(q)' <=> Fresh(q)
                /\ Live(q)' <=> Live(q)
      /\ Booting' <=> Booting
      /\ Working' <=> Working
      /\ Resetting' <=> Resetting
      /\ Reclaiming' <=> Reclaiming
      /\ Ending' = Ending
    BY <1>1, SameTop
<1>3. /\ phase # "off" /\ (pc[p] # "count" => ~ToReady(p) /\ ~ToInit(p))
      /\ BootPlace(p) \/ LeavePlace(p) \/ RestPlace(p) \/ LivePlace(p) \/ ResetPlace(p)
    BY <1>1, ApPlaces
<1>4. /\ pc'[p] # "pei" /\ (pc'[p] = "parked" <=> pc[p] = "count")
      /\ pc[p] # "parked" /\ pc[p] # "gone"
      /\ pc'[p] \in Early => pc[p] \in Early
      /\ pc'[p] = "hung" => LivePlace(p)
      /\ ran'[p] # "bad" /\ (~LivePlace(p) => ran'[p] = ran[p])
      /\ state'[p] = state[p]
            \/ (state[p] \in {"ready", "busy"} /\ state'[p] \in {"busy", "finished"})
      /\ pc[p] = "count" => state'[p] = state[p] /\ signal'[p] = signal[p]
                             /\ ran'[p] = ran[p] /\ pc'[p] = "parked"
      /\ LeavePlace(p) /\ pc[p] # "count" => pc'[p] \in Early \union {"gone"}
      /\ PlaceOK(p)'
    BY <1>1, ApGoes
<1>5. CountOK' /\ TypeOK'
    BY <1>1, ApCounts
<1>6. Program(todo') /\ PhaseOK'
    BY <1>0, <1>1, <1>2 DEF PhaseOK
<1>7. \A q \in APs : PlaceOK(q)'
    <2> TAKE q \in APs
    <2>1. CASE q = p
        BY <1>4, <2>1
    <2>2. CASE q # p
        <3>1. PlaceOK(q) /\ Same(q) /\ function'[q] = function[q]
            BY <1>0, <1>1, <2>2
        <3> QED BY <1>1, <1>2, <3>1 DEF PlaceOK, Same
    <2> QED BY <2>1, <2>2
<1>8. BootOK'
    <2> SUFFICES ASSUME Booting PROVE BootOK'
        BY <1>2 DEF BootOK
    <2>1. BootPlace(p)
        BY <1>3 DEF LeavePlace, RestPlace, LivePlace, ResetPlace
    <2>2. (At("awake") \/ At("count")) /\ ~At("zero") /\ ~At("ready") /\ ~At("init") /\ ~At("idle")
        BY <2>1 DEF BootPlace, At
    <2>3. finished' <= Cardinality({q \in APs : pc'[q] = "parked"})
        BY <1>0, <1>1, <2>2, ApCounts
    <2>4. \A q \in APs : pc'[q] \notin {"pei", "hung"} /\ (pc'[q] \in Early => function[q] = "sync")
        <3> TAKE q \in APs
        <3>1. CASE q = p
            BY <1>4, <2>1, <3>1 DEF BootPlace, LivePlace
        <3>2. CASE q # p
            BY <1>0, <1>1, <2>2, <3>2 DEF BootOK, Same, Early
        <3> QED BY <3>1, <3>2
    <2> QED BY <1>0, <1>1, <1>2, <1>3, <2>2, <2>3, <2>4 DEF BootOK, Early
<1>9. LeaveOK'
    <2> SUFFICES ASSUME phase = "os" PROVE LeaveOK'
        BY <1>1 DEF LeaveOK
    <2>1. LeavePlace(p)
        BY <1>3 DEF BootPlace, RestPlace, LivePlace, ResetPlace, Working
    <2>2. toFinish' + Cardinality({q \in APs : pc'[q] = "gone"}) = N
        BY <1>1, ApCounts
    <2>3. \A q \in APs :
             /\ ToReady(q) => pc'[q] \in {"parked", "count"} /\ state'[q] \in {"idle", "disabled"}
             /\ ToInit(q) => pc'[q] \in {"parked", "count"}
             /\ ~ToReady(q) /\ ~ToInit(q) =>
                   /\ pc'[q] \in {"start", "check", "busy", "locked", "run", "gone"}
                   /\ pc'[q] # "gone" => function[q] = "relocate"
        <3> TAKE q \in APs
        <3>1. CASE q = p
            <4>1. CASE pc[p] = "count"
                BY <1>0, <1>4, <3>1, <4>1 DEF LeaveOK
            <4>2. CASE pc[p] # "count"
                BY <1>3, <1>4, <2>1, <3>1, <4>2 DEF LeavePlace, Early
            <4> QED BY <4>1, <4>2
        <3>2. CASE q # p
            BY <1>0, <1>1, <3>2 DEF LeaveOK, Same
        <3> QED BY <3>1, <3>2
    <2> QED BY <1>0, <1>1, <1>2, <2>2, <2>3 DEF LeaveOK
<1>10. \A q \in APs : state'[q] = "disabled" <=> state[q] = "disabled"
    BY <1>1, <1>4 DEF Same
<1>11. CallsOK'
    BY <1>0, <1>1, <1>2, <1>10 DEF CallsOK
<1>12. GroupOK'
    <2>1. \A q \in APs : state[q] = "idle" /\ ran[q] = "yes" => state'[q] = "idle" /\ ran'[q] = "yes"
        <3> TAKE q \in APs
        <3>1. CASE q = p
            <4>1. state[p] = "idle" => pc[p] = "count"
                BY <1>0, <1>1 DEF PlaceOK, Moves
            <4> QED BY <1>4, <3>1, <4>1
        <3>2. CASE q # p
            BY <1>1, <3>2 DEF Same
        <3> QED BY <3>1, <3>2
    <2> QED BY <1>0, <1>1, <1>2, <2>1 DEF GroupOK
<1>13. Live(p) => LiveOK(p)'
    <2> SUFFICES ASSUME Live(p) PROVE LiveOK(p)'
        OBVIOUS
    <2>1. CASE pc[p] = "count"
        <3>1. LiveOK(p) \/ ~Working
            BY <1>0 DEF WorkOK
        <3>2. Working
            BY <1>3 DEF BootPlace, LeavePlace, RestPlace, LivePlace, ResetPlace, Live
        <3>3. function'[p] = function[p] /\ group' = group /\ by' = by
            BY <1>1
        <3> QED BY <1>2, <1>4, <2>1, <3>1, <3>2, <3>3 DEF LiveOK
    <2>2. CASE pc[p] # "count"
        <3>1. LiveOK(p) /\ by[p] # Nobody /\ ~ToReady(p) /\ ~ToInit(p)
            BY <1>3, <2>2 DEF BootPlace, LeavePlace, RestPlace, LivePlace, ResetPlace, Live
        <3>2. function'[p] = function[p] /\ group' = group /\ by' = by
            BY <1>1
        <3>3. PlaceOK(p)
            BY <1>0
        <3> QED BY <1>1, <1>2, <2>2, <3>1, <3>2, <3>3 DEF LiveOK, Moves, To, PlaceOK, RanThen
    <2> QED BY <2>1, <2>2
<1>14. Working /\ Resetting /\ by[p] = Ending => EndingOK(p)'
    <2> SUFFICES ASSUME Working, Resetting, by[p] = Ending PROVE EndingOK(p)'
        OBVIOUS
    <2>1. EndingOK(p) /\ Ending # Nobody
        BY <1>0 DEF WorkOK, ResetOK
    <2>2. ResetPlace(p) /\ ~LivePlace(p)
        BY <1>3, <2>1 DEF BootPlace, LeavePlace, RestPlace, LivePlace, Live, ResetPlace, Working
    <2>3. ~At("zero") /\ ~At("ready") /\ ~At("init") /\ ~At("idle")
        BY <2>2 DEF ResetPlace, At
    <2>4. p \notin group.waiting /\ p = Top.p /\ Doing("null")
        BY <2>1, <2>2 DEF ResetPlace, EndingOK
    <2>5. /\ pc'[p] \in {"start", "check", "finish", "release", "count", "parked"}
          /\ pc'[p] \in {"start", "check"} => function[p] = "null"
        BY <1>1, <2>2 DEF ResetPlace, Moves, To
    <2> QED BY <1>1, <1>2, <2>3, <2>4, <2>5 DEF EndingOK
<1>15. Working => (by[p] = Nobody => RestOK(p)')
    <2> SUFFICES ASSUME Working, by[p] = Nobody PROVE RestOK(p)'
        OBVIOUS
    <2>1. pc[p] = "count" /\ RestOK(p)
        BY <1>0, <1>3 DEF BootPlace, LeavePlace, RestPlace, LivePlace, Live, ResetPlace, Working,
                          Booting, WorkOK
    <2> QED BY <1>2, <1>4, <2>1 DEF RestOK
<1>16. WorkOK'
    <2> SUFFICES ASSUME Working PROVE WorkOK'
        BY <1>2 DEF WorkOK
    <2>1. \A q \in APs :
             /\ by'[q] = Nobody => RestOK(q)'
             /\ Live(q)' => LiveOK(q)'
             /\ Resetting' /\ by'[q] = Ending' => EndingOK(q)'
        <3> TAKE q \in APs
        <3>1. CASE q = p
            BY <1>1, <1>2, <1>13, <1>14, <1>15, <3>1
        <3>2. CASE q # p
            <4>1. Same(q) /\ function'[q] = function[q] /\ group' = group /\ by' = by
                BY <1>1, <3>2
            <4>2. by'[q] = Nobody => RestOK(q)'
                BY <1>0, <1>2, <4>1 DEF WorkOK, RestOK, Same
            <4>3. Live(q)' => LiveOK(q)'
                <5> HAVE Live(q)'
                <5>1. LiveOK(q)
                    BY <1>0, <1>2 DEF WorkOK
                <5> QED BY <1>2, <4>1, <5>1 DEF LiveOK, Same
            <4>4. Resetting' /\ by'[q] = Ending' => EndingOK(q)'
                <5> HAVE Resetting' /\ by'[q] = Ending'
                <5>1. EndingOK(q)
                    BY <1>0, <1>2, <4>1 DEF WorkOK
                <5> QED BY <1>2, <4>1, <5>1 DEF EndingOK, Same
            <4> QED BY <4>2, <4>3, <4>4
        <3> QED BY <3>1, <3>2
    <2>2. \A q \in APs :
             /\ ToReady(q)' \/ ToInit(q)' => by'[q] # Nobody
             /\ (ToReady(q)' \/ ToInit(q)') /\ by'[q] = All /\ Doing("proc")' => q \in group'.waiting
        BY <1>0, <1>1, <1>2 DEF WorkOK
    <2>3. \A q \in APs :
             /\ ToReady(q)' /\ Doing("proc")' =>
                   state'[q] = "idle" /\ pc'[q] \in {"parked", "count"} /\ Turn(q)'
             /\ ToInit(q)' /\ Doing("proc")' => pc'[q] \in {"parked", "count"}
        <3> TAKE q \in APs
        <3>1. CASE q = p
            BY <1>0, <1>1, <1>2, <1>3, <1>4, <3>1 DEF WorkOK, Turn
        <3>2. CASE q # p
            BY <1>0, <1>1, <1>2, <3>2 DEF WorkOK, Same, Turn
        <3> QED BY <3>1, <3>2
    <2> QED BY <2>1, <2>2, <2>3 DEF WorkOK
<1>17. ResetOK'
    <2>1. Resetting => p = Top.p /\ Doing("null") /\ pc[p] \notin {"parked", "hung"}
        <3>1. pc[p] \notin {"parked", "hung"}
            BY <1>1 DEF Moves
        <3> QED BY <1>0, <3>1 DEF ResetOK
    <2>2. Doing("null") => Resetting
        BY DEF Resetting
    <2>3. Resetting => ResetPlace(p)
        <3> HAVE Resetting
        <3>1. Ending = by[p] /\ by[p] # Nobody /\ phase = "boot" /\ Working
            <4>1. Ending = by[p] /\ by[p] # Nobody
                BY <1>0, <2>1 DEF Ending, Doing, ResetOK
            <4> QED BY <1>3, <4>1 DEF BootPlace, LeavePlace, RestPlace, LivePlace, ResetPlace,
                                      Working, Booting, Live
        <3> QED BY <1>3, <3>1 DEF BootPlace, LeavePlace, RestPlace, LivePlace, ResetPlace, Working, Live
    <2>4. Doing("null") => ~At("ready") /\ ~At("init")
        BY <2>2, <2>3 DEF ResetPlace, At
    <2>5. Doing("null") /\ (At("awake") \/ At("count")) =>
             finished' = 0 \/ (finished' = 1 /\ pc'[Top.p] = "parked")
        <3> HAVE Doing("null") /\ (At("awake") \/ At("count"))
        <3>1. p = Top.p /\ finished = 0
            BY <1>0, <1>4, <2>1, <2>2 DEF ResetOK
        <3> QED BY <1>1, <1>4, <3>1
    <2>6. \A q \in APs : Resetting =>
             pc'[q] \in {"parked", "hung"} \/ (Doing("null") /\ q = Top.p)
        <3> TAKE q \in APs
        <3> HAVE Resetting
        <3>1. CASE q = p
            BY <2>1, <3>1
        <3>2. CASE q # p
            BY <1>0, <1>1, <3>2 DEF ResetOK, Same
        <3> QED BY <3>1, <3>2
    <2> QED BY <1>0, <1>1, <1>2, <2>4, <2>5, <2>6 DEF ResetOK
<1> QED BY <1>5, <1>6, <1>7, <1>8, <1>9, <1>11, <1>12, <1>16, <1>17 DEF IInv

-----------------------------------------------------------------------------
(***************************************************************************)
(* The wake-ups.                                                           *)
(***************************************************************************)
\* A step within a wake-up
LEMMA WakeOn ==
    ASSUME IInv, todo # << >>, Top.do \in Wakes, Do(<< >>),
           UNCHANGED <<event, over, by, owed>>,
           \A p \in APs : state'[p] = "disabled" => state[p] = "disabled",
           todo' # << >>, Top'.do \in Wakes, Top'.p = Top.p, Top'.x = Top.x
    PROVE  /\ Program(todo') /\ PhaseOK' /\ CallsOK' /\ UNCHANGED <<stop, phase>> /\ phase # "off"
           /\ (\A x : Doing(x)' <=> Doing(x))
           /\ Booting' <=> Booting
           /\ Working' <=> Working
           /\ Resetting' <=> Resetting
           /\ Ending' = Ending
           /\ Reclaiming' <=> Reclaiming
           /\ Resetting <=> Doing("null")
           /\ ~At("look") /\ ~At("decide")
           /\ \A q : Live(q)' <=> Live(q)
           /\ \A a \in Items(todo') : a.do \in {"reclaim", "report"} =>
                 Resetting' /\ a.p = Ending'
<1>0. Program(todo) /\ PhaseOK /\ CallsOK /\ ResetOK
    BY DEF IInv
<1>1. Kept({}) /\ UNCHANGED <<stop, phase>>
    BY <1>0, WakeNext
<1>2. \A x : Doing(x)' <=> Doing(x)
    BY DEF Doing
<1>3. PhaseOK' /\ phase # "off"
    BY <1>0, <1>1, <1>2, PhaseKept DEF PhaseOK
<1>4. Top.do \notin Checks \union {"tell", "forget"} /\ Top'.do \notin {"tell", "forget"}
    BY DEF Wakes, Checks
<1>5. CallsOK'
    BY <1>0, <1>1, <1>4, CallsKept
<1>6. /\ ~At("reclaim") /\ ~At("report") /\ ~At("reclaim")' /\ ~At("report")'
      /\ ~At("look") /\ ~At("decide")
    BY DEF At, Wakes
<1>7. (Booting' <=> Booting) /\ (Working' <=> Working)
    BY <1>1, <1>2 DEF Booting, Working
<1>8. (Resetting' <=> Resetting) /\ Ending' = Ending /\ (Resetting <=> Doing("null"))
    BY <1>2, <1>6 DEF Resetting, Ending
<1>9. (Reclaiming' <=> Reclaiming) /\ \A q : Live(q)' <=> Live(q)
    BY <1>8 DEF Reclaiming, Live
<1>10. \A a \in Items(todo') : a.do \in {"reclaim", "report"} => Resetting' /\ a.p = Ending'
    <2> TAKE a \in Items(todo')
    <2>1. a.do \in Harmless \/ a \in Items(todo)
        BY <1>1 DEF Kept
    <2>2. a.do \in {"reclaim", "report"} => a \in Items(todo)
        BY <2>1 DEF Harmless, Wakes
    <2> QED BY <1>0, <1>8, <2>2 DEF ResetOK
<1> QED BY <1>1, <1>2, <1>3, <1>5, <1>6, <1>7, <1>8, <1>9, <1>10 DEF Kept

\* What a wake-up is for
LEMMA WakesWhat ==
    ASSUME IInv, todo # << >>, Top.do \in Wakes
    PROVE  /\ Top \in Steps /\ WellFormed(Top) /\ Top.p \in 0 .. N /\ Top.x \in Kinds
           /\ phase # "off"
           /\ Booting <=> Top.x = "sync"
           /\ phase = "os" <=> Top.x = "relocate"
           /\ Working <=> Top.x \in {"proc", "null"}
           /\ Top.x = "null" => Top.p \in APs /\ by[Top.p] = Ending /\ Ending # Nobody
           /\ Top.x = "proc" => ~Resetting
           /\ Top.p = All \/ (Top.p \in APs /\ Top.i = Top.p)
           /\ Top.x \in {"sync", "relocate"} => Top.p = All /\ \A p \in APs : by[p] = Nobody
<1>0. Program(todo) /\ PhaseOK /\ TypeOK /\ BootOK /\ LeaveOK /\ ResetOK
    BY DEF IInv
<1>1. Top \in Steps /\ WellFormed(Top)
    BY <1>0, TopIs
<1>2. /\ Top.p \in 0 .. N /\ Top.x \in Kinds
      /\ Top.p # All => Top.i = Top.p /\ Top.x \in {"proc", "null"}
      /\ Top.p = All => Top.x # "null"
    BY <1>1 DEF WellFormed
<1>3. phase # "off"
    BY <1>0 DEF PhaseOK
<1>4. phase = "os" <=> Top.x = "relocate"
    BY <1>0, <1>3 DEF PhaseOK, Doing, TypeOK
<1>5. Booting <=> Top.x = "sync"
    BY <1>3 DEF Booting, Doing
<1>6. Working <=> Top.x \in {"proc", "null"}
    BY <1>0, <1>2, <1>3, <1>4 DEF Working, Doing, Kinds, TypeOK
<1>7. Top.p = All \/ Top.p \in APs
    BY <1>2, Bounds DEF APs, All
<1>8. Top.x = "null" => by[Top.p] = Ending /\ Ending # Nobody
    BY <1>0 DEF Ending, ResetOK, Resetting, Doing
<1>9. Top.x = "proc" => ~Resetting
    BY DEF Resetting, At, Doing, Wakes
<1>10. Top.x \in {"sync", "relocate"} => \A p \in APs : by[p] = Nobody
    BY <1>0, <1>4, <1>5 DEF BootOK, LeaveOK
<1> QED BY <1>1, <1>2, <1>3, <1>4, <1>5, <1>6, <1>7, <1>8, <1>9, <1>10

\* FinishedCount is set to 0 at the start of a wake-up.
LEMMA ZeroKeeps == ASSUME IInv, Zero PROVE IInv'
<1>0. /\ Program(todo) /\ PhaseOK /\ TypeOK /\ BootOK /\ LeaveOK /\ WorkOK /\ ResetOK
      /\ CountOK /\ GroupOK /\ \A q \in APs : PlaceOK(q)
    BY DEF IInv
<1>1. /\ todo # << >> /\ Top.do = "zero" /\ Top.do \in Wakes /\ Do(<< >>) /\ finished' = 0
      /\ UNCHANGED <<pc, procedure, lock, state, function, signal, toFinish>>
      /\ UNCHANGED <<group, event, over, by, ran, owed>>
    BY DEF Zero, At, Wakes, callVars, history
<1>2. todo' # << >> /\ Top' = Cell("ready", Top.p, First(Top), Top.x)
    BY <1>0, <1>1, WakeNext DEF WakeThen
<1>3. Top'.do = "ready" /\ Top'.p = Top.p /\ Top'.x = Top.x /\ Top'.i = First(Top)
      /\ \A e : At(e)' <=> e = "ready"
    BY <1>2, CellTop
<1>4. Top'.do \in Wakes /\ \A e : At(e) <=> e = "zero"
    BY <1>1, <1>3 DEF Wakes, At
<1>5. /\ Program(todo') /\ PhaseOK' /\ CallsOK' /\ UNCHANGED <<stop, phase>> /\ phase # "off"
      /\ (\A x : Doing(x)' <=> Doing(x))
      /\ Booting' <=> Booting
      /\ Working' <=> Working
      /\ Resetting' <=> Resetting
      /\ Ending' = Ending
      /\ Reclaiming' <=> Reclaiming
      /\ Resetting <=> Doing("null")
      /\ ~At("look") /\ ~At("decide")
      /\ \A q : Live(q)' <=> Live(q)
      /\ \A a \in Items(todo') : a.do \in {"reclaim", "report"} => Resetting' /\ a.p = Ending'
    BY <1>1, <1>2, <1>3, <1>4, WakeOn
<1>6. \A q \in APs : (ToReady(q)' <=> ToReady(q)) /\ ~ToInit(q)' /\ ~ToInit(q)
    <2> TAKE q \in APs
    <2>1. Top.p \in 0 .. N
        BY <1>1, WakesWhat
    <2>2. Wakes1(q) => q >= First(Top) /\ ~(q < First(Top))
        BY <2>1, Bounds DEF Wakes1, First, All
    <2> QED BY <1>3, <1>4, <2>2 DEF ToReady, ToInit, Wakes1
<1>7. TypeOK'
    BY <1>0, <1>1, <1>5, Bounds DEF TypeOK
<1>8. CountOK'
    <2>1. Flying' = Flying
        BY <1>1 DEF Flying
    <2> DEFINE F == Cardinality(Flying)
    <2>2. F <= N /\ F \in Nat
        BY Finite DEF Flying
    <2>3. 0 + F <= N /\ 0 + F <= 2 * N
        <3> HIDE DEF F
        <3> QED BY <2>2, Bounds
    <2> QED BY <1>1, <2>1, <2>3 DEF CountOK
<1>9. \A q \in APs : PlaceOK(q)'
    <2> TAKE q \in APs
    <2>1. PlaceOK(q)
        BY <1>0
    <2> QED BY <1>1, <1>5, <1>6, <2>1 DEF PlaceOK
<1>10. BootOK'
    BY <1>0, <1>1, <1>3, <1>4, <1>5, <1>6 DEF BootOK
<1>11. LeaveOK'
    BY <1>0, <1>1, <1>5, <1>6 DEF LeaveOK
<1>12. GroupOK'
    BY <1>0, <1>1, <1>5 DEF GroupOK
<1>13. \A q \in APs : Fresh(q)' <=> Fresh(q)
    BY <1>1, <1>6 DEF Fresh, Turn
<1>14. WorkOK'
    <2> SUFFICES ASSUME Working PROVE WorkOK'
        BY <1>5 DEF WorkOK
    <2>1. \A q \in APs :
             /\ by'[q] = Nobody => RestOK(q)'
             /\ Live(q)' => LiveOK(q)'
             /\ Resetting' /\ by'[q] = Ending' => EndingOK(q)'
        <3> TAKE q \in APs
        <3>1. by'[q] = Nobody => RestOK(q)'
            BY <1>0, <1>1, <1>6 DEF WorkOK, RestOK
        <3>2. Live(q)' => LiveOK(q)'
            <4> HAVE Live(q)'
            <4>1. LiveOK(q)
                BY <1>0, <1>5 DEF WorkOK
            <4> QED BY <1>1, <1>6, <1>13, <4>1 DEF LiveOK
        <3>3. Resetting' /\ by'[q] = Ending' => EndingOK(q)'
            <4> HAVE Resetting' /\ by'[q] = Ending'
            <4>1. EndingOK(q)
                BY <1>0, <1>1, <1>5 DEF WorkOK
            <4> QED BY <1>1, <1>3, <1>4, <1>5, <1>6, <4>1 DEF EndingOK
        <3> QED BY <3>1, <3>2, <3>3
    <2>2. \A q \in APs :
             /\ ToReady(q)' \/ ToInit(q)' => by'[q] # Nobody
             /\ (ToReady(q)' \/ ToInit(q)') /\ by'[q] = All /\ Doing("proc")' => q \in group'.waiting
             /\ ToReady(q)' /\ Doing("proc")' =>
                   state'[q] = "idle" /\ pc'[q] \in {"parked", "count"} /\ Turn(q)'
             /\ ToInit(q)' /\ Doing("proc")' => pc'[q] \in {"parked", "count"}
        BY <1>0, <1>1, <1>5, <1>6 DEF WorkOK, Turn
    <2> QED BY <2>1, <2>2 DEF WorkOK
<1>15. ResetOK'
    BY <1>0, <1>1, <1>3, <1>5 DEF ResetOK
<1> QED BY <1>5, <1>7, <1>8, <1>9, <1>10, <1>11, <1>12, <1>14, <1>15 DEF IInv

\* Who is marked, and who is to be started, after one more is marked
LEMMA ReadyViews ==
    ASSUME IInv, Ready
    PROVE  /\ todo # << >> /\ Top.do = "ready" /\ Top.i \in APs /\ todo' # << >>
           /\ Top'.do \in {"ready", "init"} /\ Top'.p = Top.p /\ Top'.x = Top.x
           /\ ToReady(Top.i) /\ (Top.p # All => Top.p = Top.i /\ Top'.do = "init")
           /\ \A q \in APs : /\ ToReady(q)' <=> ToReady(q) /\ q # Top.i
                             /\ ToInit(q)' <=> ToInit(q) \/ q = Top.i
<1>0. Program(todo)
    BY DEF IInv
<1>1. todo # << >> /\ Top.do = "ready" /\ Top.do \in Wakes /\ Do(<< >>)
    BY DEF Ready, At, Wakes
<1>2. WakeThen /\ Top.p \in 0 .. N /\ WellFormed(Top)
    BY <1>0, <1>1, WakeNext, WakesWhat
<1>3. Top.i \in APs /\ (Top.p # All => Top.p = Top.i)
    BY <1>1, <1>2, Bounds DEF WellFormed, APs, All, Wakes
<1>4. Wakes1(Top.i) /\ ToReady(Top.i)
    BY <1>1, <1>3, Bounds DEF Wakes1, ToReady, At, APs
<1>5. CASE Repeats
    <2>1. /\ todo' # << >> /\ Top' = Cell("ready", All, Top.i + 1, Top.x)
          /\ Top.p = All /\ Top.i \in 1 .. N - 1
        BY <1>1, <1>2, <1>5 DEF WakeThen, Repeats
    <2>2. Top'.do = "ready" /\ Top'.p = All /\ Top'.i = Top.i + 1 /\ Top'.x = Top.x
          /\ \A e : At(e)' <=> e = "ready"
        BY <2>1, CellTop
    <2>3. \A q \in APs : (ToReady(q)' <=> q >= Top.i + 1) /\ (ToInit(q)' <=> q < Top.i + 1)
        BY <2>2 DEF ToReady, ToInit, Wakes1
    <2>4. \A q \in APs : (ToReady(q) <=> q >= Top.i) /\ (ToInit(q) <=> q < Top.i)
        BY <1>1, <2>1 DEF ToReady, ToInit, Wakes1, At
    <2>5. \A q \in APs : (q >= Top.i + 1 <=> q >= Top.i /\ q # Top.i)
                         /\ (q < Top.i + 1 <=> q < Top.i \/ q = Top.i)
        BY <1>3, Bounds DEF APs
    <2> QED BY <1>1, <1>3, <1>4, <2>1, <2>2, <2>3, <2>4, <2>5
<1>6. CASE ~Repeats
    <2>1. todo' # << >> /\ Top' = Cell("init", Top.p, Top.p, Top.x)
        BY <1>1, <1>2, <1>6 DEF WakeThen
    <2>2. Top'.do = "init" /\ Top'.p = Top.p /\ Top'.x = Top.x
          /\ \A e : At(e)' <=> e = "init"
        BY <2>1, CellTop
    <2>3. \A q \in APs : ~ToReady(q)' /\ (ToInit(q)' <=> Wakes1(q))
        BY <2>2 DEF ToReady, ToInit, Wakes1
    <2>4. \A q \in APs : /\ ToReady(q) <=> Wakes1(q) /\ q >= Top.i
                         /\ ToInit(q) <=> Wakes1(q) /\ q < Top.i
        BY <1>1 DEF ToReady, ToInit, At
    <2>5. Top.p = All => Top.i = N
        BY <1>3, <1>6, Bounds DEF Repeats, APs
    <2>6. \A q \in APs : Wakes1(q) => (q >= Top.i <=> q = Top.i) /\ (q < Top.i <=> q # Top.i)
        BY <1>3, <2>5, Bounds DEF Wakes1, APs
    <2> QED BY <1>1, <1>3, <1>4, <2>1, <2>2, <2>3, <2>4, <2>6
<1> QED BY <1>5, <1>6

\* An AP is marked with a procedure.
LEMMA ReadyKeeps == ASSUME IInv, Ready PROVE IInv'
<1>a. PICK i \in APs : i = Top.i
    BY ReadyViews
<1>0. /\ Program(todo) /\ PhaseOK /\ TypeOK /\ BootOK /\ LeaveOK /\ WorkOK /\ ResetOK
      /\ CountOK /\ GroupOK /\ CallsOK /\ \A q \in APs : PlaceOK(q)
    BY DEF IInv
<1>1. /\ todo # << >> /\ Top.do = "ready" /\ i \in APs /\ todo' # << >>
      /\ Top'.do \in {"ready", "init"} /\ Top'.p = Top.p /\ Top'.x = Top.x
      /\ ToReady(i) /\ (Top.p # All => Top.p = i /\ Top'.do = "init")
      /\ \A q \in APs : /\ ToReady(q)' <=> ToReady(q) /\ q # i
                        /\ ToInit(q)' <=> ToInit(q) \/ q = i
    BY <1>a, ReadyViews
<1>2. /\ Do(<< >>) /\ ~lock[i] /\ state' = [state EXCEPT ![i] = "ready"]
      /\ function' = [function EXCEPT ![i] = Top.x]
      /\ signal' = [signal EXCEPT ![i] = TRUE]
      /\ UNCHANGED <<pc, procedure, lock, finished, toFinish, group, event, over, by, ran, owed>>
    BY <1>a DEF Ready, SetApState, callVars, history
<1>3. Top.do \in Wakes /\ Top'.do \in Wakes /\ (\A e : At(e) <=> e = "ready")
      /\ \A e : At(e)' => e \in {"ready", "init"}
    BY <1>1 DEF Wakes, At
<1>4. /\ Top.x \in Kinds /\ phase # "off"
      /\ Booting <=> Top.x = "sync"
      /\ phase = "os" <=> Top.x = "relocate"
      /\ Working <=> Top.x \in {"proc", "null"}
      /\ Top.x = "null" => Top.p \in APs /\ by[Top.p] = Ending /\ Ending # Nobody
      /\ Top.x = "proc" => ~Resetting
      /\ Top.x \in {"sync", "relocate"} => Top.p = All /\ \A p \in APs : by[p] = Nobody
    BY <1>1, <1>3, WakesWhat
<1>b. Top.x = "null" => Top.p = i /\ by[i] = Ending
    BY <1>1, <1>4, Bounds DEF APs, All
<1>5. /\ state'[i] = "ready" /\ function'[i] = Top.x /\ signal'[i] = TRUE
      /\ \A q \in APs : q # i =>
            state'[q] = state[q] /\ function'[q] = function[q] /\ signal'[q] = signal[q]
    BY <1>0, <1>1, <1>2 DEF TypeOK
<1>6. /\ Program(todo') /\ PhaseOK' /\ CallsOK' /\ UNCHANGED <<stop, phase>>
      /\ (\A x : Doing(x)' <=> Doing(x))
      /\ Booting' <=> Booting
      /\ Working' <=> Working
      /\ Resetting' <=> Resetting
      /\ Ending' = Ending
      /\ Reclaiming' <=> Reclaiming
      /\ Resetting <=> Doing("null")
      /\ ~At("look") /\ ~At("decide")
      /\ \A q : Live(q)' <=> Live(q)
      /\ \A a \in Items(todo') : a.do \in {"reclaim", "report"} => Resetting' /\ a.p = Ending'
    <2>1. \A p \in APs : state'[p] = "disabled" => state[p] = "disabled"
        BY <1>5
    <2> QED BY <1>1, <1>2, <1>3, <2>1, WakeOn
<1>7. TypeOK'
    BY <1>0, <1>1, <1>2, <1>4, <1>6 DEF TypeOK, Kinds
<1>8. CountOK'
    BY <1>0, <1>2, <1>3 DEF CountOK, Flying
<1>9. \A q \in APs : PlaceOK(q)'
    <2> TAKE q \in APs
    <2>1. CASE q = i
        <3>1. PlaceOK(i) /\ pc[i] \in {"pei", "parked", "count", "hung"}
            BY <1>0, <1>1 DEF PlaceOK
        <3>2. ToInit(i)' /\ ~ToReady(i)'
            BY <1>1
        <3> QED BY <1>1, <1>2, <1>5, <1>6, <2>1, <3>1, <3>2 DEF PlaceOK
    <2>2. CASE q # i
        <3>1. PlaceOK(q)
            BY <1>0
        <3>2. (ToReady(q)' <=> ToReady(q)) /\ (ToInit(q)' <=> ToInit(q))
            BY <1>1, <2>2
        <3> QED BY <1>1, <1>2, <1>5, <1>6, <2>2, <3>1, <3>2 DEF PlaceOK
    <2> QED BY <2>1, <2>2
<1>10. BootOK'
    <2> SUFFICES ASSUME Booting PROVE BootOK'
        BY <1>6 DEF BootOK
    <2>1. finished = 0 /\ \A p \in APs : pc[p] = "pei" /\ (ToReady(p) => state[p] = "idle")
        BY <1>0, <1>3 DEF BootOK
    <2>2. \A p \in APs : ToReady(p)' => state'[p] = "idle"
        BY <1>1, <1>5, <2>1
    <2> QED BY <1>0, <1>2, <1>3, <1>4, <1>6, <2>1, <2>2 DEF BootOK
<1>11. LeaveOK'
    <2> SUFFICES ASSUME phase = "os" PROVE LeaveOK'
        BY <1>6 DEF LeaveOK
    <2>1. \A p \in APs :
             /\ ToReady(p)' => pc[p] \in {"parked", "count"} /\ state'[p] \in {"idle", "disabled"}
             /\ ToInit(p)' => pc[p] \in {"parked", "count"}
             /\ ~ToReady(p)' /\ ~ToInit(p)' =>
                   /\ pc[p] \in {"start", "check", "busy", "locked", "run", "gone"}
                   /\ pc[p] # "gone" => function'[p] = "relocate"
        BY <1>0, <1>1, <1>5 DEF LeaveOK
    <2> QED BY <1>0, <1>2, <2>1 DEF LeaveOK
<1>12. GroupOK'
    <2>1. ~Reclaiming /\ by[i] = All => i \in group.waiting
        <3> HAVE ~Reclaiming /\ by[i] = All
        <3>1. Top.x = "proc"
            BY <1>1, <1>4, <1>b, <1>6 DEF Reclaiming, Doing, Kinds, Nobody, All
        <3> QED BY <1>0, <1>1, <1>4, <3>1 DEF WorkOK, Doing
    <2>2. ~Reclaiming => \A p \in APs : by[p] = All /\ p \notin group.waiting =>
             state'[p] = "idle" /\ ran[p] = "yes"
        BY <1>0, <1>5, <2>1 DEF GroupOK
    <2> QED BY <1>0, <1>2, <1>6, <2>2 DEF GroupOK
<1>13. \A q \in APs : q # i => (Fresh(q)' <=> Fresh(q))
    BY <1>1, <1>2 DEF Fresh, Turn
<1>14. WorkOK'
    <2> SUFFICES ASSUME Working PROVE WorkOK'
        BY <1>6 DEF WorkOK
    <2>0. by[i] # Nobody /\ Doing(Top.x)
        BY <1>0, <1>1 DEF WorkOK, Doing
    <2>1. by'[i] = Nobody => RestOK(i)'
        BY <1>2, <2>0
    <2>2. Live(i)' => LiveOK(i)'
        <3> HAVE Live(i)'
        <3>1. Live(i) /\ LiveOK(i)
            BY <1>0, <1>1, <1>6 DEF WorkOK
        <3>2. Top.x = "proc"
            BY <1>1, <1>4, <1>b, <1>6, <2>0, <3>1 DEF Live
        <3>3. state[i] = "idle" /\ pc[i] \in {"parked", "count"} /\ Turn(i)
              /\ (by[i] = All => i \in group.waiting)
            BY <1>0, <1>1, <2>0, <3>2 DEF WorkOK
        <3>4. by[i] = i \/ i \in group.waiting
            BY <1>0, <1>1, <2>0, <3>3 DEF CallsOK
        <3>5. ran[i] = "no"
            BY <3>1, <3>3, <3>4 DEF LiveOK
        <3>6. ~Fresh(i)'
            BY <1>1, <1>2, <3>3 DEF Fresh, Turn
        <3> QED BY <1>2, <1>5, <3>2, <3>3, <3>5, <3>6 DEF LiveOK
    <2>3. Resetting' /\ by'[i] = Ending' => EndingOK(i)'
        <3> HAVE Resetting' /\ by'[i] = Ending'
        <3>1. Doing("null") /\ Resetting /\ by[i] = Ending /\ Top.p = i
            BY <1>1, <1>2, <1>4, <1>b, <1>6 DEF Doing
        <3>2. EndingOK(i)
            BY <1>0, <1>1, <3>1 DEF WorkOK
        <3> QED BY <1>1, <1>2, <1>3, <1>6, <3>1, <3>2 DEF EndingOK
    <2>4. \A q \in APs : q # i =>
             /\ by'[q] = Nobody => RestOK(q)'
             /\ Live(q)' => LiveOK(q)'
             /\ Resetting' /\ by'[q] = Ending' => EndingOK(q)'
        <3> TAKE q \in APs
        <3> HAVE q # i
        <3>1. (ToReady(q)' <=> ToReady(q)) /\ (ToInit(q)' <=> ToInit(q)) /\ (Fresh(q)' <=> Fresh(q))
              /\ state'[q] = state[q] /\ function'[q] = function[q] /\ signal'[q] = signal[q]
            BY <1>1, <1>5, <1>13
        <3>2. by'[q] = Nobody => RestOK(q)'
            BY <1>0, <1>2, <3>1 DEF WorkOK, RestOK
        <3>3. Live(q)' => LiveOK(q)'
            <4> HAVE Live(q)'
            <4>1. LiveOK(q)
                BY <1>0, <1>6 DEF WorkOK
            <4> QED BY <1>2, <3>1, <4>1 DEF LiveOK
        <3>4. Resetting' /\ by'[q] = Ending' => EndingOK(q)'
            <4> HAVE Resetting' /\ by'[q] = Ending'
            <4>1. EndingOK(q) /\ Doing("null")
                BY <1>0, <1>2, <1>6 DEF WorkOK
            <4>2. Top.p = i
                BY <1>1, <1>4, <4>1 DEF Doing, All, APs
            <4> QED BY <1>1, <1>2, <3>1, <4>1, <4>2 DEF EndingOK
        <3> QED BY <3>2, <3>3, <3>4
    <2>5. \A q \in APs :
             /\ by'[q] = Nobody => RestOK(q)'
             /\ Live(q)' => LiveOK(q)'
             /\ Resetting' /\ by'[q] = Ending' => EndingOK(q)'
        BY <2>1, <2>2, <2>3, <2>4
    <2>6. \A q \in APs :
             /\ ToReady(q)' \/ ToInit(q)' => by'[q] # Nobody
             /\ (ToReady(q)' \/ ToInit(q)') /\ by'[q] = All /\ Doing("proc")' => q \in group'.waiting
             /\ ToReady(q)' /\ Doing("proc")' =>
                   state'[q] = "idle" /\ pc'[q] \in {"parked", "count"} /\ Turn(q)'
             /\ ToInit(q)' /\ Doing("proc")' => pc'[q] \in {"parked", "count"}
        BY <1>0, <1>1, <1>2, <1>5, <1>6 DEF WorkOK, Turn
    <2> QED BY <2>5, <2>6 DEF WorkOK
<1>15. ResetOK'
    <2>1. ~At("reclaim")' /\ ~At("report")' /\ ~At("awake")' /\ ~At("count")'
        BY <1>3
    <2> QED BY <1>0, <1>1, <1>2, <1>3, <1>6, <2>1 DEF ResetOK
<1> QED BY <1>6, <1>7, <1>8, <1>9, <1>10, <1>11, <1>12, <1>14, <1>15 DEF IInv

\* INIT starts the APs anew: the wake-up of one leaves all others where they are, the
\* wake-up of all finds none at anything.
LEMMA SendInitSipiSipiKeeps == ASSUME IInv, SendInitSipiSipi PROVE IInv'
<1>0. /\ Program(todo) /\ PhaseOK /\ TypeOK /\ BootOK /\ LeaveOK /\ WorkOK /\ ResetOK
      /\ CountOK /\ GroupOK /\ CallsOK /\ \A q \in APs : PlaceOK(q)
    BY DEF IInv
<1>1. /\ todo # << >> /\ Top.do = "init" /\ Top.do \in Wakes /\ Do(<< >>)
      /\ pc' = [p \in APs |-> IF Top.p \in {All, p} THEN "start" ELSE pc[p]]
      /\ UNCHANGED <<procedure, lock, state, function, signal, finished, toFinish>>
      /\ UNCHANGED <<group, event, over, by, ran, owed>>
    BY DEF SendInitSipiSipi, At, Wakes, callVars, history
<1>2. todo' # << >> /\ Top' = Cell("awake", Top.p, First(Top), Top.x)
    BY <1>0, <1>1, WakeNext DEF WakeThen
<1>3. Top'.do = "awake" /\ Top'.p = Top.p /\ Top'.x = Top.x
      /\ \A e : At(e)' <=> e = "awake"
    BY <1>2, CellTop
<1>4. Top'.do \in Wakes /\ \A e : At(e) <=> e = "init"
    BY <1>1, <1>3 DEF Wakes, At
<1>5. /\ Program(todo') /\ PhaseOK' /\ CallsOK' /\ UNCHANGED <<stop, phase>> /\ phase # "off"
      /\ (\A x : Doing(x)' <=> Doing(x))
      /\ Booting' <=> Booting
      /\ Working' <=> Working
      /\ Resetting' <=> Resetting
      /\ Ending' = Ending
      /\ Reclaiming' <=> Reclaiming
      /\ Resetting <=> Doing("null")
      /\ ~At("look") /\ ~At("decide")
      /\ \A q : Live(q)' <=> Live(q)
      /\ \A a \in Items(todo') : a.do \in {"reclaim", "report"} => Resetting' /\ a.p = Ending'
    BY <1>1, <1>2, <1>3, <1>4, WakeOn
<1>6. \A q \in APs :
         /\ ~ToReady(q)' /\ ~ToInit(q)' /\ ~ToReady(q)
         /\ ToInit(q) <=> Wakes1(q)
         /\ pc'[q] = IF Wakes1(q) THEN "start" ELSE pc[q]
    BY <1>1, <1>3, <1>4 DEF ToReady, ToInit, Wakes1
<1>7. /\ Top.x \in Kinds
      /\ Booting <=> Top.x = "sync"
      /\ phase = "os" <=> Top.x = "relocate"
      /\ Working <=> Top.x \in {"proc", "null"}
      /\ Top.x = "null" => Top.p \in APs /\ by[Top.p] = Ending /\ Ending # Nobody
      /\ Top.x = "proc" => ~Resetting
      /\ Top.x \in {"sync", "relocate"} => Top.p = All
      /\ Top.p \in 0 .. N
    BY <1>1, WakesWhat
<1>8. TypeOK'
    BY <1>0, <1>1, <1>5 DEF TypeOK
<1>9. CountOK'
    <2> DEFINE F == Cardinality(Flying)
               F1 == Cardinality(Flying')
    <2>1. finished + F <= N /\ F \in Nat /\ F1 \in Nat /\ F1 <= N /\ finished \in Nat
        BY <1>0, <1>4, Finite DEF CountOK, Flying, TypeOK
    <2>2. finished + F1 <= 2 * N
        <3> HIDE DEF F, F1
        <3> QED BY <2>1, Bounds
    <2> QED BY <1>1, <1>3, <2>2 DEF CountOK
<1>10. \A q \in APs : PlaceOK(q)'
    <2> TAKE q \in APs
    <2>1. PlaceOK(q)
        BY <1>0
    <2>2. CASE Wakes1(q)
        BY <1>1, <1>5, <1>6, <2>1, <2>2 DEF PlaceOK
    <2>3. CASE ~Wakes1(q)
        BY <1>1, <1>5, <1>6, <2>1, <2>3 DEF PlaceOK
    <2> QED BY <2>2, <2>3
<1>11. BootOK'
    <2> SUFFICES ASSUME Booting PROVE BootOK'
        BY <1>5 DEF BootOK
    <2>1. finished = 0 /\ \A q \in APs : Wakes1(q)
        BY <1>0, <1>4, <1>7 DEF BootOK, Wakes1
    <2>2. \A q \in APs : pc'[q] = "start" /\ function[q] = "sync"
        BY <1>0, <1>6, <1>7, <2>1 DEF PlaceOK
    <2>3. finished' <= Cardinality({q \in APs : pc'[q] = "parked"})
        <3> DEFINE n == Cardinality({q \in APs : pc'[q] = "parked"})
        <3>1. n \in Nat
            BY Finite
        <3> HIDE DEF n
        <3>2. finished' <= n
            BY <1>1, <2>1, <3>1
        <3> QED BY <3>2 DEF n
    <2> QED BY <1>0, <1>1, <1>3, <1>5, <2>2, <2>3 DEF BootOK
<1>12. LeaveOK'
    <2> SUFFICES ASSUME phase = "os" PROVE LeaveOK'
        BY <1>5 DEF LeaveOK
    <2>1. \A q \in APs : ToInit(q) /\ pc'[q] = "start" /\ function[q] = "relocate"
        BY <1>0, <1>6, <1>7 DEF PlaceOK, Wakes1
    <2>2. {q \in APs : pc'[q] = "gone"} = {q \in APs : pc[q] = "gone"}
        BY <1>0, <2>1 DEF LeaveOK
    <2> QED BY <1>0, <1>1, <1>6, <2>1, <2>2 DEF LeaveOK
<1>13. GroupOK'
    BY <1>0, <1>1, <1>5 DEF GroupOK
<1>14. \A q \in APs : Fresh(q)' <=> Fresh(q)
    BY <1>1, <1>6 DEF Fresh, Turn
<1>15. WorkOK'
    <2> SUFFICES ASSUME Working PROVE WorkOK'
        BY <1>5 DEF WorkOK
    <2>1. \A q \in APs :
             /\ by'[q] = Nobody => RestOK(q)'
             /\ Live(q)' => LiveOK(q)'
             /\ Resetting' /\ by'[q] = Ending' => EndingOK(q)'
        <3> TAKE q \in APs
        <3>1. by'[q] = Nobody => RestOK(q)'
            BY <1>0, <1>1, <1>6 DEF WorkOK, RestOK
        <3>2. Live(q)' => LiveOK(q)'
            <4> HAVE Live(q)'
            <4>1. LiveOK(q) /\ Live(q)
                BY <1>0, <1>5 DEF WorkOK
            <4>2. CASE Wakes1(q)
                <5>1. Top.x = "proc"
                    <6>1. Top.x = "null" => q = Top.p
                        BY <1>7, <4>2, Bounds DEF Wakes1
                    <6> QED BY <1>1, <1>5, <1>7, <4>1, <6>1 DEF Live, Doing
                <5>2. function[q] = "proc" /\ ran[q] = "no"
                    BY <1>0, <1>6, <4>1, <4>2, <5>1 DEF PlaceOK, LiveOK
                <5> QED BY <1>1, <1>6, <1>14, <4>1, <4>2, <5>2 DEF LiveOK
            <4>3. CASE ~Wakes1(q)
                BY <1>1, <1>6, <1>14, <4>1, <4>3 DEF LiveOK
            <4> QED BY <4>2, <4>3
        <3>3. Resetting' /\ by'[q] = Ending' => EndingOK(q)'
            <4> HAVE Resetting' /\ by'[q] = Ending'
            <4>1. EndingOK(q) /\ Doing("null") /\ Top.p \in APs
                BY <1>0, <1>1, <1>5, <1>7 DEF WorkOK, Doing
            <4>2. CASE q = Top.p
                <5>1. function[q] = "null" /\ pc'[q] = "start" /\ q \notin group.waiting
                    BY <1>0, <1>6, <4>1, <4>2 DEF PlaceOK, Wakes1, Doing, EndingOK
                <5> QED BY <1>1, <1>3, <1>5, <4>1, <4>2, <5>1 DEF EndingOK
            <4>3. CASE q # Top.p
                <5>1. pc'[q] = pc[q]
                    BY <1>6, <4>1, <4>3, Bounds DEF Wakes1
                <5> QED BY <1>1, <1>3, <1>5, <1>6, <4>1, <4>3, <5>1 DEF EndingOK
            <4> QED BY <4>2, <4>3
        <3> QED BY <3>1, <3>2, <3>3
    <2> QED BY <1>6, <2>1 DEF WorkOK
<1>16. ResetOK'
    <2>1. ~At("reclaim")' /\ ~At("report")' /\ ~At("ready")' /\ ~At("init")'
        BY <1>3
    <2>2. Doing("null") => finished = 0
        BY <1>0, <1>4 DEF ResetOK
    <2>3. \A q \in APs : Resetting =>
             pc'[q] \in {"parked", "hung"} \/ (Doing("null") /\ q = Top.p)
        <3> TAKE q \in APs
        <3> HAVE Resetting
        <3>1. CASE q = Top.p
            BY <1>5, <3>1
        <3>2. CASE q # Top.p
            <4>1. ~Wakes1(q)
                BY <1>1, <1>5, <1>7, <3>2, Bounds DEF Wakes1, Doing
            <4> QED BY <1>0, <1>5, <1>6, <3>2, <4>1 DEF ResetOK
        <3> QED BY <3>1, <3>2
    <2> QED BY <1>0, <1>1, <1>3, <1>5, <2>1, <2>2, <2>3 DEF ResetOK
<1> QED BY <1>5, <1>8, <1>9, <1>10, <1>11, <1>12, <1>13, <1>15, <1>16 DEF IInv

\* While the BSP waits within a wake-up
LEMMA WaitOn ==
    ASSUME IInv, At("awake") \/ At("count"), Do(<< >>), UNCHANGED <<apVars, callVars, history>>,
           todo' # << >>, Top'.do \in {"awake", "count", "idle"}, Top'.p = Top.p, Top'.x = Top.x,
           Top'.do = "idle" =>
              /\ Booting => Top'.i = 1 /\ \A p \in APs : pc[p] = "parked"
              /\ Doing("null") => pc[Top.p] = "parked"
    PROVE  IInv'
<1>0. /\ Program(todo) /\ PhaseOK /\ TypeOK /\ BootOK /\ LeaveOK /\ WorkOK /\ ResetOK
      /\ CountOK /\ GroupOK /\ CallsOK /\ \A q \in APs : PlaceOK(q)
    BY DEF IInv
<1>1. /\ UNCHANGED Settings /\ UNCHANGED <<group, event, over, by, ran, owed>>
      /\ UNCHANGED <<pc, procedure, lock, state, function, signal, finished, toFinish>>
    BY DEF apVars, Settings, callVars, history
<1>2. todo # << >> /\ Top.do \in {"awake", "count"} /\ Top.do \in Wakes /\ Top'.do \in Wakes
    BY DEF At, Wakes
<1>3. /\ Program(todo') /\ PhaseOK' /\ CallsOK' /\ UNCHANGED <<stop, phase>> /\ phase # "off"
      /\ (\A x : Doing(x)' <=> Doing(x))
      /\ Booting' <=> Booting
      /\ Working' <=> Working
      /\ Resetting' <=> Resetting
      /\ Ending' = Ending
      /\ Reclaiming' <=> Reclaiming
      /\ Resetting <=> Doing("null")
      /\ ~At("look") /\ ~At("decide")
      /\ \A q : Live(q)' <=> Live(q)
      /\ \A a \in Items(todo') : a.do \in {"reclaim", "report"} => Resetting' /\ a.p = Ending'
    BY <1>1, <1>2, WakeOn
<1>4. /\ ~At("zero") /\ ~At("ready") /\ ~At("init") /\ ~At("idle")
      /\ ~At("zero")' /\ ~At("ready")' /\ ~At("init")' /\ ~At("reclaim")' /\ ~At("report")'
    BY <1>2 DEF At
<1>5. \A q : ~ToReady(q) /\ ~ToInit(q) /\ ~ToReady(q)' /\ ~ToInit(q)'
    BY <1>4 DEF ToReady, ToInit
<1>6. \A q \in APs : Fresh(q)' <=> Fresh(q)
    BY <1>1, <1>5 DEF Fresh, Turn
<1>7. TypeOK' /\ CountOK'
    BY <1>0, <1>1, <1>3, <1>4 DEF TypeOK, CountOK, Flying
<1>8. \A q \in APs : PlaceOK(q)'
    <2> TAKE q \in APs
    <2>1. PlaceOK(q)
        BY <1>0
    <2> QED BY <1>1, <1>3, <1>5, <2>1 DEF PlaceOK
<1>9. BootOK'
    <2> SUFFICES ASSUME Booting PROVE BootOK'
        BY <1>3 DEF BootOK
    <2>1. At("idle")' => \A p \in APs : ~(p < Top'.i)
        BY Bounds DEF APs, At
    <2>2. At("idle")' => \A p \in APs : pc[p] = "parked"
        BY DEF At
    <2> QED BY <1>0, <1>1, <1>3, <1>4, <2>1, <2>2 DEF BootOK
<1>10. LeaveOK'
    BY <1>0, <1>1, <1>3, <1>5 DEF LeaveOK
<1>11. GroupOK'
    BY <1>0, <1>1, <1>3 DEF GroupOK
<1>12. WorkOK'
    <2> SUFFICES ASSUME Working PROVE WorkOK'
        BY <1>3 DEF WorkOK
    <2>1. \A q \in APs :
             /\ by'[q] = Nobody => RestOK(q)'
             /\ Live(q)' => LiveOK(q)'
             /\ Resetting' /\ by'[q] = Ending' => EndingOK(q)'
        <3> TAKE q \in APs
        <3>1. by'[q] = Nobody => RestOK(q)'
            BY <1>0, <1>1, <1>5 DEF WorkOK, RestOK
        <3>2. Live(q)' => LiveOK(q)'
            <4> HAVE Live(q)'
            <4>1. LiveOK(q)
                BY <1>0, <1>3 DEF WorkOK
            <4> QED BY <1>1, <1>5, <1>6, <4>1 DEF LiveOK
        <3>3. Resetting' /\ by'[q] = Ending' => EndingOK(q)'
            <4> HAVE Resetting' /\ by'[q] = Ending'
            <4>1. EndingOK(q) /\ Doing("null")
                BY <1>0, <1>1, <1>3 DEF WorkOK
            <4>2. At("idle")' => pc[Top.p] = "parked"
                BY <4>1 DEF At
            <4> QED BY <1>1, <1>3, <1>4, <1>5, <4>1, <4>2 DEF EndingOK
        <3> QED BY <3>1, <3>2, <3>3
    <2> QED BY <1>5, <2>1 DEF WorkOK
<1>13. ResetOK'
    BY <1>0, <1>1, <1>3, <1>4 DEF ResetOK
<1> QED BY <1>3, <1>7, <1>8, <1>9, <1>10, <1>11, <1>12, <1>13 DEF IInv

\* The wake-up is over when the AP has cleared its signal.
LEMMA WaitApWakeupKeeps == ASSUME IInv, WaitApWakeup PROVE IInv'
<1>0. Program(todo) /\ PhaseOK /\ LeaveOK /\ TypeOK /\ GroupOK /\ CallsOK
    BY DEF IInv
<1>1. /\ At("awake") /\ todo # << >> /\ Top.do = "awake" /\ Top.do \in Wakes /\ Do(<< >>)
      /\ UNCHANGED <<apVars, callVars, history>>
      /\ UNCHANGED Settings /\ UNCHANGED <<group, event, over, by, ran, owed>>
    BY DEF WaitApWakeup, At, Wakes, apVars, callVars, history, Settings
<1>2. Kept({}) /\ UNCHANGED <<stop, phase>> /\ WakeThen
    BY <1>0, <1>1, WakeNext
<1>3. /\ Top.x \in Kinds /\ phase # "off"
      /\ Booting <=> Top.x = "sync"
      /\ phase = "os" <=> Top.x = "relocate"
      /\ Working <=> Top.x \in {"proc", "null"}
      /\ Top.x = "proc" => ~Resetting
    BY <1>1, WakesWhat
<1>4. CASE Repeats
    <2>1. todo' # << >> /\ Top' = Cell("awake", All, Top.i + 1, Top.x) /\ Top.p = All
        BY <1>1, <1>2, <1>4 DEF WakeThen, Repeats
    <2>2. Top'.do = "awake" /\ Top'.p = Top.p /\ Top'.x = Top.x
        BY <2>1, CellTop
    <2> QED BY <1>1, <2>1, <2>2, WaitOn
<1>5. CASE ~Repeats /\ Top.x \in {"sync", "null"}
    <2>1. todo' # << >> /\ Top' = Cell("count", Top.p, Top.p, Top.x)
        BY <1>1, <1>2, <1>5 DEF WakeThen
    <2>2. Top'.do = "count" /\ Top'.p = Top.p /\ Top'.x = Top.x
        BY <2>1, CellTop
    <2> QED BY <1>1, <2>1, <2>2, WaitOn
<1>6. CASE ~Repeats /\ Top.x = "relocate"
    <2>1. todo' # << >> /\ Top' = Cell("gone", All, All, "relocate")
        BY <1>1, <1>2, <1>6 DEF WakeThen
    <2>2. Top'.do = "gone" /\ Top'.x = "relocate"
        BY <2>1, CellTop
    <2>3. phase = "os" /\ phase' = "os"
        BY <1>2, <1>3, <1>6
    <2>4. /\ ~Booting /\ ~Booting' /\ ~Working' /\ ~Resetting /\ ~Resetting' /\ ~Doing("null")'
          /\ Doing("relocate")' /\ ~Reclaiming /\ ~Reclaiming'
        BY <1>1, <1>6, <2>1, <2>2, <2>3
        DEF Booting, Working, Resetting, Reclaiming, Doing, At
    <2>5. \A q : ~ToReady(q) /\ ~ToInit(q) /\ ~ToReady(q)' /\ ~ToInit(q)'
        BY <1>1, <2>2 DEF ToReady, ToInit, At
    <2>6. TypeOK' /\ Program(todo')
        BY <1>0, <1>1, <1>2, TypesKept DEF TypeOK, Kept
    <2>7. PhaseOK'
        BY <1>0, <1>1, <1>2, <2>3, <2>4, PhaseKept
    <2>8. CountOK'
        BY <1>1, <2>2 DEF IInv, CountOK, Settings, Flying, At
    <2>9. \A q \in APs : PlaceOK(q)'
        <3> TAKE q \in APs
        <3>1. PlaceOK(q)
            BY DEF IInv
        <3> QED BY <1>1, <1>2, <2>4, <2>5, <3>1 DEF PlaceOK, Settings
    <2>10. BootOK' /\ WorkOK'
        BY <2>4 DEF BootOK, WorkOK
    <2>11. LeaveOK'
        BY <1>0, <1>1, <2>3, <2>5 DEF LeaveOK, Settings
    <2>12. CallsOK'
        <3>1. Top'.do \notin {"tell", "forget"} /\ Top.do \notin Checks \union {"tell", "forget"}
            BY <1>1, <2>2 DEF Checks
        <3>2. \A p \in APs : state'[p] = "disabled" => state[p] = "disabled"
            BY <1>1 DEF Settings
        <3> QED BY <1>0, <1>1, <1>2, <3>1, <3>2, CallsKept
    <2>13. GroupOK'
        <3>1. \A q \in APs : by[q] # All
            BY <1>0, <2>3 DEF LeaveOK, Nobody, All
        <3> QED BY <1>0, <1>1, <2>4, <3>1 DEF GroupOK
    <2>14. ResetOK'
        <3>1. \A a \in Items(todo') : a.do \notin {"reclaim", "report"}
            <4> TAKE a \in Items(todo')
            <4>1. a.do \in Harmless \/ a \in Items(todo)
                BY <1>2 DEF Kept
            <4>2. a \in Items(todo) => a.do \notin {"reclaim", "report"}
                BY <2>4 DEF IInv, ResetOK
            <4> QED BY <4>1, <4>2 DEF Harmless, Wakes
        <3> QED BY <2>4, <3>1 DEF ResetOK
    <2> QED BY <2>6, <2>7, <2>8, <2>9, <2>10, <2>11, <2>12, <2>13, <2>14 DEF IInv
<1>7. CASE ~Repeats /\ Top.x = "proc"
    <2>1. todo' # << >> /\ Top'.do \in {"see", "look", "return"} /\ Top'.x \in Modes \union {""}
        BY <1>1, <1>2, <1>7 DEF WakeThen
    <2>2. phase = "boot" /\ Working /\ ~Resetting /\ ~Booting
        BY <1>0, <1>3, <1>7 DEF TypeOK
    <2>3. Calm' /\ Program(todo') /\ ~Doing("relocate")'
        BY <1>2, <2>1 DEF Calm, Wakes, Kept, Modes, Doing
    <2>4. /\ \A p \in APs : ~ToReady(p)' /\ ~ToInit(p)'
          /\ ~Resetting' /\ ~Doing("sync")' /\ ~Doing("null")' /\ ~Doing("proc")'
          /\ ~At("zero")' /\ ~At("ready")' /\ ~At("init")'
        BY <2>3, CalmNext
    <2>5. \A q : ~ToReady(q) /\ ~ToInit(q)
        BY <1>1 DEF ToReady, ToInit, At
    <2>6. ~Reclaiming /\ ~Reclaiming' /\ Working' /\ ~Booting' /\ phase' = "boot"
        BY <1>2, <2>2, <2>4 DEF Reclaiming, Working, Booting
    <2>7. TypeOK'
        BY <1>0, <1>1, <1>2, TypesKept DEF TypeOK
    <2>8. PhaseOK'
        BY <1>0, <1>1, <1>2, <2>2, <2>3, PhaseKept
    <2>9. CountOK'
        BY <1>1, <2>4 DEF IInv, CountOK, Settings, Flying
    <2>10. \A q \in APs : PlaceOK(q)'
        <3> TAKE q \in APs
        <3>1. PlaceOK(q)
            BY DEF IInv
        <3> QED BY <1>1, <1>2, <2>2, <2>4, <2>5, <3>1 DEF PlaceOK, Settings
    <2>11. BootOK' /\ LeaveOK'
        BY <2>6 DEF BootOK, LeaveOK
    <2>12. CallsOK'
        <3>1. Top'.do \notin {"tell", "forget"} /\ Top.do \notin Checks \union {"tell", "forget"}
            BY <1>1, <2>1 DEF Checks
        <3>2. \A p \in APs : state'[p] = "disabled" => state[p] = "disabled"
            BY <1>1 DEF Settings
        <3> QED BY <1>0, <1>1, <1>2, <3>1, <3>2, CallsKept
    <2>13. GroupOK'
        <3>1. ~At("look") /\ ~At("decide")
            BY <1>1 DEF At
        <3>2. ~((\E p \in APs : by[p] = All) /\ group.waiting = {})
            BY <1>0, <2>6, <3>1, StillWaits
        <3> QED BY <1>0, <1>1, <2>6, <3>2 DEF GroupOK, Settings
    <2>14. WorkOK'
        <3>1. WorkOK
            BY DEF IInv
        <3>2. \A q \in APs :
                 /\ by'[q] = Nobody => RestOK(q)'
                 /\ Live(q)' => LiveOK(q)'
            <4> TAKE q \in APs
            <4>1. by'[q] = Nobody => RestOK(q)'
                BY <1>1, <2>2, <2>4, <3>1 DEF WorkOK, RestOK, Settings
            <4>2. Live(q)' => LiveOK(q)'
                <5> HAVE Live(q)'
                <5>1. Live(q)
                    BY <1>1, <2>2 DEF Live
                <5>2. LiveOK(q)
                    BY <2>2, <3>1, <5>1 DEF WorkOK
                <5>3. Fresh(q)' <=> Fresh(q)
                    BY <1>1, <2>4, <2>5 DEF Fresh, Turn
                <5> QED BY <1>1, <2>4, <2>5, <5>2, <5>3 DEF LiveOK, Settings
            <4> QED BY <4>1, <4>2
        <3> QED BY <2>4, <3>2 DEF WorkOK
    <2>15. ResetOK'
        <3>1. \A a \in Items(todo') : a.do \notin {"reclaim", "report"}
            <4> TAKE a \in Items(todo')
            <4>1. a.do \in Harmless \/ a \in Items(todo)
                BY <1>2 DEF Kept
            <4>2. a \in Items(todo) => a.do \notin {"reclaim", "report"}
                BY <2>2 DEF IInv, ResetOK
            <4> QED BY <4>1, <4>2 DEF Harmless, Wakes
        <3> QED BY <2>4, <3>1 DEF ResetOK
    <2> QED BY <2>3, <2>7, <2>8, <2>9, <2>10, <2>11, <2>12, <2>13, <2>14, <2>15 DEF IInv
<1> QED BY <1>3, <1>4, <1>5, <1>6, <1>7 DEF Kinds

\* The BSP goes on when enough increments have been made: they are those of the APs that
\* it waits for.
LEMMA WaitFinishedKeeps == ASSUME IInv, WaitFinished PROVE IInv'
<1>0. Program(todo) /\ BootOK /\ ResetOK /\ TypeOK
    BY DEF IInv
<1>1. /\ At("count") /\ todo # << >> /\ Top.do = "count" /\ Top.do \in Wakes /\ Do(<< >>)
      /\ UNCHANGED <<apVars, callVars, history>>
      /\ finished >= (IF Top.p = All THEN N ELSE 1)
    BY DEF WaitFinished, At, Wakes
<1>2. todo' # << >> /\ Top' = Cell("idle", Top.p, First(Top), Top.x)
    BY <1>0, <1>1, WakeNext DEF WakeThen
<1>3. Top'.do = "idle" /\ Top'.p = Top.p /\ Top'.x = Top.x /\ Top'.i = First(Top)
    BY <1>2, CellTop
<1>4. /\ Booting <=> Top.x = "sync"
      /\ Top.x = "null" => Top.p \in APs
      /\ Top.x = "sync" => Top.p = All
    BY <1>1, WakesWhat
<1>5. Booting => Top'.i = 1 /\ \A p \in APs : pc[p] = "parked"
    <2> HAVE Booting
    <2> DEFINE S == {p \in APs : pc[p] = "parked"}
               n == Cardinality(S)
    <2>1. Top.p = All /\ Top'.i = 1
        BY <1>3, <1>4 DEF First
    <2>2. finished <= n /\ n \in Nat /\ n <= N /\ finished >= N /\ finished \in Nat
        BY <1>0, <1>1, <2>1, Finite, Bounds DEF BootOK, TypeOK
    <2>3. n = N
        <3> HIDE DEF n
        <3> QED BY <2>2, Bounds
    <2>4. S = APs
        BY <2>3, Finite
    <2> QED BY <2>1, <2>4
<1>6. Doing("null") => pc[Top.p] = "parked"
    <2> HAVE Doing("null")
    <2>1. Top.p # All
        BY <1>4, Bounds DEF Doing
    <2>2. finished >= 1 /\ finished \in Nat
        BY <1>0, <1>1, <2>1 DEF TypeOK
    <2> QED BY <1>0, <1>1, <2>2 DEF ResetOK
<1> QED BY <1>1, <1>2, <1>3, <1>5, <1>6, WaitOn

\* At the start of the system, the APs are idle one after the other.
LEMMA IdleFirst ==
    ASSUME IInv, Idle, Top.x = "sync"
    PROVE  IInv'
<1>0. /\ Program(todo) /\ PhaseOK /\ TypeOK /\ BootOK /\ CountOK /\ GroupOK /\ CallsOK
      /\ ResetOK /\ \A q \in APs : PlaceOK(q)
    BY DEF IInv
<1>1. /\ At("idle") /\ todo # << >> /\ Top.do = "idle" /\ Top.do \in Wakes /\ Do(<< >>)
      /\ state' = [state EXCEPT ![Top.i] = "idle"]
      /\ UNCHANGED <<pc, procedure, lock, function, signal, finished, toFinish>>
      /\ UNCHANGED <<group, event, over, by, ran, owed>>
    BY DEF Idle, SetApState, At, Wakes, callVars, history
<1>2. Kept({}) /\ UNCHANGED <<stop, phase>> /\ WakeThen /\ WellFormed(Top)
    BY <1>0, <1>1, WakeNext, WakesWhat
<1>3. /\ Booting /\ Top.p = All /\ (\A p \in APs : by[p] = Nobody) /\ phase = "boot"
      /\ Doing("sync")
    BY <1>0, <1>1, WakesWhat DEF TypeOK, Doing
<1>4. Top.i \in APs
    BY <1>1, <1>2, <1>3 DEF WellFormed, Wakes
<1>5. state'[Top.i] = "idle" /\ \A q \in APs : q # Top.i => state'[q] = state[q]
    BY <1>0, <1>1, <1>4 DEF TypeOK
<1>6. \A p \in APs : pc[p] = "parked" /\ (p < Top.i => state[p] = "idle")
    BY <1>0, <1>1, <1>3 DEF BootOK
<1>7. \A p \in APs : p < Top.i + 1 => state'[p] = "idle"
    BY <1>4, <1>5, <1>6, Bounds DEF APs
<1>8. /\ ~At("look") /\ ~At("decide") /\ ~At("tell") /\ ~At("forget")
      /\ ~Resetting /\ ~Reclaiming /\ \A q : ~ToReady(q) /\ ~ToInit(q)
    BY <1>1, <1>3 DEF At, Resetting, Reclaiming, Doing, ToReady, ToInit
<1>9. TypeOK'
    BY <1>0, <1>1, <1>2 DEF TypeOK
<1>10. \A p \in APs : state'[p] = "disabled" => state[p] = "disabled"
    BY <1>5
<1>11. event = {} /\ group.waiting = {} /\ \A q \in APs : by[q] # All
    BY <1>0, <1>3 DEF BootOK, Nobody, All
<1>12. /\ (\A q : ~ToReady(q)' /\ ~ToInit(q)') /\ ~Resetting' /\ ~Reclaiming' /\ ~Doing("null")'
       /\ ~Doing("proc")' /\ ~Doing("relocate")' /\ ~At("ready")' /\ ~At("init")'
       /\ ~At("tell")' /\ ~At("forget")' /\ ~At("zero")' /\ ~At("awake")' /\ ~At("count")'
       /\ todo' # << >> => Doing("sync")' /\ Top'.i = Top.i + 1
       /\ todo' = << >> => \A p \in APs : p < Top.i + 1
    <2>1. CASE Repeats
        <3>1. todo' # << >> /\ Top' = Cell("idle", All, Top.i + 1, "sync")
            BY <1>1, <1>2, <2>1 DEF WakeThen
        <3>2. Top'.do = "idle" /\ Top'.x = "sync" /\ Top'.i = Top.i + 1
              /\ (\A y : Doing(y)' <=> y = "sync") /\ \A e : At(e)' <=> e = "idle"
            BY <3>1, CellTop
        <3> QED BY <3>1, <3>2 DEF ToReady, ToInit, Resetting, Reclaiming
    <2>2. CASE ~Repeats
        <3>1. todo' = << >>
            BY <1>1, <1>2, <2>2 DEF WakeThen
        <3>2. Top.i = N
            BY <1>3, <1>4, <2>2, Bounds DEF Repeats, APs
        <3> QED BY <3>1, <3>2, Bounds DEF ToReady, ToInit, Resetting, Reclaiming, Doing, At, APs
    <2> QED BY <2>1, <2>2
<1>13. PhaseOK' /\ Program(todo')
    BY <1>0, <1>1, <1>2, <1>3, <1>12, PhaseKept DEF Kept
<1>14. CountOK'
    BY <1>0, <1>1, <1>12 DEF CountOK, Flying
<1>15. \A q \in APs : PlaceOK(q)'
    <2> TAKE q \in APs
    <2>1. PlaceOK(q) /\ pc[q] = "parked"
        BY <1>0, <1>6
    <2>2. state'[q] \in {"idle", state[q]}
        BY <1>5
    <2> QED BY <1>1, <1>8, <1>12, <2>1, <2>2 DEF PlaceOK
<1>16. BootOK'
    BY <1>0, <1>1, <1>2, <1>3, <1>6, <1>7, <1>12 DEF BootOK, At
<1>17. LeaveOK'
    BY <1>2, <1>3 DEF LeaveOK
<1>18. CallsOK'
    <2>1. Top.do \notin Checks \union {"tell", "forget"} /\ (todo' # << >> => Top'.do \notin {"tell", "forget"})
        BY <1>1, <1>12 DEF Checks, At
    <2> QED BY <1>0, <1>1, <1>2, <1>10, <2>1, CallsKept
<1>19. GroupOK'
    BY <1>0, <1>1, <1>8, <1>11, <1>12 DEF GroupOK
<1>20. WorkOK'
    <2> SUFFICES ASSUME Working' PROVE WorkOK'
        BY DEF WorkOK
    <2>1. todo' = << >>
        BY <1>12 DEF Working
    <2>2. \A q \in APs : RestOK(q)'
        <3> TAKE q \in APs
        <3>1. state'[q] = "idle" /\ pc[q] = "parked"
            BY <1>6, <1>7, <1>12, <2>1
        <3>2. ~signal[q]
            BY <1>0, <1>6, <1>8 DEF PlaceOK
        <3> QED BY <1>1, <1>12, <3>1, <3>2 DEF RestOK
    <2>3. \A q \in APs : ~Live(q)'
        BY <1>1, <1>3 DEF Live
    <2> QED BY <1>12, <2>2, <2>3 DEF WorkOK
<1>21. ResetOK'
    <2>1. \A a \in Items(todo') : a.do \notin {"reclaim", "report"}
        <3> TAKE a \in Items(todo')
        <3>1. a.do \in Harmless \/ a \in Items(todo)
            BY <1>2 DEF Kept
        <3>2. a \in Items(todo) => a.do \notin {"reclaim", "report"}
            BY <1>0, <1>8 DEF ResetOK
        <3> QED BY <3>1, <3>2 DEF Harmless, Wakes
    <2> QED BY <1>12, <2>1 DEF ResetOK
<1> QED BY <1>9, <1>13, <1>14, <1>15, <1>16, <1>17, <1>18, <1>19, <1>20, <1>21 DEF IInv

\* An AP is idle after its reset.
LEMMA IdleReset ==
    ASSUME IInv, Idle, Top.x # "sync"
    PROVE  IInv'
<1>0. /\ Program(todo) /\ PhaseOK /\ TypeOK /\ WorkOK /\ CountOK /\ GroupOK /\ CallsOK
      /\ ResetOK /\ \A q \in APs : PlaceOK(q)
    BY DEF IInv
<1>1. /\ At("idle") /\ todo # << >> /\ Top.do = "idle" /\ Top.do \in Wakes /\ Do(<< >>)
      /\ state' = [state EXCEPT ![Top.i] = "idle"]
      /\ UNCHANGED <<pc, procedure, lock, function, signal, finished, toFinish>>
      /\ UNCHANGED <<group, event, over, by, ran, owed>>
    BY DEF Idle, SetApState, At, Wakes, callVars, history
<1>2. Kept({}) /\ UNCHANGED <<stop, phase>> /\ WakeThen
    BY <1>0, <1>1, WakeNext
<1>3. /\ todo' # << >> /\ Top.x = "null" /\ Top'.x \in Modes
      /\ \/ Top'.do = "reclaim" /\ Top'.i = Top.p + 1 /\ Top'.p = All
         \/ Top'.do = "report" /\ (Top'.p = Top.p \/ (Top'.p = All /\ Top.p = N))
    BY <1>1, <1>2 DEF WakeThen
<1>4. /\ Working /\ ~Booting /\ Top.p \in APs /\ Top.i = Top.p /\ by[Top.p] = Ending
      /\ Ending # Nobody /\ phase = "boot"
    BY <1>0, <1>1, <1>3, WakesWhat, Bounds DEF TypeOK
<1>a. PICK p \in APs : p = Top.p
    BY <1>4
<1>5. state'[p] = "idle" /\ \A q \in APs : q # p => state'[q] = state[q]
    BY <1>0, <1>1, <1>4, <1>a DEF TypeOK
<1>6. Doing("null") /\ Resetting /\ Ending = by[p]
    BY <1>1, <1>3, <1>4, <1>a DEF Doing, Resetting
<1>7. EndingOK(p) /\ pc[p] = "parked" /\ p \notin group.waiting
    <2>1. EndingOK(p)
        BY <1>0, <1>4, <1>6 DEF WorkOK
    <2> QED BY <1>1, <1>6, <1>a, <2>1 DEF EndingOK
<1>8. \A q : ~ToReady(q) /\ ~ToInit(q) /\ ~ToReady(q)' /\ ~ToInit(q)'
    BY <1>1, <1>3 DEF ToReady, ToInit, At
<1>9. Resetting' /\ ~Doing("null")' /\ ~Doing("sync")' /\ ~Doing("proc")' /\ ~Doing("relocate")'
      /\ ~Booting' /\ Working' /\ phase' = "boot"
    BY <1>1, <1>2, <1>3, <1>4 DEF Resetting, At, Doing, Booting, Working, Modes
<1>10. Ending' = Ending
    <2>1. Ending' = Top'.p
        BY <1>3 DEF Ending, Modes
    <2>2. Top' \in Items(todo')
        BY <1>2, <1>3, Popped DEF Kept, Top
    <2>3. Top' \in Items(todo)
        BY <1>2, <1>3, <2>2 DEF Kept, Harmless, Wakes
    <2> QED BY <1>0, <1>3, <2>1, <2>3 DEF ResetOK
<1>11. (Reclaiming' <=> Reclaiming) /\ \A q : Live(q)' <=> Live(q)
    BY <1>1, <1>6, <1>9, <1>10 DEF Reclaiming, Live
<1>12. TypeOK'
    BY <1>0, <1>1, <1>2 DEF TypeOK
<1>13. PhaseOK' /\ Program(todo')
    BY <1>0, <1>1, <1>2, <1>4, <1>9, PhaseKept DEF Kept
<1>14. /\ ~At("zero")' /\ ~At("ready")' /\ ~At("init")' /\ ~At("awake")' /\ ~At("count")'
       /\ ~At("idle")' /\ ~At("tell")' /\ ~At("forget")'
       /\ ~At("tell") /\ ~At("forget") /\ ~At("look") /\ ~At("decide")
    BY <1>1, <1>3 DEF At
<1>15. CountOK'
    BY <1>0, <1>1, <1>14 DEF CountOK, Flying
<1>16. \A q \in APs : PlaceOK(q)'
    <2> TAKE q \in APs
    <2>1. PlaceOK(q)
        BY <1>0
    <2>2. CASE q = p
        BY <1>1, <1>2, <1>5, <1>7, <1>8, <1>9, <2>1, <2>2 DEF PlaceOK
    <2>3. CASE q # p
        <3>1. state'[q] = state[q]
            BY <1>5, <2>3
        <3> QED BY <1>1, <1>2, <1>4, <1>8, <1>9, <2>1, <3>1 DEF PlaceOK
    <2> QED BY <2>2, <2>3
<1>17. BootOK' /\ LeaveOK'
    BY <1>9 DEF BootOK, LeaveOK
<1>18. CallsOK'
    <2>1. Top.do \notin Checks \union {"tell", "forget"} /\ Top'.do \notin {"tell", "forget"}
        BY <1>1, <1>3 DEF Checks
    <2>2. \A q \in APs : state'[q] = "disabled" => state[q] = "disabled"
        BY <1>5
    <2> QED BY <1>0, <1>1, <1>2, <2>1, <2>2, CallsKept
<1>19. GroupOK'
    <2>1. ~Reclaiming => by[p] # All
        BY <1>6 DEF Reclaiming
    <2>2. ~Reclaiming => \A q \in APs : by[q] = All => state'[q] = state[q]
        BY <1>5, <2>1
    <2> QED BY <1>0, <1>1, <1>11, <1>14, <2>2 DEF GroupOK
<1>20. WorkOK'
    <2>1. \A q \in APs :
             /\ by'[q] = Nobody => RestOK(q)'
             /\ Live(q)' => LiveOK(q)'
             /\ Resetting' /\ by'[q] = Ending' => EndingOK(q)'
        <3> TAKE q \in APs
        <3>1. by'[q] = Nobody => RestOK(q)'
            <4> HAVE by'[q] = Nobody
            <4>1. RestOK(q) /\ q # p
                BY <1>0, <1>1, <1>4, <1>6 DEF WorkOK
            <4> QED BY <1>1, <1>5, <1>8, <4>1 DEF RestOK
        <3>2. Live(q)' => LiveOK(q)'
            <4> HAVE Live(q)'
            <4>1. Live(q) /\ LiveOK(q) /\ q # p
                BY <1>0, <1>4, <1>6, <1>11 DEF WorkOK, Live
            <4>2. Fresh(q)' <=> Fresh(q)
                BY <1>1, <1>8 DEF Fresh, Turn
            <4> QED BY <1>1, <1>5, <1>8, <4>1, <4>2 DEF LiveOK
        <3>3. Resetting' /\ by'[q] = Ending' => EndingOK(q)'
            <4> HAVE Resetting' /\ by'[q] = Ending'
            <4>1. EndingOK(q)
                BY <1>0, <1>1, <1>4, <1>6, <1>10 DEF WorkOK
            <4>2. CASE q = p
                BY <1>1, <1>5, <1>7, <1>8, <1>9, <4>1, <4>2 DEF EndingOK
            <4>3. CASE q # p
                BY <1>1, <1>5, <1>8, <1>9, <1>a, <4>1, <4>3 DEF EndingOK
            <4> QED BY <4>2, <4>3
        <3> QED BY <3>1, <3>2, <3>3
    <2> QED BY <1>8, <1>9, <2>1 DEF WorkOK
<1>21. ResetOK'
    <2>1. \A a \in Items(todo') : a.do \in {"reclaim", "report"} => a.p = Ending'
        <3> TAKE a \in Items(todo')
        <3>1. a.do \in Harmless \/ a \in Items(todo)
            BY <1>2 DEF Kept
        <3>2. a.do \in {"reclaim", "report"} => a \in Items(todo)
            BY <3>1 DEF Harmless, Wakes
        <3> QED BY <1>0, <1>10, <3>2 DEF ResetOK
    <2>2. \A q \in APs : pc'[q] \in {"parked", "hung"}
        <3> TAKE q \in APs
        <3>1. CASE q = p
            BY <1>1, <1>7, <3>1
        <3>2. CASE q # p
            BY <1>0, <1>1, <1>6, <1>a, <3>2 DEF ResetOK
        <3> QED BY <3>1, <3>2
    <2>3. Ending' = All =>
             /\ At("reclaim")' => \A q \in group'.waiting : q >= Top'.i
             /\ At("report")' => group'.waiting = {}
        <3> HAVE Ending' = All
        <3>1. \A q \in group.waiting : q > p /\ q \in APs
            BY <1>0, <1>6, <1>10, <1>a DEF ResetOK, TypeOK
        <3>2. At("reclaim")' => \A q \in group.waiting : q >= Top'.i
            BY <1>3, <1>a, <3>1, Bounds DEF At, APs
        <3>3. At("report")' => group.waiting = {}
            <4> HAVE At("report")'
            <4>1. Ending' = Top'.p
                BY <1>3 DEF Ending, Modes
            <4>2. p = N
                BY <1>3, <1>a, <4>1, Bounds DEF At
            <4> QED BY <3>1, <4>2, Bounds DEF APs
        <3> QED BY <1>1, <3>2, <3>3
    <2> QED BY <1>4, <1>9, <1>10, <2>1, <2>2, <2>3 DEF ResetOK
<1> QED BY <1>12, <1>13, <1>15, <1>16, <1>17, <1>18, <1>19, <1>20, <1>21 DEF IInv

\* The BSP makes an AP idle.
LEMMA IdleKeeps == ASSUME IInv, Idle PROVE IInv'
BY IdleFirst, IdleReset

-----------------------------------------------------------------------------
(***************************************************************************)
(* Time-outs.                                                              *)
(***************************************************************************)
\* StartupAllAPs is out of time: with Prompt its APs hang or are parked.
LEMMA DecideOverKeeps == ASSUME Orderly, IInv, DecideOver PROVE IInv'
<1>0. /\ Program(todo) /\ PhaseOK /\ TypeOK /\ WorkOK /\ CountOK /\ GroupOK /\ CallsOK
      /\ ResetOK /\ \A q \in APs : PlaceOK(q)
    BY DEF IInv
<1>1. /\ At("decide") /\ todo # << >> /\ Top.do = "decide" /\ Top.do \in Checks
      /\ Do(ForAPs("reclaim", Top.x) \o Step("report", All, Top.x))
      /\ UNCHANGED Settings /\ UNCHANGED <<group, event, over, by, ran, owed>>
      /\ UNCHANGED <<pc, procedure, lock, state, function, signal, finished, toFinish>>
      /\ \A p \in APs : pc[p] \in {"parked", "hung"}
    BY DEF DecideOver, At, Checks, apVars, callVars, history, Settings, Settled, Orderly
<1>2. LET a == Cell("reclaim", All, 1, Top.x)
          b == Cell("report", All, All, Top.x)
      IN  /\ Kept({a, b}) /\ b \in Items(todo') /\ UNCHANGED <<stop, phase>>
          /\ todo' # << >> /\ Top' = a /\ Top = Cell("decide", All, All, Top.x)
    BY <1>0, <1>1, DecideOverNext
<1> DEFINE a == Cell("reclaim", All, 1, Top.x)
           b == Cell("report", All, All, Top.x)
<1>3. Kept({a, b}) /\ b \in Items(todo') /\ UNCHANGED <<stop, phase>> /\ todo' # << >>
      /\ Top' = Cell("reclaim", All, 1, Top.x) /\ Top.p = All
    BY <1>2 DEF Cell
<1>4. /\ phase = "boot" /\ Working /\ ~Booting /\ Top.x \in Modes
      /\ \A p \in APs : ~ToReady(p) /\ ~ToInit(p)
      /\ ~At("tell") /\ ~At("forget") /\ ~At("look")
      /\ ~Resetting
      /\ \E p \in APs : by[p] = All
      /\ Top.x = "poll" => All \in event
      /\ Top.x = "block" => All \notin event
    BY <1>1, <1>3, AtCheck
<1>5. Top'.do = "reclaim" /\ Top'.p = All /\ Top'.i = 1 /\ Top'.x = Top.x
      /\ (\A y : Doing(y)' <=> y = Top.x) /\ \A e : At(e)' <=> e = "reclaim"
    BY <1>3, CellTop
<1>6. /\ Resetting' /\ Ending' = All /\ Reclaiming' /\ ~Doing("null")' /\ ~Doing("sync")'
      /\ ~Doing("proc")' /\ ~Doing("relocate")' /\ ~Booting' /\ Working' /\ phase' = "boot"
      /\ \A q : ~ToReady(q)' /\ ~ToInit(q)'
    BY <1>3, <1>4, <1>5 DEF Resetting, Ending, Reclaiming, Booting, Working, Modes, ToReady, ToInit
<1>7. TypeOK'
    BY <1>0, <1>1, <1>3, TypesKept DEF TypeOK
<1>8. PhaseOK' /\ Program(todo')
    BY <1>0, <1>1, <1>3, <1>4, <1>6, PhaseKept DEF Kept
<1>9. CountOK' /\ BootOK' /\ LeaveOK'
    BY <1>0, <1>1, <1>5, <1>6 DEF CountOK, BootOK, LeaveOK, Flying
<1>10. \A q \in APs : PlaceOK(q)'
    <2> TAKE q \in APs
    <2>1. PlaceOK(q)
        BY <1>0
    <2> QED BY <1>1, <1>3, <1>4, <1>6, <2>1 DEF PlaceOK
<1>11. CallsOK'
    <2>1. a.do \notin Checks \union {"startThis", "startAll"} /\ b.do = "report" /\ b.p = All
          /\ b.x = Top.x /\ b.do \in Checks
        BY DEF Cell, Checks
    <2>2. \A e \in {a, b} :
              /\ e.do \in Checks =>
                    /\ e.x = "poll" => e.p \in event
                    /\ e.x = "block" => e.p \notin event
                    /\ \E p \in APs : by[p] = e.p
              /\ e.do \notin {"startThis", "startAll"}
        BY <1>4, <2>1
    <2>3. Top.do \in Checks /\ Top.x = "block" =>
              \E e \in Items(todo') : e.do \in Checks /\ e.x = "block" /\ e.p = Top.p
        BY <1>3, <2>1
    <2>4. Top.do \notin {"tell", "forget"} /\ Top'.do \notin {"tell", "forget"}
        BY <1>1, <1>5
    <2> HIDE DEF a, b
    <2> QED BY <1>0, <1>1, <1>3, <2>2, <2>3, <2>4, CallsKept
<1>12. GroupOK'
    <2> DEFINE n == Cardinality(group.waiting)
    <2>1. group.running + n = group.start /\ n \in Nat /\ group.running \in Nat
        BY <1>0, <1>4, Finite DEF GroupOK, Reclaiming, TypeOK
    <2>2. group.running + n <= group.start
        <3> HIDE DEF n
        <3> QED BY <2>1
    <2> QED BY <1>0, <1>1, <1>6, <2>2 DEF GroupOK
<1>13. WorkOK'
    <2>1. \A q \in APs :
             /\ by'[q] = Nobody => RestOK(q)'
             /\ Live(q)' => LiveOK(q)'
             /\ Resetting' /\ by'[q] = Ending' => EndingOK(q)'
        <3> TAKE q \in APs
        <3>1. by'[q] = Nobody => RestOK(q)'
            BY <1>0, <1>1, <1>4, <1>6 DEF WorkOK, RestOK
        <3>2. Live(q)' => LiveOK(q)'
            <4> HAVE Live(q)'
            <4>1. LiveOK(q)
                BY <1>0, <1>1, <1>4 DEF WorkOK, Live
            <4>2. Fresh(q)' <=> Fresh(q)
                BY <1>1, <1>4, <1>6 DEF Fresh, Turn
            <4> QED BY <1>1, <1>4, <1>6, <4>1, <4>2 DEF LiveOK
        <3>3. Resetting' /\ by'[q] = Ending' => EndingOK(q)'
            <4> HAVE Resetting' /\ by'[q] = Ending'
            <4>1. by[q] = All /\ Live(q)
                BY <1>1, <1>4, <1>6 DEF Live, Nobody, All
            <4>2. LiveOK(q)
                BY <1>0, <1>4, <4>1 DEF WorkOK
            <4>3. q \notin group.waiting => state[q] = "idle"
                BY <1>0, <1>4, <4>1 DEF GroupOK, Reclaiming
            <4>4. PlaceOK(q) /\ pc[q] \in {"parked", "hung"}
                BY <1>0, <1>1
            <4>5. pc[q] = "hung" => state[q] = "busy"
                BY <1>4, <4>4 DEF PlaceOK
            <4> QED BY <1>1, <1>6, <4>2, <4>3, <4>4, <4>5 DEF EndingOK, LiveOK
        <3> QED BY <3>1, <3>2, <3>3
    <2> QED BY <1>6, <2>1 DEF WorkOK
<1>14. ResetOK'
    <2>1. \A e \in Items(todo') : e.do \in {"reclaim", "report"} => e.p = All
        <3> TAKE e \in Items(todo')
        <3>1. e.do \in Harmless \/ e \in Items(todo) \/ e \in {a, b}
            BY <1>3 DEF Kept
        <3>2. e \in Items(todo) => e.do \notin {"reclaim", "report"}
            BY <1>0, <1>4 DEF ResetOK
        <3>3. a.p = All /\ b.p = All
            BY DEF Cell
        <3> HIDE DEF a, b
        <3> QED BY <3>1, <3>2, <3>3 DEF Harmless, Wakes
    <2>2. \A q \in group.waiting : q >= 1
        BY <1>0, Bounds DEF TypeOK, APs
    <2>3. ~At("report")'
        BY <1>5
    <2> QED BY <1>1, <1>5, <1>6, <2>1, <2>2, <2>3, Bounds DEF ResetOK, Nobody, All
<1> QED BY <1>7, <1>8, <1>9, <1>10, <1>11, <1>12, <1>13, <1>14 DEF IInv

\* StartupThisAP is out of time: with Prompt its AP hangs or is parked.
LEMMA SeeOverKeeps == ASSUME Orderly, IInv, SeeOver PROVE IInv'
<1>0. /\ Program(todo) /\ PhaseOK /\ TypeOK /\ WorkOK /\ CountOK /\ GroupOK /\ CallsOK
      /\ ResetOK /\ \A q \in APs : PlaceOK(q)
    BY DEF IInv
<1>1. /\ At("see") /\ todo # << >> /\ Top.do = "see" /\ Top.do \in Checks
      /\ Do(ResetProcessorToIdleState(Top.p) \o Step("report", Top.p, Top.x))
      /\ UNCHANGED Settings /\ UNCHANGED <<group, event, over, by, ran, owed>>
      /\ UNCHANGED <<pc, procedure, lock, state, function, signal, finished, toFinish>>
      /\ \A p \in APs : pc[p] \in {"parked", "hung"}
    BY DEF SeeOver, At, Checks, apVars, callVars, history, Settings, Settled, Orderly
<1>a. PICK p \in APs : p = Top.p
    BY <1>0, <1>1, SeeOverNext
<1>b. PICK b : b = Cell("report", p, p, Top.x)
    OBVIOUS
<1>3. /\ Kept({b}) /\ b \in Items(todo') /\ UNCHANGED <<stop, phase>> /\ todo' # << >>
      /\ Top' = Cell("zero", p, p, "null")
    BY <1>0, <1>1, <1>a, <1>b, SeeOverNext
<1>4. /\ phase = "boot" /\ Working /\ ~Booting /\ Top.x \in Modes
      /\ \A q \in APs : ~ToReady(q) /\ ~ToInit(q)
      /\ ~At("tell") /\ ~At("forget") /\ ~At("look")
      /\ ~Resetting
      /\ \E q \in APs : by[q] = p
      /\ Top.x = "poll" => p \in event
      /\ Top.x = "block" => p \notin event
    BY <1>1, <1>a, AtCheck
<1>5. by[p] = p /\ \A q \in APs : by[q] = p => q = p
    BY <1>0, <1>4, Bounds DEF CallsOK
<1>6. Top'.do = "zero" /\ Top'.p = p /\ Top'.x = "null"
      /\ (\A y : Doing(y)' <=> y = "null") /\ \A e : At(e)' <=> e = "zero"
    BY <1>3, CellTop
<1>7. /\ Resetting' /\ Ending' = p /\ ~Reclaiming' /\ ~Reclaiming /\ Doing("null")'
      /\ ~Doing("proc")' /\ ~Doing("relocate")' /\ ~Booting' /\ Working' /\ phase' = "boot"
      /\ \A q \in APs : (ToReady(q)' <=> q = p) /\ ~ToInit(q)'
    BY <1>1, <1>3, <1>4, <1>5, <1>6, Bounds
    DEF Resetting, Ending, Reclaiming, Booting, Working, ToReady, ToInit, Wakes1
<1>8. TypeOK'
    BY <1>0, <1>1, <1>3, TypesKept DEF TypeOK
<1>9. PhaseOK' /\ Program(todo')
    BY <1>0, <1>1, <1>3, <1>4, <1>7, PhaseKept DEF Kept
<1>10. CountOK' /\ BootOK' /\ LeaveOK'
    BY <1>0, <1>1, <1>6, <1>7 DEF CountOK, BootOK, LeaveOK, Flying
<1>11. \A q \in APs : PlaceOK(q)'
    <2> TAKE q \in APs
    <2>1. PlaceOK(q)
        BY <1>0
    <2> QED BY <1>1, <1>3, <1>4, <1>7, <2>1 DEF PlaceOK
<1>c. b.do = "report" /\ b.p = p /\ b.x = Top.x /\ b.do \in Checks
    BY <1>b DEF Cell, Checks
<1>12. CallsOK'
    <2>2. \A e \in {b} :
              /\ e.do \in Checks =>
                    /\ e.x = "poll" => e.p \in event
                    /\ e.x = "block" => e.p \notin event
                    /\ \E q \in APs : by[q] = e.p
              /\ e.do \notin {"startThis", "startAll"}
        BY <1>4, <1>c
    <2>3. Top.do \in Checks /\ Top.x = "block" =>
              \E e \in Items(todo') : e.do \in Checks /\ e.x = "block" /\ e.p = Top.p
        BY <1>3, <1>c, <1>a
    <2>4. Top.do \notin {"tell", "forget"} /\ Top'.do \notin {"tell", "forget"}
        BY <1>1, <1>6
    <2> QED BY <1>0, <1>1, <1>3, <2>2, <2>3, <2>4, CallsKept
<1>13. GroupOK'
    <2>1. ~At("decide")
        BY <1>1 DEF At
    <2>2. ~((\E q \in APs : by[q] = All) /\ group.waiting = {})
        BY <1>0, <1>4, <1>7, <2>1, StillWaits
    <2> QED BY <1>0, <1>1, <1>7, <2>2 DEF GroupOK
<1>14. WorkOK'
    <2>1. \A q \in APs :
             /\ by'[q] = Nobody => RestOK(q)'
             /\ Live(q)' => LiveOK(q)'
             /\ Resetting' /\ by'[q] = Ending' => EndingOK(q)'
        <3> TAKE q \in APs
        <3>1. by'[q] = Nobody => RestOK(q)'
            <4> HAVE by'[q] = Nobody
            <4>1. q # p /\ RestOK(q)
                BY <1>0, <1>1, <1>4, <1>5, Bounds DEF WorkOK
            <4> QED BY <1>1, <1>7, <4>1 DEF RestOK
        <3>2. Live(q)' => LiveOK(q)'
            <4> HAVE Live(q)'
            <4>1. LiveOK(q) /\ q # p
                BY <1>0, <1>1, <1>4, <1>5, <1>7 DEF WorkOK, Live
            <4>2. Fresh(q)' <=> Fresh(q)
                BY <1>1, <1>4, <1>7, <4>1 DEF Fresh, Turn
            <4> QED BY <1>1, <1>4, <1>7, <4>1, <4>2 DEF LiveOK
        <3>3. Resetting' /\ by'[q] = Ending' => EndingOK(q)'
            <4> HAVE Resetting' /\ by'[q] = Ending'
            <4>1. q = p /\ Live(q)
                BY <1>1, <1>4, <1>5, <1>7, Bounds DEF Live
            <4>2. LiveOK(q)
                BY <1>0, <1>4, <4>1 DEF WorkOK
            <4>3. q \notin group.waiting
                BY <1>0, <1>5, <4>1, Bounds DEF GroupOK
            <4> QED BY <1>1, <1>6, <1>7, <4>1, <4>2, <4>3 DEF EndingOK, LiveOK
        <3> QED BY <3>1, <3>2, <3>3
    <2>2. \A q \in APs : ToReady(q)' => by'[q] # Nobody
        BY <1>1, <1>5, <1>7, Bounds
    <2> QED BY <1>7, <2>1, <2>2 DEF WorkOK
<1>15. ResetOK'
    <2>1. \A e \in Items(todo') : e.do \in {"reclaim", "report"} => e.p = p
        <3> TAKE e \in Items(todo')
        <3>1. e.do \in Harmless \/ e \in Items(todo) \/ e = b
            BY <1>3 DEF Kept
        <3>2. e \in Items(todo) => e.do \notin {"reclaim", "report"}
            BY <1>0, <1>4 DEF ResetOK
        <3> QED BY <1>c, <3>1, <3>2 DEF Harmless, Wakes
    <2> QED BY <1>1, <1>6, <1>7, <2>1, Bounds DEF ResetOK
<1> QED BY <1>8, <1>9, <1>10, <1>11, <1>12, <1>13, <1>14, <1>15 DEF IInv

\* The next AP of a StartupAllAPs that is out of time is taken off, and reset.
LEMMA ReclaimKeeps == ASSUME IInv, Reclaim PROVE IInv'
<1>0. /\ Program(todo) /\ PhaseOK /\ TypeOK /\ WorkOK /\ CountOK /\ GroupOK /\ CallsOK
      /\ ResetOK /\ \A q \in APs : PlaceOK(q)
    BY DEF IInv
<1>1. /\ At("reclaim") /\ todo # << >> /\ Top.do = "reclaim"
      /\ Do(IF Top.i \in group.waiting THEN ResetProcessorToIdleState(Top.i) ELSE << >>)
      /\ group' = [group EXCEPT !.waiting = @ \ {Top.i}]
      /\ UNCHANGED Settings /\ UNCHANGED <<event, over, by, ran, owed>>
      /\ UNCHANGED <<pc, procedure, lock, state, function, signal, finished, toFinish>>
    BY DEF Reclaim, At, apVars, history, Settings
<1>a. PICK i \in APs : i = Top.i
    BY <1>0, <1>1, ReclaimNext
<1>2. /\ Kept({Cell("reclaim", All, i + 1, Top.x)})
      /\ UNCHANGED <<stop, phase>> /\ todo' # << >> /\ Top.p = All
      /\ i \in group.waiting => Top' = Cell("zero", i, i, "null")
      /\ i \notin group.waiting /\ i # N => Top' = Cell("reclaim", All, i + 1, Top.x)
      /\ i \notin group.waiting /\ i = N => Top' = Cell("report", All, All, Top.x)
    BY <1>0, <1>1, <1>a, ReclaimNext
<1>3. Top \in Items(todo) /\ Top.x \in Modes
    <2>1. Top \in Items(todo) /\ WellFormed(Top)
        BY <1>0, <1>1, TopIs
    <2> QED BY <1>1, <2>1 DEF WellFormed
<1>4. /\ Resetting /\ Ending = All /\ Reclaiming /\ phase = "boot" /\ ~Doing("null")
      /\ Working /\ ~Booting
      /\ (\A q \in APs : pc[q] \in {"parked", "hung"})
      /\ \A q \in group.waiting : q >= i
    <2>1. Resetting /\ Ending = All /\ ~Doing("null") /\ ~Doing("sync") /\ ~Doing("relocate")
        BY <1>1, <1>2, <1>3 DEF Resetting, Ending, Doing, Modes
    <2>2. phase = "boot"
        BY <1>0, <1>1, <2>1 DEF PhaseOK, TypeOK
    <2> QED BY <1>0, <1>1, <1>a, <2>1, <2>2 DEF ResetOK, Reclaiming, Working, Booting
<1>5. group'.waiting = group.waiting \ {i} /\ group'.running = group.running
      /\ group'.start = group.start /\ group'.single = group.single
      /\ group' \in [start : 0 .. N, running : 0 .. N, waiting : SUBSET APs, single : BOOLEAN]
    BY <1>0, <1>1, <1>a DEF TypeOK
<1>6. \A q : ~ToReady(q) /\ ~ToInit(q)
    BY <1>1 DEF ToReady, ToInit, At
<1>7. /\ Resetting' /\ Ending' = All /\ ~Doing("proc")' /\ ~Doing("sync")' /\ ~Doing("relocate")'
      /\ (\A q \in APs : (ToReady(q)' <=> q = i /\ i \in group.waiting) /\ ~ToInit(q)')
      /\ ~At("ready")' /\ ~At("init")' /\ ~At("awake")' /\ ~At("count")' /\ ~At("idle")'
      /\ ~At("tell")' /\ ~At("forget")' /\ Top'.do \notin {"tell", "forget"}
      /\ At("reclaim")' => \A q \in group'.waiting : q >= Top'.i
      /\ At("report")' => group'.waiting = {}
      /\ Doing("null")' <=> i \in group.waiting
      /\ Doing("null")' => Top'.p = i /\ At("zero")' /\ ~At("reclaim")'
    <2>0. by[i] = All \/ i \notin group.waiting
        BY <1>0 DEF GroupOK
    <2>1. CASE i \in group.waiting
        <3>1. Top'.do = "zero" /\ Top'.p = i /\ Top'.x = "null"
              /\ (\A y : Doing(y)' <=> y = "null") /\ \A e : At(e)' <=> e = "zero"
            BY <1>2, <2>1, CellTop
        <3> QED BY <1>1, <2>0, <2>1, <3>1, Bounds DEF Resetting, Ending, ToReady, ToInit, Wakes1
    <2>2. CASE i \notin group.waiting /\ i # N
        <3>1. Top'.do = "reclaim" /\ Top'.p = All /\ Top'.i = i + 1 /\ Top'.x = Top.x
              /\ (\A y : Doing(y)' <=> y = Top.x) /\ \A e : At(e)' <=> e = "reclaim"
            BY <1>2, <2>2, CellTop
        <3>2. \A q \in group'.waiting : q >= i + 1
            BY <1>4, <1>5, <2>2, Bounds DEF APs
        <3> QED BY <1>3, <2>2, <3>1, <3>2 DEF Resetting, Ending, ToReady, ToInit, Modes
    <2>3. CASE i \notin group.waiting /\ i = N
        <3>1. Top'.do = "report" /\ Top'.p = All /\ Top'.x = Top.x
              /\ (\A y : Doing(y)' <=> y = Top.x) /\ \A e : At(e)' <=> e = "report"
            BY <1>2, <2>3, CellTop
        <3>2. group'.waiting = {}
            BY <1>4, <1>5, <2>3, Bounds DEF APs
        <3> QED BY <1>3, <2>3, <3>1, <3>2 DEF Resetting, Ending, ToReady, ToInit, Modes
    <2> QED BY <2>1, <2>2, <2>3
<1>8. Reclaiming' /\ Working' /\ ~Booting' /\ phase' = "boot"
    BY <1>2, <1>4, <1>7 DEF Reclaiming, Working, Booting
<1>9. TypeOK'
    BY <1>0, <1>1, <1>2, <1>5 DEF TypeOK
<1>10. PhaseOK' /\ Program(todo')
    BY <1>0, <1>1, <1>2, <1>4, <1>7, PhaseKept DEF Kept
<1>11. CountOK' /\ BootOK' /\ LeaveOK'
    BY <1>0, <1>1, <1>7, <1>8 DEF CountOK, BootOK, LeaveOK, Flying
<1>12. \A q \in APs : PlaceOK(q)'
    <2> TAKE q \in APs
    <2>1. PlaceOK(q) /\ pc[q] \in {"parked", "hung"}
        BY <1>0, <1>4
    <2> QED BY <1>1, <1>2, <1>4, <1>6, <1>7, <1>8, <2>1 DEF PlaceOK
<1>b. PICK b : b = Cell("reclaim", All, i + 1, Top.x)
    OBVIOUS
<1>c. b.do = "reclaim" /\ b.p = All /\ Kept({b})
    BY <1>2, <1>b DEF Cell
<1>13. CallsOK'
    <2>1. \A e \in {b} : e.do \notin Checks \union {"startThis", "startAll"}
        BY <1>c DEF Checks
    <2>2. Top.do \notin Checks \union {"tell", "forget"}
        BY <1>1 DEF Checks
    <2> QED BY <1>0, <1>1, <1>2, <1>7, <1>c, <2>1, <2>2, CallsKept
<1>14. GroupOK'
    <2> DEFINE n == Cardinality(group.waiting)
               m == Cardinality(group.waiting \ {i})
    <2>1. m <= n /\ m \in Nat /\ n \in Nat
        <3>1. group.waiting \subseteq APs /\ group.waiting \ {i} \subseteq APs
            BY <1>0 DEF TypeOK
        <3>2. m \in Nat /\ n \in Nat
            BY <3>1, Finite
        <3>3. CASE i \in group.waiting
            <4>1. m = n - 1
                BY <3>1, <3>3, OneMore
            <4> HIDE DEF m, n
            <4> QED BY <3>2, <4>1
        <3>4. CASE i \notin group.waiting
            <4>1. group.waiting \ {i} = group.waiting
                BY <3>4
            <4>2. m = n
                BY <4>1
            <4> HIDE DEF m, n
            <4> QED BY <3>2, <4>2
        <3> QED BY <3>2, <3>3, <3>4
    <2>2. group.running + n <= group.start /\ group.running \in Nat /\ group.start \in Nat
        BY <1>0 DEF GroupOK, TypeOK
    <2>3. group.running + m <= group.start
        <3> HIDE DEF m, n
        <3> QED BY <2>1, <2>2
    <2>4. group'.running + Cardinality(group'.waiting) <= group'.start
        BY <1>5, <2>3
    <2> QED BY <1>0, <1>1, <1>5, <1>8, <2>4 DEF GroupOK
<1>15. WorkOK'
    <2>1. \A q \in APs :
             /\ by'[q] = Nobody => RestOK(q)'
             /\ Live(q)' => LiveOK(q)'
             /\ Resetting' /\ by'[q] = Ending' => EndingOK(q)'
        <3> TAKE q \in APs
        <3>0. q = i /\ i \in group.waiting => by[q] = All
            BY <1>0 DEF GroupOK
        <3>1. by'[q] = Nobody => RestOK(q)'
            BY <1>0, <1>1, <1>4, <1>6, <1>7, <3>0 DEF WorkOK, RestOK, Nobody, All
        <3>2. Live(q)' => LiveOK(q)'
            <4> HAVE Live(q)'
            <4>1. LiveOK(q) /\ by[q] # All
                BY <1>0, <1>1, <1>4, <1>7 DEF WorkOK, Live
            <4>2. (Fresh(q)' <=> Fresh(q)) /\ q \notin group.waiting
                BY <1>0, <1>1, <1>6, <1>7, <3>0, <4>1 DEF Fresh, Turn, GroupOK
            <4> QED BY <1>1, <1>5, <1>6, <1>7, <4>1, <4>2 DEF LiveOK
        <3>3. Resetting' /\ by'[q] = Ending' => EndingOK(q)'
            <4> HAVE Resetting' /\ by'[q] = Ending'
            <4>1. EndingOK(q)
                BY <1>0, <1>1, <1>4, <1>7 DEF WorkOK
            <4>2. pc[q] \in {"parked", "hung"} /\ (q \notin group.waiting => state[q] = "idle" /\ pc[q] = "parked")
                BY <1>4, <4>1 DEF EndingOK
            <4>3. CASE q = i /\ i \in group.waiting
                BY <1>1, <1>5, <1>7, <4>1, <4>2, <4>3 DEF EndingOK
            <4>4. CASE ~(q = i /\ i \in group.waiting)
                BY <1>1, <1>5, <1>7, <4>1, <4>2, <4>4 DEF EndingOK
            <4> QED BY <4>3, <4>4
        <3> QED BY <3>1, <3>2, <3>3
    <2>2. \A q \in APs : ToReady(q)' => by'[q] # Nobody
        BY <1>0, <1>1, <1>7 DEF GroupOK, Nobody, All
    <2> QED BY <1>7, <2>1, <2>2 DEF WorkOK
<1>16. ResetOK'
    <2>1. \A e \in Items(todo') : e.do \in {"reclaim", "report"} => e.p = All
        <3> TAKE e \in Items(todo')
        <3>1. e.do \in Harmless \/ e \in Items(todo) \/ e = b
            BY <1>c DEF Kept
        <3>2. e \in Items(todo) => (e.do \in {"reclaim", "report"} => e.p = All)
            BY <1>0, <1>4 DEF ResetOK
        <3> QED BY <1>c, <3>1, <3>2 DEF Harmless, Wakes
    <2>2. Doing("null")' => \A q \in group'.waiting : q > Top'.p
        BY <1>4, <1>5, <1>7, Bounds DEF APs
    <2> QED BY <1>1, <1>4, <1>7, <2>1, <2>2 DEF ResetOK, Nobody, All
<1> QED BY <1>9, <1>10, <1>11, <1>12, <1>13, <1>14, <1>15, <1>16 DEF IInv

-----------------------------------------------------------------------------
(***************************************************************************)
(* Calls that begin.                                                       *)
(***************************************************************************)
\* What holds where a call is made, after CheckAndUpdateApsStatus.
LEMMA AtStart ==
    ASSUME IInv, todo # << >>, Top.do \in Starts
    PROVE  /\ phase = "boot" /\ Working /\ ~Booting /\ Top.x \in Modes /\ Top \in Items(todo)
           /\ Top \in Steps /\ WellFormed(Top)
           /\ \A q : ~ToReady(q) /\ ~ToInit(q)
           /\ ~At("tell") /\ ~At("forget") /\ ~At("look") /\ ~At("decide")
           /\ ~Resetting /\ ~Reclaiming /\ owed = event
           /\ \A e \in Items(todo) : e.do \notin {"reclaim", "report"}
           /\ \A q \in APs : Live(q) <=> by[q] # Nobody
           /\ \A c \in event : \E q \in APs : by[q] = c
<1>0. Program(todo) /\ PhaseOK /\ TypeOK /\ CallsOK /\ ResetOK
    BY DEF IInv
<1>1. Top \in Items(todo) /\ Top \in Steps /\ WellFormed(Top)
    BY <1>0, TopIs
<1>2. Top.x \in Modes
    BY <1>1 DEF WellFormed
<1>3. ~Resetting /\ ~Doing("sync") /\ ~Doing("relocate")
    BY <1>2 DEF Resetting, At, Starts, Doing, Modes
<1>4. phase = "boot" /\ Working /\ ~Booting
    BY <1>0, <1>3 DEF PhaseOK, TypeOK, Working, Booting
<1>5. /\ \A q : ~ToReady(q) /\ ~ToInit(q)
      /\ ~At("tell") /\ ~At("forget") /\ ~At("look") /\ ~At("decide")
    BY DEF ToReady, ToInit, At, Starts
<1>6. ~Reclaiming /\ owed = event /\ \A e \in Items(todo) : e.do \notin {"reclaim", "report"}
    BY <1>0, <1>3, <1>5 DEF Reclaiming, CallsOK, ResetOK
<1>7. \A q \in APs : Live(q) <=> by[q] # Nobody
    BY <1>3 DEF Live
<1>8. \A c \in event : \E q \in APs : by[q] = c
    BY <1>0, <1>5 DEF CallsOK
<1> QED BY <1>1, <1>2, <1>3, <1>4, <1>5, <1>6, <1>7, <1>8

\* StartupThisAP asks an AP that nobody has asked, and takes no AP from another call.
LEMMA StartThisAPKeeps ==
    ASSUME IInv, StartThisAP
    PROVE  IInv' /\ \A q \in APs : by'[q] \in {by[q], q}
<1>0. /\ Program(todo) /\ PhaseOK /\ TypeOK /\ WorkOK /\ CountOK /\ GroupOK /\ CallsOK
      /\ ResetOK /\ \A q \in APs : PlaceOK(q)
    BY DEF IInv
<1>1. /\ At("startThis") /\ todo # << >> /\ Top.do = "startThis" /\ Top.do \in Starts
      /\ state[Top.p] # "disabled" /\ Ask(Top.p, {Top.p}, Top.x)
      /\ Do(WakeUpAP(Top.p, "proc")
              \o IF Top.x = "block" THEN Step("see", Top.p, "block") ELSE << >>)
      /\ UNCHANGED Settings /\ group' = group
      /\ UNCHANGED <<pc, procedure, lock, state, function, signal, finished, toFinish>>
    BY DEF StartThisAP, At, Starts, apVars, Settings
<1>2. /\ phase = "boot" /\ Working /\ ~Booting /\ Top.x \in Modes /\ Top \in Items(todo)
      /\ \A q : ~ToReady(q) /\ ~ToInit(q)
      /\ ~At("tell") /\ ~At("forget") /\ ~At("look") /\ ~At("decide")
      /\ ~Resetting /\ ~Reclaiming /\ owed = event
      /\ \A e \in Items(todo) : e.do \notin {"reclaim", "report"}
      /\ \A q \in APs : Live(q) <=> by[q] # Nobody
      /\ \A c \in event : \E q \in APs : by[q] = c
    BY <1>1, AtStart
<1>a. PICK p \in APs : p = Top.p
    BY <1>0, <1>1, StartThisNext
<1>b. PICK b : b = Cell("see", p, p, "block")
    OBVIOUS
<1>c. b.do = "see" /\ b.p = p /\ b.x = "block" /\ b.do \in Checks
    BY <1>b DEF Cell, Checks
<1>3. /\ Kept(IF Top.x = "block" THEN {b} ELSE {})
      /\ UNCHANGED <<stop, phase>> /\ todo' # << >>
      /\ Top' = Cell("zero", p, p, "proc")
      /\ \A e \in Items(todo') : e.do \in Wakes \union {"return"} \/ (Top.x = "block" /\ e = b)
      /\ Top.x = "block" => b \in Items(todo')
    BY <1>0, <1>1, <1>a, <1>b, StartThisNext
<1>4. by[p] = Nobody /\ state[p] # "disabled"
    BY <1>0, <1>1, <1>2, <1>a DEF CallsOK
<1>5. /\ by' \in [APs -> {Nobody, All} \union APs] /\ ran' \in [APs -> {"no", "in", "yes", "bad"}]
      /\ by'[p] = p /\ ran'[p] = "no"
      /\ \A q \in APs : q # p => by'[q] = by[q] /\ ran'[q] = ran[q]
      /\ event' = IF Top.x = "poll" THEN event \union {p} ELSE event \ {p}
      /\ owed' = IF Top.x = "poll" THEN owed \union {p} ELSE owed
      /\ over' = over \ {p}
    BY <1>0, <1>1, <1>a DEF Ask, TypeOK
<1>6. \A q \in APs : by[q] # p /\ (by[q] \in {Nobody, All, q})
    BY <1>0, <1>4, Bounds DEF CallsOK
<1>7. p \notin event
    BY <1>2, <1>6
<1>8. Top'.do = "zero" /\ Top'.p = p /\ Top'.x = "proc"
      /\ (\A y : Doing(y)' <=> y = "proc") /\ \A e : At(e)' <=> e = "zero"
    BY <1>3, CellTop
<1>9. /\ ~Resetting' /\ ~Reclaiming' /\ ~Booting' /\ Working' /\ phase' = "boot"
      /\ \A q \in APs : (ToReady(q)' <=> q = p) /\ ~ToInit(q)'
    BY <1>2, <1>3, <1>8, Bounds
    DEF Resetting, Reclaiming, Booting, Working, ToReady, ToInit, Wakes1
<1>10. RestOK(p)
    BY <1>0, <1>2, <1>4 DEF WorkOK
<1>11. TypeOK'
    BY <1>0, <1>1, <1>3, <1>5 DEF TypeOK
<1>12. PhaseOK' /\ Program(todo')
    BY <1>0, <1>1, <1>2, <1>3, <1>8, PhaseKept DEF Kept
<1>13. CountOK' /\ BootOK' /\ LeaveOK'
    BY <1>0, <1>1, <1>8, <1>9 DEF CountOK, BootOK, LeaveOK, Flying
<1>14. \A q \in APs : PlaceOK(q)'
    <2> TAKE q \in APs
    <2>1. PlaceOK(q) /\ (q = p => pc[q] \in {"parked", "count"})
        BY <1>0, <1>10 DEF RestOK
    <2>2. ran'[q] # "bad"
        BY <1>5, <2>1 DEF PlaceOK
    <2> QED BY <1>1, <1>2, <1>3, <1>9, <2>1, <2>2 DEF PlaceOK
<1>15. CallsOK'
    <2>1. \A q \in APs : by'[q] \in {Nobody, All, q}
        BY <1>5, <1>6
    <2>2. owed' = event'
        BY <1>2, <1>5, <1>7
    <2>3. \A c \in event' : \E q \in APs : by'[q] = c
        <3> TAKE c \in event'
        <3>1. CASE c = p
            BY <1>5, <3>1
        <3>2. CASE c # p
            <4>1. c \in event /\ c # Nobody
                BY <1>0, <1>5, <3>2, Bounds DEF TypeOK, Nobody, All
            <4>2. PICK q \in APs : by[q] = c
                BY <1>2, <4>1
            <4> QED BY <1>4, <1>5, <4>1, <4>2
        <3> QED BY <3>1, <3>2
    <2>4. \A q \in APs : by'[q] # Nobody =>
              by'[q] \in event' \/ \E e \in Items(todo') :
                                      e.do \in Checks /\ e.x = "block" /\ e.p = by'[q]
        <3> TAKE q \in APs
        <3> HAVE by'[q] # Nobody
        <3>1. CASE q = p
            BY <1>2, <1>3, <1>5, <1>c, <3>1 DEF Modes
        <3>2. CASE q # p
            <4>1. by'[q] = by[q] /\ by[q] # p
                BY <1>5, <1>6, <3>2
            <4>2. CASE by[q] \in event
                BY <1>5, <4>1, <4>2
            <4>3. CASE by[q] \notin event
                <5>1. PICK e \in Items(todo) : e.do \in Checks /\ e.x = "block" /\ e.p = by[q]
                    BY <1>0, <4>1, <4>3 DEF CallsOK
                <5>2. e # Top
                    BY <1>1, <5>1 DEF Checks
                <5>3. e \in Items(todo')
                    BY <1>3, <5>2 DEF Kept
                <5> QED BY <4>1, <5>1, <5>3
            <4> QED BY <4>2, <4>3
        <3> QED BY <3>1, <3>2
    <2>5. \A e \in Items(todo') :
              /\ e.do \in Checks => e = b /\ Top.x = "block"
              /\ e.do \notin {"startThis", "startAll"}
        BY <1>3, <1>c DEF Wakes, Checks
    <2>6. \A e \in Items(todo') :
              /\ e.do \in Checks =>
                    /\ e.x = "poll" => e.p \in event'
                    /\ e.x = "block" => e.p \notin event'
                    /\ \E q \in APs : by'[q] = e.p
              /\ e.do = "startThis" => by'[e.p] = Nobody
              /\ e.do = "startAll" => \A q \in APs : state'[q] # "disabled"
        BY <1>5, <1>7, <1>c, <2>5 DEF Modes
    <2>7. ~At("tell")' /\ ~At("forget")'
        BY <1>8
    <2> QED BY <2>1, <2>2, <2>3, <2>4, <2>6, <2>7 DEF CallsOK
<1>16. GroupOK'
    <2>1. ~((\E q \in APs : by[q] = All) /\ group.waiting = {})
        BY <1>0, <1>2, StillWaits
    <2>2. \A q \in APs : by'[q] = All <=> by[q] = All
        BY <1>4, <1>5, Bounds DEF Nobody, All
    <2>3. \A q \in APs : by[q] = All => q # p
        BY <1>4 DEF Nobody, All
    <2>4. group.waiting \subseteq APs
        BY <1>0 DEF TypeOK
    <2> QED BY <1>0, <1>1, <1>2, <1>5, <1>9, <2>1, <2>2, <2>3, <2>4 DEF GroupOK
<1>17. WorkOK'
    <2>1. \A q \in APs :
             /\ by'[q] = Nobody => RestOK(q)'
             /\ Live(q)' => LiveOK(q)'
        <3> TAKE q \in APs
        <3>1. by'[q] = Nobody => RestOK(q)'
            <4> HAVE by'[q] = Nobody
            <4>1. q # p /\ by[q] = Nobody
                BY <1>5, Bounds
            <4>2. RestOK(q)
                BY <1>0, <1>2, <4>1 DEF WorkOK
            <4> QED BY <1>1, <1>9, <4>1, <4>2 DEF RestOK
        <3>2. Live(q)' => LiveOK(q)'
            <4> HAVE Live(q)'
            <4>1. CASE q = p
                <5>1. Fresh(p)'
                    BY <1>9 DEF Fresh
                <5>2. state[p] = "idle" /\ pc[p] \in {"parked", "count"}
                    BY <1>4, <1>10 DEF RestOK
                <5> QED BY <1>1, <1>5, <1>9, <4>1, <5>1, <5>2 DEF LiveOK
            <4>2. CASE q # p
                <5>1. by'[q] = by[q] /\ ran'[q] = ran[q]
                    BY <1>5, <4>2
                <5>2. LiveOK(q)
                    BY <1>0, <1>2, <5>1 DEF WorkOK, Live
                <5>3. Fresh(q)' <=> Fresh(q)
                    BY <1>1, <1>2, <1>9, <4>2, <5>1 DEF Fresh, Turn
                <5> QED BY <1>1, <1>2, <1>9, <4>2, <5>1, <5>2, <5>3 DEF LiveOK
            <4> QED BY <4>1, <4>2
        <3> QED BY <3>1, <3>2
    <2>2. by'[p] # Nobody /\ by'[p] # All /\ Turn(p)'
        BY <1>5, Bounds DEF Turn
    <2>3. state[p] = "idle" /\ pc[p] \in {"parked", "count"}
        BY <1>4, <1>10 DEF RestOK
    <2> QED BY <1>1, <1>9, <2>1, <2>2, <2>3 DEF WorkOK
<1>18. ResetOK'
    <2>1. \A e \in Items(todo') : e.do \notin {"reclaim", "report"}
        BY <1>3, <1>c DEF Wakes
    <2> QED BY <1>8, <1>9, <2>1 DEF ResetOK
<1>19. \A q \in APs : by'[q] \in {by[q], q}
    BY <1>5
<1> QED BY <1>11, <1>12, <1>13, <1>14, <1>15, <1>16, <1>17, <1>18, <1>19 DEF IInv

\* While all APs that are not disabled are idle, no call is outstanding.
LEMMA AllIdle ==
    ASSUME IInv, todo # << >>, Top.do \in Starts,
           \A q \in APs : state[q] \in {"idle", "disabled"}
    PROVE  (\A q \in APs : by[q] = Nobody) /\ event = {}
<1>0. TypeOK /\ GroupOK /\ WorkOK /\ CallsOK
    BY DEF IInv
<1>1. /\ Working /\ (\A q : ~ToReady(q)) /\ ~Reclaiming /\ ~At("look") /\ ~At("decide")
      /\ \A q \in APs : Live(q) <=> by[q] # Nobody
      /\ \A c \in event : \E q \in APs : by[q] = c
    BY AtStart
<1>2. \A q \in APs : by[q] # Nobody /\ (by[q] = q \/ q \in group.waiting) => ~Turn(q)
    <2> TAKE q \in APs
    <2> HAVE by[q] # Nobody /\ (by[q] = q \/ q \in group.waiting)
    <2>1. LiveOK(q)
        BY <1>0, <1>1 DEF WorkOK
    <2>2. Fresh(q)
        BY <2>1 DEF LiveOK
    <2> QED BY <1>1, <2>2 DEF Fresh
<1>3. group.waiting = {}
    <2> SUFFICES ASSUME group.waiting # {} PROVE FALSE
        OBVIOUS
    <2>1. Min(group.waiting) \in group.waiting /\ Min(group.waiting) \in APs
          /\ \A y \in group.waiting : Min(group.waiting) <= y
        BY <1>0, MinIs DEF TypeOK
    <2>2. by[Min(group.waiting)] # Nobody /\ Turn(Min(group.waiting))
        BY <1>0, <2>1 DEF GroupOK, Turn, Nobody, All
    <2> QED BY <1>2, <2>1, <2>2
<1>4. \A q \in APs : by[q] # All
    BY <1>0, <1>1, <1>3, StillWaits
<1>5. \A q \in APs : by[q] = Nobody
    <2> TAKE q \in APs
    <2>1. by[q] = q => Turn(q) /\ by[q] # Nobody
        BY <1>4, Bounds DEF Turn
    <2> QED BY <1>0, <1>2, <1>4, <2>1 DEF CallsOK
<1>6. event = {}
    <2>1. \A c \in event : c # Nobody
        BY <1>0, Bounds DEF TypeOK, Nobody, All
    <2> QED BY <1>1, <1>5, <2>1
<1> QED BY <1>5, <1>6

\* StartupAllAPs asks all APs that are enabled, which are idle.
LEMMA StartAllAPsKeeps ==
    ASSUME IInv, StartAllAPs
    PROVE  IInv' /\ \A q \in APs : by'[q] \in {by[q], All}
<1>0. /\ Program(todo) /\ PhaseOK /\ TypeOK /\ WorkOK /\ CountOK /\ GroupOK /\ CallsOK
      /\ ResetOK /\ \A q \in APs : PlaceOK(q)
    BY DEF IInv
<1>a. PICK E : E = Enabled
    OBVIOUS
<1>b. PICK single \in BOOLEAN : single = (Top.do = "startSingle")
    OBVIOUS
<1>c. PICK p : p = IF single THEN Min(E) ELSE All
    OBVIOUS
<1>1. /\ todo # << >> /\ Top.do \in {"startAll", "startSingle"} /\ Top.do \in Starts
      /\ E # {} /\ \A q \in E : state[q] = "idle"
      /\ E = {q \in APs : state[q] # "disabled"}
      /\ group' = [start |-> Cardinality(E), running |-> 0, waiting |-> E, single |-> single]
      /\ finished' = 0 /\ Ask(All, E, Top.x)
      /\ Do((IF single THEN WakeUpAP(Min(E), "proc") ELSE WakeUpAll("proc"))
              \o IF Top.x = "block" THEN CheckAllAPs("block") ELSE << >>)
      /\ UNCHANGED <<pc, procedure, lock, state, function, signal, toFinish>>
    BY <1>a, <1>b DEF StartAllAPs, At, Starts, Enabled
<1>2. /\ phase = "boot" /\ Working /\ ~Booting /\ Top.x \in Modes /\ Top \in Items(todo)
      /\ \A q : ~ToReady(q) /\ ~ToInit(q)
      /\ ~At("tell") /\ ~At("forget") /\ ~At("look") /\ ~At("decide")
      /\ ~Resetting /\ ~Reclaiming /\ owed = event
      /\ \A e \in Items(todo) : e.do \notin {"reclaim", "report"}
      /\ \A q \in APs : Live(q) <=> by[q] # Nobody
    BY <1>1, AtStart
<1>3. (\A q \in APs : by[q] = Nobody) /\ event = {} /\ owed = {}
    <2>1. \A q \in APs : state[q] \in {"idle", "disabled"}
        BY <1>1
    <2> QED BY <1>1, <1>2, <2>1, AllIdle
<1>4. \A q \in APs : RestOK(q)
    BY <1>0, <1>2, <1>3 DEF WorkOK
<1>5. Min(E) \in E /\ Min(E) \in APs /\ \A y \in E : Min(E) <= y
    BY <1>1, MinIs
<1>6. p \in 0 .. N /\ (single => p = Min(E) /\ p # All /\ p \in APs) /\ (~single => p = All)
    BY <1>5, <1>c, Bounds
<1>7. ~single => E = APs
    <2>1. ~single => Top.do = "startAll"
        BY <1>1, <1>b
    <2> QED BY <1>0, <1>1, <1>2, <2>1 DEF CallsOK
<1>d. PICK b : b = Cell("decide", All, All, "block")
    OBVIOUS
<1>e. b.do = "decide" /\ b.p = All /\ b.x = "block" /\ b.do \in Checks
    BY <1>d DEF Cell, Checks
<1>8. /\ Kept(IF Top.x = "block" THEN {b} ELSE {})
      /\ UNCHANGED <<stop, phase>> /\ todo' # << >>
      /\ Top' = Cell("zero", p, p, "proc")
      /\ \A e \in Items(todo') :
            e.do \in Wakes \union {"look", "return"} \/ (Top.x = "block" /\ e = b)
      /\ Top.x = "block" => b \in Items(todo')
    <2> DEFINE w == IF p = All THEN WakeUpAll("proc") ELSE WakeUpAP(p, "proc")
    <2>1. w = IF single THEN WakeUpAP(Min(E), "proc") ELSE WakeUpAll("proc")
        BY <1>6
    <2>2. Do(w \o IF Top.x = "block" THEN CheckAllAPs("block") ELSE << >>)
        BY <1>1, <2>1
    <2> QED BY <1>0, <1>1, <1>6, <1>d, <2>2, StartAllNext
<1>9. /\ by' \in [APs -> {Nobody, All} \union APs] /\ ran' \in [APs -> {"no", "in", "yes", "bad"}]
      /\ \A q \in APs : /\ by'[q] = IF q \in E THEN All ELSE Nobody
                        /\ ran'[q] = IF q \in E THEN "no" ELSE ran[q]
      /\ event' = IF Top.x = "poll" THEN {All} ELSE {}
      /\ owed' = IF Top.x = "poll" THEN {All} ELSE {}
      /\ over' = over \ {All}
    BY <1>0, <1>1, <1>3 DEF Ask, TypeOK
<1>10. Top'.do = "zero" /\ Top'.p = p /\ Top'.x = "proc"
       /\ (\A y : Doing(y)' <=> y = "proc") /\ \A e : At(e)' <=> e = "zero"
    BY <1>8, CellTop
<1>11. /\ ~Resetting' /\ ~Reclaiming' /\ ~Booting' /\ Working' /\ phase' = "boot"
       /\ \A q \in APs : (ToReady(q)' <=> ~single \/ q = p) /\ ~ToInit(q)'
    BY <1>2, <1>6, <1>8, <1>10, Bounds
    DEF Resetting, Reclaiming, Booting, Working, ToReady, ToInit, Wakes1
<1>12. Cardinality(E) \in 0 .. N /\ E \subseteq APs /\ 0 + Cardinality(E) = Cardinality(E)
    <2>1. E \subseteq APs
        BY <1>1
    <2> DEFINE n == Cardinality(E)
    <2>2. n \in Nat /\ n <= N
        BY <2>1, Finite
    <2>3. n \in 0 .. N /\ 0 + n = n
        <3> HIDE DEF n
        <3> QED BY <2>2, Bounds
    <2> QED BY <2>1, <2>3
<1>13. /\ group'.waiting = E /\ group'.single = single /\ group'.running = 0
       /\ group'.start = Cardinality(E)
    BY <1>1
<1>14. TypeOK'
    <2>1. group' \in [start : 0 .. N, running : 0 .. N, waiting : SUBSET APs, single : BOOLEAN]
          /\ group'.running <= group'.start
        BY <1>1, <1>12, <1>13, Bounds
    <2>2. event' \subseteq {All} \union APs /\ owed' \subseteq {All} \union APs
          /\ over' \subseteq {All} \union APs
        BY <1>0, <1>9 DEF TypeOK
    <2>3. finished' \in 0 .. 2 * N
        BY <1>1, Bounds
    <2> QED BY <1>0, <1>1, <1>8, <1>9, <2>1, <2>2, <2>3 DEF TypeOK
<1>15. PhaseOK' /\ Program(todo')
    <2>1. PICK new : Kept(new)
        BY <1>8
    <2>2. ~Doing("relocate")'
        BY <1>10
    <2>3. PhaseOK'
        BY <1>0, <1>1, <1>2, <1>8, <2>1, <2>2, PhaseKept
    <2> QED BY <2>1, <2>3 DEF Kept
<1>16. CountOK' /\ BootOK' /\ LeaveOK'
    <2> DEFINE F == Cardinality(Flying)
    <2>1. Flying' = Flying
        BY <1>1 DEF Flying
    <2>2. F <= N /\ F \in Nat
        BY Finite DEF Flying
    <2>3. 0 + F <= 2 * N
        <3> HIDE DEF F
        <3> QED BY <2>2, Bounds
    <2> QED BY <1>1, <1>10, <1>11, <2>1, <2>3 DEF CountOK, BootOK, LeaveOK
<1>17. \A q \in APs : PlaceOK(q)'
    <2> TAKE q \in APs
    <2>1. PlaceOK(q) /\ pc[q] \in {"parked", "count"}
        BY <1>0, <1>4 DEF RestOK
    <2>2. ran'[q] # "bad"
        BY <1>9, <2>1 DEF PlaceOK
    <2> QED BY <1>1, <1>2, <1>8, <1>11, <2>1, <2>2 DEF PlaceOK
<1>18. \E q \in APs : by'[q] = All
    BY <1>5, <1>9
<1>19. CallsOK'
    <2>1. \A q \in APs : by'[q] \in {Nobody, All, q}
        BY <1>9
    <2>2. owed' = event' /\ ~At("tell")' /\ ~At("forget")'
        BY <1>9, <1>10
    <2>3. \A c \in event' : \E q \in APs : by'[q] = c
        BY <1>9, <1>18
    <2>4. \A q \in APs : by'[q] # Nobody =>
              by'[q] \in event' \/ \E e \in Items(todo') :
                                      e.do \in Checks /\ e.x = "block" /\ e.p = by'[q]
        <3> TAKE q \in APs
        <3> HAVE by'[q] # Nobody
        <3>1. by'[q] = All
            BY <1>9
        <3>2. CASE Top.x = "poll"
            BY <1>9, <3>1, <3>2
        <3>3. CASE Top.x = "block"
            BY <1>8, <1>e, <3>1, <3>3
        <3> QED BY <1>2, <3>2, <3>3 DEF Modes
    <2>5. \A e \in Items(todo') :
              /\ e.do \in Checks => e = b /\ Top.x = "block"
              /\ e.do \notin {"startThis", "startAll"}
        BY <1>8, <1>e DEF Wakes, Checks
    <2>6. \A e \in Items(todo') :
              /\ e.do \in Checks =>
                    /\ e.x = "poll" => e.p \in event'
                    /\ e.x = "block" => e.p \notin event'
                    /\ \E q \in APs : by'[q] = e.p
              /\ e.do = "startThis" => by'[e.p] = Nobody
              /\ e.do = "startAll" => \A q \in APs : state'[q] # "disabled"
        BY <1>9, <1>18, <1>e, <2>5 DEF Modes
    <2> QED BY <2>1, <2>2, <2>3, <2>4, <2>6 DEF CallsOK
<1>20. GroupOK'
    <2>1. \A q \in APs : by'[q] = All => q \in E
        BY <1>9 DEF Nobody, All
    <2>2. \A q \in E : by'[q] = All
        BY <1>9, <1>12
    <2>3. group'.running + Cardinality(group'.waiting) = group'.start
          /\ group'.running + Cardinality(group'.waiting) <= group'.start
        BY <1>12, <1>13
    <2> QED BY <1>1, <1>11, <1>13, <2>1, <2>2, <2>3 DEF GroupOK
<1>21. \A q \in E : Fresh(q)' /\ (ToReady(q)' => Turn(q)')
    <2> TAKE q \in E
    <2>1. q \in APs /\ by'[q] = All
        BY <1>9, <1>12
    <2>2. CASE ~single
        BY <1>11, <1>13, <2>1, <2>2 DEF Fresh, Turn
    <2>3. CASE single /\ q = p
        <3>1. \A y \in group'.waiting : q <= y
            BY <1>5, <1>6, <1>13, <2>3
        <3> QED BY <1>11, <2>1, <2>3, <3>1 DEF Fresh, Turn
    <2>4. CASE single /\ q # p
        <3>1. p \in group'.waiting /\ ~(q <= p) /\ group'.single
            BY <1>5, <1>6, <1>13, <2>1, <2>4, Bounds DEF APs
        <3> QED BY <1>11, <2>1, <2>4, <3>1 DEF Fresh, Turn
    <2> QED BY <2>2, <2>3, <2>4
<1>22. WorkOK'
    <2>1. \A q \in APs :
             /\ by'[q] = Nobody => RestOK(q)'
             /\ Live(q)' => LiveOK(q)'
        <3> TAKE q \in APs
        <3>1. by'[q] = Nobody => RestOK(q)'
            <4> HAVE by'[q] = Nobody
            <4>1. q \notin E
                BY <1>9 DEF Nobody, All
            <4>2. ~ToReady(q)' /\ ~ToInit(q)'
                BY <1>5, <1>6, <1>7, <1>11, <4>1
            <4> QED BY <1>1, <1>4, <4>2 DEF RestOK
        <3>2. Live(q)' => LiveOK(q)'
            <4> HAVE Live(q)'
            <4>1. q \in E
                BY <1>9 DEF Live
            <4>2. state[q] = "idle" /\ pc[q] \in {"parked", "count"} /\ ran'[q] = "no"
                BY <1>1, <1>4, <1>9, <4>1 DEF RestOK
            <4> QED BY <1>1, <1>11, <1>21, <4>1, <4>2 DEF LiveOK
        <3> QED BY <3>1, <3>2
    <2>2. \A q \in APs : ToReady(q)' =>
              /\ q \in E /\ by'[q] # Nobody /\ q \in group'.waiting
              /\ state'[q] = "idle" /\ pc'[q] \in {"parked", "count"} /\ Turn(q)'
        <3> TAKE q \in APs
        <3> HAVE ToReady(q)'
        <3>1. q \in E
            BY <1>5, <1>6, <1>7, <1>11
        <3> QED BY <1>1, <1>4, <1>9, <1>13, <1>21, <3>1 DEF RestOK, Nobody, All
    <2> QED BY <1>11, <2>1, <2>2 DEF WorkOK
<1>23. ResetOK'
    <2>1. \A e \in Items(todo') : e.do \notin {"reclaim", "report"}
        BY <1>8, <1>e DEF Wakes
    <2> QED BY <1>10, <1>11, <2>1 DEF ResetOK
<1>24. \A q \in APs : by'[q] \in {by[q], All}
    BY <1>3, <1>9
<1> QED BY <1>14, <1>15, <1>16, <1>17, <1>19, <1>20, <1>22, <1>23, <1>24 DEF IInv

\* An AP of StartupAllAPs that has finished is taken off, and the next one is woken up.
LEMMA LookKeeps == ASSUME IInv, Look PROVE IInv'
<1>0. /\ Program(todo) /\ PhaseOK /\ TypeOK /\ WorkOK /\ CountOK /\ GroupOK /\ CallsOK
      /\ ResetOK /\ \A q \in APs : PlaceOK(q)
    BY DEF IInv
<1>1. /\ At("look") /\ todo # << >> /\ Top.do = "look" /\ Calm /\ group.waiting \subseteq APs
      /\ UNCHANGED <<pc, procedure, lock, function, signal, finished, toFinish>>
      /\ UNCHANGED <<event, over, by, ran, owed>>
    BY <1>0 DEF Look, At, Calm, Wakes, Others, history, TypeOK
<1>2. /\ Kept({}) /\ UNCHANGED <<stop, phase>> /\ todo' # << >>
      /\ Left = {} => Top'.do = "decide" /\ Top'.x = Top.x
      /\ Left # {} /\ (state[Min(Left)] # "finished" \/ ~WakesNext) =>
            Top' = Cell("look", Min(Left) + 1, Min(Left) + 1, Top.x)
      /\ Left # {} /\ state[Min(Left)] = "finished" /\ WakesNext =>
            Top' = Cell("zero", Min(Later), Min(Later), "proc")
    BY <1>0, <1>1, LookNext
<1>3. /\ \A q \in APs : ~ToReady(q) /\ ~ToInit(q)
      /\ ~Resetting /\ ~Doing("sync") /\ ~Doing("null") /\ ~Doing("proc")
      /\ ~At("tell") /\ ~At("forget")
    BY <1>0, <1>1, CalmTop DEF At
<1>4. Top \in Steps /\ WellFormed(Top) /\ Top.x \in Modes
    <2>1. Top \in Steps /\ WellFormed(Top)
        BY <1>0, <1>1, TopIs
    <2> QED BY <1>1, <2>1 DEF WellFormed
<1>5. phase = "boot" /\ Working /\ ~Booting /\ ~Reclaiming
    BY <1>0, <1>1, <1>3, <1>4 DEF PhaseOK, TypeOK, Working, Booting, Reclaiming, Modes, Doing
<1>6. CASE Left = {} \/ state[Min(Left)] # "finished"
    <2>1. UNCHANGED <<state, group>>
        BY <1>6 DEF Look, Left
    <2>2. Top'.do \in {"look", "decide"}
        <3>1. CASE Left = {}
            BY <1>2, <3>1
        <3>2. CASE Left # {}
            <4>1. Top' = Cell("look", Min(Left) + 1, Min(Left) + 1, Top.x)
                BY <1>2, <1>6, <3>2
            <4> QED BY <1>2, <4>1, CellTop
        <3> QED BY <3>1, <3>2
    <2>3. Calm' /\ Top'.do \notin {"tell", "forget", "gone"} /\ (At("look")' \/ At("decide")')
        BY <1>2, <2>2 DEF Calm, Wakes, At
    <2>4. CallsOK'
        <3>1. \A q \in APs : state'[q] = "disabled" => state[q] = "disabled"
            BY <2>1
        <3>2. Top.do \notin Checks \union {"tell", "forget"}
            BY <1>1 DEF Checks
        <3> QED BY <1>0, <1>1, <1>2, <2>3, <3>1, <3>2, CallsKept
    <2>5. UNCHANGED Settings
        BY <1>1, <2>1 DEF Settings
    <2>6. event' \subseteq {All} \union APs /\ owed' \subseteq {All} \union APs
        BY <1>0, <1>1 DEF TypeOK
    <2> QED BY <1>1, <1>2, <2>1, <2>3, <2>4, <2>5, <2>6, QuietStep
<1>7. CASE Left # {} /\ state[Min(Left)] = "finished"
    <2>a. PICK p : p = Min(Left)
        OBVIOUS
    <2>1. p \in Left /\ p \in APs /\ p \in group.waiting
        <3>1. Left \subseteq APs
            BY <1>1 DEF Left
        <3> QED BY <1>7, <2>a, <3>1, MinIs DEF Left
    <2>b. PICK R : R = group.waiting \ {p}
        OBVIOUS
    <2>c. Later = R
        BY <2>a, <2>b DEF Later
    <2>2. /\ ~lock[p] /\ state' = [state EXCEPT ![p] = "idle"]
          /\ group' = [group EXCEPT !.running = @ + 1, !.waiting = R]
        BY <1>7, <2>a, <2>b DEF Look, Left, SetApState
    <2>3. /\ state'[p] = "idle" /\ \A q \in APs : q # p => state'[q] = state[q]
          /\ group'.waiting = R /\ group'.running = group.running + 1
          /\ group'.start = group.start /\ group'.single = group.single
        BY <1>0, <2>1, <2>2 DEF TypeOK
    <2>4. by[p] = All /\ Live(p) /\ LiveOK(p) /\ ran[p] = "yes" /\ state[p] = "finished"
        <3>1. by[p] = All /\ Live(p)
            BY <1>0, <1>3, <2>1 DEF GroupOK, Live, Nobody, All
        <3>2. LiveOK(p)
            BY <1>0, <1>5, <2>1, <3>1 DEF WorkOK
        <3> QED BY <1>7, <2>a, <3>1, <3>2 DEF LiveOK
    <2>5. pc[p] \in {"parked", "count"} /\ ~signal[p]
        BY <1>0, <1>3, <1>5, <2>1, <2>2, <2>4, Settles
    <2>6. Turn(p)
        BY <1>3, <2>1, <2>4 DEF LiveOK, Fresh
    <2>7. ~group.single \/ \A q \in group.waiting : p <= q
        BY <2>4, <2>6 DEF Turn
    <2>8. group.single /\ R # {} => Min(R) \in R /\ Min(R) \in APs /\ \A y \in R : Min(R) <= y
        <3>1. R \subseteq APs
            BY <1>1, <2>b
        <3> QED BY <3>1, MinIs
    <2>d. PICK wakes \in BOOLEAN : wakes = (group.single /\ R # {})
        OBVIOUS
    <2>e. PICK m : m = Min(R)
        OBVIOUS
    <2>9. WakesNext <=> wakes
        BY <2>c, <2>d DEF WakesNext
    <2>10. /\ ~Resetting' /\ ~Doing("sync")' /\ ~Doing("null")' /\ ~Doing("relocate")'
           /\ ~At("tell")' /\ ~At("forget")' /\ ~At("ready")' /\ ~At("init")' /\ ~At("reclaim")'
           /\ ~At("report")' /\ Top'.do \notin {"tell", "forget"}
           /\ (\A q \in APs : (ToReady(q)' <=> wakes /\ q = m) /\ ~ToInit(q)')
           /\ ~wakes => At("look")'
        <3>1. CASE wakes
            <4>1. Top' = Cell("zero", m, m, "proc")
                BY <1>2, <1>7, <2>9, <2>c, <2>e, <3>1
            <4>2. Top'.do = "zero" /\ Top'.p = m /\ Top'.x = "proc"
                  /\ (\A y : Doing(y)' <=> y = "proc") /\ \A e : At(e)' <=> e = "zero"
                BY <1>2, <4>1, CellTop
            <4>3. m # All
                BY <2>8, <2>d, <2>e, <3>1, Bounds
            <4> QED BY <3>1, <4>2, <4>3 DEF Resetting, ToReady, ToInit, Wakes1
        <3>2. CASE ~wakes
            <4>1. Top' = Cell("look", p + 1, p + 1, Top.x)
                BY <1>2, <1>7, <2>9, <2>a, <3>2
            <4>2. Top'.do = "look" /\ Top'.x = Top.x
                  /\ (\A y : Doing(y)' <=> y = Top.x) /\ \A e : At(e)' <=> e = "look"
                BY <1>2, <4>1, CellTop
            <4> QED BY <1>4, <3>2, <4>2 DEF Resetting, ToReady, ToInit, Modes
        <3> QED BY <3>1, <3>2
    <2>11. ~Reclaiming' /\ Working' /\ ~Booting' /\ phase' = "boot"
        BY <1>2, <1>5, <2>10 DEF Reclaiming, Working, Booting
    <2>12. group.running + 1 + Cardinality(R) = group.start /\ group.running + 1 <= group.start
           /\ group.running + 1 \in 0 .. N /\ R \subseteq APs
           /\ group.running + 1 + Cardinality(R) <= group.start
        <3> DEFINE n == Cardinality(group.waiting)
                   k == Cardinality(R)
        <3>1. R \subseteq APs /\ k = n - 1 /\ n \in Nat /\ k \in Nat
            BY <1>1, <2>1, <2>b, OneMore, Finite
        <3>2. group.running + n = group.start /\ group.running \in Nat /\ group.start \in 0 .. N
            BY <1>0, <1>5 DEF GroupOK, TypeOK
        <3>3. group.running + 1 + k = group.start /\ group.running + 1 <= group.start
              /\ group.running + 1 \in 0 .. N /\ group.running + 1 + k <= group.start
            <4> HIDE DEF n, k
            <4> QED BY <3>1, <3>2, Bounds
        <3> QED BY <3>1, <3>3
    <2>13. TypeOK'
        <3>1. group' \in [start : 0 .. N, running : 0 .. N, waiting : SUBSET APs, single : BOOLEAN]
              /\ group'.running <= group'.start
            BY <1>0, <2>2, <2>3, <2>12 DEF TypeOK
        <3> QED BY <1>0, <1>1, <1>2, <2>2, <3>1 DEF TypeOK
    <2>14. PhaseOK' /\ Program(todo')
        BY <1>0, <1>1, <1>2, <1>5, <2>10, PhaseKept DEF Kept
    <2>15. CountOK' /\ BootOK' /\ LeaveOK'
        BY <1>0, <1>1, <2>10, <2>11 DEF CountOK, BootOK, LeaveOK, Flying
    <2>16. \A q \in R : group.single =>
               state[q] = "idle" /\ ran[q] = "no" /\ pc[q] \in {"parked", "count"} /\ by[q] = All
        <3> TAKE q \in R
        <3> HAVE group.single
        <3>1. q \in APs /\ q \in group.waiting /\ q # p
            BY <1>1, <2>b
        <3>2. by[q] = All /\ Live(q)
            BY <1>0, <1>3, <3>1 DEF GroupOK, Live, Nobody, All
        <3>3. LiveOK(q)
            BY <1>0, <1>5, <3>1, <3>2 DEF WorkOK
        <3>4. ~(q <= p)
            BY <2>1, <2>7, <3>1, Bounds DEF APs
        <3>5. ~Turn(q)
            BY <2>1, <3>2, <3>4 DEF Turn
        <3>6. state[q] = "idle" /\ ran[q] = "no"
            BY <3>1, <3>3, <3>5 DEF LiveOK, Fresh
        <3>7. pc[q] \in {"parked", "count"}
            BY <1>0, <1>3, <1>5, <3>1, <3>6, Settles
        <3> QED BY <3>2, <3>6, <3>7
    <2>17. \A q \in APs : PlaceOK(q)'
        <3> TAKE q \in APs
        <3>1. PlaceOK(q)
            BY <1>0
        <3>2. ToReady(q)' => pc[q] \in {"parked", "count"}
            BY <2>8, <2>10, <2>16, <2>d, <2>e
        <3>3. CASE q = p
            BY <1>1, <1>2, <1>3, <2>2, <2>3, <2>5, <2>10, <2>11, <3>1, <3>2, <3>3 DEF PlaceOK
        <3>4. CASE q # p
            <4>1. state'[q] = state[q]
                BY <2>3, <3>4
            <4> QED BY <1>1, <1>2, <1>3, <1>5, <2>10, <2>11, <3>1, <3>2, <4>1 DEF PlaceOK
        <3> QED BY <3>3, <3>4
    <2>18. CallsOK'
        <3>1. \A q \in APs : state'[q] = "disabled" => state[q] = "disabled"
            BY <2>3
        <3>2. Top.do \notin Checks \union {"tell", "forget"}
            BY <1>1 DEF Checks
        <3> QED BY <1>0, <1>1, <1>2, <2>10, <3>1, <3>2, CallsKept
    <2>19. GroupOK'
        <3>1. \A q \in group'.waiting : by'[q] = All
            BY <1>0, <1>1, <2>3, <2>b DEF GroupOK
        <3>2. \A q \in APs : by'[q] = All /\ q \notin group'.waiting =>
                 state'[q] = "idle" /\ ran'[q] = "yes"
            BY <1>0, <1>1, <1>5, <2>3, <2>4, <2>b DEF GroupOK
        <3>3. group'.waiting = {} => At("look")'
            BY <2>3, <2>10, <2>d
        <3>4. group'.running + Cardinality(group'.waiting) = group'.start
              /\ group'.running + Cardinality(group'.waiting) <= group'.start
            BY <2>3, <2>12
        <3> QED BY <2>11, <3>1, <3>2, <3>3, <3>4 DEF GroupOK
    <2>20. \A q \in APs : ToReady(q)' =>
              /\ q \in R /\ by'[q] = All /\ state'[q] = "idle" /\ pc'[q] \in {"parked", "count"}
              /\ Turn(q)'
        <3> TAKE q \in APs
        <3> HAVE ToReady(q)'
        <3>1. wakes /\ q = m /\ q \in R /\ q # p /\ group.single /\ \A y \in R : q <= y
            BY <2>8, <2>10, <2>b, <2>d, <2>e
        <3> QED BY <1>1, <2>3, <2>16, <3>1 DEF Turn
    <2>21. \A q \in APs : Live(q)' => LiveOK(q)'
        <3> TAKE q \in APs
        <3> HAVE Live(q)'
        <3>1. LiveOK(q)
            BY <1>0, <1>1, <1>3, <1>5 DEF WorkOK, Live
        <3>2. CASE q = p
            <4>1. q \notin group'.waiting /\ by'[q] # q
                BY <1>1, <2>1, <2>3, <2>4, <2>b, <3>2, Bounds
            <4> QED BY <1>1, <2>3, <2>4, <2>5, <2>10, <3>1, <3>2, <4>1 DEF LiveOK
        <3>3. CASE q # p
            <4>1. state'[q] = state[q]
                BY <2>3, <3>3
            <4>2. by[q] = q \/ q \in R => (Fresh(q)' <=> Fresh(q))
                <5>1. CASE by[q] = q
                    <6>1. by[q] # All /\ ~ToReady(q)'
                        BY <1>1, <2>20, <5>1, Bounds
                    <6> QED BY <1>1, <1>3, <6>1 DEF Fresh, Turn
                <5>2. CASE q \in R /\ ~group.single
                    <6>1. ~ToReady(q)'
                        BY <2>10, <2>d, <5>2
                    <6> QED BY <1>1, <1>3, <2>3, <5>2, <6>1 DEF Fresh, Turn
                <5>3. CASE q \in R /\ group.single
                    <6>1. by[q] = All /\ q \in group.waiting /\ ~(q <= p)
                        BY <2>1, <2>7, <2>16, <2>b, <3>3, <5>3, Bounds DEF APs
                    <6>2. Fresh(q)
                        BY <2>1, <5>3, <6>1 DEF Fresh, Turn
                    <6>3. wakes /\ m \in R /\ m \in APs /\ \A y \in R : m <= y
                        BY <2>8, <2>d, <2>e, <5>3
                    <6>4. Fresh(q)'
                        <7>1. CASE q = m
                            BY <2>10, <6>3, <7>1 DEF Fresh
                        <7>2. CASE q # m
                            <8>1. ~(q <= m)
                                BY <5>3, <6>3, <7>2, Bounds DEF APs
                            <8> QED BY <1>1, <2>3, <5>3, <6>1, <6>3, <8>1 DEF Fresh, Turn
                        <7> QED BY <7>1, <7>2
                    <6> QED BY <6>2, <6>4
                <5> QED BY <5>1, <5>2, <5>3
            <4>3. q \in R => q \in group.waiting
                BY <2>b
            <4> QED BY <1>1, <1>3, <2>3, <2>10, <3>1, <4>1, <4>2, <4>3 DEF LiveOK
        <3> QED BY <3>2, <3>3
    <2>22. \A q \in APs : by'[q] = Nobody => RestOK(q)'
        <3> TAKE q \in APs
        <3> HAVE by'[q] = Nobody
        <3>1. q # p /\ RestOK(q) /\ ~ToReady(q)'
            BY <1>0, <1>1, <1>5, <2>4, <2>20 DEF WorkOK, Nobody, All
        <3> QED BY <1>1, <2>3, <2>10, <3>1 DEF RestOK
    <2>23. WorkOK'
        BY <2>3, <2>10, <2>20, <2>21, <2>22 DEF WorkOK, Nobody, All
    <2>24. ResetOK'
        <3>1. \A e \in Items(todo') : e.do \notin {"reclaim", "report"}
            <4> TAKE e \in Items(todo')
            <4>1. e.do \in Harmless \/ e \in Items(todo)
                BY <1>2 DEF Kept
            <4>2. e \in Items(todo) => e.do \notin {"reclaim", "report"}
                BY <1>0, <1>3 DEF ResetOK
            <4> QED BY <4>1, <4>2 DEF Harmless, Wakes
        <3> QED BY <2>10, <3>1 DEF ResetOK
    <2> QED BY <2>13, <2>14, <2>15, <2>17, <2>18, <2>19, <2>23, <2>24 DEF IInv
<1> QED BY <1>6, <1>7

\* The initial states
LEMMA Begins == ASSUME Init PROVE IInv
<1>1. /\ todo = << >> /\ stop = TRUE /\ phase = "off"
      /\ pc = [p \in APs |-> "pei"] /\ procedure = [p \in APs |-> "null"]
      /\ lock = [p \in APs |-> FALSE] /\ state = [p \in APs |-> "idle"]
      /\ function = [p \in APs |-> "null"] /\ signal = [p \in APs |-> FALSE]
      /\ finished = 0 /\ toFinish = 0 /\ group = NoGroup /\ event = {} /\ over = {}
      /\ by = [p \in APs |-> Nobody] /\ ran = [p \in APs |-> "no"] /\ owed = {}
    BY DEF Init
<1>2. /\ Program(todo) /\ Items(todo) = {} /\ Calm
    BY <1>1, Nothing DEF Calm
<1>3. /\ \A p \in APs : ~ToReady(p) /\ ~ToInit(p)
      /\ ~Resetting /\ ~Doing("sync") /\ ~Doing("null") /\ ~Doing("proc")
      /\ \A d : ~At(d)
    BY <1>1, <1>2, CalmTop DEF At
<1>4. /\ group.start = 0 /\ group.running = 0 /\ group.waiting = {}
      /\ Cardinality(group.waiting) = 0
    <2>1. group.start = 0 /\ group.running = 0 /\ group.waiting = {}
        BY <1>1 DEF NoGroup
    <2> QED BY <2>1, FS_EmptySet
<1>5. TypeOK
    BY <1>1, Bounds DEF TypeOK, NoGroup
<1>6. PhaseOK
    BY <1>1 DEF PhaseOK, Doing
<1>7. CountOK
    <2>1. Flying = {}
        BY <1>1 DEF Flying
    <2>2. Cardinality(Flying) = 0
        BY <2>1, FS_EmptySet
    <2> QED BY <1>1, <1>3, <2>2, Bounds DEF CountOK
<1>8. Booting /\ ~Working
    BY <1>1 DEF Booting, Working
<1>9. \A p \in APs : PlaceOK(p)
    BY <1>1, <1>3, <1>8 DEF PlaceOK
<1>10. BootOK
    BY <1>1, <1>3, <1>4 DEF BootOK
<1>11. LeaveOK
    BY <1>1 DEF LeaveOK
<1>12. \A p \in APs : by[p] = Nobody
    BY <1>1
<1>13. CallsOK
    BY <1>1, <1>2, <1>3, <1>12 DEF CallsOK
<1>14. GroupOK
    BY <1>1, <1>3, <1>4, <1>12 DEF GroupOK, Nobody, All
<1>15. WorkOK /\ ResetOK
    BY <1>2, <1>3, <1>8 DEF WorkOK, ResetOK
<1> QED BY <1>2, <1>5, <1>6, <1>7, <1>9, <1>10, <1>11, <1>13, <1>14, <1>15 DEF IInv

\* Each call of the application keeps the invariant.
LEMMA CallKeeps == ASSUME Orderly, IInv, Call PROVE IInv'
<1>1. CASE \E x \in {"poll", "block"} :
              \/ \E sequential \in BOOLEAN : StartupAllAPs(sequential, x)
              \/ \E p \in APs : StartupThisAP(p, x)
    BY <1>1, StartupKeeps
<1>2. CASE \E p \in APs, s \in {"idle", "disabled"} : EnableDisableAP(p, s)
    BY <1>2, EnableDisableKeeps
<1>3. CASE MpInitChangeApLoopCallback
    BY <1>3, LeaveKeeps
<1> QED BY <1>1, <1>2, <1>3 DEF Call

\* Each step of the BSP does.
LEMMA BspStepKeeps == ASSUME Orderly, IInv, BspStep PROVE IInv'
BY ZeroKeeps, ReadyKeeps, SendInitSipiSipiKeeps, WaitApWakeupKeeps, WaitFinishedKeeps,
   IdleKeeps, LookKeeps, DecideFinishedKeeps, DecideOverKeeps, DecideNotReadyKeeps,
   ReclaimKeeps, ReportKeeps, SeeFinishedKeeps, SeeOverKeeps, SeeNotReadyKeeps,
   PendingKeeps, TellKeeps, ForgetKeeps, ReturnKeeps, StartAllAPsKeeps, RefuseKeeps,
   StartThisAPKeeps, Zenon DEF BspStep

\* Every step does.
LEMMA NextKeeps == ASSUME Orderly, IInv, Next PROVE IInv'
BY BootKeeps, BspStepKeeps, CheckApsStatusKeeps, CallKeeps, ApStepKeeps, ExpireKeeps,
   Zenon DEF Next

\* Stuttering does.
LEMMA StaysTrue == ASSUME IInv, UNCHANGED vars PROVE IInv'
<1>1. /\ UNCHANGED <<todo, stop, phase, pc, procedure, lock, state, function, signal>>
      /\ UNCHANGED <<finished, toFinish, group, event, over, by, ran, owed>>
    BY DEF vars, bspVars, apVars, callVars, history
<1>2. \A d : At(d)' <=> At(d)
    BY <1>1 DEF At, Top
<1>3. \A x : Doing(x)' <=> Doing(x)
    BY <1>1 DEF Doing, Top
<1>4. /\ \A p \in APs : (ToReady(p)' <=> ToReady(p)) /\ (ToInit(p)' <=> ToInit(p))
      /\ (Booting' <=> Booting) /\ (Working' <=> Working) /\ Top' = Top
      /\ Flying' = Flying /\ Items(todo') = Items(todo)
    BY <1>1, <1>2, <1>3 DEF ToReady, ToInit, Wakes1, Booting, Working, Top, Flying
<1>5. (Resetting' <=> Resetting) /\ Ending' = Ending /\ (Reclaiming' <=> Reclaiming)
    BY <1>1, <1>2, <1>3, <1>4 DEF Resetting, Ending, Reclaiming
<1>6. TypeOK' /\ Program(todo') /\ PhaseOK' /\ CountOK'
    BY <1>1, <1>2, <1>3, <1>4 DEF IInv, TypeOK, PhaseOK, CountOK
<1>7. \A p \in APs : PlaceOK(p)'
    BY <1>1, <1>4 DEF IInv, PlaceOK
<1>8. BootOK' /\ LeaveOK'
    BY <1>1, <1>2, <1>4 DEF IInv, BootOK, LeaveOK
<1>9. CallsOK' /\ GroupOK'
    BY <1>1, <1>2, <1>4, <1>5 DEF IInv, CallsOK, GroupOK
<1>10. \A p \in APs : /\ (Turn(p)' <=> Turn(p)) /\ (Fresh(p)' <=> Fresh(p))
                      /\ (Live(p)' <=> Live(p))
    BY <1>1, <1>4, <1>5 DEF Turn, Fresh, Live
<1>11. \A p \in APs : /\ (LiveOK(p)' <=> LiveOK(p)) /\ (RestOK(p)' <=> RestOK(p))
                      /\ (EndingOK(p)' <=> EndingOK(p))
    BY <1>1, <1>2, <1>3, <1>4, <1>10 DEF LiveOK, RestOK, EndingOK
<1>12. WorkOK' /\ ResetOK'
    BY <1>1, <1>2, <1>3, <1>4, <1>5, <1>10, <1>11 DEF IInv, WorkOK, ResetOK
<1> QED BY <1>6, <1>7, <1>8, <1>9, <1>12 DEF IInv

\* An AP that is in a procedure runs it for the call that asked it.
LEMMA RunsIn ==
    ASSUME IInv, NEW p \in APs, pc[p] \in {"run", "hung"}, procedure[p] = "proc"
    PROVE  ran[p] = "in"
<1>0. /\ Program(todo) /\ PhaseOK /\ PlaceOK(p) /\ BootOK /\ LeaveOK /\ WorkOK /\ ResetOK
      /\ TypeOK
    BY DEF IInv
<1>1. pc[p] = "run" => function[p] = "proc"
    BY <1>0 DEF PlaceOK
<1>2. \A d \in Wakes : d \in {"zero", "ready", "init", "awake", "count", "idle"}
    BY DEF Wakes
<1>3. ~Booting
    <2> SUFFICES ASSUME Booting PROVE FALSE
        OBVIOUS
    <2>1. phase # "off"
        BY <1>0 DEF BootOK
    <2>2. todo # << >> /\ Top.x = "sync"
        BY <2>1 DEF Booting, Doing
    <2>3. Top.do \in Wakes
        BY <1>0, <2>2, WakesOnly
    <2>4. \/ At("zero") \/ At("ready") \/ At("init")
          \/ At("awake") \/ At("count")
          \/ At("idle")
        BY <1>2, <2>2, <2>3 DEF At
    <2>5. CASE At("zero") \/ At("ready") \/ At("init")
        BY <1>0, <2>5 DEF BootOK
    <2>6. CASE At("awake") \/ At("count")
        BY <1>0, <1>1, <2>6 DEF BootOK
    <2>7. CASE At("idle")
        BY <1>0, <2>7 DEF BootOK
    <2> QED BY <2>4, <2>5, <2>6, <2>7
<1>4. phase # "os"
    BY <1>0, <1>1 DEF LeaveOK
<1>5. Working
    BY <1>0, <1>3, <1>4 DEF TypeOK, Booting, Working
<1>6. by[p] # Nobody
    BY <1>0, <1>5 DEF WorkOK, RestOK
<1>7. CASE Live(p)
    BY <1>0, <1>5, <1>7 DEF WorkOK, LiveOK
<1>8. CASE Resetting /\ by[p] = Ending
    <2>1. EndingOK(p)
        BY <1>0, <1>5, <1>8 DEF WorkOK
    <2>2. CASE pc[p] = "hung"
        BY <2>1, <2>2 DEF EndingOK
    <2>3. CASE pc[p] = "run"
        <3>1. Doing("null") /\ p = Top.p
            BY <1>0, <1>8, <2>3 DEF ResetOK
        <3>2. todo # << >> /\ Top.do \in Wakes
            BY <1>0, <3>1, WakesOnly DEF Doing
        <3>3. \/ At("zero") \/ At("ready") \/ At("init")
              \/ At("awake") \/ At("count")
              \/ At("idle")
            BY <1>2, <3>2 DEF At
        <3> QED BY <2>1, <2>3, <3>1, <3>3 DEF EndingOK
    <2> QED BY <2>2, <2>3
<1> QED BY <1>6, <1>7, <1>8 DEF Live

\* The invariant implies what is claimed.
LEMMA IInvIsEnough == ASSUME IInv PROVE MpInv
<1>1. TypeOK
    BY DEF IInv
<1>2. RunsAsAsked
    <2>1. \A p \in APs : ran[p] # "bad"
        BY DEF IInv, PlaceOK
    <2> QED BY <2>1, RunsIn DEF RunsAsAsked
<1>3. Remembered
    BY DEF IInv, CallsOK, Remembered, At
<1>4. Available
    <2> SUFFICES ASSUME phase = "boot", todo = << >>, NEW p \in APs, by[p] = Nobody
                 PROVE  /\ state[p] \in {"idle", "disabled"} /\ ~lock[p] /\ ~signal[p]
                        /\ pc[p] \in {"parked", "start", "check", "count"}
        BY DEF Available
    <2>1. RestOK(p)
        BY NobodyAsked
    <2>2. ~lock[p]
        BY <2>1 DEF IInv, PlaceOK, RestOK
    <2> QED BY <2>1, <2>2 DEF RestOK
<1> QED BY <1>1, <1>2, <1>3, <1>4 DEF MpInv

\* A call comes to an end only after its procedure has returned, or by Report.
LEMMA SuccessStep ==
    ASSUME Orderly, IInv, Next, NEW p \in APs, by[p] # Nobody, by'[p] = Nobody
    PROVE  ran[p] = "yes" \/ At("report")
<1>1. All # Nobody /\ p # Nobody
    BY Bounds DEF All, Nobody
<1>2. by'[p] # by[p]
    OBVIOUS
<1>3. CASE BspStep
    <2>1. \/ Zero \/ Ready \/ SendInitSipiSipi \/ WaitApWakeup \/ WaitFinished
          \/ Idle \/ Look \/ DecideOver \/ DecideNotReady
          \/ Reclaim \/ SeeOver \/ SeeNotReady
          \/ Pending \/ Tell \/ Forget \/ EndCheck \/ RefuseAllAPs
          \/ RefuseThisAP \/ Return \/ WaitGone
          => UNCHANGED by
        BY DEF Zero, Ready, SendInitSipiSipi, WaitApWakeup, WaitFinished, Idle, Look,
               DecideOver, DecideNotReady, Reclaim, SeeOver, SeeNotReady, Pending, Tell,
               Forget, EndCheck, RefuseAllAPs, RefuseThisAP, Return, WaitGone, history
    <2>2. CASE DecideFinished
        <3>1. by[p] = All
            BY <1>2, <2>2 DEF DecideFinished, Result
        <3> QED BY <2>2, <3>1, DecideFinishedKeeps
    <2>3. CASE SeeFinished
        <3>1. by[p] = Top.p
            BY <1>2, <2>3 DEF SeeFinished, Result
        <3> QED BY <2>3, <3>1, SeeFinishedKeeps
    <2>4. CASE Report
        BY <2>4 DEF Report
    <2>5. CASE StartAllAPs
        BY <1>1, <2>5, StartAllAPsKeeps
    <2>6. CASE StartThisAP
        BY <1>1, <2>6, StartThisAPKeeps
    <2> QED BY <1>2, <1>3, <2>1, <2>2, <2>3, <2>4, <2>5, <2>6 DEF BspStep
<1>4. Boot \/ CheckApsStatus => UNCHANGED by
    BY DEF Boot, CheckApsStatus, history
<1>5. Call => UNCHANGED by
    BY DEF Call, StartupAllAPs, StartupThisAP, EnableDisableAP, MpInitChangeApLoopCallback,
           history
<1>6. (\E q \in APs : ApStep(q)) => UNCHANGED by
    BY DEF ApStep, ClearSignal, CheckReady, SetBusy, CallProcedure, EndProcedure, Hang,
           RelocateApLoop, SetFinished, ReleaseFinished, Park, history
<1>7. (\E c \in {All} \union APs : Expire(c)) => UNCHANGED by
    BY DEF Expire, history
<1> QED BY <1>2, <1>3, <1>4, <1>5, <1>6, <1>7 DEF Next

\* For every number of APs, while callers and time-outs are orderly: the inductive
\* invariant holds in every state of MpInitLib, at each access to shared memory.
THEOREM MpInvariant == ASSUME Orderly PROVE Spec => []IInv
<1>1. Init => IInv
    BY Begins
<1>2. IInv /\ [Next]_vars => IInv'
    BY NextKeeps, StaysTrue
<1> QED BY <1>1, <1>2, PTL DEF Spec

\* For every number of APs, while callers and time-outs are orderly: StartupAllAPs and
\* StartupThisAP run a procedure only for a call that is outstanding and once for it,
\* no WaitEvent is forgotten, and after a call its APs are available for the next one.
THEOREM MpIsSafe == ASSUME Orderly PROVE Spec => []MpInv
<1>1. IInv => MpInv
    BY IInvIsEnough
<1> QED BY <1>1, MpInvariant, PTL

\* For every number of APs, while callers and time-outs are orderly: StartupAllAPs and
\* StartupThisAP report success, or signal for it, only when the procedure has returned
\* on every AP that was asked; the step that reports a time-out is the only other end.
THEOREM SuccessIsTrue == ASSUME Orderly PROVE Spec => SuccessMeansRan
<1> DEFINE OnlyThen ==
        \A p \in APs : by[p] # Nobody /\ by'[p] = Nobody => ran[p] = "yes" \/ At("report")
<1>1. IInv /\ [Next]_vars => [OnlyThen]_vars
    <2> SUFFICES ASSUME IInv, Next PROVE OnlyThen
        OBVIOUS
    <2> QED BY SuccessStep
<1>2. SuccessMeansRan <=> [][OnlyThen]_vars
    BY DEF SuccessMeansRan
<1> QED BY <1>1, <1>2, MpInvariant, PTL DEF Spec

=============================================================================

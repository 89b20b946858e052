------------------------ MODULE DxeDispatcherProofs ------------------------
(***************************************************************************)
(* Proofs about DxeDispatcher.                                             *)
(***************************************************************************)
EXTENDS DxeDispatcher, EventListProofs, FiniteSetTheorems

\* The function that Only defines, for the first n elements of s
Keeps(f, s, D, n) ==
    f = [i \in 0 .. n |->
           IF i = 0 THEN << >>
           ELSE IF s[i] \in D THEN Append(f[i - 1], s[i]) ELSE f[i - 1]]

\* There is such a function, by the least n for which there would be none.
LEMMA OnlyDefined ==
    ASSUME NEW s, NEW D, NEW n \in Nat
    PROVE  \E f : Keeps(f, s, D, n)
<1> DEFINE Is(f, m) == f = [i \in 0 .. m |->
                         IF i = 0 THEN << >>
                         ELSE IF s[i] \in D THEN Append(f[i - 1], s[i]) ELSE f[i - 1]]
           Bad == {m \in Nat : ~ \E f : Is(f, m)}
<1>1. CASE Bad = {}
    BY <1>1 DEF Keeps
<1>2. CASE Bad # {}
    <2>1. PICK m \in Bad : \A j \in Bad : m <= j
        <3> HIDE DEF Bad
        <3>1. Bad \subseteq Nat
            BY DEF Bad
        <3> QED BY <1>2, <3>1, LeastNat
    <2>2. m # 0
        <3>1. Is([i \in 0 .. 0 |-> << >>], 0)
            <4> DEFINE g == [i \in 0 .. 0 |-> << >>]
            <4>1. \A i \in 0 .. 0 : i = 0
                OBVIOUS
            <4> QED BY <4>1
        <3>2. \E f : Is(f, 0)
            BY <3>1
        <3> QED BY <2>1, <3>2
    <2>3. PICK f : Is(f, m - 1)
        <3>1. m - 1 \in Nat /\ ~(m <= m - 1)
            BY <2>1, <2>2
        <3>2. m - 1 \notin Bad
            <4> HIDE DEF Bad
            <4> QED BY <2>1, <3>1
        <3> QED BY <3>1, <3>2
    <2> DEFINE g == [i \in 0 .. m |->
                       IF i = m
                       THEN IF s[m] \in D THEN Append(f[m - 1], s[m]) ELSE f[m - 1]
                       ELSE f[i]]
    <2>4. Is(g, m)
        <3>1. \A i \in 0 .. m - 1 : g[i] = f[i]
            BY <2>2
        <3>2. \A i \in 0 .. m : i # 0 => i - 1 \in 0 .. m - 1
            BY <2>1
        <3>3. \A i \in 0 .. m : g[i] = IF i = 0 THEN << >>
                         ELSE IF s[i] \in D THEN Append(g[i - 1], s[i]) ELSE g[i - 1]
            <4> TAKE i \in 0 .. m
            <4>1. CASE i = m
                BY <2>2, <3>1, <3>2, <4>1
            <4>2. CASE i # m
                <5>1. i \in 0 .. m - 1
                    BY <4>2, <2>1
                <5>2. f[i] = IF i = 0 THEN << >>
                         ELSE IF s[i] \in D THEN Append(f[i - 1], s[i]) ELSE f[i - 1]
                    BY <2>3, <5>1
                <5>3. i # 0 => f[i - 1] = g[i - 1]
                    BY <3>1, <5>1
                <5> QED BY <5>1, <5>2, <5>3, <3>1
            <4> QED BY <4>1, <4>2
        <3> QED BY <3>3
    <2> QED BY <2>1, <2>4
<1> QED BY <1>1, <1>2 DEF Keeps

\* What Only keeps, and that it keeps it once.
LEMMA OnlyKeeps ==
    ASSUME NEW S, NEW s \in Seq(S), IsInjective(s), NEW D
    PROVE  /\ Only(s, D) \in Seq(S)
           /\ IsInjective(Only(s, D))
           /\ ToSet(Only(s, D)) = ToSet(s) \intersect D
<1> DEFINE n == Len(s)
           h == CHOOSE f : f = [i \in 0 .. n |->
                         IF i = 0 THEN << >>
                         ELSE IF s[i] \in D THEN Append(f[i - 1], s[i]) ELSE f[i - 1]]
<1>0. n \in Nat /\ DOMAIN s = 1 .. n
    OBVIOUS
<1>1. Only(s, D) = h[n]
    BY DEF Only
<1>2. h = [i \in 0 .. n |->
                         IF i = 0 THEN << >>
                         ELSE IF s[i] \in D THEN Append(h[i - 1], s[i]) ELSE h[i - 1]]
    <2>1. \E f : Keeps(f, s, D, n)
        <3> HIDE DEF n
        <3> QED BY <1>0, OnlyDefined
    <2>2. h = CHOOSE f : Keeps(f, s, D, n)
        BY DEF Keeps
    <2> HIDE DEF h
    <2>3. Keeps(h, s, D, n)
        BY <2>1, <2>2, Zenon
    <2> QED BY <2>3 DEF Keeps
<1> HIDE DEF h
<1> DEFINE Good(m) == /\ h[m] \in Seq(S)
                      /\ IsInjective(h[m])
                      /\ ToSet(h[m]) = {s[i] : i \in 1 .. m} \intersect D
           Bad == {m \in 0 .. n : ~Good(m)}
<1>3. Bad = {}
    <2> SUFFICES ASSUME Bad # {} PROVE FALSE
        OBVIOUS
    <2>1. PICK m \in Bad : \A j \in Bad : m <= j
        <3>1. Bad \subseteq Nat
            BY <1>0
        <3> HIDE DEF Bad
        <3> QED BY <3>1, LeastNat
    <2>2. m \in 0 .. n /\ ~Good(m)
        BY <2>1
    <2>3. m # 0
        <3>1. h[0] = << >>
            BY <1>0, <1>2
        <3>2. Good(0)
            BY <3>1 DEF IsInjective, ToSet
        <3> QED BY <2>2, <3>2
    <2>4. Good(m - 1)
        <3>1. m - 1 \in 0 .. n /\ ~(m <= m - 1)
            BY <1>0, <2>2, <2>3
        <3>2. m - 1 \notin Bad
            <4> HIDE DEF Bad
            <4> QED BY <2>1, <3>1
        <3> QED BY <3>1, <3>2
    <2>5. h[m] = IF s[m] \in D THEN Append(h[m - 1], s[m]) ELSE h[m - 1]
        BY <1>2, <2>2, <2>3
    <2>6. {s[i] : i \in 1 .. m} = {s[i] : i \in 1 .. m - 1} \union {s[m]}
        <3>1. 1 .. m = (1 .. m - 1) \union {m}
            BY <1>0, <2>2, <2>3
        <3> QED BY <3>1
    <2>7. s[m] \in S /\ s[m] \notin {s[i] : i \in 1 .. m - 1}
        <3>1. m \in DOMAIN s /\ \A i \in 1 .. m - 1 : i \in DOMAIN s /\ i # m
            BY <1>0, <2>2, <2>3
        <3> QED BY <3>1, <1>0 DEF IsInjective
    <2>8. CASE s[m] \in D
        <3>1. h[m] = Append(h[m - 1], s[m])
            BY <2>5, <2>8
        <3>2. s[m] \notin ToSet(h[m - 1])
            BY <2>4, <2>7
        <3> QED BY <2>2, <2>4, <2>6, <2>7, <2>8, <3>1, <3>2, AppendInjects
    <2>9. CASE s[m] \notin D
        <3>1. h[m] = h[m - 1]
            BY <2>5, <2>9
        <3> QED BY <2>2, <2>4, <2>6, <2>9, <3>1
    <2> QED BY <2>8, <2>9
<1>4. Good(n)
    <2> HIDE DEF Good
    <2>1. n \in 0 .. n
        BY <1>0
    <2> QED BY <1>3, <2>1
<1>5. ToSet(s) = {s[i] : i \in 1 .. n}
    BY <1>0 DEF ToSet
<1> QED BY <1>1, <1>4, <1>5

-----------------------------------------------------------------------------
(***************************************************************************)
(* The inductive invariant.                                                *)
(***************************************************************************)
Frames == [driver : Drivers, side : Sides, at : Nat, known : SUBSET Drivers]
Entries == [driver : Drivers, known : SUBSET Drivers]
Found == ToSet(discovered)
Waiting == state["dependent"]
Early == state["deferred"] \union state["unrequested"]
Follows(d, e) == First(d) \in Sides /\ Depex[d][1].guid = Name[e]

Typed ==
    /\ installed \in SUBSET Protocols /\ ever \in SUBSET Things /\ installed \subseteq ever
    /\ arrived \in Seq(Volumes) /\ volumes \in SUBSET Volumes
    /\ discovered \in Seq(Drivers) /\ queue \in Seq(Drivers)
    /\ state \in [Flags -> SUBSET Drivers]
    /\ image \in [Drivers -> {"none", "loaded", "violation", "started"}]
    /\ found \in [Drivers -> SUBSET Nat]
    /\ pc \in {"idle", "drain", "entry", "round", "scan", "depex", "exit"}
    /\ trusting \in Drivers \union {None} /\ iterator \in Nat
    /\ current \in Drivers \union {None} /\ link \in 0 .. Len(discovered)
    /\ ready \in BOOLEAN /\ success \in BOOLEAN /\ late \in BOOLEAN
    /\ frames \in Seq(Frames) /\ log \in Seq(Entries)

\* Each discovered driver is of a volume that was processed, and in exactly one state.
OneFlag ==
    /\ \A f \in Flags : state[f] \subseteq Found
    /\ \A d \in Found : \E f \in Flags : d \in state[f]
    /\ \A f, g \in Flags : f # g => state[f] \intersect state[g] = {}

Placed ==
    /\ IsInjective(discovered) /\ IsInjective(queue) /\ ToSet(queue) = state["scheduled"]
    /\ \A d \in Found : \E v \in volumes : d \in ToSet(Files[v])
    /\ OneFlag

\* The driver that CoreTrust is to schedule is still Untrusted, and a caller waits for that;
\* the driver whose expression is evaluated waits.
Asked ==
    trusting # None =>
       /\ trusting \in state["untrusted"] /\ pc \in {"idle", "entry", "round"}
       /\ \E c \in Callers \ {"timer"} : <<"trust", trusting>> \in Does[c]
                                       /\ (pc = "round" => c = "handlers")
Chosen == pc = "depex" => link # 0 /\ Sought \in Waiting
Underway == Asked /\ Chosen

\* Drivers that were scheduled do not wait again, and those that waited are not asked for.
Logged ==
    /\ \A i \in 1 .. Len(log) :
          /\ log[i].driver \in Found \ (Waiting \union Early)
          /\ log[i].known \subseteq Found \ Early
    /\ \A i, j \in 1 .. Len(log) : log[i].driver = log[j].driver => i = j

\* The driver of a frame waits, until it is on the log; it follows the one of the frame
\* that called it, and the first follows none.
Nested ==
    /\ frames # << >> => pc = "scan"
    /\ \A k \in 1 .. Len(frames) :
          /\ frames[k].driver \in Found
          /\ frames[k].known \subseteq Found \ Early
          /\ frames[k].side = "before" => frames[k].driver \in Waiting
          /\ frames[k].side = "after" =>
                \E i \in 1 .. Len(log) : /\ log[i].driver = frames[k].driver
                                         /\ log[i].known = frames[k].known
          /\ k = 1 => First(frames[k].driver) \notin Sides
          /\ k # 1 => /\ First(frames[k].driver) = frames[k - 1].side
                      /\ Follows(frames[k].driver, frames[k - 1].driver)
    /\ \A k, l \in 1 .. Len(frames) : frames[k].driver = frames[l].driver => k = l

\* A driver that comes before another one is on the log before it, or that one is about to.
OfLog(i) ==
    LET d == log[i].driver
    IN  /\ First(d) = "before" =>
              \/ \E j \in i + 1 .. Len(log) : Follows(d, log[j].driver)
              \/ \E k \in 1 .. Len(frames) :
                    frames[k].side = "before" /\ Follows(d, frames[k].driver)
        /\ First(d) = "after" => \E j \in 1 .. i - 1 : Follows(d, log[j].driver)
Ordered == \A i \in 1 .. Len(log) : OfLog(i)

\* Of the drivers that waited when a frame was called, those that follow its driver have
\* been scheduled up to where its loop is, and all of them when it has returned.
Passed(k, d) ==
    /\ First(d) = "before" /\ frames[k].side = "after" => d \notin Waiting
    /\ First(d) = frames[k].side /\ d \in Waiting =>
          \/ k < Len(frames) /\ d = frames[k + 1].driver
          \/ \E j \in 1 .. Len(discovered) : discovered[j] = d /\ j > frames[k].at

Served ==
    /\ \A k \in 1 .. Len(frames) : \A d \in frames[k].known :
          Follows(d, frames[k].driver) /\ d # frames[k].driver => Passed(k, d)
    /\ \A i \in 1 .. Len(log) :
          (\A k \in 1 .. Len(frames) : frames[k].driver # log[i].driver) =>
             \A d \in log[i].known :
                Follows(d, log[i].driver) => d \notin Waiting

\* The protocols that an evaluation has found were there.
Located ==
    \A d \in Drivers : found[d] \subseteq Pushes(d) /\ Pushed(d, found[d]) \subseteq ever \intersect Protocols

\* The evaluation has found what is there of what it has come to, unless a timer event
\* has changed something.
Looked ==
    pc = "depex" /\ (~late \/ Untouched(Sought)) =>
       \A i \in Pushes(Sought) :
          i <= iterator /\ Depex[Sought][i].guid \in installed => i \in found[Sought]

\* What the search has passed, and what it leaves.
Able == {d \in Drivers : Startable(d)}
Searched ==
    /\ pc = "round" => queue = << >> /\ arrived = << >>
    /\ pc \in {"scan", "depex"} /\ ~late /\ ~ready =>
          /\ queue = << >> /\ arrived = << >> /\ frames = << >>
          /\ \A i \in 1 .. link : discovered[i] \notin Able \/ (pc = "depex" /\ i = link)
    /\ pc = "exit" /\ ~late =>
          queue = << >> /\ arrived = << >> /\ frames = << >> /\ \A d \in Found : d \notin Able

IInv == Typed /\ Placed /\ Underway /\ Logged /\ Nested /\ Ordered
JInv == IInv /\ Served /\ Located /\ Looked /\ Searched

-----------------------------------------------------------------------------
(***************************************************************************)
(* The operators on the flags of the entries.                              *)
(***************************************************************************)
\* Drivers that lose one flag and get another
Move(s, f, g, ds) == Put(Take(s, f, ds), g, ds)

\* What the expressions of drivers that are read say goes to their flags, the others wait.
LEMMA ReadIs ==
    ASSUME NEW s \in [Flags -> SUBSET Drivers], NEW ds \in SUBSET Drivers
    PROVE  LET r == CoreGetDepexSectionAndPreProccess(s, ds)
               read == {d \in ds : Readable(d)}
               asked == {d \in read : First(d) = "sor"}
           IN  /\ r \in [Flags -> SUBSET Drivers]
               /\ r["deferred"] = (s["deferred"] \ read) \union (ds \ read)
               /\ r["unrequested"] = s["unrequested"] \union asked
               /\ r["dependent"] = s["dependent"] \union (read \ asked)
               /\ r["scheduled"] = s["scheduled"] /\ r["untrusted"] = s["untrusted"]
               /\ r["initialized"] = s["initialized"]
<1> DEFINE read == {d \in ds : Readable(d)}
           asked == {d \in read : First(d) = "sor"}
           a == Put(s, "unrequested", asked)
           b == Put(a, "dependent", read \ asked)
           c == Take(b, "deferred", read)
           r == Put(c, "deferred", ds \ read)
<1>0. /\ "unrequested" \in Flags /\ "dependent" \in Flags /\ "deferred" \in Flags
      /\ "scheduled" \in Flags /\ "untrusted" \in Flags /\ "initialized" \in Flags
      /\ read \in SUBSET Drivers /\ asked \in SUBSET Drivers
      /\ read \ asked \in SUBSET Drivers /\ ds \ read \in SUBSET Drivers
    BY DEF Flags
<1>5. CoreGetDepexSectionAndPreProccess(s, ds) = r
    BY DEF CoreGetDepexSectionAndPreProccess, CorePreProcessDepex
<1> HIDE DEF read, asked
<1>1. /\ a \in [Flags -> SUBSET Drivers]
      /\ \A g \in Flags : a[g] = IF g = "unrequested" THEN s[g] \union asked ELSE s[g]
    BY <1>0 DEF Put
<1> HIDE DEF a
<1>2. /\ b \in [Flags -> SUBSET Drivers]
      /\ \A g \in Flags : b[g] = IF g = "dependent" THEN a[g] \union (read \ asked) ELSE a[g]
    BY <1>0, <1>1 DEF Put
<1> HIDE DEF b
<1>3. /\ c \in [Flags -> SUBSET Drivers]
      /\ \A g \in Flags : c[g] = IF g = "deferred" THEN b[g] \ read ELSE b[g]
    BY <1>0, <1>2 DEF Take
<1> HIDE DEF c
<1>4. /\ r \in [Flags -> SUBSET Drivers]
      /\ \A g \in Flags : r[g] = IF g = "deferred" THEN c[g] \union (ds \ read) ELSE c[g]
    BY <1>0, <1>3 DEF Put
<1> HIDE DEF r
<1>6. /\ r["deferred"] = (s["deferred"] \ read) \union (ds \ read)
      /\ r["unrequested"] = s["unrequested"] \union asked
      /\ r["dependent"] = s["dependent"] \union (read \ asked)
      /\ r["scheduled"] = s["scheduled"] /\ r["untrusted"] = s["untrusted"]
      /\ r["initialized"] = s["initialized"]
    BY <1>0, <1>1, <1>2, <1>3, <1>4
<1> USE DEF read, asked
<1> QED BY <1>4, <1>5, <1>6

\* A driver that is read on its own stays deferred, or moves to the flag its expression says.
LEMMA ReadOne ==
    ASSUME NEW s \in [Flags -> SUBSET Drivers], NEW d \in Drivers, d \in s["deferred"]
    PROVE  LET r == CoreGetDepexSectionAndPreProccess(s, {d})
               g == IF First(d) = "sor" THEN "unrequested" ELSE "dependent"
           IN  r = IF Readable(d) THEN Move(s, "deferred", g, {d}) ELSE s
<1> DEFINE r == CoreGetDepexSectionAndPreProccess(s, {d})
           g == IF First(d) = "sor" THEN "unrequested" ELSE "dependent"
           m == Move(s, "deferred", g, {d})
<1>1. {d} \in SUBSET Drivers /\ g \in Flags /\ "deferred" \in Flags /\ g # "deferred"
    BY DEF Flags
<1>2. /\ r \in [Flags -> SUBSET Drivers]
      /\ r["deferred"] = IF Readable(d) THEN s["deferred"] \ {d} ELSE s["deferred"]
      /\ r["unrequested"] = IF Readable(d) /\ First(d) = "sor"
                            THEN s["unrequested"] \union {d} ELSE s["unrequested"]
      /\ r["dependent"] = IF Readable(d) /\ First(d) # "sor"
                          THEN s["dependent"] \union {d} ELSE s["dependent"]
      /\ r["scheduled"] = s["scheduled"] /\ r["untrusted"] = s["untrusted"]
      /\ r["initialized"] = s["initialized"]
    <2> DEFINE ds == {d}
               read == {x \in ds : Readable(x)}
               asked == {x \in read : First(x) = "sor"}
               q == CoreGetDepexSectionAndPreProccess(s, ds)
    <2>1. /\ q \in [Flags -> SUBSET Drivers]
          /\ q["deferred"] = (s["deferred"] \ read) \union (ds \ read)
          /\ q["unrequested"] = s["unrequested"] \union asked
          /\ q["dependent"] = s["dependent"] \union (read \ asked)
          /\ q["scheduled"] = s["scheduled"] /\ q["untrusted"] = s["untrusted"]
          /\ q["initialized"] = s["initialized"]
        <3>1. ds \in SUBSET Drivers
            BY <1>1
        <3> HIDE DEF ds
        <3> QED BY <3>1, ReadIs
    <2>2. read = (IF Readable(d) THEN {d} ELSE {})
        OBVIOUS
    <2>3. asked = (IF Readable(d) /\ First(d) = "sor" THEN {d} ELSE {})
        BY <2>2
    <2>4. q = r
        OBVIOUS
    <2> HIDE DEF q, r, read, asked
    <2> QED BY <2>1, <2>2, <2>3, <2>4
<1>3. /\ m \in [Flags -> SUBSET Drivers]
      /\ \A h \in Flags : m[h] =
            IF h = "deferred" THEN s[h] \ {d} ELSE IF h = g THEN s[h] \union {d} ELSE s[h]
    <2> HIDE DEF g
    <2>1. m = Put(Take(s, "deferred", {d}), g, {d})
        BY DEF Move
    <2> QED BY <1>1, <2>1 DEF Put, Take
<1> HIDE DEF r, m
<1>4. CASE Readable(d)
    <2>1. \A h \in Flags : r[h] = m[h]
        BY <1>2, <1>3, <1>4 DEF Flags
    <2>2. r = m
        BY <1>2, <1>3, <2>1
    <2> QED BY <1>4, <2>2 DEF r, m
<1>5. CASE ~Readable(d)
    <2>1. \A h \in Flags : r[h] = s[h]
        BY <1>2, <1>5 DEF Flags
    <2> QED BY <1>2, <1>5, <2>1 DEF r
<1> QED BY <1>4, <1>5

-----------------------------------------------------------------------------
(***************************************************************************)
(* The drivers of a volume.                                                *)
(***************************************************************************)
\* Two lists without a common element, one after the other
LEMMA ConcatInjects ==
    ASSUME NEW S, NEW s \in Seq(S), NEW t \in Seq(S), IsInjective(s), IsInjective(t),
           ToSet(s) \intersect ToSet(t) = {}
    PROVE  /\ s \o t \in Seq(S) /\ IsInjective(s \o t)
           /\ ToSet(s \o t) = ToSet(s) \union ToSet(t)
<1> DEFINE u == s \o t
<1>1. /\ u \in Seq(S) /\ Len(u) = Len(s) + Len(t) /\ Len(s) \in Nat /\ Len(t) \in Nat
      /\ \A i \in 1 .. Len(s) + Len(t) : u[i] = IF i <= Len(s) THEN s[i] ELSE t[i - Len(s)]
    BY ConcatProperties
<1>2. /\ DOMAIN u = 1 .. Len(s) + Len(t) /\ DOMAIN s = 1 .. Len(s) /\ DOMAIN t = 1 .. Len(t)
    BY <1>1
<1> HIDE DEF u
<1>3. \A i \in 1 .. Len(s) : u[i] = s[i] /\ i \in DOMAIN u
    BY <1>1, <1>2
<1>4. \A i \in 1 .. Len(t) : u[i + Len(s)] = t[i] /\ i + Len(s) \in DOMAIN u
    <2> TAKE i \in 1 .. Len(t)
    <2>1. i + Len(s) \in 1 .. Len(s) + Len(t) /\ ~(i + Len(s) <= Len(s))
          /\ i + Len(s) - Len(s) = i
        BY <1>1
    <2> QED BY <1>1, <1>2, <2>1
<1>5. \A i \in DOMAIN u : \/ i \in 1 .. Len(s) /\ u[i] = s[i]
                          \/ i - Len(s) \in 1 .. Len(t) /\ u[i] = t[i - Len(s)]
    BY <1>1, <1>2
<1>6. ToSet(u) = ToSet(s) \union ToSet(t)
    BY <1>2, <1>3, <1>4, <1>5 DEF ToSet
<1>7. IsInjective(u)
    <2>1. SUFFICES ASSUME NEW i \in DOMAIN u, NEW j \in DOMAIN u, u[i] = u[j] PROVE i = j
        BY DEF IsInjective
    <2>2. \A x \in 1 .. Len(s), y \in 1 .. Len(t) : s[x] # t[y]
        BY <1>2 DEF ToSet
    <2>3. CASE i \in 1 .. Len(s)
        BY <1>2, <1>5, <2>1, <2>2, <2>3 DEF IsInjective
    <2>4. CASE i - Len(s) \in 1 .. Len(t) /\ u[i] = t[i - Len(s)]
        <3>1. j - Len(s) \in 1 .. Len(t) /\ u[j] = t[j - Len(s)]
            BY <1>5, <2>1, <2>2, <2>4
        <3>2. i - Len(s) = j - Len(s)
            BY <1>2, <2>1, <2>4, <3>1 DEF IsInjective
        <3> QED BY <1>1, <1>2, <3>2
    <2> QED BY <1>5, <2>3, <2>4
<1> QED BY <1>1, <1>6, <1>7 DEF u

\* What the lists and the flags are after a volume of which L are listed and A are at once
\* on the queue.
Arrives(v, L, A) ==
    /\ v \in Volumes \ volumes /\ volumes' = volumes \union {v}
    /\ L \in Seq(Drivers) /\ IsInjective(L) /\ ToSet(L) \subseteq ToSet(Files[v])
    /\ A \in Seq(Drivers) /\ IsInjective(A) /\ ToSet(A) \subseteq ToSet(L)
    /\ ToSet(A) \subseteq ToSet(Apriori[v])
    /\ discovered' = discovered \o L /\ queue' = queue \o A
    /\ state' = Schedule(CoreGetDepexSectionAndPreProccess(state, ToSet(L)), ToSet(A))

\* A notification drops its volume, or adds what is in it.
LEMMA VolumeArrives ==
    ASSUME Typed, CoreFwVolEventProtocolNotify
    PROVE  /\ arrived # << >> /\ arrived' \in Seq(Volumes)
           /\ installed' = installed /\ ever \subseteq ever' /\ ever' \in SUBSET Things
           /\ UNCHANGED <<trusting, images, dispatcher, history>>
           /\ \/ UNCHANGED <<volumes, discovered, queue, state>>
              \/ \E v \in Volumes, L \in Seq(Drivers), A \in Seq(Drivers) : Arrives(v, L, A)
<1> DEFINE v == Head(arrived)
           L == Listed(v)
           A == Only(Apriori[v], ToSet(L))
<1>1. /\ arrived # << >> /\ v \in Volumes /\ Tail(arrived) \in Seq(Volumes)
      /\ UNCHANGED <<trusting, images, dispatcher, history>>
    BY HeadTailProperties, EmptySeq DEF Typed, CoreFwVolEventProtocolNotify
<1>2. CASE FvHasBeenProcessed(v)
    <2>1. /\ arrived' = Tail(arrived)
          /\ UNCHANGED <<database, volumes, discovered, queue, state>>
        BY <1>2 DEF CoreFwVolEventProtocolNotify
    <2> QED BY <1>1, <2>1 DEF Typed, database
<1>3. CASE ~FvHasBeenProcessed(v)
    <2>1. /\ volumes' = volumes \union {v} /\ discovered' = discovered \o L
          /\ state' = Schedule(CoreAddToDriverList(state, L), ToSet(A))
          /\ queue' = queue \o A
          /\ \E opened \in SUBSET {d \in Drivers : Bare(d)} :
                CoreProcessFvImageFile(Tail(arrived), Only(Files[v], opened))
        BY <1>3 DEF CoreFwVolEventProtocolNotify
    <2>0. PICK opened \in SUBSET {d \in Drivers : Bare(d)} :
              CoreProcessFvImageFile(Tail(arrived), Only(Files[v], opened))
        BY <2>1
    <2> DEFINE B == Only(Files[v], opened)
    <2>14. CoreProcessFvImageFile(Tail(arrived), B)
        BY <2>0
    <2>2. v \notin volumes
        BY <1>3 DEF FvHasBeenProcessed
    <2>3. /\ Files[v] \in Seq(Drivers) /\ IsInjective(Files[v])
          /\ Apriori[v] \in Seq(Drivers) /\ IsInjective(Apriori[v])
        BY <1>1, DispatcherAssumption
    <2>4. /\ L \in Seq(Drivers) /\ IsInjective(L) /\ ToSet(L) \subseteq ToSet(Files[v])
        BY <2>3, OnlyKeeps DEF Listed
    <2>5. /\ A \in Seq(Drivers) /\ IsInjective(A)
          /\ ToSet(A) = ToSet(Apriori[v]) \intersect ToSet(L)
        BY <2>3, OnlyKeeps
    <2>6. /\ B \in Seq(Drivers) /\ ToSet(B) \subseteq {d \in Drivers : Bare(d)}
        BY <2>3, OnlyKeeps
    <2> HIDE DEF v, L, A, B
    <2>7. Arrives(v, L, A)
        BY <1>1, <2>1, <2>2, <2>4, <2>5 DEF Arrives, CoreAddToDriverList
    <2>8. DOMAIN B = 1 .. Len(B) /\ Len(B) \in Nat
        BY <2>6
    <2>9. \A i \in 1 .. Len(B) : Inner[B[i]] \in Volumes
        BY <2>6, <2>8, DispatcherAssumption DEF ToSet, Bare, Images
    <2>10. arrived' \in Seq(Volumes)
        <3> DEFINE I == [i \in DOMAIN B |-> Inner[B[i]]]
        <3>1. I \in Seq(Volumes)
            BY <2>8, <2>9
        <3>2. arrived' = Tail(arrived) \o I
            BY <2>14 DEF CoreProcessFvImageFile
        <3> HIDE DEF I
        <3> QED BY <1>1, <3>1, <3>2, ConcatProperties
    <2>11. installed' = installed /\ ever' = ever \union {Inner[d] : d \in ToSet(B)}
        BY <2>14 DEF CoreProcessFvImageFile
    <2>12. {Inner[d] : d \in ToSet(B)} \subseteq Things
        BY <2>8, <2>9 DEF ToSet, Things
    <2>13. ever \subseteq ever' /\ ever' \in SUBSET Things
        BY <2>11, <2>12 DEF Typed
    <2> QED BY <1>1, <2>4, <2>5, <2>7, <2>10, <2>11, <2>13
<1> QED BY <1>2, <1>3

-----------------------------------------------------------------------------
(***************************************************************************)
(* What a step does to the flags and to the queue.                         *)
(***************************************************************************)
\* A driver leaves the queue, or comes to it, or waits or is asked for.
Shift ==
    \/ UNCHANGED <<queue, state>>
    \/ \E g \in {"untrusted", "initialized"} :
          /\ queue # << >> /\ queue' = Tail(queue)
          /\ state' = Move(state, "scheduled", g, {Head(queue)})
    \/ \E d \in Drivers : \E f \in {"untrusted", "dependent"} :
          /\ d \in state[f] /\ queue' = Append(queue, d)
          /\ state' = Move(state, f, "scheduled", {d})
          /\ f = "dependent" => InsertTail
    \/ \E d \in Drivers : \E f \in {"unrequested", "deferred"}, g \in {"dependent", "unrequested"} :
          /\ f # g /\ d \in state[f] /\ queue' = queue
          /\ state' = Move(state, f, g, {d})

\* A driver that gets one flag for another still has one.
LEMMA MoveKeeps ==
    ASSUME Typed, OneFlag, discovered' = discovered,
           NEW f \in Flags, NEW g \in Flags, f # g, NEW d \in Drivers, d \in state[f],
           state' = Move(state, f, g, {d})
    PROVE  /\ state' \in [Flags -> SUBSET Drivers] /\ OneFlag'
           /\ \A h \in Flags : state'[h] = IF h = f THEN state[h] \ {d}
                                           ELSE IF h = g THEN state[h] \union {d} ELSE state[h]
<1>1. /\ state' \in [Flags -> SUBSET Drivers]
      /\ \A h \in Flags : state'[h] = IF h = f THEN state[h] \ {d}
                                      ELSE IF h = g THEN state[h] \union {d} ELSE state[h]
    BY DEF Typed, Move, Put, Take
<1>2. Found' = Found
    BY DEF Found
<1>3. OneFlag'
    <2>1. \A h \in Flags : state'[h] \subseteq Found'
        <3>1. \A h \in Flags : state[h] \subseteq Found
            BY DEF OneFlag
        <3>2. d \in Found
            BY <3>1
        <3>3. TAKE h \in Flags
        <3>4. state'[h] \subseteq state[h] \union {d}
            BY <1>1
        <3> QED BY <1>2, <3>1, <3>2, <3>4
    <2>2. \A x \in Found' : \E h \in Flags : x \in state'[h]
        <3>1. TAKE x \in Found'
        <3>2. PICK h \in Flags : x \in state[h]
            BY <1>2 DEF OneFlag
        <3>3. CASE x = d
            BY <1>1, <3>3
        <3>4. CASE x # d
            BY <1>1, <3>2, <3>4
        <3> QED BY <3>3, <3>4
    <2>3. \A h, e \in Flags : h # e => state'[h] \intersect state'[e] = {}
        <3>1. SUFFICES ASSUME NEW h \in Flags, NEW e \in Flags, h # e,
                              NEW x \in state'[h] \intersect state'[e]
                       PROVE  FALSE
            OBVIOUS
        <3>2. \A a, b \in Flags : \A y : a # b /\ y \in state[a] => y \notin state[b]
            BY DEF OneFlag
        <3>3. CASE x = d
            <4>1. \A a \in Flags : a # f => d \notin state[a]
                BY <3>2
            <4>2. h # f /\ e # f
                BY <1>1, <3>1, <3>3
            <4> QED BY <1>1, <3>1, <3>3, <4>1, <4>2
        <3>4. CASE x # d
            <4>1. x \in state[h] /\ x \in state[e]
                BY <1>1, <3>1, <3>4
            <4> QED BY <3>1, <3>2, <4>1
        <3> QED BY <3>3, <3>4
    <2> QED BY <2>1, <2>2, <2>3 DEF OneFlag
<1> QED BY <1>1, <1>3

\* A driver comes to the queue only if its flag is not set yet.
LEMMA ShiftKeeps ==
    ASSUME Typed, Placed, UNCHANGED <<volumes, discovered>>, Shift
    PROVE  state' \in [Flags -> SUBSET Drivers] /\ queue' \in Seq(Drivers) /\ Placed'
<1>0. /\ queue \in Seq(Drivers) /\ state \in [Flags -> SUBSET Drivers] /\ OneFlag
      /\ "untrusted" \in Flags /\ "initialized" \in Flags /\ "scheduled" \in Flags
      /\ "dependent" \in Flags /\ "unrequested" \in Flags /\ "deferred" \in Flags
      /\ IsInjective(queue) /\ ToSet(queue) = state["scheduled"]
    BY DEF Typed, Placed, Flags
<1>1. /\ state' \in [Flags -> SUBSET Drivers] /\ queue' \in Seq(Drivers) /\ IsInjective(queue')
      /\ ToSet(queue') = state'["scheduled"] /\ OneFlag'
    <2>1. CASE UNCHANGED <<queue, state>>
        BY <1>0, <2>1 DEF OneFlag, Found
    <2>2. CASE \E g \in {"untrusted", "initialized"} :
                  /\ queue # << >> /\ queue' = Tail(queue)
                  /\ state' = Move(state, "scheduled", g, {Head(queue)})
        <3>1. PICK g \in {"untrusted", "initialized"} :
                  /\ queue # << >> /\ queue' = Tail(queue)
                  /\ state' = Move(state, "scheduled", g, {Head(queue)})
            BY <2>2
        <3>2. /\ Head(queue) \in ToSet(queue) /\ Tail(queue) \in Seq(Drivers)
              /\ IsInjective(Tail(queue)) /\ ToSet(Tail(queue)) = ToSet(queue) \ {Head(queue)}
            BY <1>0, <3>1, TailInjects
        <3>3. Head(queue) \in state["scheduled"] /\ Head(queue) \in Drivers
            BY <1>0, <3>2
        <3>4. g \in Flags /\ g # "scheduled"
            BY <3>1 DEF Flags
        <3>5. /\ state' \in [Flags -> SUBSET Drivers] /\ OneFlag'
              /\ state'["scheduled"] = state["scheduled"] \ {Head(queue)}
            BY <1>0, <3>1, <3>3, <3>4, MoveKeeps
        <3> QED BY <1>0, <3>1, <3>2, <3>5
    <2>3. CASE \E d \in Drivers : \E f \in {"untrusted", "dependent"} :
                  /\ d \in state[f] /\ queue' = Append(queue, d)
                  /\ state' = Move(state, f, "scheduled", {d})
        <3>1. PICK d \in Drivers, f \in {"untrusted", "dependent"} :
                  /\ d \in state[f] /\ queue' = Append(queue, d)
                  /\ state' = Move(state, f, "scheduled", {d})
            BY <2>3
        <3>2. f \in Flags /\ f # "scheduled"
            BY <3>1 DEF Flags
        <3>3. d \notin ToSet(queue)
            BY <1>0, <3>1, <3>2 DEF OneFlag
        <3>4. /\ Append(queue, d) \in Seq(Drivers) /\ IsInjective(Append(queue, d))
              /\ ToSet(Append(queue, d)) = ToSet(queue) \union {d}
            BY <1>0, <3>3, AppendInjects
        <3>5. /\ state' \in [Flags -> SUBSET Drivers] /\ OneFlag'
              /\ state'["scheduled"] = state["scheduled"] \union {d}
            <4> DEFINE g == "scheduled"
            <4>1. d \in Drivers /\ d \in state[f] /\ f \in Flags /\ g \in Flags
                  /\ f # g /\ state' = Move(state, f, g, {d})
                BY <1>0, <3>1, <3>2
            <4>2. discovered' = discovered
                OBVIOUS
            <4>3. /\ state' \in [Flags -> SUBSET Drivers] /\ OneFlag'
                  /\ \A h \in Flags : state'[h] = IF h = f THEN state[h] \ {d}
                                           ELSE IF h = g THEN state[h] \union {d} ELSE state[h]
                <5>1. OneFlag
                    BY <1>0
                <5> HIDE DEF g
                <5>2. state' = Move(state, f, g, {d})
                    BY <4>1
                <5> QED BY <4>1, <4>2, <5>1, <5>2, MoveKeeps, Zenon
            <4> QED BY <4>1, <4>3
        <3> QED BY <1>0, <3>1, <3>4, <3>5
    <2>4. CASE \E d \in Drivers :
                  \E f \in {"unrequested", "deferred"}, g \in {"dependent", "unrequested"} :
                  /\ f # g /\ d \in state[f] /\ queue' = queue
                  /\ state' = Move(state, f, g, {d})
        <3>1. PICK d \in Drivers, f \in {"unrequested", "deferred"},
                   g \in {"dependent", "unrequested"} :
                  /\ f # g /\ d \in state[f] /\ queue' = queue
                  /\ state' = Move(state, f, g, {d})
            BY <2>4
        <3>2. f \in Flags /\ g \in Flags /\ f # "scheduled" /\ g # "scheduled"
            BY <3>1 DEF Flags
        <3>3. /\ state' \in [Flags -> SUBSET Drivers] /\ OneFlag'
              /\ state'["scheduled"] = state["scheduled"]
            BY <1>0, <3>1, <3>2, MoveKeeps
        <3> QED BY <1>0, <3>1, <3>3
    <2> QED BY <2>1, <2>2, <2>3, <2>4 DEF Shift
<1>2. IsInjective(discovered') /\ \A d \in Found' : \E v \in volumes' : d \in ToSet(Files[v])
    BY DEF Placed, Found
<1> QED BY <1>1, <1>2 DEF Placed

\* New drivers have no flag before, and one after: those of the a priori file are on the
\* queue, if their expression has been read and does not ask for a request.
LEMMA ArrivesKeeps ==
    ASSUME AprioriReady, Typed, Placed, NEW v, NEW L, NEW A, Arrives(v, L, A)
    PROVE  /\ discovered' \in Seq(Drivers) /\ queue' \in Seq(Drivers)
           /\ state' \in [Flags -> SUBSET Drivers] /\ volumes' \in SUBSET Volumes /\ Placed'
           /\ ToSet(L) \intersect Found = {} /\ Found' = Found \union ToSet(L)
           /\ \A f \in Flags : state[f] \subseteq state'[f] /\ state'[f] \subseteq state[f] \union ToSet(L)
<1> DEFINE new == ToSet(L)
           ap == ToSet(A)
           read == {d \in new : Readable(d)}
           asked == {d \in read : First(d) = "sor"}
           r == CoreGetDepexSectionAndPreProccess(state, new)
<1>0. /\ v \in Volumes \ volumes /\ volumes' = volumes \union {v}
      /\ L \in Seq(Drivers) /\ IsInjective(L) /\ new \subseteq ToSet(Files[v])
      /\ A \in Seq(Drivers) /\ IsInjective(A) /\ ap \subseteq new
      /\ ap \subseteq ToSet(Apriori[v])
      /\ discovered' = discovered \o L /\ queue' = queue \o A
      /\ state' = Schedule(r, ap)
    BY DEF Arrives
<1>1. /\ queue \in Seq(Drivers) /\ state \in [Flags -> SUBSET Drivers] /\ OneFlag
      /\ discovered \in Seq(Drivers) /\ IsInjective(discovered) /\ volumes \in SUBSET Volumes
      /\ IsInjective(queue) /\ ToSet(queue) = state["scheduled"] /\ state["scheduled"] \subseteq Found
    BY DEF Typed, Placed, OneFlag, Flags
<1>2. new \intersect Found = {} /\ new \subseteq Drivers
    <2>1. \A d \in Found : \E w \in volumes : d \in ToSet(Files[w])
        BY DEF Placed
    <2>2. \A w \in volumes : w \in Volumes /\ w # v
                => ToSet(Files[v]) \intersect ToSet(Files[w]) = {}
        BY <1>0, <1>1, DispatcherAssumption
    <2>3. new \subseteq Drivers
        BY <1>0 DEF ToSet
    <2> QED BY <1>0, <1>1, <2>1, <2>2, <2>3
<1>3. /\ discovered' \in Seq(Drivers) /\ IsInjective(discovered')
      /\ Found' = Found \union new
    BY <1>0, <1>1, <1>2, ConcatInjects DEF Found
<1>4. ap \subseteq read \ asked
    <2>1. \A d \in ap : First(d) # "sor" /\ d \notin Wrapped
        BY <1>0 DEF AprioriReady
    <2> QED BY <1>0, <2>1 DEF Readable
<1>5. /\ r \in [Flags -> SUBSET Drivers]
      /\ r["deferred"] = (state["deferred"] \ read) \union (new \ read)
      /\ r["unrequested"] = state["unrequested"] \union asked
      /\ r["dependent"] = state["dependent"] \union (read \ asked)
      /\ r["scheduled"] = state["scheduled"] /\ r["untrusted"] = state["untrusted"]
      /\ r["initialized"] = state["initialized"]
    BY <1>1, <1>2, ReadIs
<1> HIDE DEF r
<1>6. read \subseteq new /\ asked \subseteq read
    OBVIOUS
<1> HIDE DEF new, ap, read, asked
<1>7. /\ state' \in [Flags -> SUBSET Drivers]
      /\ \A h \in Flags : state'[h] = IF h = "scheduled" THEN r[h] \union ap
                                      ELSE IF h = "dependent" THEN r[h] \ ap ELSE r[h]
    <2>1. ap \in SUBSET Drivers /\ "scheduled" \in Flags /\ "dependent" \in Flags
        BY <1>0, <1>2 DEF Flags
    <2> QED BY <1>0, <1>5, <2>1 DEF Schedule, Put, Take
<1>8. \A h \in Flags : state[h] \subseteq Found
    BY <1>1 DEF OneFlag
<1>9. /\ state'["deferred"] = state["deferred"] \union (new \ read)
      /\ state'["unrequested"] = state["unrequested"] \union asked
      /\ state'["dependent"] = state["dependent"] \union ((read \ asked) \ ap)
      /\ state'["scheduled"] = state["scheduled"] \union ap
      /\ state'["untrusted"] = state["untrusted"]
      /\ state'["initialized"] = state["initialized"]
    BY <1>2, <1>0, <1>4, <1>5, <1>6, <1>7, <1>8 DEF Flags
<1>10. \A f \in Flags : state[f] \subseteq state'[f] /\ state'[f] \subseteq state[f] \union new
    BY <1>0, <1>6, <1>9 DEF Flags
<1>11. OneFlag'
    <2>1. \A f \in Flags : state'[f] \subseteq Found'
        BY <1>3, <1>8, <1>10
    <2>2. \A d \in Found' : \E f \in Flags : d \in state'[f]
        <3>1. TAKE d \in Found'
        <3>2. CASE d \in Found
            BY <1>1, <1>10, <3>2 DEF OneFlag
        <3>3. CASE d \in new
            BY <1>9, <3>3 DEF Flags
        <3> QED BY <1>3, <3>2, <3>3
    <2>3. ASSUME NEW f \in Flags, NEW g \in Flags, f # g, NEW d \in state'[f] \intersect state'[g]
          PROVE  FALSE
        <3>1. CASE d \in Found
            <4>1. d \in state[f] /\ d \in state[g]
                BY <1>2, <1>10, <2>3, <3>1
            <4> QED BY <1>1, <2>3, <4>1 DEF OneFlag
        <3>2. CASE d \notin Found
            <4>1. d \notin state[f] /\ d \notin state[g] /\ \A h \in Flags : d \notin state[h]
                BY <1>8, <2>3, <3>2
            <4>2. /\ d \in state'["deferred"] => d \notin read
                  /\ d \in state'["unrequested"] => d \in asked
                  /\ d \in state'["dependent"] => d \in (read \ asked) \ ap
                  /\ d \in state'["scheduled"] => d \in ap
                  /\ d \notin state'["untrusted"] /\ d \notin state'["initialized"]
                BY <1>9, <4>1 DEF Flags
            <4> QED BY <1>4, <1>6, <2>3, <4>2 DEF Flags
        <3> QED BY <3>1, <3>2
    <2> QED BY <2>1, <2>2, <2>3 DEF OneFlag
<1>12. /\ queue' \in Seq(Drivers) /\ IsInjective(queue')
       /\ ToSet(queue') = state'["scheduled"]
    <2>1. ToSet(queue) \intersect ap = {}
        BY <1>0, <1>1, <1>2
    <2> QED BY <1>0, <1>1, <1>9, <2>1, ConcatInjects DEF ap
<1>13. \A d \in Found' : \E w \in volumes' : d \in ToSet(Files[w])
    BY <1>0, <1>3 DEF Placed
<1>14. Placed'
    BY <1>3, <1>11, <1>12, <1>13 DEF Placed
<1> QED BY <1>0, <1>1, <1>2, <1>3, <1>7, <1>10, <1>12, <1>14 DEF new

-----------------------------------------------------------------------------
(***************************************************************************)
(* What a step does to the frames.                                         *)
(***************************************************************************)
\* What the types say of the last frame and of the list of drivers.
LEMMA TopIs ==
    ASSUME Typed, frames # << >>
    PROVE  /\ Len(frames) \in Nat \ {0} /\ Top = frames[Len(frames)] /\ Top \in Frames
           /\ Followers \subseteq 1 .. Len(discovered) /\ Len(discovered) \in Nat
           /\ \A i \in 1 .. Len(discovered) : discovered[i] \in Drivers /\ discovered[i] \in Found
           /\ \A d \in Found : \E i \in 1 .. Len(discovered) : discovered[i] = d
           /\ Found \subseteq Drivers
<1>1. Len(frames) \in Nat \ {0} /\ Top = frames[Len(frames)]
    BY EmptySeq DEF Typed, Top, Last
<1>2. Top \in Frames
    BY <1>1 DEF Typed
<1>3. Top.at \in Nat /\ Len(discovered) \in Nat
    BY <1>2 DEF Frames, Typed
<1>4. Followers \subseteq 1 .. Len(discovered)
    BY <1>3 DEF Followers
<1>5. DOMAIN discovered = 1 .. Len(discovered) /\ discovered \in Seq(Drivers)
    BY DEF Typed
<1>6. /\ \A i \in 1 .. Len(discovered) : discovered[i] \in Drivers /\ discovered[i] \in Found
      /\ \A d \in Found : \E i \in 1 .. Len(discovered) : discovered[i] = d
    BY <1>5 DEF Found, ToSet
<1>7. Found \subseteq Drivers
    BY <1>6
<1> QED BY <1>1, <1>2, <1>3, <1>4, <1>6, <1>7

\* The loop inserts the first of the followers that are left, in a frame of its own.
LEMMA InsertShape ==
    ASSUME Typed, Insert
    PROVE  \E m \in Followers :
              /\ \A i \in Followers : m <= i
              /\ frames # << >> /\ Len(frames) \in Nat \ {0}
              /\ frames' \in Seq(Frames) /\ Len(frames') = Len(frames) + 1
              /\ \A k \in 1 .. Len(frames) - 1 : frames'[k] = frames[k]
              /\ frames'[Len(frames)] = [Top EXCEPT !.at = m]
              /\ frames'[Len(frames) + 1] = Frame(state, discovered[m])
<1> DEFINE n == Len(frames)
           m == Min(Followers)
           F == Frame(state, discovered[m])
           g == [frames EXCEPT ![n].at = m]
<1>1. frames # << >> /\ Followers # {} /\ frames' = g \o << F >>
    BY DEF Insert, Inserting
<1>2. /\ n \in Nat \ {0} /\ Top = frames[n] /\ Top \in Frames
      /\ Followers \subseteq 1 .. Len(discovered) /\ Len(discovered) \in Nat
      /\ \A i \in 1 .. Len(discovered) : discovered[i] \in Drivers
    BY <1>1, TopIs
<1>3. m \in Followers /\ \A i \in Followers : m <= i
    <2>1. \E x \in Followers : \A i \in Followers : x <= i
        <3>1. Followers \subseteq Nat
            BY <1>2
        <3> QED BY <1>1, <3>1, LeastNat
    <2>2. m = CHOOSE x \in Followers : \A i \in Followers : x <= i
        BY DEF Min
    <2> HIDE DEF m
    <2> QED BY <2>1, <2>2
<1> HIDE DEF m
<1>4. m \in Nat /\ discovered[m] \in Drivers
    BY <1>2, <1>3
<1>5. F \in Frames
    <2>1. state["dependent"] \in SUBSET Drivers
        BY DEF Typed, Flags
    <2> QED BY <1>4, <2>1 DEF F, Frame, Frames, Sides
<1>6. /\ g \in Seq(Frames) /\ Len(g) = n /\ g[n] = [Top EXCEPT !.at = m]
      /\ \A k \in 1 .. n - 1 : g[k] = frames[k]
    <2>1. [Top EXCEPT !.at = m] \in Frames
        BY <1>2, <1>4 DEF Frames
    <2>2. frames \in Seq(Frames)
        BY DEF Typed
    <2>3. g = [frames EXCEPT ![n] = [Top EXCEPT !.at = m]]
        BY <1>2
    <2>4. n \in 1 .. n /\ \A k \in 1 .. n - 1 : k \in 1 .. n /\ k # n
        BY <1>2
    <2> DEFINE x == [Top EXCEPT !.at = m]
    <2> HIDE DEF x
    <2> QED BY <2>1, <2>2, <2>3, <2>4, ExceptSeq
<1>7. /\ << F >> \in Seq(Frames) /\ Len(<< F >>) = 1 /\ << F >>[1] = F
    BY <1>5
<1> HIDE DEF g, F
<1>8. /\ frames' \in Seq(Frames) /\ Len(frames') = n + 1
      /\ \A k \in 1 .. n : frames'[k] = g[k]
      /\ frames'[n + 1] = F
    <2>1. /\ g \o << F >> \in Seq(Frames) /\ Len(g \o << F >>) = n + 1
          /\ \A k \in 1 .. n + 1 : (g \o << F >>)[k] = IF k <= n THEN g[k] ELSE << F >>[k - n]
        BY <1>6, <1>7, ConcatProperties
    <2>2. ~(n + 1 <= n) /\ n + 1 \in 1 .. n + 1 /\ n + 1 - n = 1
        BY <1>2
    <2>3. \A k \in 1 .. n : k \in 1 .. n + 1 /\ k <= n
        BY <1>2
    <2> QED BY <1>1, <1>7, <2>1, <2>2, <2>3
<1>9. n \in 1 .. n /\ \A k \in 1 .. n - 1 : k \in 1 .. n
    BY <1>2
<1> QED BY <1>1, <1>2, <1>3, <1>6, <1>8, <1>9 DEF F

\* The driver goes to the queue, and the second loop begins.
LEMMA InsertTailShape ==
    ASSUME Typed, InsertTail
    PROVE  /\ frames # << >> /\ Len(frames) \in Nat \ {0}
           /\ Followers = {} /\ Top.side = "before"
           /\ frames' \in Seq(Frames) /\ Len(frames') = Len(frames)
           /\ \A k \in 1 .. Len(frames) - 1 : frames'[k] = frames[k]
           /\ frames'[Len(frames)] = [Top EXCEPT !.side = "after", !.at = 0]
           /\ log' \in Seq(Entries) /\ Len(log') = Len(log) + 1 /\ Len(log) \in Nat
           /\ \A i \in 1 .. Len(log) : log'[i] = log[i]
           /\ log'[Len(log) + 1].driver = Top.driver /\ log'[Len(log) + 1].known = Top.known
<1> DEFINE n == Len(frames)
           x == [Top EXCEPT !.side = "after", !.at = 0]
           e == [driver |-> Top.driver, known |-> Top.known]
<1>1. frames # << >> /\ Followers = {} /\ Top.side = "before"
    BY DEF InsertTail, Inserting
<1>2. /\ n \in Nat \ {0} /\ Top = frames[n] /\ Top \in Frames
    BY <1>1, TopIs
<1>3. x \in Frames
    BY <1>2 DEF Frames, Sides
<1>4. frames \in Seq(Frames) /\ log \in Seq(Entries)
    BY DEF Typed
<1>5. frames' = [frames EXCEPT ![n] = x]
    BY <1>2 DEF InsertTail
<1>6. e \in Entries /\ e.driver = Top.driver /\ e.known = Top.known
    BY <1>2 DEF Frames, Entries
<1>7. log' = Append(log, e)
    BY DEF InsertTail
<1> HIDE DEF e, x
<1>8. /\ log' \in Seq(Entries) /\ Len(log') = Len(log) + 1 /\ Len(log) \in Nat
      /\ \A i \in 1 .. Len(log) : log'[i] = log[i]
      /\ log'[Len(log) + 1] = e
    BY <1>4, <1>6, <1>7, AppendProperties
<1>9. n \in 1 .. n /\ \A k \in 1 .. n - 1 : k \in 1 .. n /\ k # n
    BY <1>2
<1>10. /\ frames' \in Seq(Frames) /\ Len(frames') = n /\ frames'[n] = x
       /\ \A k \in 1 .. n - 1 : frames'[k] = frames[k]
    BY <1>3, <1>4, <1>5, <1>9, ExceptSeq
<1> QED BY <1>1, <1>2, <1>6, <1>8, <1>10 DEF x

\* The last frame is dropped when its second loop ends.
LEMMA InsertReturnsShape ==
    ASSUME Typed, InsertReturns
    PROVE  /\ frames # << >> /\ Len(frames) \in Nat \ {0}
           /\ Followers = {} /\ Top.side = "after"
           /\ frames' \in Seq(Frames) /\ Len(frames') = Len(frames) - 1
           /\ \A k \in 1 .. Len(frames) - 1 : frames'[k] = frames[k]
<1> DEFINE n == Len(frames)
<1>1. frames # << >> /\ Followers = {} /\ Top.side = "after" /\ frames' = SubSeq(frames, 1, n - 1)
    BY DEF InsertReturns, Inserting, Front
<1>2. n \in Nat \ {0}
    BY <1>1, TopIs
<1>3. frames \in Seq(Frames)
    BY DEF Typed
<1>4. \A i \in 1 .. n - 1 : frames[i] \in Frames
    BY <1>2, <1>3
<1>5. /\ SubSeq(frames, 1, n - 1) \in Seq(Frames)
      /\ Len(SubSeq(frames, 1, n - 1)) = IF 1 <= n - 1 THEN n - 1 - 1 + 1 ELSE 0
      /\ \A i \in 1 .. n - 1 - 1 + 1 : SubSeq(frames, 1, n - 1)[i] = frames[1 + i - 1]
    BY <1>2, <1>4, SubSeqProperties
<1>6. \A k \in 1 .. n - 1 : k \in 1 .. n - 1 - 1 + 1 /\ 1 + k - 1 = k
    BY <1>2
<1>7. Len(SubSeq(frames, 1, n - 1)) = n - 1
    <2>1. CASE 1 <= n - 1
        <3>1. Len(SubSeq(frames, 1, n - 1)) = n - 1 - 1 + 1
            BY <1>5, <2>1
        <3> QED BY <1>2, <3>1
    <2>2. CASE ~(1 <= n - 1)
        <3>1. Len(SubSeq(frames, 1, n - 1)) = 0
            BY <1>5, <2>2
        <3>2. n - 1 = 0
            <4> HIDE DEF n
            <4> QED BY <1>2, <2>2
        <3> QED BY <3>1, <3>2
    <2> QED BY <2>1, <2>2
<1> QED BY <1>1, <1>2, <1>5, <1>6, <1>7

-----------------------------------------------------------------------------
(***************************************************************************)
(* What a step does besides.                                               *)
(***************************************************************************)
\* The driver that goes to the queue from a frame was waiting.
LEMMA InsertTailWaits ==
    ASSUME Typed, Nested, InsertTail
    PROVE  Top.driver \in Waiting /\ Top.driver \in Drivers
<1>1. frames # << >> /\ Top.side = "before"
    BY DEF InsertTail, Inserting
<1>2. Len(frames) \in Nat \ {0} /\ Top = frames[Len(frames)] /\ Top \in Frames
    BY <1>1, TopIs
<1>3. Len(frames) \in 1 .. Len(frames)
    BY <1>2
<1> QED BY <1>1, <1>2, <1>3 DEF Nested, Frames

\* Each step but a notification does one of these to the flags and the queue.
LEMMA StepShifts ==
    ASSUME Typed, Placed, Underway, Nested, [Next]_vars
    PROVE  CoreFwVolEventProtocolNotify \/ (UNCHANGED <<volumes, discovered>> /\ Shift)
<1>1. CASE UNCHANGED vars
    BY <1>1 DEF vars, lists, Shift
<1>2. CASE CoreLoadImage
    <2>1. /\ UNCHANGED <<volumes, discovered>> /\ queue # << >>
          /\ \/ UNCHANGED <<queue, state>>
             \/ /\ state' = Put(Take(state, "scheduled", {Head(queue)}), "untrusted", {Head(queue)})
                /\ queue' = Tail(queue)
             \/ /\ state' = Put(Take(state, "scheduled", {Head(queue)}), "initialized", {Head(queue)})
                /\ queue' = Tail(queue)
        BY <1>2 DEF CoreLoadImage
    <2> QED BY <2>1 DEF Shift, Move
<1>3. CASE CoreStartImage
    <2>1. /\ UNCHANGED <<volumes, discovered>> /\ queue # << >> /\ queue' = Tail(queue)
          /\ state' = Put(Take(state, "scheduled", {Head(queue)}), "initialized", {Head(queue)})
        BY <1>3 DEF CoreStartImage
    <2> QED BY <2>1 DEF Shift, Move
<1>4. CASE EntryReturns \/ Drained \/ HandlersReturn \/ SearchEnds \/ DispatcherReturns
           \/ CoreDispatcher \/ CoreLocateProtocol \/ Evaluated
    BY <1>4 DEF EntryReturns, Drained, HandlersReturn, SearchEnds, DispatcherReturns,
                CoreDispatcher, CoreLocateProtocol, Evaluated, Search, lists, Shift
<1>5. CASE SearchDriver
    <2> DEFINE d == discovered[link + 1]
               g == IF First(d) = "sor" THEN "unrequested" ELSE "dependent"
    <2>1. /\ UNCHANGED <<volumes, discovered, queue>> /\ link < Len(discovered)
          /\ state' = IF d \in state["deferred"]
                      THEN CoreGetDepexSectionAndPreProccess(state, {d}) ELSE state
        BY <1>5 DEF SearchDriver
    <2>2. d \in Drivers /\ state \in [Flags -> SUBSET Drivers]
        BY <2>1 DEF Typed
    <2>3. CASE d \in state["deferred"] /\ Readable(d)
        <3>1. state' = Move(state, "deferred", g, {d})
            BY <2>1, <2>2, <2>3, ReadOne
        <3>2. g \in {"dependent", "unrequested"} /\ g # "deferred"
            OBVIOUS
        <3> HIDE DEF g, d
        <3> QED BY <2>1, <2>2, <2>3, <3>1, <3>2 DEF Shift
    <2>4. CASE ~(d \in state["deferred"] /\ Readable(d))
        <3>1. state' = state
            BY <2>1, <2>2, <2>4, ReadOne
        <3> QED BY <2>1, <3>1 DEF Shift
    <2> QED BY <2>3, <2>4
<1>6. CASE Insert \/ InsertReturns
    BY <1>6 DEF Insert, InsertReturns, lists, Shift
<1>7. CASE InsertTail
    <2>1. Top.driver \in state["dependent"] /\ Top.driver \in Drivers
        BY <1>7, InsertTailWaits DEF Waiting
    <2>2. /\ UNCHANGED <<volumes, discovered>> /\ queue' = Append(queue, Top.driver)
          /\ state' = Move(state, "dependent", "scheduled", {Top.driver})
        BY <1>7 DEF InsertTail, Schedule, Move
    <2> DEFINE f == "dependent"
    <2>3. f \in {"untrusted", "dependent"} /\ Top.driver \in state[f]
          /\ state' = Move(state, f, "scheduled", {Top.driver})
        BY <2>1, <2>2
    <2> HIDE DEF f
    <2> QED BY <1>7, <2>1, <2>2, <2>3 DEF Shift
<1>8. ASSUME NEW d \in Drivers, d \in state["untrusted"], Promote(d) PROVE Shift
    <2>1. queue' = Append(queue, d) /\ state' = Move(state, "untrusted", "scheduled", {d})
        BY <1>8 DEF Promote, Move
    <2> DEFINE f == "untrusted"
    <2>2. f \in {"untrusted", "dependent"} /\ d \in state[f] /\ f # "dependent"
          /\ state' = Move(state, f, "scheduled", {d})
        BY <1>8, <2>1
    <2> HIDE DEF f
    <2> QED BY <2>1, <2>2 DEF Shift
<1>9. CASE \E c \in Callers : Service(c)
    <2>1. PICK c \in Callers : Service(c)
        BY <1>9
    <2>2. CASE \E x \in Things : InstallProtocol(c, x)
        BY <2>2 DEF InstallProtocol, Shift
    <2>3. CASE \E p \in Protocols : UninstallProtocol(c, p)
        BY <2>3 DEF UninstallProtocol, lists, Shift
    <2>4. CASE \E d \in Drivers : CoreSchedule(c, d)
        <3>1. PICK d \in Drivers : CoreSchedule(c, d)
            BY <2>4
        <3>2. /\ UNCHANGED <<volumes, discovered, queue>> /\ d \in state["unrequested"]
              /\ state' = Move(state, "unrequested", "dependent", {d})
            BY <3>1 DEF CoreSchedule, Move
        <3> QED BY <3>2 DEF Shift
    <2>5. CASE \E d \in Drivers : CoreTrust(c, d)
        <3>1. PICK d \in Drivers : CoreTrust(c, d)
            BY <2>5
        <3>2. UNCHANGED <<volumes, discovered>> /\ d \in state["untrusted"]
            BY <3>1 DEF CoreTrust
        <3>3. CASE Promote(d)
            BY <1>8, <3>2, <3>3
        <3>4. CASE UNCHANGED <<queue, state>>
            BY <3>2, <3>4 DEF Shift
        <3> QED BY <3>1, <3>3, <3>4 DEF CoreTrust
    <2> QED BY <2>1, <2>2, <2>3, <2>4, <2>5 DEF Service
<1>10. CASE CoreTrustLocks
    <2>1. /\ UNCHANGED <<volumes, discovered>> /\ Promote(trusting)
          /\ trusting \in Drivers /\ trusting \in state["untrusted"]
        BY <1>10 DEF CoreTrustLocks, Underway, Asked, Typed
    <2> QED BY <1>8, <2>1
<1> QED BY <1>1, <1>2, <1>3, <1>4, <1>5, <1>6, <1>7, <1>9, <1>10 DEF Next, Core

\* The drivers keep their one flag, and their place on the queue.
LEMMA PlacedNext ==
    ASSUME AprioriReady, Typed, Placed, Underway, Nested, [Next]_vars
    PROVE  /\ discovered' \in Seq(Drivers) /\ queue' \in Seq(Drivers)
           /\ state' \in [Flags -> SUBSET Drivers] /\ volumes' \in SUBSET Volumes /\ Placed'
           /\ Found \subseteq Found'
<1>1. CASE UNCHANGED <<volumes, discovered>> /\ Shift
    BY <1>1, ShiftKeeps DEF Typed, Found
<1>2. CASE CoreFwVolEventProtocolNotify
    <2>1. CASE UNCHANGED <<volumes, discovered, queue, state>>
        BY <2>1 DEF Typed, Placed, OneFlag, Found
    <2>2. CASE \E v \in Volumes, L \in Seq(Drivers), A \in Seq(Drivers) : Arrives(v, L, A)
        BY <2>2, ArrivesKeeps
    <2> QED BY <1>2, <2>1, <2>2, VolumeArrives
<1> QED BY <1>1, <1>2, StepShifts

-----------------------------------------------------------------------------
(***************************************************************************)
(* Dependency expressions.                                                 *)
(***************************************************************************)
\* Instructions are numbered.
LEMMA PushesNat == \A d \in Drivers : Pushes(d) \in SUBSET Nat
BY DispatcherAssumption DEF Pushes

\* The evaluation comes to the next instruction PUSH that it has not come to yet.
LEMMA LocateShape ==
    ASSUME Typed, Chosen, CoreLocateProtocol, NEW d, d = Sought
    PROVE  /\ d \in Drivers /\ pc = "depex" /\ frames = << >> /\ trusting = None
           /\ UNCHANGED <<database, lists, pc, link, ready, frames, history>>
           /\ iterator' \in Pushes(d) /\ iterator' \in Nat /\ found \in [Drivers -> SUBSET Nat]
           /\ \A i \in Pushes(d) : i > iterator => iterator' <= i
           /\ found' = IF Depex[d][iterator'].guid \in installed
                       THEN [found EXCEPT ![d] = @ \union {iterator'}] ELSE found
<1> DEFINE m == Min(Unread)
<1>1. /\ pc = "depex" /\ frames = << >> /\ trusting = None /\ Unread # {} /\ iterator' = m
      /\ UNCHANGED <<database, lists, pc, link, ready, frames, history>>
    BY DEF CoreLocateProtocol, At
<1>2. d \in Drivers
    BY <1>1 DEF Chosen, Waiting, Typed, Flags
<1>3. Pushes(d) \in SUBSET Nat /\ Unread \subseteq Pushes(d)
    BY <1>2, PushesNat DEF Unread
<1>4. m \in Unread /\ \A i \in Unread : m <= i
    <2>1. \E x \in Unread : \A i \in Unread : x <= i
        BY <1>1, <1>3, LeastNat
    <2>2. m = CHOOSE x \in Unread : \A i \in Unread : x <= i
        BY DEF Min
    <2> HIDE DEF m
    <2> QED BY <2>1, <2>2
<1>5. \A i \in Pushes(d) : i > iterator => m <= i
    BY <1>4 DEF Unread
<1>6. found' = IF Depex[d][m].guid \in installed THEN [found EXCEPT ![d] = @ \union {m}] ELSE found
    BY DEF CoreLocateProtocol
<1>7. found \in [Drivers -> SUBSET Nat]
    BY DEF Typed
<1> HIDE DEF m
<1> QED BY <1>1, <1>2, <1>3, <1>4, <1>5, <1>6, <1>7

\* The search adds to what was found the protocols that are installed.
LEMMA LocatedNext ==
    ASSUME Typed, Chosen, Located, [Next]_vars, ever \subseteq ever'
    PROVE  Located' /\ found' \in [Drivers -> SUBSET Nat]
<1>1. CASE found' = found
    BY <1>1 DEF Located, Typed
<1>2. CASE CoreLocateProtocol
    <2>1. PICK d, i : d = Sought /\ i = iterator'
        OBVIOUS
    <2>2. /\ d \in Drivers /\ i \in Pushes(d) /\ i \in Nat /\ found \in [Drivers -> SUBSET Nat]
          /\ found' = IF Depex[d][i].guid \in installed
                      THEN [found EXCEPT ![d] = @ \union {i}] ELSE found
        BY <1>2, <2>1, LocateShape
    <2>3. CASE Depex[d][i].guid \in installed
        <3>1. /\ found' \in [Drivers -> SUBSET Nat]
              /\ \A x \in Drivers : found'[x] = IF x = d THEN found[x] \union {i} ELSE found[x]
            BY <2>2, <2>3
        <3>2. installed \subseteq ever \intersect Protocols
            BY DEF Typed
        <3>3. \A x \in Drivers : /\ found'[x] \subseteq Pushes(x)
                                 /\ Pushed(x, found'[x]) \subseteq ever' \intersect Protocols
            BY <2>2, <2>3, <3>1, <3>2 DEF Located, Pushed
        <3> QED BY <3>1, <3>3 DEF Located
    <2>4. CASE Depex[d][i].guid \notin installed
        BY <1>1, <2>2, <2>4
    <2> QED BY <2>3, <2>4
<1>3. found' = found \/ CoreLocateProtocol
    <2>1. CASE SearchDriver \/ Evaluated \/ CoreTrustLocks
        BY <2>1 DEF SearchDriver, Evaluated, CoreTrustLocks, images
    <2>2. CASE CoreFwVolEventProtocolNotify
        BY <2>2 DEF CoreFwVolEventProtocolNotify, images
    <2>3. CASE CoreLoadImage \/ CoreStartImage \/ EntryReturns \/ Drained \/ HandlersReturn
               \/ SearchEnds \/ DispatcherReturns \/ CoreDispatcher
        BY <2>3 DEF CoreLoadImage, CoreStartImage, EntryReturns, Drained, HandlersReturn, Search,
                    SearchEnds, DispatcherReturns, CoreDispatcher, images
    <2>4. CASE Insert \/ InsertTail \/ InsertReturns
        BY <2>4 DEF Insert, InsertTail, InsertReturns, images
    <2>5. CASE \E c \in Callers : Service(c)
        BY <2>5 DEF Service, InstallProtocol, UninstallProtocol, CoreSchedule, CoreTrust, Calling,
                    images
    <2>6. CASE UNCHANGED vars
        BY <2>6 DEF vars, images
    <2> QED BY <2>1, <2>2, <2>3, <2>4, <2>5, <2>6 DEF Next, Core
<1> QED BY <1>1, <1>2, <1>3

\* What the types say of the variables that a step changes outside of the lists
Rest ==
    /\ installed \in SUBSET Protocols /\ ever \in SUBSET Things /\ installed \subseteq ever
    /\ arrived \in Seq(Volumes)
    /\ image \in [Drivers -> {"none", "loaded", "violation", "started"}]
    /\ pc \in {"idle", "drain", "entry", "round", "scan", "depex", "exit"}
    /\ trusting \in Drivers \union {None} /\ iterator \in Nat
    /\ current \in Drivers \union {None} /\ link \in 0 .. Len(discovered)
    /\ ready \in BOOLEAN /\ success \in BOOLEAN /\ late \in BOOLEAN
    /\ frames \in Seq(Frames) /\ log \in Seq(Entries)

\* Each action keeps the types of the rest.
LEMMA RestNext ==
    ASSUME Typed, Chosen, [Next]_vars, discovered' \in Seq(Drivers)
    PROVE  Rest' /\ ever \subseteq ever'
<1>0. Rest /\ queue \in Seq(Drivers) /\ discovered \in Seq(Drivers) /\ state \in [Flags -> SUBSET Drivers]
      /\ Len(discovered) \in Nat
    BY DEF Typed, Rest
<1>1. CASE UNCHANGED vars
    BY <1>0, <1>1 DEF vars, database, lists, images, dispatcher, history, Rest
<1>2. CASE CoreFwVolEventProtocolNotify
    <2>1. /\ arrived' \in Seq(Volumes) /\ installed' = installed /\ ever \subseteq ever'
          /\ ever' \in SUBSET Things /\ UNCHANGED <<trusting, images, dispatcher, history>>
        BY <1>2, VolumeArrives
    <2>2. Len(discovered) <= Len(discovered') /\ Len(discovered') \in Nat
        <3>1. CASE discovered' = discovered
            BY <1>0, <3>1
        <3>2. CASE \E v \in Volumes, L \in Seq(Drivers), A \in Seq(Drivers) : Arrives(v, L, A)
            <4>1. PICK L \in Seq(Drivers) : discovered' = discovered \o L
                BY <3>2 DEF Arrives
            <4> QED BY <1>0, <4>1, ConcatProperties
        <3> QED BY <1>2, <3>1, <3>2, VolumeArrives
    <2>3. link \in 0 .. Len(discovered')
        BY <1>0, <2>2 DEF Rest
    <2> QED BY <1>0, <2>1, <2>3 DEF Rest, images, dispatcher, history
<1>3. CASE CoreLoadImage
    <2>1. Head(queue) \in Drivers
        BY <1>0, <1>3, HeadTailProperties DEF CoreLoadImage
    <2> QED BY <1>0, <1>3, <2>1 DEF CoreLoadImage, database, dispatcher, history, Rest
<1>4. CASE CoreStartImage
    <2>1. Head(queue) \in Drivers /\ queue # << >>
        BY <1>0, <1>4, HeadTailProperties DEF CoreStartImage
    <2>2. /\ image' \in [Drivers -> {"none", "loaded", "violation", "started"}]
          /\ pc' \in {"idle", "drain", "entry", "round", "scan", "depex", "exit"}
          /\ current' \in Drivers \union {None}
        BY <1>0, <1>4, <2>1 DEF CoreStartImage, Rest
    <2>3. /\ arrived' \in Seq(Volumes) /\ ever' \in SUBSET Things /\ ever \subseteq ever'
          /\ installed' = installed
        <3> DEFINE d == Head(queue)
        <3>1. CASE UNCHANGED <<arrived, database>>
            BY <1>0, <3>1 DEF Rest, database
        <3>2. CASE d \in Images /\ CoreProcessFvImageFile(<< >>, << d >>)
            <4>1. Inner[d] \in Volumes
                BY <2>1, <3>2, DispatcherAssumption DEF Images
            <4> DEFINE s == << d >>
                       t == [i \in DOMAIN s |-> Inner[s[i]]]
            <4>2. DOMAIN s = 1 .. 1 /\ s[1] = d /\ ToSet(s) = {d}
                BY DEF ToSet
            <4>3. arrived' = << >> \o t /\ installed' = installed
                  /\ ever' = ever \union {Inner[x] : x \in ToSet(s)}
                BY <3>2 DEF CoreProcessFvImageFile
            <4> HIDE DEF s, d
            <4>4. t \in Seq(Volumes)
                <5>1. \A i \in 1 .. 1 : Inner[s[i]] \in Volumes
                    BY <4>1, <4>2
                <5>2. t = [i \in 1 .. 1 |-> Inner[s[i]]]
                    BY <4>2
                <5> QED BY <5>1, <5>2
            <4> HIDE DEF t
            <4>5. arrived' = t
                BY <4>3, <4>4, ConcatEmptySeq
            <4> QED BY <1>0, <4>1, <4>2, <4>3, <4>4, <4>5 DEF Things, Rest
        <3> QED BY <1>4, <3>1, <3>2 DEF CoreStartImage
    <2> QED BY <1>0, <1>4, <2>2, <2>3 DEF CoreStartImage, history, Rest
<1>5. CASE EntryReturns \/ DispatcherReturns \/ CoreDispatcher \/ SearchEnds
    BY <1>0, <1>5 DEF EntryReturns, DispatcherReturns, CoreDispatcher, SearchEnds, Goto, database,
                      lists, images, history, Rest
<1>6. CASE Drained \/ HandlersReturn
    <2>1. 0 \in 0 .. Len(discovered)
        BY <1>0
    <2> QED BY <1>0, <1>6, <2>1 DEF Drained, HandlersReturn, Search, Goto, database, lists, images,
                                    history, Rest
<1>7. CASE SearchDriver
    <2>1. link + 1 \in 0 .. Len(discovered) /\ iterator' = 0 /\ pc' \in {"scan", "depex"}
        BY <1>0, <1>7 DEF SearchDriver, Rest
    <2> QED BY <1>0, <1>7, <2>1 DEF SearchDriver, database, images, history, Rest
<1>12. CASE CoreLocateProtocol
    <2>1. iterator' \in Nat
        BY <1>12, LocateShape
    <2> QED BY <1>0, <1>12, <2>1 DEF CoreLocateProtocol, database, lists, history, Rest
<1>13. CASE Evaluated
    <2> DEFINE d == Sought
    <2>1. d \in Drivers
        BY <1>13 DEF Evaluated, At, Chosen, Waiting, Typed, Flags
    <2>2. Frame(state, d) \in Frames
        <3>1. state["dependent"] \in SUBSET Drivers
            BY <1>0 DEF Flags
        <3> HIDE DEF d
        <3> QED BY <2>1, <3>1 DEF Frame, Frames, Sides
    <2>3. frames' \in Seq(Frames) /\ ready' \in BOOLEAN
        <3>1. \/ frames' = frames /\ ready' = ready
              \/ frames' = << Frame(state, d) >> /\ ready' = TRUE
            BY <1>13 DEF Evaluated
        <3>2. frames \in Seq(Frames) /\ ready \in BOOLEAN
            BY <1>0 DEF Rest
        <3>3. PICK F : F = Frame(state, d)
            OBVIOUS
        <3>4. F \in Frames
            BY <2>2, <3>3
        <3>5. << F >> \in Seq(Frames)
            BY <3>4
        <3>6. frames' = frames \/ frames' = << F >>
            BY <3>1, <3>3
        <3> HIDE DEF d
        <3> QED BY <3>1, <3>2, <3>5, <3>6
    <2> QED BY <1>0, <1>13, <2>3 DEF Evaluated, database, lists, images, history, Rest
<1>14. CASE CoreTrustLocks
    BY <1>0, <1>14 DEF CoreTrustLocks, database, images, dispatcher, history, Rest
<1>8. CASE Insert
    BY <1>0, <1>8, InsertShape DEF Insert, database, lists, images, history, Rest
<1>9. CASE InsertTail
    BY <1>0, <1>9, InsertTailShape DEF InsertTail, database, images, Rest
<1>10. CASE InsertReturns
    BY <1>0, <1>10, InsertReturnsShape DEF InsertReturns, database, lists, images, history, Rest
<1>11. CASE \E c \in Callers : Service(c)
    <2>1. PICK c \in Callers : Service(c)
        BY <1>11
    <2>2. CASE \E x \in Things : InstallProtocol(c, x)
        <3>1. PICK x \in Things : InstallProtocol(c, x)
            BY <2>2
        <3>2. arrived' \in Seq(Volumes)
            <4>1. CASE x \in Volumes
                <5>1. arrived' = << x >>
                    BY <3>1, <4>1 DEF InstallProtocol
                <5> QED BY <4>1, <5>1
            <4>2. CASE x \notin Volumes
                BY <1>0, <3>1, <4>2 DEF InstallProtocol, Rest
            <4> QED BY <4>1, <4>2
        <3>3. /\ installed' \in SUBSET Protocols /\ ever' \in SUBSET Things
              /\ installed' \subseteq ever' /\ ever \subseteq ever'
            BY <1>0, <3>1 DEF InstallProtocol, Rest, Things
        <3> QED BY <1>0, <3>1, <3>2, <3>3 DEF InstallProtocol, Calling, images, dispatcher, Rest
    <2>3. CASE \E p \in Protocols : UninstallProtocol(c, p)
        BY <1>0, <2>3 DEF UninstallProtocol, Calling, images, dispatcher, lists, Rest
    <2>4. CASE \E d \in Drivers : CoreSchedule(c, d) \/ CoreTrust(c, d)
        BY <1>0, <2>4 DEF CoreSchedule, CoreTrust, Calling, images, dispatcher, database, Rest
    <2> QED BY <2>1, <2>2, <2>3, <2>4 DEF Service
<1> QED BY <1>1, <1>2, <1>3, <1>4, <1>5, <1>6, <1>7, <1>8, <1>9, <1>10, <1>11, <1>12, <1>13,
           <1>14 DEF Next, Core

\* The types are kept.
LEMMA TypedNext ==
    ASSUME AprioriReady, Typed, Placed, Underway, Nested, Located, [Next]_vars
    PROVE  Typed' /\ Placed' /\ Located' /\ Found \subseteq Found' /\ ever \subseteq ever'
<1>1. /\ discovered' \in Seq(Drivers) /\ queue' \in Seq(Drivers)
      /\ state' \in [Flags -> SUBSET Drivers] /\ volumes' \in SUBSET Volumes /\ Placed'
      /\ Found \subseteq Found'
    BY PlacedNext
<1>2. Rest' /\ ever \subseteq ever'
    BY <1>1, RestNext DEF Underway
<1>3. Located' /\ found' \in [Drivers -> SUBSET Nat]
    BY <1>2, LocatedNext DEF Underway
<1> QED BY <1>1, <1>2, <1>3 DEF Typed, Rest

-----------------------------------------------------------------------------
(***************************************************************************)
(* Who waits after a step.                                                 *)
(***************************************************************************)
\* A driver that was scheduled never waits again, one that waited is never asked for, and
\* only InsertTail ends the wait of a driver.
LEMMA Waits ==
    ASSUME AprioriReady, Typed, Placed, Underway, Nested, [Next]_vars
    PROVE  /\ (Found \ Early) \intersect Early' = {}
           /\ (Found \ (Waiting \union Early)) \intersect Waiting' = {}
           /\ ~InsertTail => Waiting \subseteq Waiting'
           /\ Waiting \intersect Early = {} /\ Waiting \subseteq Found
           /\ Waiting' \intersect Early' = {} /\ Waiting' \subseteq Found'
<1>0. /\ "untrusted" \in Flags /\ "initialized" \in Flags /\ "scheduled" \in Flags
      /\ "dependent" \in Flags /\ "unrequested" \in Flags /\ "deferred" \in Flags
    BY DEF Flags
<1>1. \A d \in Found : state["dependent"] \intersect (state["deferred"] \union state["unrequested"]) = {}
    BY <1>0 DEF Placed, OneFlag
<1>2. Waiting \intersect Early = {} /\ Waiting \subseteq Found
    BY <1>0 DEF Placed, OneFlag, Waiting, Early
<1>3. Placed'
    BY PlacedNext
<1>4. Waiting' \intersect Early' = {} /\ Waiting' \subseteq Found'
    BY <1>0, <1>3 DEF Placed, OneFlag, Waiting, Early
<1>5. CASE UNCHANGED state
    BY <1>2, <1>4, <1>5 DEF Waiting, Early
<1>6. ASSUME NEW f \in Flags, NEW g \in Flags, f # g, NEW d \in Drivers, d \in state[f],
             state' = Move(state, f, g, {d}), discovered' = discovered,
             f = "dependent" => InsertTail,
             g \in {"dependent", "unrequested"} => f \in {"unrequested", "deferred"},
             g # "deferred"
      PROVE  /\ (Found \ Early) \intersect Early' = {}
             /\ (Found \ (Waiting \union Early)) \intersect Waiting' = {}
             /\ ~InsertTail => Waiting \subseteq Waiting'
    <2>1. \A h \in Flags : state'[h] = IF h = f THEN state[h] \ {d}
                                       ELSE IF h = g THEN state[h] \union {d} ELSE state[h]
        <3>1. OneFlag
            BY DEF Placed
        <3>2. state \in [Flags -> SUBSET Drivers]
            BY DEF Typed
        <3> QED BY <1>6, <3>2 DEF Move, Put, Take
    <2>2. \A h \in {"dependent", "deferred", "unrequested"} : \A x \in state'[h] :
             x \in state[h] \/ (x = d /\ h = g)
        BY <1>0, <2>1
    <2>3. g \in {"dependent", "unrequested"} => d \in Early
        BY <1>6 DEF Early
    <2>4. \A x \in Early' : x \in Early
        BY <1>6, <2>2, <2>3 DEF Early
    <2>5. \A x \in Waiting' : x \in Waiting \/ x \in Early
        BY <1>6, <2>2, <2>3 DEF Waiting
    <2>6. ~InsertTail => Waiting \subseteq Waiting'
        BY <1>0, <1>6, <2>1 DEF Waiting
    <2> QED BY <2>4, <2>5, <2>6
<1>7. CASE CoreFwVolEventProtocolNotify
    <2>1. CASE \E v \in Volumes, L \in Seq(Drivers), A \in Seq(Drivers) : Arrives(v, L, A)
        <3>1. PICK L : /\ ToSet(L) \intersect Found = {}
                       /\ \A f \in Flags : /\ state[f] \subseteq state'[f]
                                           /\ state'[f] \subseteq state[f] \union ToSet(L)
            BY <2>1, ArrivesKeeps
        <3> HIDE DEF Found
        <3> QED BY <1>0, <1>2, <1>4, <3>1 DEF Waiting, Early
    <2> QED BY <1>5, <1>7, <2>1, VolumeArrives
<1>8. CASE UNCHANGED <<volumes, discovered>> /\ Shift
    <2>1. CASE \E g \in {"untrusted", "initialized"} :
          /\ queue # << >> /\ queue' = Tail(queue)
          /\ state' = Move(state, "scheduled", g, {Head(queue)})
        <3>1. PICK g \in {"untrusted", "initialized"} :
                  /\ queue # << >> /\ state' = Move(state, "scheduled", g, {Head(queue)})
            BY <2>1
        <3>2. Head(queue) \in state["scheduled"] /\ Head(queue) \in Drivers
            BY <3>1, TailInjects DEF Placed, Typed
        <3> DEFINE f == "scheduled"
                   d == Head(queue)
        <3>3. /\ f \in Flags /\ g \in Flags /\ f # g /\ d \in Drivers /\ d \in state[f]
              /\ state' = Move(state, f, g, {d}) /\ discovered' = discovered
              /\ f # "dependent" /\ g \notin {"dependent", "unrequested"} /\ g # "deferred"
            BY <1>0, <1>8, <3>1, <3>2
        <3> HIDE DEF f, d
        <3> QED BY <1>2, <1>4, <1>6, <3>3
    <2>2. CASE \E d \in Drivers : \E f \in {"untrusted", "dependent"} :
          /\ d \in state[f] /\ queue' = Append(queue, d)
          /\ state' = Move(state, f, "scheduled", {d})
          /\ f = "dependent" => InsertTail
        <3>1. PICK d \in Drivers, f \in {"untrusted", "dependent"} :
                  /\ d \in state[f] /\ state' = Move(state, f, "scheduled", {d})
                  /\ f = "dependent" => InsertTail
            BY <2>2
        <3> DEFINE g == "scheduled"
        <3>2. /\ f \in Flags /\ g \in Flags /\ f # g /\ d \in Drivers /\ d \in state[f]
              /\ state' = Move(state, f, g, {d}) /\ discovered' = discovered
              /\ g \notin {"dependent", "unrequested"} /\ g # "deferred"
            BY <1>0, <1>8, <3>1
        <3> HIDE DEF g
        <3> QED BY <1>2, <1>4, <1>6, <3>1, <3>2
    <2>3. CASE \E d \in Drivers :
                  \E f \in {"unrequested", "deferred"}, g \in {"dependent", "unrequested"} :
          /\ f # g /\ d \in state[f] /\ queue' = queue
          /\ state' = Move(state, f, g, {d})
        <3>1. PICK d \in Drivers, f \in {"unrequested", "deferred"},
                   g \in {"dependent", "unrequested"} :
                  /\ f # g /\ d \in state[f] /\ state' = Move(state, f, g, {d})
            BY <2>3
        <3>2. /\ f \in Flags /\ g \in Flags /\ discovered' = discovered
              /\ f # "dependent" /\ g # "deferred"
            BY <1>0, <1>8, <3>1
        <3> QED BY <1>2, <1>4, <1>6, <3>1, <3>2
    <2>4. CASE UNCHANGED <<queue, state>>
        BY <1>5, <2>4
    <2> QED BY <1>8, <2>1, <2>2, <2>3, <2>4 DEF Shift
<1> QED BY <1>7, <1>8, StepShifts

\* Steps outside of the search leave the frames alone, and the dispatcher waits for them.
LEMMA FramesKept ==
    ASSUME [Next]_vars, ~Evaluated, ~Insert, ~InsertTail, ~InsertReturns
    PROVE  UNCHANGED <<frames, log>> /\ (frames # << >> => pc' = pc)
<1>1. CASE UNCHANGED vars
    BY <1>1 DEF vars, dispatcher, history
<1>2. CASE CoreFwVolEventProtocolNotify
    BY <1>2 DEF CoreFwVolEventProtocolNotify, dispatcher, history
<1>3. CASE CoreLoadImage \/ CoreStartImage \/ EntryReturns \/ Drained \/ HandlersReturn
           \/ SearchEnds \/ DispatcherReturns \/ CoreDispatcher \/ SearchDriver
           \/ CoreLocateProtocol \/ CoreTrustLocks
    BY <1>3 DEF CoreLoadImage, CoreStartImage, EntryReturns, Drained, HandlersReturn, Search,
                SearchEnds, DispatcherReturns, CoreDispatcher, SearchDriver, CoreLocateProtocol,
                CoreTrustLocks, Goto, At, dispatcher, history
<1>4. CASE \E c \in Callers : Service(c)
    BY <1>4 DEF Service, InstallProtocol, UninstallProtocol, CoreSchedule, CoreTrust, Calling,
                dispatcher
<1> QED BY <1>1, <1>2, <1>3, <1>4 DEF Next, Core

\* The search comes to the next driver, and evaluates its expression if it waits.
LEMMA SearchShape ==
    ASSUME Typed, SearchDriver, NEW d, d = discovered[link + 1]
    PROVE  /\ pc = "scan" /\ frames = << >> /\ arrived = << >> /\ trusting = None
           /\ link + 1 \in 1 .. Len(discovered) /\ link' = link + 1 /\ link \in Nat
           /\ iterator' = 0
           /\ UNCHANGED <<installed, ever, arrived, discovered, queue, trusting, found, ready,
                          frames, log, late>>
           /\ d \in Drivers /\ d \in Found
           /\ state' = IF d \in state["deferred"]
                       THEN CoreGetDepexSectionAndPreProccess(state, {d}) ELSE state
           /\ pc' = IF d \in state'["dependent"] THEN "depex" ELSE "scan"
<1>1. link + 1 \in 1 .. Len(discovered) /\ link \in Nat
    BY DEF SearchDriver, Typed
<1>2. d \in Drivers /\ d \in Found
    BY <1>1 DEF Typed, Found, ToSet
<1>3. /\ state' = IF d \in state["deferred"]
                  THEN CoreGetDepexSectionAndPreProccess(state, {d}) ELSE state
      /\ pc' = IF d \in state'["dependent"] THEN "depex" ELSE "scan"
    BY DEF SearchDriver
<1> QED BY <1>1, <1>2, <1>3 DEF SearchDriver, At, Quiet, database, images, history

\* The evaluation ends with a first frame for a driver that waits and is schedulable.
LEMMA EvaluatedShape ==
    ASSUME Typed, Chosen, Evaluated, NEW d, d = Sought
    PROVE  /\ pc = "depex" /\ pc' = "scan" /\ frames = << >> /\ arrived = << >>
           /\ trusting = None /\ Unread = {} /\ link \in 1 .. Len(discovered)
           /\ UNCHANGED <<installed, ever, arrived, discovered, queue, trusting, state, found,
                          link, log, late>>
           /\ d \in Drivers /\ d \in Waiting
           /\ \/ frames' = frames /\ ready' = ready /\ ~CoreIsSchedulable(d)
              \/ frames' = << Frame(state, d) >> /\ ready' = TRUE /\ CoreIsSchedulable(d)
<1>1. /\ pc = "depex" /\ pc' = "scan" /\ frames = << >> /\ arrived = << >>
      /\ trusting = None /\ Unread = {}
      /\ UNCHANGED <<installed, ever, arrived, discovered, queue, trusting, state, found,
                     link, log, late>>
    BY DEF Evaluated, At, Quiet, database, lists, images, history
<1>2. link \in 1 .. Len(discovered) /\ d \in Waiting
    BY <1>1 DEF Chosen, Typed
<1>3. d \in Drivers
    BY <1>2 DEF Waiting, Typed, Flags
<1>4. \/ frames' = frames /\ ready' = ready /\ ~CoreIsSchedulable(d)
      \/ frames' = << Frame(state, d) >> /\ ready' = TRUE /\ CoreIsSchedulable(d)
    BY DEF Evaluated
<1> QED BY <1>1, <1>2, <1>3, <1>4

\* The three cases of CoreIsSchedulable.
LEMMA Schedulable ==
    ASSUME NEW d, CoreIsSchedulable(d)
    PROVE  /\ First(d) \notin Sides
           /\ First(d) = "none" => CoreAllEfiServicesAvailable
           /\ First(d) # "none" => Holds(d, found[d])
<1> DEFINE x == First(d)
           r == Holds(d, found[d])
<1>1. CoreIsSchedulable(d) = CASE x \in Sides -> FALSE
                               [] x = "none" -> CoreAllEfiServicesAvailable
                               [] OTHER -> r
    BY DEF CoreIsSchedulable
<1>2. "none" \notin Sides
    BY DEF Sides
<1> HIDE DEF x, r
<1>3. x \notin Sides
    <2> SUFFICES ASSUME x \in Sides PROVE FALSE
        OBVIOUS
    <2>1. x # "none"
        BY <1>2
    <2>2. CoreIsSchedulable(d) = FALSE
        BY <1>1, <2>1
    <2> QED BY <2>2
<1>4. ASSUME x = "none" PROVE CoreAllEfiServicesAvailable
    <2>1. CoreIsSchedulable(d) = CoreAllEfiServicesAvailable
        BY <1>1, <1>3, <1>4
    <2> QED BY <2>1
<1>5. ASSUME x # "none" PROVE r
    <2>1. CoreIsSchedulable(d) = r
        BY <1>1, <1>3, <1>5
    <2> QED BY <2>1
<1> QED BY <1>3, <1>4, <1>5 DEF x, r

\* The frame of the driver that the search calls for, if it is schedulable.
LEMMA SearchFrames ==
    ASSUME Typed, Chosen, Evaluated, NEW d, d = Sought
    PROVE  \/ frames' = << >>
           \/ /\ Len(frames') = 1 /\ frames'[1].driver = d /\ frames'[1].side = "before"
              /\ frames'[1].known = Waiting' /\ d \in Waiting' /\ First(d) \notin Sides
              /\ frames'[1].at = 0 /\ frames' # << >>
<1>1. CASE frames' = frames
    BY <1>1, EvaluatedShape
<1>2. CASE CoreIsSchedulable(d) /\ frames' = << Frame(state, d) >>
    <2>1. First(d) \notin Sides
        BY <1>2, Schedulable
    <2>2. /\ Len(frames') = 1 /\ frames'[1] = Frame(state, d) /\ frames' # << >>
        BY <1>2
    <2>3. /\ Frame(state, d).driver = d /\ Frame(state, d).side = "before"
          /\ Frame(state, d).at = 0 /\ Frame(state, d).known = state["dependent"]
        BY DEF Frame
    <2>4. Waiting' = state["dependent"] /\ d \in Waiting'
        BY EvaluatedShape DEF Waiting
    <2> QED BY <2>1, <2>2, <2>3, <2>4
<1> QED BY <1>1, <1>2, EvaluatedShape

-----------------------------------------------------------------------------
(***************************************************************************)
(* The log and the frames.                                                 *)
(***************************************************************************)
\* A driver comes to the log once, when it stops to wait.
LEMMA LoggedNext ==
    ASSUME AprioriReady, Typed, Placed, Underway, Located, Logged, Nested, [Next]_vars
    PROVE  Logged'
<1>1. /\ (Found \ Early) \intersect Early' = {}
      /\ (Found \ (Waiting \union Early)) \intersect Waiting' = {}
      /\ Waiting \intersect Early = {} /\ Waiting \subseteq Found
    BY Waits
<1>2. Found \subseteq Found'
    BY TypedNext
<1>3. \A i \in 1 .. Len(log) :
          /\ log[i].driver \in Found' \ (Waiting' \union Early')
          /\ log[i].known \subseteq Found' \ Early'
    BY <1>1, <1>2 DEF Logged
<1>4. CASE log' = log
    BY <1>3, <1>4 DEF Logged
<1>5. CASE InsertTail
    <2>1. /\ Len(frames) \in Nat \ {0} /\ Top = frames[Len(frames)]
          /\ Len(log') = Len(log) + 1 /\ Len(log) \in Nat
          /\ \A i \in 1 .. Len(log) : log'[i] = log[i]
          /\ log'[Len(log) + 1].driver = Top.driver /\ log'[Len(log) + 1].known = Top.known
        BY <1>5, InsertTailShape, TopIs
    <2>2. Top.driver \in Waiting /\ Top.driver \in Drivers
        BY <1>5, InsertTailWaits
    <2>3. Top.known \subseteq Found \ Early
        BY <2>1 DEF Nested
    <2>4. Top.driver \notin Waiting'
        <3>1. state' = Put(Take(state, "dependent", {Top.driver}), "scheduled", {Top.driver})
            BY <1>5 DEF InsertTail, Schedule
        <3>2. state'["dependent"] = state["dependent"] \ {Top.driver}
            BY <3>1 DEF Typed, Flags, Put, Take
        <3> QED BY <3>2 DEF Waiting
    <2>5. Top.driver \in Found' \ (Waiting' \union Early') /\ Top.known \subseteq Found' \ Early'
        BY <1>1, <1>2, <2>2, <2>3, <2>4
    <2>6. \A i \in 1 .. Len(log) + 1 : i \in 1 .. Len(log) \/ i = Len(log) + 1
        BY <2>1
    <2>7. \A i \in 1 .. Len(log) : log[i].driver # Top.driver
        BY <2>2 DEF Logged
    <2>8. \A i \in 1 .. Len(log') :
             /\ log'[i].driver \in Found' \ (Waiting' \union Early')
             /\ log'[i].known \subseteq Found' \ Early'
        <3> TAKE i \in 1 .. Len(log')
        <3>1. CASE i \in 1 .. Len(log)
            BY <1>3, <2>1, <3>1
        <3>2. CASE i = Len(log) + 1
            BY <2>1, <2>5, <3>2
        <3> QED BY <2>1, <2>6, <3>1, <3>2
    <2>9. \A i, j \in 1 .. Len(log') : log'[i].driver = log'[j].driver => i = j
        BY <2>1, <2>6, <2>7 DEF Logged
    <2> QED BY <2>8, <2>9 DEF Logged
<1>6. log' = log \/ InsertTail
    BY FramesKept DEF Evaluated, Insert, InsertReturns, history
<1> QED BY <1>4, <1>5, <1>6

\* The parts of Nested that are about one frame and the one that called it
OfFrame(k) ==
    /\ frames[k].driver \in Found
    /\ frames[k].known \subseteq Found \ Early
    /\ frames[k].side = "before" => frames[k].driver \in Waiting
    /\ frames[k].side = "after" =>
          \E i \in 1 .. Len(log) : /\ log[i].driver = frames[k].driver
                                   /\ log[i].known = frames[k].known

OfCall(k) ==
    /\ k = 1 => First(frames[k].driver) \notin Sides
    /\ k # 1 => /\ First(frames[k].driver) = frames[k - 1].side
                /\ Follows(frames[k].driver, frames[k - 1].driver)

\* The follower that the loop inserts is of no frame: a driver that waits comes with a
\* frame only if it names the driver of the frame before.
LEMMA InsertNew ==
    ASSUME WellNamed, Typed, Nested, frames # << >>, NEW m \in Followers
    PROVE  /\ discovered[m] \in Waiting /\ discovered[m] \in Found
           /\ First(discovered[m]) = Top.side /\ Follows(discovered[m], Top.driver)
           /\ discovered[m] # Top.driver
           /\ \A k \in 1 .. Len(frames) : frames[k].driver # discovered[m]
<1>1. /\ Len(frames) \in Nat \ {0} /\ Top = frames[Len(frames)] /\ Top \in Frames
      /\ m \in 1 .. Len(discovered) /\ discovered[m] \in Found
    BY TopIs
<1> DEFINE d == discovered[m]
           n == Len(frames)
<1>2. /\ First(d) = Top.side /\ d \in Waiting /\ d # Top.driver
      /\ Depex[d][1].guid = Name[Top.driver]
    BY DEF Followers, Waiting
<1>3. First(d) \in Sides
    BY <1>1, <1>2 DEF Frames
<1> HIDE DEF d, n
<1>4. \A k \in 1 .. n : frames[k].driver # d
    <2>1. SUFFICES ASSUME NEW k \in 1 .. n, frames[k].driver = d PROVE FALSE
        OBVIOUS
    <2>2. k # 1
        BY <1>3, <2>1 DEF Nested, n
    <2>3. k - 1 \in 1 .. n /\ n \in 1 .. n
        BY <1>1, <2>1, <2>2 DEF n
    <2>4. Name[frames[k - 1].driver] = Name[Top.driver]
        BY <1>2, <2>1, <2>2 DEF Nested, Follows, n
    <2>5. frames[k - 1].driver \in Drivers /\ Top.driver \in Drivers
        <3>1. k - 1 \in 1 .. Len(frames) /\ frames \in Seq(Frames)
            BY <2>3 DEF Typed, n
        <3>2. frames[k - 1] \in Frames
            BY <3>1
        <3> QED BY <1>1, <3>2 DEF Frames
    <2>6. frames[k - 1].driver = frames[n].driver
        BY <1>1, <2>4, <2>5 DEF WellNamed, n
    <2>7. k - 1 = n
        BY <2>3, <2>6 DEF Nested, n
    <2> QED BY <1>1, <2>1, <2>7 DEF n
<1> QED BY <1>1, <1>2, <1>3, <1>4 DEF Follows, d, n

\* The frames are calls for drivers that wait or have just been scheduled, each once.
LEMMA NestedNext ==
    ASSUME AprioriReady, WellNamed, Typed, Placed, Underway, Located, Logged, Nested, [Next]_vars
    PROVE  Nested'
<1>0. Nested' <=> /\ frames' # << >> => pc' = "scan"
                  /\ \A k \in 1 .. Len(frames') : OfFrame(k)' /\ OfCall(k)'
                  /\ \A k, l \in 1 .. Len(frames') : frames'[k].driver = frames'[l].driver => k = l
    BY DEF Nested, OfFrame, OfCall
<1>00. /\ \A k \in 1 .. Len(frames) : OfFrame(k) /\ OfCall(k)
       /\ \A k, l \in 1 .. Len(frames) : frames[k].driver = frames[l].driver => k = l
       /\ frames # << >> => pc = "scan"
    BY DEF Nested, OfFrame, OfCall
<1>1. /\ (Found \ Early) \intersect Early' = {}
      /\ ~InsertTail => Waiting \subseteq Waiting'
      /\ Waiting' \intersect Early' = {} /\ Waiting' \subseteq Found'
      /\ Waiting \intersect Early = {} /\ Waiting \subseteq Found
    BY Waits
<1>2. Found \subseteq Found'
    BY TypedNext
<1>3. ASSUME NEW k \in 1 .. Len(frames), ~InsertTail,
             NEW l, frames'[l].driver = frames[k].driver, frames'[l].known = frames[k].known,
             frames'[l].side = frames[k].side, log' = log
      PROVE  OfFrame(l)'
    <2>1. OfFrame(k)
        BY <1>00
    <2> QED BY <1>1, <1>2, <1>3, <2>1 DEF OfFrame
<1>4. CASE frames' = << >>
    BY <1>0, <1>4
<1>5. CASE UNCHANGED <<frames, log>> /\ ~InsertTail /\ (frames # << >> => pc' = pc)
    <2>1. \A k \in 1 .. Len(frames) : OfFrame(k)'
        BY <1>3, <1>5
    <2>2. \A k \in 1 .. Len(frames) : OfCall(k)'
        BY <1>00, <1>5 DEF OfCall
    <2> QED BY <1>0, <1>00, <1>5, <2>1, <2>2
<1>6. CASE Evaluated
    <2>0. Chosen
        BY DEF Underway
    <2>1. PICK d : d = Sought
        OBVIOUS
    <2>2. pc' = "scan" /\ d \in Found
        BY <1>1, <1>6, <2>0, <2>1, EvaluatedShape
    <2>3. ASSUME Len(frames') = 1, frames'[1].driver = d, frames'[1].side = "before",
                 frames'[1].known = Waiting', d \in Waiting', First(d) \notin Sides
          PROVE  Nested'
        <3>1. OfFrame(1)' /\ OfCall(1)'
            BY <1>1, <1>2, <2>2, <2>3 DEF OfFrame, OfCall
        <3>2. \A k \in 1 .. Len(frames') : k = 1
            BY <2>3
        <3> QED BY <1>0, <2>2, <3>1, <3>2
    <2> QED BY <1>4, <1>6, <2>0, <2>1, <2>3, SearchFrames
<1>7. CASE Insert
    <2>0. PICK n : n = Len(frames)
        OBVIOUS
    <2>1. PICK m \in Followers :
              /\ frames # << >> /\ Len(frames) \in Nat \ {0}
              /\ Len(frames') = Len(frames) + 1
              /\ \A k \in 1 .. Len(frames) - 1 : frames'[k] = frames[k]
              /\ frames'[Len(frames)] = [Top EXCEPT !.at = m]
              /\ frames'[Len(frames) + 1] = Frame(state, discovered[m])
        BY <1>7, InsertShape
    <2> DEFINE d == discovered[m]
    <2>2. /\ d \in Waiting /\ d \in Found /\ First(d) = Top.side /\ Follows(d, Top.driver)
          /\ \A k \in 1 .. n : frames[k].driver # d
        BY <2>0, <2>1, InsertNew
    <2>3. n \in Nat \ {0} /\ Top = frames[n] /\ Top \in Frames
        BY <2>0, <2>1, TopIs
    <2>4. UNCHANGED <<log, pc, state, discovered>>
        BY <1>7 DEF Insert, lists, history
    <2>5. ~InsertTail
        <3>1. Followers # {}
            BY <2>1
        <3> QED BY <3>1 DEF InsertTail
    <2>6. Frame(state, d).driver = d /\ Frame(state, d).side = "before"
          /\ Frame(state, d).known = Waiting
        BY DEF Frame, Waiting
    <2> HIDE DEF d
    <2>7. /\ Len(frames') = n + 1
          /\ \A k \in 1 .. n : /\ frames'[k].driver = frames[k].driver
                               /\ frames'[k].known = frames[k].known
                               /\ frames'[k].side = frames[k].side
          /\ frames'[n + 1].driver = d /\ frames'[n + 1].side = "before"
          /\ frames'[n + 1].known = Waiting
        <3>1. \A k \in 1 .. n : k \in 1 .. n - 1 \/ k = n
            BY <2>3
        <3>2. /\ frames'[n].driver = frames[n].driver /\ frames'[n].known = frames[n].known
              /\ frames'[n].side = frames[n].side
            BY <2>0, <2>1, <2>3 DEF Frames
        <3>3. \A k \in 1 .. n - 1 : frames'[k] = frames[k]
            BY <2>0, <2>1
        <3>4. /\ Len(frames') = n + 1 /\ frames'[n + 1] = Frame(state, d)
            BY <2>0, <2>1 DEF d
        <3> QED BY <2>6, <3>1, <3>2, <3>3, <3>4
    <2>8. \A k \in 1 .. n + 1 : k \in 1 .. n \/ k = n + 1
        BY <2>3
    <2>9. \A k \in 1 .. n + 1 : OfFrame(k)'
        <3>1. \A k \in 1 .. n : OfFrame(k)'
            BY <1>3, <2>0, <2>4, <2>5, <2>7
        <3>2. OfFrame(n + 1)'
            <4>1. Waiting' = Waiting /\ Found' = Found /\ Early' = Early
                BY <2>4 DEF Waiting, Found, Early
            <4> QED BY <1>1, <2>2, <2>7, <4>1 DEF OfFrame
        <3> QED BY <2>8, <3>1, <3>2
    <2>10. \A k \in 1 .. n + 1 : OfCall(k)'
        <3>1. ASSUME NEW k \in 1 .. n PROVE OfCall(k)'
            <4>1. k # 1 => k - 1 \in 1 .. n
                BY <2>3
            <4>2. OfCall(k)
                BY <1>00, <2>0
            <4> QED BY <2>7, <4>1, <4>2 DEF OfCall
        <3>2. OfCall(n + 1)'
            <4>1. n + 1 # 1 /\ n + 1 - 1 = n /\ n \in 1 .. n
                BY <2>3
            <4> QED BY <2>2, <2>3, <2>7, <4>1 DEF OfCall
        <3> QED BY <2>8, <3>1, <3>2
    <2>11. \A k, l \in 1 .. n + 1 : frames'[k].driver = frames'[l].driver => k = l
        BY <1>00, <2>2, <2>7, <2>8, <2>0
    <2> QED BY <1>0, <1>00, <2>1, <2>4, <2>7, <2>9, <2>10, <2>11
<1>8. CASE InsertTail
    <2>1. /\ frames # << >> /\ Len(frames) \in Nat \ {0} /\ Top.side = "before"
          /\ Len(frames') = Len(frames)
          /\ \A k \in 1 .. Len(frames) - 1 : frames'[k] = frames[k]
          /\ frames'[Len(frames)] = [Top EXCEPT !.side = "after", !.at = 0]
          /\ Len(log') = Len(log) + 1 /\ Len(log) \in Nat
          /\ \A i \in 1 .. Len(log) : log'[i] = log[i]
          /\ log'[Len(log) + 1].driver = Top.driver /\ log'[Len(log) + 1].known = Top.known
        BY <1>8, InsertTailShape
    <2> DEFINE n == Len(frames)
    <2>2. n \in Nat \ {0} /\ Top = frames[n] /\ Top \in Frames
        BY <2>1, TopIs
    <2> HIDE DEF n
    <2>3. /\ Len(frames') = n
          /\ \A k \in 1 .. n : /\ frames'[k].driver = frames[k].driver
                               /\ frames'[k].known = frames[k].known
          /\ \A k \in 1 .. n - 1 : frames'[k].side = frames[k].side
          /\ frames'[n].side = "after"
        <3>1. \A k \in 1 .. n : k \in 1 .. n - 1 \/ k = n
            BY <2>2
        <3>2. /\ frames'[n].driver = frames[n].driver /\ frames'[n].known = frames[n].known
              /\ frames'[n].side = "after"
            BY <2>1, <2>2 DEF n, Frames
        <3>3. \A k \in 1 .. n - 1 : frames'[k] = frames[k]
            BY <2>1 DEF n
        <3>4. Len(frames') = n
            BY <2>1 DEF n
        <3> QED BY <3>1, <3>2, <3>3, <3>4
    <2>4. pc' = pc /\ Waiting' = Waiting \ {Top.driver}
        <3>1. state' = Put(Take(state, "dependent", {Top.driver}), "scheduled", {Top.driver})
            BY <1>8 DEF InsertTail, Schedule
        <3>2. state'["dependent"] = state["dependent"] \ {Top.driver}
            BY <3>1 DEF Typed, Flags, Put, Take
        <3> QED BY <1>8, <3>2 DEF Waiting, InsertTail
    <2>5. \A k \in 1 .. n : OfFrame(k)'
        <3> TAKE k \in 1 .. n
        <3>1. OfFrame(k)
            BY <1>00 DEF n
        <3>2. frames'[k].driver \in Found' /\ frames'[k].known \subseteq Found' \ Early'
            BY <1>1, <1>2, <2>3, <3>1 DEF OfFrame
        <3>3. CASE k = n
            <4>1. Len(log) + 1 \in 1 .. Len(log')
                BY <2>1
            <4>2. /\ log'[Len(log) + 1].driver = frames'[n].driver
                  /\ log'[Len(log) + 1].known = frames'[n].known /\ n \in 1 .. n
                BY <2>1, <2>2, <2>3
            <4> QED BY <2>3, <3>2, <3>3, <4>1, <4>2 DEF OfFrame
        <3>4. CASE k # n
            <4>1. k \in 1 .. n - 1 /\ n \in 1 .. n
                BY <2>2, <3>4
            <4>2. frames[k].driver # Top.driver
                BY <1>00, <2>2, <3>4, <4>1 DEF n
            <4>3. frames'[k].side = "before" => frames'[k].driver \in Waiting'
                BY <2>3, <2>4, <3>1, <4>1, <4>2 DEF OfFrame
            <4>4. frames'[k].side = "after" =>
                     \E i \in 1 .. Len(log') : /\ log'[i].driver = frames'[k].driver
                                               /\ log'[i].known = frames'[k].known
                <5>1. ASSUME frames'[k].side = "after"
                      PROVE  \E i \in 1 .. Len(log) : /\ log[i].driver = frames[k].driver
                                                      /\ log[i].known = frames[k].known
                    BY <2>3, <3>1, <4>1, <5>1 DEF OfFrame
                <5>2. \A i \in 1 .. Len(log) : i \in 1 .. Len(log')
                    BY <2>1
                <5> QED BY <2>1, <2>3, <5>1, <5>2
            <4> QED BY <3>2, <4>3, <4>4 DEF OfFrame
        <3> QED BY <3>3, <3>4
    <2>6. \A k \in 1 .. n : OfCall(k)'
        <3> TAKE k \in 1 .. n
        <3>1. OfCall(k)
            BY <1>00 DEF n
        <3>2. k # 1 => k - 1 \in 1 .. n - 1 /\ k - 1 \in 1 .. n
            BY <2>2
        <3> QED BY <2>3, <3>1, <3>2 DEF OfCall
    <2>7. \A k, l \in 1 .. n : frames'[k].driver = frames'[l].driver => k = l
        BY <1>00, <2>3 DEF n
    <2> QED BY <1>0, <1>00, <2>1, <2>3, <2>4, <2>5, <2>6, <2>7
<1>9. CASE InsertReturns
    <2>1. /\ frames # << >> /\ Len(frames) \in Nat \ {0}
          /\ Top.side = "after" /\ Len(frames') = Len(frames) - 1
          /\ \A k \in 1 .. Len(frames) - 1 : frames'[k] = frames[k]
        BY <1>9, InsertReturnsShape
    <2>2. UNCHANGED <<log, pc>> /\ ~InsertTail
        BY <1>9, <2>1 DEF InsertReturns, InsertTail, history
    <2> DEFINE n == Len(frames)
    <2> HIDE DEF n
    <2>3. n \in Nat \ {0} /\ \A k \in 1 .. n - 1 : k \in 1 .. n /\ (k # 1 => k - 1 \in 1 .. n - 1)
        BY <2>1 DEF n
    <2>4. Len(frames') = n - 1 /\ \A k \in 1 .. n - 1 : frames'[k] = frames[k]
        BY <2>1 DEF n
    <2>5. \A k \in 1 .. n - 1 : OfFrame(k)'
        BY <1>3, <2>2, <2>3, <2>4 DEF n
    <2>6. \A k \in 1 .. n - 1 : OfCall(k)'
        <3> TAKE k \in 1 .. n - 1
        <3>1. OfCall(k)
            BY <1>00, <2>3 DEF n
        <3> QED BY <2>3, <2>4, <3>1 DEF OfCall
    <2>7. \A k, l \in 1 .. n - 1 : frames'[k].driver = frames'[l].driver => k = l
        BY <1>00, <2>3, <2>4 DEF n
    <2> QED BY <1>0, <1>00, <2>1, <2>2, <2>4, <2>5, <2>6, <2>7
<1> QED BY <1>5, <1>6, <1>7, <1>8, <1>9, FramesKept

\* A driver on the log keeps the frame, or the entries after it, that it needs.
LEMMA OrderedNext ==
    ASSUME Typed, Placed, Underway, Logged, Nested, Ordered, [Next]_vars
    PROVE  Ordered'
<1>1. CASE UNCHANGED <<frames, log>>
    BY <1>1 DEF Ordered, OfLog, Follows
<1>2. CASE Evaluated
    <2>1. frames = << >> /\ log' = log
        BY <1>2 DEF Evaluated, At, history
    <2>2. ~ \E k \in 1 .. Len(frames) : TRUE
        BY <2>1
    <2> QED BY <2>1, <2>2 DEF Ordered, OfLog, Follows
<1>3. CASE Insert
    <2>0. PICK n : n = Len(frames)
        OBVIOUS
    <2>1. PICK m \in Followers :
              /\ frames # << >> /\ Len(frames) \in Nat \ {0}
              /\ Len(frames') = Len(frames) + 1
              /\ \A k \in 1 .. Len(frames) - 1 : frames'[k] = frames[k]
              /\ frames'[Len(frames)] = [Top EXCEPT !.at = m]
        BY <1>3, InsertShape
    <2>2. n \in Nat \ {0} /\ Top = frames[n] /\ Top \in Frames
        BY <2>0, <2>1, TopIs
    <2>3. \A k \in 1 .. n : k \in 1 .. n + 1 /\ (k \in 1 .. n - 1 \/ k = n)
        BY <2>2
    <2>4. frames'[n].driver = frames[n].driver /\ frames'[n].side = frames[n].side
        BY <2>0, <2>1, <2>2 DEF Frames
    <2>5. \A k \in 1 .. n : /\ k \in 1 .. Len(frames') /\ frames'[k].driver = frames[k].driver
                            /\ frames'[k].side = frames[k].side
        BY <2>0, <2>1, <2>3, <2>4
    <2>6. log' = log
        BY <1>3 DEF Insert, history
    <2> QED BY <2>0, <2>5, <2>6 DEF Ordered, OfLog, Follows
<1>4. CASE InsertTail
    <2>0. PICK n, c : n = Len(frames) /\ c = Len(log)
        OBVIOUS
    <2>1. /\ n \in Nat \ {0} /\ Top.side = "before" /\ Len(frames') = n
          /\ \A k \in 1 .. n - 1 : frames'[k] = frames[k]
          /\ frames'[n] = [Top EXCEPT !.side = "after", !.at = 0]
          /\ Len(log') = c + 1 /\ c \in Nat
          /\ \A i \in 1 .. c : log'[i] = log[i]
          /\ log'[c + 1].driver = Top.driver /\ Top = frames[n] /\ Top \in Frames
        BY <1>4, <2>0, InsertTailShape, TopIs
    <2>2. frames'[n].driver = Top.driver
        BY <2>1 DEF Frames
    <2>3. \A i \in 1 .. c + 1 : i \in 1 .. c \/ i = c + 1
        BY <2>1
    <2>4. ASSUME NEW i \in 1 .. c PROVE OfLog(i)'
        <3> DEFINE d == log[i].driver
        <3>1. /\ First(d) = "before" =>
                 \/ \E j \in i + 1 .. c : Follows(d, log[j].driver)
                 \/ \E k \in 1 .. n :
                       frames[k].side = "before" /\ Follows(d, frames[k].driver)
              /\ First(d) = "after" => \E j \in 1 .. i - 1 : Follows(d, log[j].driver)
            BY <2>0 DEF Ordered, OfLog
        <3>2. log'[i].driver = d
            BY <2>1
        <3> HIDE DEF d
        <3>3. CASE \E k \in 1 .. n : frames[k].side = "before" /\ Follows(d, frames[k].driver)
            <4>1. PICK k \in 1 .. n : frames[k].side = "before" /\ Follows(d, frames[k].driver)
                BY <3>3
            <4>2. CASE k = n
                <5>1. c + 1 \in i + 1 .. c + 1 /\ Follows(d, log'[c + 1].driver)
                    BY <2>1, <4>1, <4>2
                <5> HIDE DEF Follows
                <5>2. First(d) = "after" => \E j \in 1 .. i - 1 : Follows(d, log'[j].driver)
                    <6>1. \A j \in 1 .. i - 1 : log'[j] = log[j]
                        BY <2>1
                    <6> QED BY <3>1, <6>1
                <5> QED BY <2>1, <3>2, <5>1, <5>2 DEF OfLog
            <4>3. CASE k # n
                <5>1. k \in 1 .. n - 1
                    BY <2>1, <4>3
                <5>2. frames'[k].side = "before" /\ Follows(d, frames'[k].driver)
                    BY <2>1, <4>1, <5>1
                <5>3. First(d) = "after" => \E j \in 1 .. i - 1 : Follows(d, log'[j].driver)
                    <6>1. \A j \in 1 .. i - 1 : log'[j] = log[j]
                        BY <2>1
                    <6> QED BY <3>1, <6>1
                <5> QED BY <2>1, <3>2, <5>2, <5>3, k \in 1 .. n DEF OfLog
            <4> QED BY <4>2, <4>3
        <3>4. CASE ~ \E k \in 1 .. n : frames[k].side = "before" /\ Follows(d, frames[k].driver)
            <4>1. \A j \in 1 .. c : log'[j] = log[j]
                BY <2>1
            <4>2. \A j \in i + 1 .. c : j \in 1 .. c /\ j \in i + 1 .. c + 1
                BY <2>1
            <4>3. \A j \in 1 .. i - 1 : j \in 1 .. c
                BY <2>1
            <4> QED BY <2>1, <3>1, <3>2, <3>4, <4>1, <4>2, <4>3 DEF OfLog
        <3> QED BY <3>3, <3>4
    <2>5. OfLog(c + 1)'
        <3> DEFINE d == Top.driver
        <3>1. log'[c + 1].driver = d
            BY <2>1
        <3>2. CASE First(d) \in Sides
            <4>1. n # 1
                BY <2>0, <2>1, <3>2 DEF Nested
            <4>2. n - 1 \in 1 .. n - 1 /\ n - 1 \in 1 .. n /\ n \in 1 .. n
                BY <2>1, <4>1
            <4>3. First(d) = frames[n - 1].side /\ Follows(d, frames[n - 1].driver)
                BY <2>0, <2>1, <4>1, <4>2 DEF Nested
            <4>4. CASE First(d) = "before"
                <5>1. frames'[n - 1].side = "before" /\ Follows(d, frames'[n - 1].driver)
                    BY <2>1, <4>2, <4>3, <4>4
                <5> QED BY <2>1, <3>1, <4>2, <4>4, <5>1 DEF OfLog
            <4>5. CASE First(d) = "after"
                <5>1. PICK x \in 1 .. c : log[x].driver = frames[n - 1].driver
                    BY <2>0, <4>2, <4>3, <4>5 DEF Nested
                <5>2. PICK e : e = c + 1
                    OBVIOUS
                <5>3. x \in 1 .. e - 1 /\ Follows(log'[e].driver, log'[x].driver)
                    BY <2>1, <3>1, <4>3, <5>1, <5>2
                <5>4. First(log'[e].driver) # "before"
                    BY <3>1, <4>5, <5>2
                <5>5. OfLog(e)'
                    BY <5>3, <5>4, Zenon DEF OfLog
                <5> QED BY <5>2, <5>5
            <4> QED BY <3>2, <4>4, <4>5 DEF Sides
        <3>3. CASE First(d) \notin Sides
            BY <3>1, <3>3 DEF Sides, OfLog
        <3> QED BY <3>2, <3>3
    <2>6. \A i \in 1 .. c + 1 : OfLog(i)'
        BY <2>3, <2>4, <2>5
    <2> QED BY <2>1, <2>6 DEF Ordered
<1>5. CASE InsertReturns
    <2>0. PICK n : n = Len(frames)
        OBVIOUS
    <2>1. /\ n \in Nat \ {0} /\ Top.side = "after" /\ Len(frames') = n - 1
          /\ \A k \in 1 .. n - 1 : frames'[k] = frames[k]
          /\ Top = frames[n]
        BY <1>5, <2>0, InsertReturnsShape, TopIs
    <2>2. \A k \in 1 .. n : frames[k].side = "before" =>
                k \in 1 .. Len(frames') /\ frames'[k] = frames[k]
        <3>1. \A k \in 1 .. n : k \in 1 .. n - 1 \/ k = n
            BY <2>1
        <3> QED BY <2>1, <3>1
    <2>3. log' = log
        BY <1>5 DEF InsertReturns, history
    <2> QED BY <2>0, <2>2, <2>3 DEF Ordered, OfLog, Follows
<1> QED BY <1>1, <1>2, <1>3, <1>4, <1>5, FramesKept

-----------------------------------------------------------------------------
(***************************************************************************)
(* The list, CoreTrust between its test and its lock, and the evaluation.  *)
(***************************************************************************)
\* Drivers keep their positions on the list.
LEMMA ListGrows ==
    ASSUME Typed, Placed, Underway, Nested, [Next]_vars
    PROVE  /\ Len(discovered) \in Nat /\ Len(discovered') \in Nat
           /\ Len(discovered) <= Len(discovered')
           /\ \A i \in 1 .. Len(discovered) :
                 i \in 1 .. Len(discovered') /\ discovered'[i] = discovered[i]
<1>1. discovered \in Seq(Drivers) /\ Len(discovered) \in Nat
    BY DEF Typed
<1>2. CASE discovered' = discovered
    BY <1>1, <1>2
<1>3. CASE \E v \in Volumes, L \in Seq(Drivers), A \in Seq(Drivers) : Arrives(v, L, A)
    <2>1. PICK L \in Seq(Drivers) : discovered' = discovered \o L
        BY <1>3 DEF Arrives
    <2> QED BY <1>1, <2>1, ConcatProperties
<1>4. CoreFwVolEventProtocolNotify \/ discovered' = discovered
    BY StepShifts
<1> QED BY <1>2, <1>3, <1>4, VolumeArrives

\* Nobody takes the driver that CoreTrust is to schedule from the untrusted ones.
LEMMA AskedNext ==
    ASSUME AprioriReady, TrustedOnce, Typed, Placed, Underway, Nested, [Next]_vars
    PROVE  Asked'
<1>0. Asked /\ state \in [Flags -> SUBSET Drivers] /\ "untrusted" \in Flags
    BY DEF Underway, Typed, Flags
<1>1. CASE UNCHANGED <<trusting, pc>> /\ state["untrusted"] \subseteq state'["untrusted"]
    BY <1>0, <1>1 DEF Asked
<1>2. CASE trusting' = None
    BY <1>2 DEF Asked
<1>3. CASE UNCHANGED vars
    BY <1>1, <1>3 DEF vars, lists, dispatcher
<1>4. CASE CoreFwVolEventProtocolNotify
    <2>1. UNCHANGED <<trusting, pc>>
        BY <1>4 DEF CoreFwVolEventProtocolNotify, dispatcher
    <2>2. CASE \E v \in Volumes, L \in Seq(Drivers), A \in Seq(Drivers) : Arrives(v, L, A)
        <3>1. \A f \in Flags : state[f] \subseteq state'[f]
            BY <2>2, ArrivesKeeps
        <3> QED BY <1>0, <1>1, <2>1, <3>1
    <2>3. CASE state' = state
        BY <1>1, <2>1, <2>3
    <2> QED BY <1>4, <2>2, <2>3, VolumeArrives
<1>5. CASE CoreLoadImage \/ CoreStartImage \/ EntryReturns \/ Drained \/ HandlersReturn
           \/ SearchDriver \/ CoreLocateProtocol \/ Evaluated \/ SearchEnds
           \/ DispatcherReturns \/ CoreDispatcher
    <2>1. trusting = None /\ trusting' = trusting
        BY <1>5 DEF CoreLoadImage, CoreStartImage, EntryReturns, Drained, HandlersReturn, Search,
                    SearchDriver, CoreLocateProtocol, Evaluated, SearchEnds, DispatcherReturns,
                    CoreDispatcher, At, lists
    <2> QED BY <1>2, <2>1
<1>6. CASE Insert \/ InsertTail \/ InsertReturns
    <2>1. frames # << >> /\ trusting' = trusting
        BY <1>6 DEF Insert, InsertTail, InsertReturns, Inserting, lists
    <2>2. trusting = None
        BY <1>0, <2>1 DEF Nested, Asked
    <2> QED BY <1>2, <2>1, <2>2
<1>7. CASE CoreTrustLocks
    BY <1>2, <1>7 DEF CoreTrustLocks
<1>8. CASE \E c \in Callers : Service(c)
    <2>1. PICK c \in Callers : Service(c)
        BY <1>8
    <2>2. CASE (\E x \in Things : InstallProtocol(c, x))
               \/ (\E p \in Protocols : UninstallProtocol(c, p))
        BY <1>1, <2>2 DEF InstallProtocol, UninstallProtocol, Calling, dispatcher, lists
    <2>3. CASE \E d \in Drivers : CoreSchedule(c, d)
        <3>1. PICK d \in Drivers : CoreSchedule(c, d)
            BY <2>3
        <3>2. UNCHANGED <<trusting, pc>>
              /\ state' = Put(Take(state, "unrequested", {d}), "dependent", {d})
            BY <3>1 DEF CoreSchedule, Calling, dispatcher
        <3>3. state'["untrusted"] = state["untrusted"]
            BY <1>0, <3>2 DEF Put, Take
        <3> QED BY <1>1, <3>2, <3>3
    <2>4. CASE \E d \in Drivers : CoreTrust(c, d)
        <3>1. PICK d \in Drivers : CoreTrust(c, d)
            BY <2>4
        <3>2. d \in state["untrusted"] /\ Calling(c, "trust", d) /\ pc' = pc
              /\ <<"trust", d>> \in Does[c]
            BY <3>1 DEF CoreTrust, Calling, dispatcher
        <3>3. CASE c = "timer"
            <4>1. /\ state' = Put(Take(state, "untrusted", {d}), "scheduled", {d})
                  /\ trusting' = trusting
                BY <3>1, <3>3 DEF CoreTrust, Promote
            <4>2. state'["untrusted"] = state["untrusted"] \ {d}
                BY <1>0, <4>1 DEF Put, Take
            <4>3. ASSUME trusting # None PROVE trusting # d
                <5>1. PICK b \in Callers \ {"timer"} : <<"trust", trusting>> \in Does[b]
                    BY <1>0, <4>3 DEF Asked
                <5>2. Does[b] \intersect Does["timer"] \intersect ({"trust"} \X Drivers) = {}
                    BY DEF TrustedOnce
                <5>3. <<"trust", d>> \in Does["timer"] /\ <<"trust", d>> \in {"trust"} \X Drivers
                    BY <3>2, <3>3
                <5> QED BY <5>1, <5>2, <5>3
            <4> QED BY <1>0, <3>2, <4>1, <4>2, <4>3 DEF Asked
        <3>4. CASE c # "timer"
            <4>1. trusting' = d /\ state' = state
                BY <3>1, <3>4 DEF CoreTrust
            <4>2. pc \in {"idle", "entry", "round"} /\ (pc = "round" => c = "handlers")
                BY <3>2, <3>4 DEF Calling
            <4> QED BY <2>1, <3>2, <3>4, <4>1, <4>2 DEF Asked
        <3> QED BY <3>3, <3>4
    <2> QED BY <2>1, <2>2, <2>3, <2>4 DEF Service
<1> QED BY <1>3, <1>4, <1>5, <1>6, <1>7, <1>8 DEF Next, Core

\* What may happen from one instruction of an expression to the next.
LEMMA Evaluating ==
    ASSUME Nested, [Next]_vars, pc' = "depex"
    PROVE  \/ SearchDriver
           \/ /\ pc = "depex" /\ link' = link /\ ~InsertTail
              /\ \/ UNCHANGED vars
                 \/ CoreFwVolEventProtocolNotify
                 \/ CoreLocateProtocol
                 \/ CoreTrustLocks
                 \/ \E c \in Callers : Service(c)
<1>1. ~Insert /\ ~InsertTail /\ ~InsertReturns
    <2>1. Insert \/ InsertTail \/ InsertReturns => frames # << >> /\ pc' = pc
        BY DEF Insert, InsertTail, InsertReturns, Inserting
    <2> QED BY <2>1 DEF Nested
<1>2. ~CoreLoadImage /\ ~CoreStartImage /\ ~EntryReturns /\ ~Drained /\ ~HandlersReturn
      /\ ~Evaluated /\ ~SearchEnds /\ ~DispatcherReturns /\ ~CoreDispatcher
    BY DEF CoreLoadImage, CoreStartImage, EntryReturns, Drained, HandlersReturn, Search, Evaluated,
           SearchEnds, DispatcherReturns, CoreDispatcher, Goto, At, dispatcher
<1>3. CASE UNCHANGED vars
    BY <1>1, <1>3 DEF vars, dispatcher
<1>4. CASE CoreFwVolEventProtocolNotify
    BY <1>1, <1>4 DEF CoreFwVolEventProtocolNotify, dispatcher
<1>5. CASE CoreLocateProtocol
    BY <1>1, <1>5 DEF CoreLocateProtocol
<1>6. CASE CoreTrustLocks
    BY <1>1, <1>6 DEF CoreTrustLocks, dispatcher
<1>7. CASE \E c \in Callers : Service(c)
    <2>1. UNCHANGED dispatcher
        BY <1>7 DEF Service, InstallProtocol, UninstallProtocol, CoreSchedule, CoreTrust, Calling
    <2> QED BY <1>1, <1>7, <2>1 DEF dispatcher
<1> QED BY <1>1, <1>2, <1>3, <1>4, <1>5, <1>6, <1>7 DEF Next, Core

\* The driver whose expression is evaluated waits until the evaluation has ended.
LEMMA ChosenNext ==
    ASSUME AprioriReady, Typed, Placed, Underway, Nested, [Next]_vars
    PROVE  /\ Chosen'
           /\ pc' = "depex" /\ ~SearchDriver => Sought' = Sought
<1>1. SUFFICES ASSUME pc' = "depex"
               PROVE  /\ link' # 0 /\ Sought' \in Waiting'
                      /\ ~SearchDriver => Sought' = Sought
    BY DEF Chosen
<1>2. CASE SearchDriver
    <2>1. PICK d : d = discovered[link + 1]
        OBVIOUS
    <2>2. /\ link' = link + 1 /\ link \in Nat /\ discovered' = discovered
          /\ pc' = IF d \in state'["dependent"] THEN "depex" ELSE "scan"
        BY <1>2, <2>1, SearchShape
    <2>3. d \in state'["dependent"] /\ discovered'[link'] = d /\ link' # 0
        BY <1>1, <2>1, <2>2
    <2> QED BY <1>2, <2>3 DEF Sought, Waiting
<1>3. CASE ~SearchDriver
    <2>1. pc = "depex" /\ link' = link /\ ~InsertTail
        BY <1>1, <1>3, Evaluating
    <2>2. link # 0 /\ Sought \in Waiting
        BY <2>1 DEF Underway, Chosen
    <2>3. link \in 1 .. Len(discovered)
        BY <2>2 DEF Typed
    <2>4. discovered'[link'] = discovered[link]
        BY <2>1, <2>3, ListGrows
    <2>5. Waiting \subseteq Waiting'
        BY <2>1, Waits
    <2> HIDE DEF Waiting
    <2> QED BY <2>1, <2>2, <2>4, <2>5 DEF Sought
<1> QED BY <1>2, <1>3

\* The evaluation misses what timer events install behind it, and nothing else.
LEMMA LookedNext ==
    ASSUME AprioriReady, Typed, Placed, Underway, Nested, Looked, [Next]_vars
    PROVE  Looked'
<1>1. SUFFICES ASSUME pc' = "depex", NEW e, e = Sought', ~late' \/ Untouched(e),
                      NEW i \in Pushes(e), i <= iterator', Depex[e][i].guid \in installed'
               PROVE  i \in found'[e]
    BY DEF Looked
<1>2. e \in Drivers
    <2>1. Sought' \in Waiting'
        BY <1>1, ChosenNext DEF Chosen
    <2>2. state' \in [Flags -> SUBSET Drivers] /\ "dependent" \in Flags
        BY PlacedNext DEF Flags
    <2> QED BY <1>1, <2>1, <2>2 DEF Waiting
<1>3. CASE SearchDriver
    <2>1. iterator' = 0
        BY <1>3 DEF SearchDriver
    <2>2. i \in 1 .. Len(Depex[e]) /\ Len(Depex[e]) \in Nat
        BY <1>2, DispatcherAssumption DEF Pushes
    <2> QED BY <1>1, <2>1, <2>2
<1>4. CASE ~SearchDriver
    <2>1. pc = "depex" /\ e = Sought
        BY <1>1, <1>4, Evaluating, ChosenNext
    <2>2. ASSUME UNCHANGED <<installed, iterator, found, late>> PROVE i \in found'[e]
        BY <1>1, <2>1, <2>2 DEF Looked
    <2>3. CASE UNCHANGED vars
        BY <2>2, <2>3 DEF vars, database, images, dispatcher, history
    <2>4. CASE CoreFwVolEventProtocolNotify
        <3>1. installed' = installed /\ UNCHANGED <<images, dispatcher, history>>
            BY <2>4, VolumeArrives
        <3> QED BY <2>2, <3>1 DEF images, dispatcher, history
    <2>5. CASE CoreTrustLocks
        BY <2>2, <2>5 DEF CoreTrustLocks, database, images, dispatcher, history
    <2>6. CASE CoreLocateProtocol
        <3>1. PICK m : m = iterator'
            OBVIOUS
        <3>2. /\ UNCHANGED <<database, history>> /\ m \in Pushes(e) /\ m \in Nat
              /\ \A j \in Pushes(e) : j > iterator => m <= j
              /\ found \in [Drivers -> SUBSET Nat]
              /\ found' = IF Depex[e][m].guid \in installed
                          THEN [found EXCEPT ![e] = @ \union {m}] ELSE found
            BY <2>1, <2>6, <3>1, LocateShape DEF Underway
        <3>3. i \in Nat /\ iterator \in Nat
            BY <1>2, PushesNat DEF Typed
        <3>4. i <= iterator \/ i = m
            BY <1>1, <3>1, <3>2, <3>3
        <3>5. found[e] \subseteq found'[e]
            BY <1>2, <3>2
        <3>6. installed' = installed /\ late' = late
            BY <3>2 DEF database, history
        <3>7. CASE i <= iterator
            BY <1>1, <2>1, <3>5, <3>6, <3>7 DEF Looked
        <3>8. CASE i = m
            BY <1>1, <1>2, <3>2, <3>6, <3>8
        <3> QED BY <3>4, <3>7, <3>8
    <2>7. CASE \E c \in Callers : Service(c)
        <3>1. PICK c \in Callers : Service(c)
            BY <2>7
        <3>2. PICK do, x : /\ Calling(c, do, x)
                           /\ \/ installed' \subseteq installed
                              \/ do = "install" /\ installed' = installed \union {x}
            BY <3>1 DEF Service, InstallProtocol, UninstallProtocol, CoreSchedule, CoreTrust, database
        <3>3. /\ c = "timer" /\ late' = TRUE /\ <<do, x>> \in Does[c]
              /\ UNCHANGED <<iterator, found>>
            BY <2>1, <3>2 DEF Calling, Searching, images, dispatcher
        <3>4. Untouched(e) /\ Depex[e][i].guid \in Pushed(e, Pushes(e))
            BY <1>1, <3>3 DEF Pushed
        <3>5. <<"install", Depex[e][i].guid>> \notin Does["timer"]
            BY <3>4 DEF Untouched
        <3>6. Depex[e][i].guid \in installed
            BY <1>1, <3>2, <3>3, <3>5
        <3> QED BY <1>1, <2>1, <3>3, <3>4, <3>6 DEF Looked
    <2> QED BY <1>1, <1>4, <2>3, <2>4, <2>5, <2>6, <2>7, Evaluating
<1> QED BY <1>3, <1>4

-----------------------------------------------------------------------------
(***************************************************************************)
(* The followers.                                                          *)
(***************************************************************************)
\* A driver that waits behind the loop of the last frame is one of its followers.
LEMMA IsFollower ==
    ASSUME Typed, frames # << >>, NEW p \in 1 .. Len(discovered), NEW d,
           discovered[p] = d, p > Top.at, First(d) = Top.side, d \in Waiting,
           d # Top.driver, Follows(d, Top.driver)
    PROVE  p \in Followers
<1>1. Top.at \in Nat /\ Len(discovered) \in Nat
    BY TopIs DEF Frames
<1>2. p \in Top.at + 1 .. Len(discovered)
    BY <1>1
<1> QED BY <1>2 DEF Followers, Waiting, Follows

\* Served, of a frame and of an entry of the log
OfKnown(k) ==
    \A d \in frames[k].known : Follows(d, frames[k].driver) /\ d # frames[k].driver => Passed(k, d)
OfEntry(i) ==
    (\A k \in 1 .. Len(frames) : frames[k].driver # log[i].driver) =>
       \A d \in log[i].known : Follows(d, log[i].driver) => d \notin Waiting

\* What a step leaves of Passed, for a frame that it does not change.
LEMMA PassedKept ==
    ASSUME AprioriReady, Typed, Placed, Underway, Nested, [Next]_vars,
           NEW k \in 1 .. Len(frames), NEW l, NEW d \in frames[k].known, Passed(k, d),
           frames'[l].side = frames[k].side, frames'[l].at = frames[k].at,
           frames'[l].driver = frames[k].driver,
           k < Len(frames) /\ d = frames[k + 1].driver /\ d \in Waiting' =>
              l < Len(frames') /\ d = frames'[l + 1].driver
    PROVE  Passed(l, d)'
<1>1. d \in Found \ Early
    BY DEF Nested
<1>2. d \in Waiting' => d \in Waiting
    BY <1>1, Waits
<1>3. \A i \in 1 .. Len(discovered) :
                 i \in 1 .. Len(discovered') /\ discovered'[i] = discovered[i]
    BY ListGrows
<1> QED BY <1>2, <1>3 DEF Passed

-----------------------------------------------------------------------------
(***************************************************************************)
(* The safety of the dispatcher.                                           *)
(***************************************************************************)
\* Nothing has been discovered at the beginning.
LEMMA Begins ==
    ASSUME Init
    PROVE  JInv
<1>1. /\ discovered = << >> /\ queue = << >> /\ frames = << >> /\ log = << >> /\ volumes = {}
      /\ arrived = << >> /\ pc = "idle" /\ installed = {} /\ ever = {}
    BY DEF Init
<1>2. Found = {} /\ Len(discovered) = 0 /\ Len(frames) = 0 /\ Len(log) = 0 /\ ToSet(queue) = {}
    BY <1>1 DEF Found, ToSet
<1>3. \A f \in Flags : state[f] = {}
    BY DEF Init
<1>4. Typed
    <2>1. /\ installed \in SUBSET Protocols /\ ever \in SUBSET Things /\ installed \subseteq ever
          /\ arrived \in Seq(Volumes) /\ volumes \in SUBSET Volumes
          /\ discovered \in Seq(Drivers) /\ queue \in Seq(Drivers)
          /\ frames \in Seq(Frames) /\ log \in Seq(Entries)
        BY <1>1
    <2>2. /\ state \in [Flags -> SUBSET Drivers] /\ found \in [Drivers -> SUBSET Nat]
          /\ image \in [Drivers -> {"none", "loaded", "violation", "started"}]
        BY DEF Init
    <2>3. link \in 0 .. Len(discovered)
        BY <1>2 DEF Init
    <2> QED BY <2>1, <2>2, <2>3 DEF Init, Typed
<1>5. Placed
    <2>1. IsInjective(discovered) /\ IsInjective(queue)
        BY <1>1 DEF IsInjective
    <2>2. OneFlag
        BY <1>2, <1>3 DEF OneFlag
    <2>3. "scheduled" \in Flags
        BY DEF Flags
    <2> QED BY <1>2, <1>3, <2>1, <2>2, <2>3 DEF Placed
<1>6. Logged /\ Nested /\ Ordered /\ Served
    BY <1>1, <1>2 DEF Logged, Nested, Ordered, Served
<1>7. Located
    BY DEF Init, Located, Pushed
<1>8. Underway /\ Looked /\ Searched
    BY <1>1 DEF Init, Underway, Asked, Chosen, Looked, Searched
<1> QED BY <1>4, <1>5, <1>6, <1>7, <1>8 DEF JInv, IInv

\* What the order of the queue rests on is kept by every step.
LEMMA IInvNext ==
    ASSUME WellNamed, AprioriReady, TrustedOnce, IInv, Located, [Next]_vars
    PROVE  IInv' /\ Located'
<1>1. Typed /\ Placed /\ Underway /\ Logged /\ Nested /\ Ordered
    BY DEF IInv
<1>2. Typed' /\ Placed' /\ Located'
    BY <1>1, TypedNext
<1>3. Logged' /\ Nested'
    BY <1>1, LoggedNext, NestedNext
<1>4. Ordered'
    BY <1>1, OrderedNext
<1>5. Underway'
    BY <1>1, AskedNext, ChosenNext DEF Underway
<1> QED BY <1>2, <1>3, <1>4, <1>5 DEF IInv

\* And it says what the run checks.
LEMMA IInvSafe ==
    ASSUME IInv
    PROVE  DispatcherInv
<1>1. Typed /\ Placed /\ Logged /\ Nested /\ Ordered /\ OneFlag
    BY DEF IInv, Placed
<1>2. TypeOK
    <2>1. /\ arrived \in Seq(Volumes) /\ discovered \in Seq(Drivers)
          /\ state \in [Flags -> SUBSET Drivers] /\ "scheduled" \in Flags
        BY <1>1 DEF Typed, Flags
    <2>2. ToSet(arrived) \subseteq Volumes /\ ToSet(discovered) \subseteq Drivers
        BY <2>1 DEF ToSet
    <2>3. ToSet(queue) \subseteq ToSet(discovered)
        BY <1>1, <2>1 DEF Placed, OneFlag, Found
    <2> QED BY <1>1, <2>1, <2>2, <2>3 DEF TypeOK, Typed
<1>3. OneState
    <2>1. ASSUME NEW d \in Found
          PROVE  Cardinality({f \in Flags : d \in state[f]}) = 1
        <3>1. PICK f \in Flags : d \in state[f]
            BY <1>1 DEF OneFlag
        <3>2. \A g \in Flags : d \in state[g] => g = f
            BY <1>1, <3>1 DEF OneFlag
        <3>3. {g \in Flags : d \in state[g]} = {f}
            BY <3>1, <3>2
        <3> QED BY <3>3, FS_Singleton
    <2>2. IsInjective([i \in DOMAIN frames |-> frames[i].driver])
        <3>1. DOMAIN frames = 1 .. Len(frames)
            BY <1>1 DEF Typed
        <3>2. \A k, l \in 1 .. Len(frames) : frames[k].driver = frames[l].driver => k = l
            BY <1>1 DEF Nested
        <3> QED BY <3>1, <3>2 DEF IsInjective
    <2>3. IsInjective(discovered) /\ IsInjective(queue) /\ ToSet(queue) = state["scheduled"]
        BY <1>1 DEF Placed
    <2> QED BY <2>1, <2>2, <2>3 DEF OneState, Found
<1>4. InOrder
    <2>1. DOMAIN log = 1 .. Len(log) /\ DOMAIN frames = 1 .. Len(frames) /\ Len(log) \in Nat
        BY <1>1 DEF Typed
    <2>2. \A i \in 1 .. Len(log) : OfLog(i)
        BY <1>1 DEF Ordered
    <2> QED BY <2>1, <2>2 DEF InOrder, OfLog, Follows
<1> QED BY <1>2, <1>3, <1>4 DEF DispatcherInv

\* In each state, the flags of a driver, the queue and the order of what was scheduled are
\* as the dispatcher's own lists need them: CoreInsertOnScheduledQueueWhileProcessing-
\* BeforeAndAfter never inserts a driver twice, nor one it is in a call for.
THEOREM DispatcherIsSafe ==
    ASSUME WellNamed, AprioriReady, TrustedOnce
    PROVE  Spec => []DispatcherInv
<1>1. Init => IInv /\ Located
    BY Begins DEF JInv
<1>2. IInv /\ Located /\ [Next]_vars => IInv' /\ Located'
    BY IInvNext
<1>3. IInv => DispatcherInv
    BY IInvSafe
<1> QED BY <1>1, <1>2, <1>3, PTL DEF Spec

\* What an evaluation has found is a reading of the database.
LEMMA IsReading ==
    ASSUME Typed, Located, NEW d \in Drivers
    PROVE  /\ installed \union Pushed(d, found[d]) \in Readings
           /\ installed \union Pushed(d, found[d]) \in SUBSET Protocols
           /\ found[d] \in SUBSET Pushes(d)
           /\ Pushed(d, found[d]) \in SUBSET Pushed(d, Pushes(d))
<1> DEFINE p == Pushed(d, found[d])
           gone == p \ installed
<1>1. found[d] \in SUBSET Pushes(d) /\ p \subseteq ever \intersect Protocols
    BY DEF Located
<1>2. p \in SUBSET Pushed(d, Pushes(d))
    BY <1>1 DEF Pushed
<1>3. installed \in SUBSET Protocols
    BY DEF Typed
<1>4. gone \in SUBSET ((ever \intersect Protocols) \ installed)
    BY <1>1
<1>5. installed \union p = installed \union gone
    OBVIOUS
<1> HIDE DEF gone, p
<1>6. installed \union p \in Readings
    BY <1>4, <1>5 DEF Readings
<1> QED BY <1>1, <1>2, <1>3, <1>6 DEF p

\* It is the database of now, if no timer event has come in between that matters.
LEMMA FoundIsThere ==
    ASSUME Typed, Chosen, Located, Looked, Evaluated, NEW d, d = Sought, ~late \/ Untouched(d)
    PROVE  (installed \union Pushed(d, found[d])) \intersect Pushed(d, Pushes(d))
              = Pushed(d, found[d])
<1>1. d \in Drivers /\ pc = "depex" /\ Unread = {}
    BY EvaluatedShape
<1>2. ASSUME NEW i \in Pushes(d), Depex[d][i].guid \in installed
      PROVE  Depex[d][i].guid \in Pushed(d, found[d])
    <2>1. i \in Nat /\ iterator \in Nat
        BY <1>1, PushesNat DEF Typed
    <2>2. i <= iterator
        BY <1>1, <2>1 DEF Unread
    <2>3. i \in found[d]
        BY <1>1, <1>2, <2>2 DEF Looked
    <2> QED BY <2>3 DEF Pushed
<1>3. Pushed(d, found[d]) \subseteq Pushed(d, Pushes(d))
    BY <1>1, IsReading
<1>4. \A x \in Pushed(d, Pushes(d)) : x \in installed => x \in Pushed(d, found[d])
    BY <1>2 DEF Pushed
<1> QED BY <1>3, <1>4

\* A driver is put on the queue by the search only with its expression true, of protocols
\* that were there when they were looked for.
LEMMA HeldNext ==
    ASSUME Understood, Steady, IInv, Located, Looked, [Next]_vars, frames = << >>,
           frames' # << >>, NEW d, d = frames'[1].driver
    PROVE  /\ First(d) = "none" => Arch \subseteq ever
           /\ First(d) # "none" => Readings \intersect Wants[d] # {}
<1>0. Typed /\ Chosen
    BY DEF IInv, Underway
<1>1. Evaluated
    <2>1. ~Insert /\ ~InsertTail /\ ~InsertReturns
        BY DEF Insert, InsertTail, InsertReturns, Inserting
    <2> QED BY <2>1, FramesKept
<1>2. PICK e : e = Sought
    OBVIOUS
<1>3. /\ e \in Drivers /\ CoreIsSchedulable(e)
      /\ frames' = << Frame(state, e) >>
    BY <1>0, <1>1, <1>2, EvaluatedShape
<1>4. frames'[1].driver = e
    BY <1>3 DEF Frame
<1>5. /\ First(e) \notin Sides
      /\ First(e) = "none" => CoreAllEfiServicesAvailable
      /\ First(e) # "none" => Holds(e, found[e])
    BY <1>3, Schedulable
<1>6. First(e) # "none" => Readings \intersect Wants[e] # {}
    <2>1. HAVE First(e) # "none"
    <2>2. PICK p, r, all : /\ p = Pushed(e, found[e]) /\ r = installed \union p
                           /\ all = Pushed(e, Pushes(e))
        OBVIOUS
    <2>3. /\ r \in Readings /\ r \in SUBSET Protocols /\ found[e] \in SUBSET Pushes(e)
          /\ p \in SUBSET all
        BY <1>0, <1>3, <2>2, IsReading
    <2>4. p \in SUBSET Protocols /\ p \intersect all = p
        BY <2>2, <2>3
    <2>5. \A there \in SUBSET Protocols : there \intersect all = p => there \in Wants[e]
        BY <1>3, <1>5, <2>1, <2>2, <2>3 DEF Understood
    <2>6. CASE Untouched(e)
        <3>1. r \intersect all = p
            BY <1>0, <1>1, <1>2, <2>2, <2>6, FoundIsThere
        <3> QED BY <2>3, <2>5, <3>1
    <2>7. CASE Growing(e)
        <3>1. p \in Wants[e]
            BY <2>4, <2>5
        <3>2. r \in Wants[e]
            BY <2>2, <2>3, <2>4, <2>7, <3>1 DEF Growing
        <3> QED BY <2>3, <3>2
    <2> QED BY <1>3, <2>6, <2>7 DEF Steady
<1> QED BY <1>4, <1>5, <1>6 DEF CoreAllEfiServicesAvailable

\* CoreDispatcher puts a driver on the queue only if its dependency expression holds, of
\* protocols that were installed at some time (CoreIsSchedulable), with timer events between
\* any two instructions: they have to leave the protocols of an expression with NOT alone.
THEOREM DriversWaitForTheirProtocols ==
    ASSUME WellNamed, AprioriReady, TrustedOnce, Understood, Steady
    PROVE  Spec => DepexHeld
<1> DEFINE Held == frames = << >> /\ frames' # << >> =>
                      LET d == frames'[1].driver
                      IN  IF First(d) = "none" THEN Arch \subseteq ever
                          ELSE Readings \intersect Wants[d] # {}
<1>1. Init => IInv /\ Located /\ Looked
    BY Begins DEF JInv
<1>2. IInv /\ Located /\ Looked /\ [Next]_vars => IInv' /\ Located' /\ Looked'
    BY IInvNext, LookedNext DEF IInv
<1>3. IInv /\ Located /\ Looked /\ [Next]_vars => [Held]_vars
    BY HeldNext
<1> QED BY <1>1, <1>2, <1>3, PTL DEF Spec, DepexHeld

\* A frame that a step does not change, but for frames above it, stays served.
LEMMA FrameServed ==
    ASSUME AprioriReady, Typed, Placed, Underway, Nested, Served, [Next]_vars,
           NEW k \in 1 .. Len(frames), frames'[k] = frames[k],
           k < Len(frames) /\ frames[k + 1].driver \in Waiting' =>
              k < Len(frames') /\ frames'[k + 1].driver = frames[k + 1].driver
    PROVE  OfKnown(k)'
<1>1. SUFFICES ASSUME NEW d \in frames'[k].known, Follows(d, frames'[k].driver),
                      d # frames'[k].driver
               PROVE  Passed(k, d)'
    BY DEF OfKnown, Follows
<1>2. d \in frames[k].known /\ Follows(d, frames[k].driver) /\ d # frames[k].driver
    BY <1>1
<1>3. Passed(k, d)
    BY <1>2 DEF Served
<1> HIDE DEF Passed, Waiting
<1> QED BY <1>2, <1>3, PassedKept

\* A driver that was scheduled and has returned stays served.
LEMMA EntryServed ==
    ASSUME AprioriReady, Typed, Placed, Underway, Logged, Nested, Served, [Next]_vars,
           NEW i \in 1 .. Len(log), log'[i] = log[i],
           \A k \in 1 .. Len(frames) : frames[k].driver # log[i].driver
    PROVE  OfEntry(i)'
<1>1. \A d \in log[i].known : Follows(d, log[i].driver) => d \notin Waiting
    BY DEF Served
<1>2. log[i].known \subseteq Found \ Early
    BY DEF Logged
<1>3. (Found \ (Waiting \union Early)) \intersect Waiting' = {}
    BY Waits
<1>4. \A d \in log[i].known : Follows(d, log[i].driver) => d \notin Waiting'
    BY <1>1, <1>2, <1>3
<1> QED BY <1>4 DEF OfEntry, Follows

\* Before the first loop, none of the drivers that wait has been passed.
LEMMA NewServed ==
    ASSUME Typed', Waiting' \subseteq Found', NEW k, frames'[k].at = 0,
           frames'[k].side = "before", frames'[k].known = Waiting'
    PROVE  OfKnown(k)'
<1>1. \A d \in Waiting' : \E j \in 1 .. Len(discovered') : discovered'[j] = d /\ j > 0
    <2>1. DOMAIN discovered' = 1 .. Len(discovered')
        BY DEF Typed
    <2> HIDE DEF Waiting
    <2> QED BY <2>1 DEF Found, ToSet
<1> HIDE DEF Waiting
<1>2. \A d \in Waiting' : Passed(k, d)'
    BY <1>1 DEF Passed
<1> QED BY <1>2 DEF OfKnown

\* None of the drivers that a frame is to serve is left when its loop ends.
LEMMA LoopEnds ==
    ASSUME Typed, Served, frames # << >>, Followers = {},
           NEW d \in Top.known, Follows(d, Top.driver), d # Top.driver, First(d) = Top.side
    PROVE  d \notin Waiting
<1>1. Len(frames) \in Nat \ {0} /\ Top = frames[Len(frames)]
    BY TopIs
<1>2. Passed(Len(frames), d)
    BY <1>1 DEF Served
<1>3. SUFFICES ASSUME d \in Waiting PROVE FALSE
    OBVIOUS
<1>4. PICK j \in 1 .. Len(discovered) : discovered[j] = d /\ j > Top.at
    BY <1>1, <1>2, <1>3 DEF Passed
<1> QED BY <1>3, <1>4, IsFollower

\* The followers of a driver that waited with it are never forgotten.
LEMMA ServedNext ==
    ASSUME WellNamed, AprioriReady, Typed, Placed, Underway, Logged, Nested, Served, Located, [Next]_vars
    PROVE  Served'
<1>0. /\ Served' <=> /\ \A k \in 1 .. Len(frames') : OfKnown(k)'
                     /\ \A i \in 1 .. Len(log') : OfEntry(i)'
      /\ Typed' /\ Waiting' \subseteq Found'
      /\ (Found \ (Waiting \union Early)) \intersect Waiting' = {}
    <2>1. Served' <=> /\ \A k \in 1 .. Len(frames') : OfKnown(k)'
                      /\ \A i \in 1 .. Len(log') : OfEntry(i)'
        BY DEF Served, OfKnown, OfEntry
    <2>2. Typed'
        BY TypedNext
    <2> QED BY <2>1, <2>2, Waits
<1>1. CASE UNCHANGED <<frames, log>>
    <2>1. \A k \in 1 .. Len(frames) : OfKnown(k)'
        BY <1>1, FrameServed
    <2>2. \A i \in 1 .. Len(log) : OfEntry(i)'
        <3>1. TAKE i \in 1 .. Len(log)
        <3>2. CASE \A k \in 1 .. Len(frames) : frames[k].driver # log[i].driver
            BY <1>1, <3>2, EntryServed
        <3>3. CASE ~ \A k \in 1 .. Len(frames) : frames[k].driver # log[i].driver
            BY <1>1, <3>3 DEF OfEntry
        <3> QED BY <3>2, <3>3
    <2> QED BY <1>0, <1>1, <2>1, <2>2
<1>2. CASE Evaluated
    <2>0. Chosen
        BY DEF Underway
    <2>1. PICK d : d = Sought
        OBVIOUS
    <2>2. frames = << >> /\ log' = log
        BY <1>2, <2>0, <2>1, EvaluatedShape
    <2>3. \A i \in 1 .. Len(log') : OfEntry(i)'
        <3>1. \A k \in 1 .. Len(frames) : FALSE
            BY <2>2
        <3> QED BY <2>2, <3>1, EntryServed
    <2>4. CASE frames' = << >>
        <3>1. \A k \in 1 .. Len(frames') : FALSE
            BY <2>4
        <3> QED BY <1>0, <2>3, <3>1
    <2>5. CASE frames' # << >>
        <3>1. /\ Len(frames') = 1 /\ frames'[1].side = "before" /\ frames'[1].at = 0
              /\ frames'[1].known = Waiting'
            BY <1>2, <2>0, <2>1, <2>5, SearchFrames
        <3>2. OfKnown(1)'
            <4> HIDE DEF Typed, Waiting, Found, OfKnown
            <4>1. PICK o : o = 1
                OBVIOUS
            <4>2. frames'[o].side = "before" /\ frames'[o].at = 0 /\ frames'[o].known = Waiting'
                BY <3>1, <4>1
            <4>3. OfKnown(o)'
                BY <1>0, <4>2, NewServed
            <4> QED BY <4>1, <4>3
        <3>3. \A k \in 1 .. Len(frames') : k = 1
            BY <3>1
        <3> QED BY <1>0, <2>3, <3>2, <3>3
    <2> QED BY <2>4, <2>5
<1>3. CASE Insert
    <2>0. PICK n : n = Len(frames)
        OBVIOUS
    <2>1. PICK m \in Followers :
              /\ \A i \in Followers : m <= i
              /\ frames # << >> /\ n \in Nat \ {0} /\ Len(frames') = n + 1
              /\ \A k \in 1 .. n - 1 : frames'[k] = frames[k]
              /\ frames'[n] = [Top EXCEPT !.at = m]
              /\ frames'[n + 1] = Frame(state, discovered[m])
        BY <1>3, <2>0, InsertShape
    <2>2. Top = frames[n] /\ Top \in Frames /\ n \in 1 .. n /\ m \in Nat
          /\ Followers \subseteq 1 .. Len(discovered) /\ Len(discovered) \in Nat
        BY <2>0, <2>1, TopIs
    <2>3. /\ frames'[n].driver = Top.driver /\ frames'[n].side = Top.side
          /\ frames'[n].known = Top.known /\ frames'[n].at = m
        BY <2>1, <2>2 DEF Frames
    <2>4. UNCHANGED <<state, discovered, log>>
        BY <1>3 DEF Insert, lists, history
    <2>5. ASSUME NEW k \in 1 .. n - 1 PROVE OfKnown(k)'
        <3>1. k \in 1 .. n /\ frames'[k] = frames[k]
            BY <2>1
        <3>2. k < Len(frames') /\ k + 1 \in 1 .. n
            BY <2>1
        <3>3. frames'[k + 1].driver = frames[k + 1].driver
            <4>1. CASE k + 1 = n
                BY <2>2, <2>3, <4>1
            <4>2. CASE k + 1 # n
                <5>1. k + 1 \in 1 .. n - 1
                    BY <2>1, <4>2
                <5> QED BY <2>1, <5>1
            <4> QED BY <4>1, <4>2
        <3> QED BY <2>0, <3>1, <3>2, <3>3, FrameServed
    <2>6. OfKnown(n)'
        <3>1. SUFFICES ASSUME NEW d \in Top.known, Follows(d, Top.driver), d # Top.driver
                       PROVE  Passed(n, d)'
            BY <2>3 DEF OfKnown, Follows
        <3>2. Passed(n, d)
            BY <2>0, <2>2, <3>1 DEF Served
        <3>3. First(d) = "before" /\ Top.side = "after" => d \notin Waiting
            BY <2>2, <3>2 DEF Passed
        <3>4. ASSUME First(d) = Top.side, d \in Waiting
              PROVE  \/ d = frames'[n + 1].driver
                     \/ \E j \in 1 .. Len(discovered) : discovered[j] = d /\ j > m
            <4>1. PICK j \in 1 .. Len(discovered) : discovered[j] = d /\ j > Top.at
                BY <2>0, <2>2, <3>2, <3>4 DEF Passed
            <4>2. j \in Followers
                BY <2>1, <3>1, <3>4, <4>1, IsFollower
            <4>3. m <= j
                BY <2>1, <4>2
            <4>4. CASE j = m
                BY <2>1, <4>1, <4>4 DEF Frame
            <4>5. CASE j # m
                BY <2>2, <4>1, <4>3, <4>5
            <4> QED BY <4>4, <4>5
        <3>5. Waiting' = Waiting /\ n < Len(frames')
            BY <2>1, <2>4 DEF Waiting
        <3> HIDE DEF Waiting
        <3> QED BY <2>3, <2>4, <3>3, <3>4, <3>5 DEF Passed
    <2>7. OfKnown(n + 1)'
        <3>1. PICK o : o = n + 1
            OBVIOUS
        <3>2. frames'[o].side = "before" /\ frames'[o].at = 0 /\ frames'[o].known = Waiting'
            BY <2>1, <2>4, <3>1 DEF Frame, Waiting
        <3>3. OfKnown(o)'
            <4> HIDE DEF Typed, Waiting, Found, OfKnown
            <4> QED BY <1>0, <3>2, NewServed
        <3> QED BY <3>1, <3>3
    <2>8. ASSUME NEW i \in 1 .. Len(log) PROVE OfEntry(i)'
        <3>1. CASE \A k \in 1 .. Len(frames) : frames[k].driver # log[i].driver
            BY <2>4, <3>1, EntryServed
        <3>2. CASE \E k \in 1 .. Len(frames) : frames[k].driver = log[i].driver
            <4>1. PICK k \in 1 .. n : frames[k].driver = log[i].driver
                BY <2>0, <3>2
            <4>2. k \in 1 .. Len(frames') /\ frames'[k].driver = log'[i].driver
                <5>1. k \in 1 .. n - 1 \/ k = n
                    BY <2>1
                <5>2. k \in 1 .. Len(frames')
                    BY <2>1
                <5> QED BY <2>1, <2>2, <2>3, <2>4, <4>1, <5>1, <5>2
            <4> QED BY <4>2 DEF OfEntry
        <3> QED BY <3>1, <3>2
    <2>9. \A k \in 1 .. n + 1 : k \in 1 .. n - 1 \/ k = n \/ k = n + 1
        BY <2>1
    <2> QED BY <1>0, <2>1, <2>4, <2>5, <2>6, <2>7, <2>8, <2>9
<1>4. CASE InsertTail
    <2>0. PICK n, c : n = Len(frames) /\ c = Len(log)
        OBVIOUS
    <2>1. /\ frames # << >> /\ n \in Nat \ {0} /\ Followers = {} /\ Top.side = "before"
          /\ Len(frames') = n
          /\ \A k \in 1 .. n - 1 : frames'[k] = frames[k]
          /\ frames'[n] = [Top EXCEPT !.side = "after", !.at = 0]
          /\ Len(log') = c + 1 /\ c \in Nat
          /\ \A i \in 1 .. c : log'[i] = log[i]
          /\ log'[c + 1].driver = Top.driver
        BY <1>4, <2>0, InsertTailShape
    <2>2. Top = frames[n] /\ Top \in Frames /\ n \in 1 .. n
        BY <2>0, <2>1, TopIs
    <2>3. /\ frames'[n].driver = Top.driver /\ frames'[n].side = "after"
          /\ frames'[n].known = Top.known /\ frames'[n].at = 0
        BY <2>1, <2>2 DEF Frames
    <2>5. ASSUME NEW k \in 1 .. n - 1 PROVE OfKnown(k)'
        <3>1. k \in 1 .. n /\ frames'[k] = frames[k]
            BY <2>1
        <3>2. k < Len(frames) /\ k < Len(frames') /\ k + 1 \in 1 .. n
            BY <2>0, <2>1
        <3>3. frames'[k + 1].driver = frames[k + 1].driver
            <4>1. CASE k + 1 = n
                BY <2>2, <2>3, <4>1
            <4>2. CASE k + 1 # n
                <5>1. k + 1 \in 1 .. n - 1
                    BY <2>1, <4>2
                <5> QED BY <2>1, <5>1
            <4> QED BY <4>1, <4>2
        <3> QED BY <2>0, <3>1, <3>2, <3>3, FrameServed
    <2>6. OfKnown(n)'
        <3>1. SUFFICES ASSUME NEW d \in Top.known, Follows(d, Top.driver), d # Top.driver
                       PROVE  Passed(n, d)'
            BY <2>3 DEF OfKnown, Follows
        <3>2. First(d) = "before" => d \notin Waiting
            BY <2>1, <3>1, LoopEnds
        <3>3. d \in Found \ Early
            BY <2>0, <2>2, <3>1 DEF Nested
        <3>4. First(d) = "before" => d \notin Waiting'
            BY <1>0, <3>2, <3>3
        <3>5. d \in Waiting' => \E j \in 1 .. Len(discovered') : discovered'[j] = d /\ j > 0
            <4>1. DOMAIN discovered' = 1 .. Len(discovered')
                BY <1>0 DEF Typed
            <4> HIDE DEF Waiting
            <4> QED BY <1>0, <4>1 DEF Found, ToSet
        <3> HIDE DEF Waiting
        <3> QED BY <2>3, <3>4, <3>5 DEF Passed
    <2>8. ASSUME NEW i \in 1 .. c PROVE OfEntry(i)'
        <3>1. CASE \A k \in 1 .. Len(frames) : frames[k].driver # log[i].driver
            BY <2>0, <2>1, <3>1, EntryServed
        <3>2. CASE \E k \in 1 .. Len(frames) : frames[k].driver = log[i].driver
            <4>1. PICK k \in 1 .. n : frames[k].driver = log[i].driver
                BY <2>0, <3>2
            <4>2. k \in 1 .. Len(frames') /\ frames'[k].driver = log'[i].driver
                <5>1. k \in 1 .. n - 1 \/ k = n
                    BY <2>1
                <5> QED BY <2>1, <2>2, <2>3, <4>1, <5>1
            <4> QED BY <4>2 DEF OfEntry
        <3> QED BY <3>1, <3>2
    <2>9. OfEntry(c + 1)'
        <3>1. PICK e : e = c + 1
            OBVIOUS
        <3>2. n \in 1 .. Len(frames') /\ frames'[n].driver = log'[e].driver
            BY <2>1, <2>2, <2>3, <3>1
        <3>3. OfEntry(e)'
            BY <3>2 DEF OfEntry
        <3> QED BY <3>1, <3>3
    <2>10. /\ \A k \in 1 .. n : k \in 1 .. n - 1 \/ k = n
           /\ \A i \in 1 .. c + 1 : i \in 1 .. c \/ i = c + 1
        BY <2>1
    <2> QED BY <1>0, <2>1, <2>5, <2>6, <2>8, <2>9, <2>10
<1>5. CASE InsertReturns
    <2>0. PICK n : n = Len(frames)
        OBVIOUS
    <2>1. /\ frames # << >> /\ n \in Nat \ {0} /\ Followers = {} /\ Top.side = "after"
          /\ Len(frames') = n - 1
          /\ \A k \in 1 .. n - 1 : frames'[k] = frames[k]
        BY <1>5, <2>0, InsertReturnsShape
    <2>2. Top = frames[n] /\ Top \in Frames /\ n \in 1 .. n
        BY <2>0, <2>1, TopIs
    <2>3. PICK x \in 1 .. Len(log) : log[x].driver = Top.driver /\ log[x].known = Top.known
        BY <2>0, <2>1, <2>2 DEF Nested
    <2>4. UNCHANGED <<state, discovered, log>>
        BY <1>5 DEF InsertReturns, lists, history
    <2>5. Waiting' = Waiting /\ Top.driver \notin Waiting
        <3>1. Waiting' = Waiting
            BY <2>4 DEF Waiting
        <3> QED BY <2>3, <3>1 DEF Logged
    <2>6. ASSUME NEW k \in 1 .. n - 1 PROVE OfKnown(k)'
        <3>1. k \in 1 .. n /\ frames'[k] = frames[k]
            BY <2>1
        <3>2. frames[k + 1].driver \in Waiting' =>
                 k < Len(frames') /\ frames'[k + 1].driver = frames[k + 1].driver
            <4>1. CASE k + 1 = n
                BY <2>2, <2>5, <4>1
            <4>2. CASE k + 1 # n
                <5>1. k + 1 \in 1 .. n - 1 /\ k < n - 1
                    BY <2>1, <4>2
                <5> QED BY <2>1, <5>1
            <4> QED BY <4>1, <4>2
        <3> HIDE DEF Waiting
        <3> QED BY <2>0, <3>1, <3>2, FrameServed
    <2>7. ASSUME NEW i \in 1 .. Len(log) PROVE OfEntry(i)'
        <3>1. CASE \A k \in 1 .. Len(frames) : frames[k].driver # log[i].driver
            BY <2>4, <3>1, EntryServed
        <3>2. CASE log[i].driver = Top.driver
            <4>1. i = x
                BY <2>3, <3>2 DEF Logged
            <4>2. ASSUME NEW d \in Top.known, Follows(d, Top.driver) PROVE d \notin Waiting'
                <5>1. CASE d = Top.driver
                    BY <2>5, <5>1
                <5>2. CASE d # Top.driver /\ First(d) = "after"
                    BY <2>1, <2>5, <4>2, <5>2, LoopEnds
                <5>3. CASE d # Top.driver /\ First(d) = "before"
                    <6>1. Passed(n, d)
                        BY <2>0, <2>2, <4>2, <5>3 DEF Served
                    <6> QED BY <2>1, <2>2, <2>5, <5>3, <6>1 DEF Passed
                <5> QED BY <4>2, <5>1, <5>2, <5>3 DEF Follows, Sides
            <4>3. log'[i].driver = Top.driver /\ log'[i].known = Top.known
                BY <2>3, <2>4, <4>1
            <4> HIDE DEF Waiting
            <4> QED BY <4>2, <4>3 DEF OfEntry, Follows
        <3>3. CASE \E k \in 1 .. n - 1 : frames[k].driver = log[i].driver
            <4>1. PICK k \in 1 .. n - 1 : frames[k].driver = log[i].driver
                BY <3>3
            <4>2. k \in 1 .. Len(frames') /\ frames'[k].driver = log'[i].driver
                BY <2>1, <2>4, <4>1
            <4> QED BY <4>2 DEF OfEntry
        <3>4. \A k \in 1 .. n : k \in 1 .. n - 1 \/ k = n
            BY <2>1
        <3> QED BY <2>0, <2>2, <3>1, <3>2, <3>3, <3>4
    <2> QED BY <1>0, <2>1, <2>4, <2>6, <2>7
<1> QED BY <1>1, <1>2, <1>3, <1>4, <1>5, FramesKept

-----------------------------------------------------------------------------
(***************************************************************************)
(* What the search leaves.                                                 *)
(***************************************************************************)
\* What Startable depends on
LEMMA SameStartable ==
    ASSUME NEW d, UNCHANGED <<installed, ever, log>>,
           d \in state'["deferred"] <=> d \in state["deferred"],
           d \in state'["dependent"] <=> d \in state["dependent"]
    PROVE  Startable(d)' = Startable(d)
<1>1. Readable(d)' = Readable(d) /\ Readings' = Readings
    BY DEF Readable, Readings
<1> QED BY <1>1 DEF Startable

\* A driver that the search has passed without an evaluation cannot be started.
LEMMA NotEvaluated ==
    ASSUME Typed, SearchDriver, pc' # "depex", NEW d, d = discovered[link + 1]
    PROVE  ~Startable(d)'
<1>1. /\ UNCHANGED <<installed, ever, log>> /\ d \in Drivers
      /\ state' = IF d \in state["deferred"]
                  THEN CoreGetDepexSectionAndPreProccess(state, {d}) ELSE state
      /\ d \notin state'["dependent"]
    BY SearchShape
<1>2. ~(d \in state'["deferred"] /\ Readable(d)')
    <2>1. Readable(d)' = Readable(d)
        BY <1>1 DEF Readable
    <2>2. CASE d \in state["deferred"] /\ Readable(d)
        <3> DEFINE g == IF First(d) = "sor" THEN "unrequested" ELSE "dependent"
        <3>1. state' = Move(state, "deferred", g, {d})
            BY <1>1, <2>2, ReadOne DEF Typed
        <3>2. g # "deferred" /\ "deferred" \in Flags
            BY DEF Flags
        <3> HIDE DEF g
        <3>3. d \notin state'["deferred"]
            BY <3>1, <3>2 DEF Move, Put, Take, Typed
        <3> QED BY <3>3
    <2>3. CASE ~(d \in state["deferred"] /\ Readable(d))
        <3>1. state' = state
            BY <1>1, <2>3, ReadOne DEF Typed
        <3> QED BY <2>1, <2>3, <3>1
    <2> QED BY <2>2, <2>3
<1> HIDE DEF Readings, Readable
<1> QED BY <1>1, <1>2 DEF Startable

\* Neither can one whose evaluation has ended with FALSE, if no timer event came.
LEMMA LookedAt ==
    ASSUME AprioriReady, Understood, Typed, Placed, Underway, Logged, Nested, Served, Located,
           Looked, [Next]_vars, Evaluated, frames' = << >>, ~late, NEW d, d = Sought
    PROVE  ~Startable(d)'
<1>1. /\ frames = << >> /\ UNCHANGED <<installed, ever, log, state>> /\ d \in Drivers
      /\ d \in Waiting /\ d \in Found /\ d \notin Early
    BY EvaluatedShape, Waits DEF Underway
<1>2. ~CoreIsSchedulable(d)
    <2>1. ~CoreIsSchedulable(d) \/ frames' = << Frame(state, d) >>
        BY EvaluatedShape DEF Underway
    <2>2. << Frame(state, d) >> # << >>
        OBVIOUS
    <2> QED BY <2>1, <2>2
<1>3. d \notin state["deferred"]
    BY <1>1 DEF Early
<1>4. ASSUME First(d) \in Sides, NEW i \in DOMAIN log,
             Name[log[i].driver] = Depex[d][1].guid, d \in log[i].known
      PROVE  FALSE
    <2>1. i \in 1 .. Len(log) /\ Follows(d, log[i].driver)
        BY <1>4 DEF Typed, Follows
    <2>2. \A k \in 1 .. Len(frames) : FALSE
        BY <1>1
    <2>3. d \notin Waiting
        BY <1>4, <2>1, <2>2 DEF Served
    <2> QED BY <1>1, <2>3
<1>5. ASSUME First(d) = "none" PROVE ~(Arch \subseteq ever)
    BY <1>2, <1>5 DEF CoreIsSchedulable, CoreAllEfiServicesAvailable, Sides
<1>6. ASSUME First(d) \notin Sides \union {"none"} PROVE ~(Readings \subseteq Wants[d])
    <2>1. ~Holds(d, found[d])
        <3> DEFINE x == First(d)
                   r == Holds(d, found[d])
        <3>1. CoreIsSchedulable(d) = CASE x \in Sides -> FALSE
                                       [] x = "none" -> CoreAllEfiServicesAvailable
                                       [] OTHER -> r
            BY DEF CoreIsSchedulable
        <3>2. x \notin Sides /\ x # "none"
            BY <1>6
        <3> HIDE DEF x, r
        <3>3. CoreIsSchedulable(d) = r
            BY <3>1, <3>2
        <3>4. ~r
            BY <1>2, <3>3
        <3> QED BY <3>4 DEF r
    <2>2. PICK p, r, all : /\ p = Pushed(d, found[d]) /\ r = installed \union p
                           /\ all = Pushed(d, Pushes(d))
        OBVIOUS
    <2>3. /\ r \in Readings /\ r \in SUBSET Protocols /\ found[d] \in SUBSET Pushes(d)
        BY <1>1, <2>2, IsReading
    <2>4. r \intersect all = p
        BY <2>2, FoundIsThere DEF Underway
    <2>5. r \notin Wants[d]
        BY <1>1, <1>6, <2>1, <2>2, <2>3, <2>4 DEF Understood
    <2> QED BY <2>3, <2>5
<1>7. ~Startable(d)
    <2> HIDE DEF Readings, Readable
    <2> QED BY <1>3, <1>4, <1>5, <1>6 DEF Startable
<1> QED BY <1>1, <1>7, SameStartable

\* It changes the flags of no other driver.
LEMMA OthersKept ==
    ASSUME Typed, SearchDriver, NEW e, e # discovered[link + 1]
    PROVE  /\ e \in state'["deferred"] <=> e \in state["deferred"]
           /\ e \in state'["dependent"] <=> e \in state["dependent"]
<1>1. PICK d : d = discovered[link + 1]
    OBVIOUS
<1>2. /\ d \in Drivers /\ e # d
      /\ state' = IF d \in state["deferred"]
                  THEN CoreGetDepexSectionAndPreProccess(state, {d}) ELSE state
    BY <1>1, SearchShape
<1>3. CASE d \in state["deferred"] /\ Readable(d)
    <2> DEFINE g == IF First(d) = "sor" THEN "unrequested" ELSE "dependent"
    <2>1. state' = Move(state, "deferred", g, {d})
        BY <1>2, <1>3, ReadOne DEF Typed
    <2>2. g \in Flags /\ "deferred" \in Flags /\ "dependent" \in Flags
        BY DEF Flags
    <2>3. g # "deferred" /\ state \in [Flags -> SUBSET Drivers]
        BY DEF Typed
    <2> HIDE DEF g
    <2>4. \A h \in Flags : state'[h] = IF h = "deferred" THEN state[h] \ {d}
                                       ELSE IF h = g THEN state[h] \union {d} ELSE state[h]
        BY <2>1, <2>2, <2>3 DEF Move, Put, Take
    <2>5. \A h \in Flags : e \in state'[h] <=> e \in state[h]
        BY <1>2, <2>4
    <2> QED BY <2>2, <2>5
<1>4. CASE ~(d \in state["deferred"] /\ Readable(d))
    <2>1. state' = state
        BY <1>2, <1>4, ReadOne DEF Typed
    <2> QED BY <2>1
<1> QED BY <1>3, <1>4

\* What a call of a service leaves, where the search rests on it.
LEMMA ServiceKeeps ==
    ASSUME Typed, QuietRounds, NEW c \in Callers, Service(c)
    PROVE  /\ UNCHANGED <<pc, frames, ready, link>>
           /\ Searching => late'
           /\ pc = "round" => UNCHANGED <<queue, arrived>>
<1>1. \E do, x : /\ Calling(c, do, x)
                 /\ \/ do = "install" /\ x \in Volumes
                    \/ do = "trust" /\ x \in Drivers
                    \/ UNCHANGED <<queue, arrived>>
    <2>1. CASE \E x \in Things : InstallProtocol(c, x)
        <3>1. PICK x \in Things : InstallProtocol(c, x)
            BY <2>1
        <3>2. Calling(c, "install", x) /\ (x \in Volumes \/ UNCHANGED <<queue, arrived>>)
            BY <3>1 DEF InstallProtocol
        <3> QED BY <3>2
    <2>2. CASE \E p \in Protocols : UninstallProtocol(c, p)
        <3>1. PICK p \in Protocols : UninstallProtocol(c, p)
            BY <2>2
        <3>2. Calling(c, "remove", p) /\ UNCHANGED <<queue, arrived>>
            BY <3>1 DEF UninstallProtocol, lists
        <3> QED BY <3>2
    <2>3. CASE \E d \in Drivers : CoreSchedule(c, d)
        <3>1. PICK d \in Drivers : CoreSchedule(c, d)
            BY <2>3
        <3>2. Calling(c, "schedule", d) /\ UNCHANGED <<queue, arrived>>
            BY <3>1 DEF CoreSchedule
        <3> QED BY <3>2
    <2>4. CASE \E d \in Drivers : CoreTrust(c, d)
        <3>1. PICK d \in Drivers : CoreTrust(c, d)
            BY <2>4
        <3>2. Calling(c, "trust", d)
            BY <3>1 DEF CoreTrust
        <3> QED BY <3>2
    <2> QED BY <2>1, <2>2, <2>3, <2>4 DEF Service
<1>2. PICK do, x : /\ Calling(c, do, x)
                   /\ \/ do = "install" /\ x \in Volumes
                      \/ do = "trust" /\ x \in Drivers
                      \/ UNCHANGED <<queue, arrived>>
    BY <1>1
<1>3. UNCHANGED <<pc, frames, ready, link>> /\ <<do, x>> \in Does[c]
    BY <1>2 DEF Calling, dispatcher
<1>4. Searching => late'
    BY <1>2 DEF Calling, Searching
<1>5. ASSUME pc = "round" PROVE UNCHANGED <<queue, arrived>>
    <2>1. c \in {"handlers", "timer"}
        BY <1>2, <1>5 DEF Calling
    <2>2. Does[c] \intersect (({"install"} \X Volumes) \union ({"trust"} \X Drivers)) = {}
        BY <2>1 DEF QuietRounds
    <2> QED BY <1>2, <1>3, <2>2
<1> QED BY <1>3, <1>4, <1>5

\* The search leaves nothing behind it that could be started.
LEMMA SearchedNext ==
    ASSUME AprioriReady, Understood, QuietRounds, JInv, [Next]_vars
    PROVE  Searched'
<1>0. /\ Typed /\ Placed /\ Underway /\ Logged /\ Nested /\ Ordered /\ Served /\ Located
      /\ Looked /\ Searched
    BY DEF JInv, IInv
<1>1. CASE UNCHANGED vars
    <2>1. UNCHANGED <<pc, late, ready, link, queue, arrived, frames, discovered, Found>>
          /\ UNCHANGED <<installed, ever, log, state>>
        BY <1>1 DEF vars, database, lists, dispatcher, history, Found
    <2>2. Able' = Able
        BY <2>1, SameStartable DEF Able
    <2> HIDE DEF Able, Found
    <2> QED BY <1>0, <2>1, <2>2 DEF Searched
<1>2. CASE CoreFwVolEventProtocolNotify
    <2>1. arrived # << >> /\ UNCHANGED <<pc, late, ready>>
        BY <1>2 DEF CoreFwVolEventProtocolNotify, dispatcher, history
    <2> HIDE DEF Able, Found
    <2> QED BY <1>0, <2>1 DEF Searched
<1>3. CASE CoreLoadImage \/ CoreStartImage \/ EntryReturns \/ DispatcherReturns \/ CoreDispatcher
    <2>1. pc' \notin {"round", "scan", "depex", "exit"}
        BY <1>3 DEF CoreLoadImage, CoreStartImage, EntryReturns, DispatcherReturns,
                    CoreDispatcher, At, Goto, dispatcher
    <2> QED BY <2>1 DEF Searched
<1>4. CASE Drained \/ HandlersReturn
    <2>1. /\ queue' = << >> /\ arrived' = << >> /\ frames' = << >>
          /\ pc' = "round" \/ (pc' = "scan" /\ link' = 0)
        BY <1>0, <1>4 DEF Drained, HandlersReturn, Search, Goto, At, Quiet, lists, Searched
    <2>2. link' = 0 => \A i \in 1 .. link' : FALSE
        OBVIOUS
    <2> HIDE DEF Able, Found
    <2> QED BY <2>1, <2>2 DEF Searched
<1>5. CASE SearchDriver
    <2>1. PICK d : d = discovered[link + 1]
        OBVIOUS
    <2>2. /\ pc = "scan" /\ pc' \in {"scan", "depex"} /\ link' = link + 1 /\ link \in Nat
          /\ UNCHANGED <<installed, ever, arrived, discovered, queue, log, late, frames, ready>>
        BY <1>0, <1>5, <2>1, SearchShape
    <2>3. pc' # "depex" => d \notin Able'
        BY <1>0, <1>5, <2>1, NotEvaluated DEF Able
    <2>4. ASSUME NEW e, e # d, e \notin Able PROVE e \notin Able'
        <3>1. /\ e \in state'["deferred"] <=> e \in state["deferred"]
              /\ e \in state'["dependent"] <=> e \in state["dependent"]
            BY <1>0, <1>5, <2>1, <2>4, OthersKept
        <3>2. Startable(e)' = Startable(e)
            BY <2>2, <3>1, SameStartable
        <3> QED BY <2>4, <3>2 DEF Able
    <2>5. ASSUME NEW i \in 1 .. link PROVE i \in 1 .. Len(discovered) /\ discovered[i] # d
        <3>1. link + 1 \in 1 .. Len(discovered)
            BY <1>0, <1>5, <2>1, SearchShape
        <3>2. /\ i \in 1 .. Len(discovered) /\ i # link + 1
              /\ DOMAIN discovered = 1 .. Len(discovered) /\ IsInjective(discovered)
            BY <1>0, <2>2, <2>5, <3>1 DEF Typed, Placed
        <3> QED BY <2>1, <3>1, <3>2 DEF IsInjective
    <2>6. \A i \in 1 .. link + 1 : i \in 1 .. link \/ i = link + 1
        BY <2>2
    <2> HIDE DEF Able, Found
    <2>7. ASSUME ~late', ~ready'
          PROVE  /\ queue' = << >> /\ arrived' = << >> /\ frames' = << >>
                 /\ \A i \in 1 .. link' :
                       discovered'[i] \notin Able' \/ (pc' = "depex" /\ i = link')
        <3>1. /\ queue = << >> /\ arrived = << >> /\ frames = << >>
              /\ \A i \in 1 .. link : discovered[i] \notin Able
            BY <1>0, <2>2, <2>7 DEF Searched
        <3>2. \A i \in 1 .. link : discovered[i] \notin Able'
            BY <2>4, <2>5, <3>1
        <3>3. \A i \in 1 .. link + 1 : discovered[i] \notin Able' \/ (pc' = "depex" /\ i = link + 1)
            BY <2>1, <2>3, <2>6, <3>2
        <3> QED BY <2>2, <3>1, <3>3
    <2> QED BY <2>2, <2>7 DEF Searched
<1>9. CASE CoreLocateProtocol
    <2>1. /\ pc = "depex" /\ frames = << >> /\ UNCHANGED <<database, lists, pc, link, ready, frames, history>>
        BY <1>0, <1>9, LocateShape DEF Underway
    <2>2. Able' = Able
        BY <2>1, SameStartable DEF Able, database, lists, history
    <2> HIDE DEF Able, Found
    <2> QED BY <1>0, <2>1, <2>2 DEF Searched, lists, history
<1>10. CASE Evaluated
    <2>1. PICK d : d = Sought
        OBVIOUS
    <2>2. /\ pc = "depex" /\ pc' = "scan" /\ link \in 1 .. Len(discovered) /\ frames = << >>
          /\ UNCHANGED <<installed, ever, arrived, discovered, queue, state, link, log, late>>
          /\ \/ frames' = frames /\ ready' = ready
             \/ ready' = TRUE
        BY <1>0, <1>10, <2>1, EvaluatedShape DEF Underway
    <2>3. Able' = Able
        BY <2>2, SameStartable DEF Able
    <2>4. ASSUME ~late', ~ready' PROVE d \notin Able'
        BY <1>0, <1>10, <2>1, <2>2, <2>4, LookedAt DEF Able
    <2> HIDE DEF Able, Found
    <2>5. ASSUME ~late', ~ready'
          PROVE  /\ queue' = << >> /\ arrived' = << >> /\ frames' = << >>
                 /\ \A i \in 1 .. link' : discovered'[i] \notin Able'
        <3>1. /\ queue = << >> /\ arrived = << >> /\ frames = << >>
              /\ \A i \in 1 .. link : discovered[i] \notin Able \/ i = link
            BY <1>0, <2>2, <2>5 DEF Searched
        <3>2. discovered[link] = d
            BY <2>1 DEF Sought
        <3> QED BY <2>2, <2>3, <2>4, <2>5, <3>1, <3>2
    <2> QED BY <2>2, <2>5 DEF Searched
<1>11. CASE CoreTrustLocks
    <2>1. /\ pc' = pc /\ trusting # None /\ arrived' = arrived
        BY <1>11 DEF CoreTrustLocks, dispatcher
    <2>2. pc \in {"idle", "entry", "round"}
        BY <1>0, <2>1 DEF Underway, Asked
    <2>3. pc # "round"
        <3>1. SUFFICES ASSUME pc = "round" PROVE FALSE
            OBVIOUS
        <3>2. <<"trust", trusting>> \in Does["handlers"] /\ trusting \in Drivers
            BY <1>0, <2>1, <3>1 DEF Underway, Asked, Typed
        <3>3. Does["handlers"] \intersect (({"install"} \X Volumes) \union ({"trust"} \X Drivers)) = {}
            BY DEF QuietRounds
        <3> QED BY <3>2, <3>3
    <2> QED BY <2>1, <2>2, <2>3 DEF Searched
<1>6. CASE SearchEnds
    <2>1. /\ pc = "scan" /\ link = Len(discovered) /\ pc' = IF ready THEN "drain" ELSE "exit"
          /\ UNCHANGED <<installed, ever, arrived, discovered, queue, state, frames, log, late>>
        BY <1>6 DEF SearchEnds, Goto, At, database, lists, history
    <2>2. Able' = Able
        BY <2>1, SameStartable DEF Able
    <2>3. /\ \A d \in Found : \E i \in 1 .. Len(discovered) : discovered[i] = d
          /\ Found' = Found
        <3>1. DOMAIN discovered = 1 .. Len(discovered)
            BY <1>0 DEF Typed
        <3> QED BY <2>1, <3>1 DEF Found, ToSet
    <2> HIDE DEF Able, Found
    <2>4. ASSUME ~late, ~ready
          PROVE  /\ queue = << >> /\ arrived = << >> /\ frames = << >>
                 /\ \A d \in Found : d \notin Able
        BY <1>0, <2>1, <2>3, <2>4 DEF Searched
    <2> QED BY <2>1, <2>2, <2>3, <2>4 DEF Searched
<1>7. CASE Insert \/ InsertTail \/ InsertReturns
    <2>1. frames # << >> /\ UNCHANGED <<pc, late, ready>>
        BY <1>7 DEF Insert, InsertTail, InsertReturns, Inserting, history
    <2>2. pc = "scan"
        BY <1>0, <2>1 DEF Nested
    <2> QED BY <1>0, <2>1, <2>2 DEF Searched
<1>8. CASE \E c \in Callers : Service(c)
    <2>1. /\ UNCHANGED <<pc, frames, ready, link>>
          /\ Searching => late'
          /\ pc = "round" => UNCHANGED <<queue, arrived>>
        BY <1>0, <1>8, ServiceKeeps
    <2> HIDE DEF Able, Found
    <2> QED BY <1>0, <2>1 DEF Searched, Searching
<1> QED BY <1>1, <1>2, <1>3, <1>4, <1>5, <1>6, <1>7, <1>8, <1>9, <1>10, <1>11 DEF Next, Core

\* "It exits when there are no more drivers to run": when CoreDispatcher returns, no driver
\* is on the queue, and none that was discovered could be put there.
THEOREM NothingIsLeft ==
    ASSUME WellNamed, AprioriReady, TrustedOnce, Understood, QuietRounds
    PROVE  Spec => []NoneReady
<1>1. Init => JInv
    BY Begins
<1>2. JInv /\ [Next]_vars => JInv'
    <2>1. SUFFICES ASSUME JInv, [Next]_vars PROVE JInv'
        OBVIOUS
    <2>2. IInv' /\ Located'
        BY <2>1, IInvNext DEF JInv
    <2>3. Served'
        BY <2>1, ServedNext DEF JInv, IInv
    <2>4. Searched'
        BY <2>1, SearchedNext
    <2>5. Looked'
        BY <2>1, LookedNext DEF JInv, IInv
    <2> QED BY <2>2, <2>3, <2>4, <2>5 DEF JInv
<1>3. JInv => NoneReady
    <2>1. JInv => Typed /\ Searched
        BY DEF JInv, IInv
    <2>2. Typed => Found \subseteq Drivers
        BY DEF Typed, Found, ToSet
    <2> QED BY <2>1, <2>2 DEF Searched, NoneReady, Found, Able
<1> QED BY <1>1, <1>2, <1>3, PTL DEF Spec
=============================================================================

------------------------------ MODULE SmiProofs ------------------------------
(***************************************************************************)
(* Theorems about SmiDispatcher: no event is cleared before it was served, *)
(* no SMI is the last one, the machine sleeps only as asked, children are  *)
(* called once for an event, and requests are handled once.                *)
(***************************************************************************)
EXTENDS SmiDispatcher, Integers, TLAPS

(***************************************************************************)
(* The inductive invariant.                                                *)
(***************************************************************************)
Nodes == Children \cup {Base}
Loop  == {"round", "scan", "exhaust", "callback", "acpi", "clear", "quiet"}
Places == {"out", "entry", "handler", "dispatch", "sleep", "asleep", "off"} \cup Loop

Types ==
    /\ en \subseteq Sources /\ sts \subseteq Sources
    /\ sci \in BOOLEAN /\ insmi \in BOOLEAN /\ latch \in BOOLEAN
    /\ smiClear \in BOOLEAN /\ sx \in BOOLEAN
    /\ next \in [Nodes -> Nodes] /\ prev \in [Nodes -> Nodes]
    /\ plan \in Seq(Children)
    /\ registered \subseteq Children /\ due \subseteq registered
    /\ pc \in Places
    /\ rounds \in 0 .. EscapeCount /\ events \in 0 .. MaxEvents
    /\ active \in Sources
    /\ pc = "scan" => scan \in registered \cup {Base}
    /\ pc \in {"exhaust", "callback", "acpi"} => link \in registered \cup {Base}
    /\ pc \in {"callback", "acpi"} => who \in registered /\ child[who].source = active
    /\ caller \in {"idle", "size", "trigger", "clear"}
    /\ comm \in {"null", "stale", "own"}

\* What is left of the plan is not registered yet.
Planned ==
    /\ \A i, j \in 1 .. Len(plan) : plan[i] = plan[j] => i = j
    /\ \A i \in 1 .. Len(plan) : plan[i] \notin registered
    /\ \A i \in 1 .. Len(plan) : child[plan[i]].effect = "acpiOn" =>
          \/ \E j \in 1 .. i - 1 : child[plan[j]].source = "PowerButton"
          \/ \E c \in registered : child[c].source = "PowerButton"
    /\ \A c \in registered : child[c].effect = "acpiOn" =>
          \E d \in registered : child[d].source = "PowerButton"
    /\ \A i, j \in 1 .. Len(plan) :
          i < j /\ child[plan[i]].effect = "softOff" => child[plan[j]].source # "Sx"
    /\ \A c \in registered, j \in 1 .. Len(plan) :
          child[c].effect = "softOff" => child[plan[j]].source # "Sx"

\* Only enabled sources are active, and every one of them has a child, the command port
\* from the first registration on.
Covered ==
    /\ \A s \in en \ {"Sw"} : \E c \in registered : child[c].source = s
    /\ pc # "handler" /\ registered # {} => \E c \in registered : child[c].source = "Sw"
    /\ pc = "asleep" => \E c \in registered : child[c].source = "Sx"
    /\ pc # "off" => sts \subseteq en /\ (sci => "PowerButton" \notin sts)

\* The context that children of a source are compared with.
ContextOf(s) == IF s = "Sw" THEN cmd ELSE IF s = "Sx" THEN slp ELSE "any"

\* A child that is due is one that the status of its source asks for.
DueActive ==
    pc # "off" => \A c \in due : child[c].source \in sts
                              /\ Wants(c, child[c].source, ContextOf(child[c].source))

\* Commands and sleep requests are served by the SMI that they raise.
Calm ==
    /\ caller # "idle" => \A c \in due : child[c].source \in Async
    /\ caller \in {"size", "trigger"} => sts \subseteq Async
    /\ caller = "clear" => "Sx" \notin sts
    /\ pc \in {"sleep", "asleep"} => sts \subseteq Async
    /\ pc \in {"round", "scan"} /\ smiClear => sts \subseteq Async
    /\ pc = "out" /\ ~latch /\ caller # "clear" => sts \subseteq Async

\* While PMIO_INSMI is set somebody is going to clear it.
Latched ==
    insmi =>
        \/ latch \/ pc \in {"entry", "handler", "dispatch", "off"}
        \/ pc \in Loop /\ ~smiClear
        \/ pc = "out" /\ caller = "clear"

\* Before the first registration there are no SMIs but those of Communicate.
Bare ==
    registered = {} =>
        /\ pc \in {"out", "entry", "handler", "dispatch"}
        /\ pc # "out" \/ insmi \/ latch \/ sts # {} => caller = "clear"

\* A request waits for its SMI, or has been handled by an earlier one.
Request ==
    /\ caller = "idle" => comm = "null"
    /\ caller = "clear" /\ comm # "null" => pc = "entry" \/ (pc = "out" /\ latch)
    /\ pc = "handler" => caller # "idle"

\* Where no SMI comes between the stores of Communicate it is handled with its own size.
Answer ==
    ~Torn =>
        /\ caller = "size" => pc = "out" /\ comm = "stale" /\ handled = << >>
        /\ caller \in {"trigger", "clear"} =>
              \/ comm = "own" /\ handled = << >>
              \/ comm = "null" /\ handled = << "own" >>

\* The sleep type in the register is the one that was asked for, or it serves a capsule.
Sleepy ==
    /\ pc # "off" /\ "Sx" \in sts => AsAsked
    /\ pc = "sleep" => sx
    /\ pc \in Loop \cup {"sleep"} /\ sx =>
          \/ AsAsked /\ "Sx" \in en
          \/ pc \in {"exhaust", "callback"} /\ active = "PowerButton"

\* The source that is being served stays active until it is cleared, and the record of the
\* callback is not needed to go on.
AtWork ==
    /\ pc \in {"callback", "acpi"} => link # who
    /\ pc = "callback" /\ child[who].effect = "softOff" => slp = "S5"
    /\ pc = "acpi" => active = "Sw" /\ child[who].effect = "acpiOn"
    /\ pc \in {"exhaust", "callback", "acpi", "clear"} => active \in sts
    /\ pc \in {"exhaust", "callback", "acpi", "clear", "quiet"} => ~smiClear
    /\ pc = "scan" /\ scan # Base => ~smiClear
    /\ pc = "exhaust" /\ active = "PowerButton" =>
          link # Base /\ child[link].source = "PowerButton"
    /\ pc \in {"clear", "quiet"} => active # "PowerButton"

\* The number of sources in a set.
Size(S) ==
    (IF "Sw" \in S THEN 1 ELSE 0) + (IF "Sx" \in S THEN 1 ELSE 0)
    + (IF "Timer" \in S THEN 1 ELSE 0) + (IF "PowerButton" \in S THEN 1 ELSE 0)

\* Rounds that may be needed: each serves a source that is active or will become so.
Need == Size(sts) + (MaxEvents - events)

\* EscapeCount is enough for them; one round more, the first, may find nothing.
Budget ==
    /\ Size(sts \ {"Sw"}) <= events
    /\ pc = "round" /\ ~smiClear =>
          rounds >= 1 /\ rounds >= Need /\ (sts # {} \/ rounds = EscapeCount)
    /\ pc = "scan" /\ scan = Base /\ ~smiClear => rounds >= Need /\ sts # {}
    /\ pc \in {"exhaust", "callback", "acpi", "clear"} => rounds + 1 >= Need
    /\ pc = "quiet" => rounds >= Need

\* The list has the children that are registered, in the order of k.
Ring(k, nx, pv, R) ==
    /\ \A c, d \in R : k[c] = k[d] => c = d
    /\ \A c \in R \cup {Base} : nx[c] \in R \cup {Base} /\ pv[c] \in R \cup {Base}
    /\ \A c \in R \cup {Base} : pv[nx[c]] = c /\ nx[pv[c]] = c
    /\ \A d \in R : nx[Base] # Base /\ k[nx[Base]] <= k[d]
    /\ \A c \in R : IF nx[c] = Base THEN \A d \in R : k[d] <= k[c]
                    ELSE k[c] < k[nx[c]] /\ \A d \in R : k[d] <= k[c] \/ k[nx[c]] <= k[d]

\* The scan has not passed a child of a command or of a sleep request that is due.
ScanAt(k) ==
    pc = "scan" /\ scan # Base =>
        /\ \A c \in due : child[c].source \notin Async => k[scan] <= k[c]
        /\ \/ rounds >= Need
           \/ rounds + 1 >= Need
              /\ \E c \in registered : k[scan] <= k[c] /\ child[c].source \in sts

\* The children of the active source that are due are yet to be called, and they are
\* the only ones that are yet to be called.  The one for S5 is the last one for sleep.
ExhaustAt(k) ==
    /\ pc \in {"exhaust", "callback", "acpi"} =>
          \A c \in due : child[c].source = active => link # Base /\ k[link] <= k[c]
    /\ pc = "clear" => \A c \in due : child[c].source # active
    /\ pc # "off" => \A c \in registered :
          LET s == child[c].source
          IN  s \in sts /\ Wants(c, s, ContextOf(s)) =>
                 \/ c \in due
                 \/ pc = "clear" /\ s = active
                 \/ pc \in {"exhaust", "callback", "acpi"} /\ s = active
                    /\ (link = Base \/ k[c] < k[link])
    /\ pc \in {"callback", "acpi"} => link = Base \/ k[who] < k[link]
    /\ \A c, d \in registered :
          child[c].effect = "softOff" /\ child[d].source = "Sx" => k[d] <= k[c]

Listed ==
    \E k \in [Children -> Nat] :
        Ring(k, next, prev, registered) /\ ScanAt(k) /\ ExhaustAt(k)

IInv ==
    /\ Types /\ Planned /\ Covered /\ DueActive /\ Calm /\ Latched /\ Bare
    /\ Request /\ Answer /\ Sleepy /\ AtWork /\ Budget /\ Listed

-----------------------------------------------------------------------------
(***************************************************************************)
(* The list of children.                                                   *)
(***************************************************************************)
LEMMA RingFacts ==
    ASSUME NEW k \in [Children -> Nat], NEW nx, NEW pv, NEW R \in SUBSET Children,
           Ring(k, nx, pv, R), NEW c \in R
    PROVE  nx[c] # c /\ pv[c] # c
<1>1. c # Base /\ k[c] \in Nat
    BY SmiAssumption
<1>2. nx[c] # c
    BY <1>1 DEF Ring
<1> QED BY <1>2 DEF Ring

LEMMA RingInsert ==
    ASSUME NEW k \in [Children -> Nat], NEW nx \in [Nodes -> Nodes],
           NEW pv \in [Nodes -> Nodes], NEW R \in SUBSET Children,
           Ring(k, nx, pv, R), NEW c \in Children \ R
    PROVE  \E m \in [Children -> Nat] :
              /\ \A d \in R : m[d] = k[d]
              /\ Ring(m, [nx EXCEPT ![c] = Base, ![pv[Base]] = c],
                         [pv EXCEPT ![c] = pv[Base], ![Base] = c], R \cup {c})
<1>0. PICK b : b = pv[Base]
    OBVIOUS
<1>1. PICK n : n = (IF b = Base THEN 0 ELSE k[b] + 1)
    OBVIOUS
<1>2. b \in R \cup {Base} /\ nx[b] = Base /\ Base \notin Children /\ b # c
    BY <1>0, SmiAssumption DEF Ring
<1>3. n \in Nat /\ \A d \in R : k[d] \in Nat /\ k[d] < n
    <2>1. CASE b = Base
        BY <2>1, <1>1, <1>2 DEF Ring
    <2>2. CASE b # Base
        <3>1. b \in R /\ \A d \in R : k[d] <= k[b]
            BY <2>2, <1>2 DEF Ring
        <3> QED BY <2>2, <3>1, <1>1
    <2> QED BY <2>1, <2>2
<1>4. PICK m : m = [k EXCEPT ![c] = n]
    OBVIOUS
<1>5. m \in [Children -> Nat] /\ m[c] = n /\ \A d \in R : m[d] = k[d]
    BY <1>3, <1>4
<1>6. PICK x : x = [nx EXCEPT ![c] = Base, ![b] = c]
    OBVIOUS
<1>7. PICK v : v = [pv EXCEPT ![c] = b, ![Base] = c]
    OBVIOUS
<1>8. /\ x[c] = Base /\ x[b] = c /\ \A d \in R \cup {Base} : d # b => x[d] = nx[d]
      /\ v[c] = b /\ v[Base] = c /\ \A d \in R : v[d] = pv[d]
    BY <1>2, <1>6, <1>7 DEF Nodes
<1>9. \A d, e \in R \cup {c} : m[d] = m[e] => d = e
    BY <1>3, <1>5 DEF Ring
<1>10. \A d \in R \cup {c, Base} : x[d] \in R \cup {c, Base} /\ v[d] \in R \cup {c, Base}
    BY <1>2, <1>8 DEF Ring
<1>11. \A d \in R \cup {c, Base} : v[x[d]] = d /\ x[v[d]] = d
    <2> TAKE d \in R \cup {c, Base}
    <2>1. CASE d = c
        BY <2>1, <1>2, <1>8
    <2>2. CASE d # c /\ d # b
        <3>1. x[d] = nx[d] /\ nx[d] \in R \cup {Base} /\ nx[d] # Base /\ pv[nx[d]] = d
            BY <2>2, <1>8, <1>2, <1>0 DEF Ring
        <3>2. v[x[d]] = d
            BY <3>1, <1>8
        <3>3. CASE d = Base
            BY <3>2, <3>3, <1>8, <1>2
        <3>4. CASE d # Base
            <4>1. v[d] = pv[d] /\ pv[d] \in R \cup {Base} /\ nx[pv[d]] = d /\ pv[d] # b
                BY <2>2, <3>4, <1>8, <1>2 DEF Ring
            <4> QED BY <3>2, <4>1, <1>8
        <3> QED BY <3>3, <3>4
    <2>3. CASE d = b
        <3>1. v[x[d]] = d
            BY <2>3, <1>8
        <3>2. CASE d = Base
            BY <2>3, <3>1, <3>2, <1>8
        <3>3. CASE d # Base
            <4>1. v[d] = pv[d] /\ pv[d] \in R \cup {Base} /\ nx[pv[d]] = d
                BY <2>3, <3>3, <1>8, <1>2 DEF Ring
            <4>2. pv[d] # b
                BY <4>1, <2>3, <3>3, <1>2
            <4> QED BY <3>1, <4>1, <4>2, <1>8
        <3> QED BY <3>2, <3>3
    <2> QED BY <2>1, <2>2, <2>3
<1>12. \A d \in R \cup {c} : x[Base] # Base /\ m[x[Base]] <= m[d]
    <2>1. CASE b = Base
        BY <2>1, <1>2, <1>3, <1>5, <1>8 DEF Ring
    <2>2. CASE b # Base
        <3>1. x[Base] = nx[Base] /\ nx[Base] # Base /\ nx[Base] \in R
            BY <2>2, <1>2, <1>8 DEF Ring
        <3>2. \A d \in R : m[x[Base]] <= m[d]
            BY <3>1, <1>5 DEF Ring
        <3>3. m[x[Base]] <= m[c]
            BY <3>1, <1>3, <1>5
        <3> QED BY <3>1, <3>2, <3>3
    <2> QED BY <2>1, <2>2
<1>13. \A e \in R \cup {c} :
          IF x[e] = Base THEN \A d \in R \cup {c} : m[d] <= m[e]
          ELSE m[e] < m[x[e]] /\ \A d \in R \cup {c} : m[d] <= m[e] \/ m[x[e]] <= m[d]
    <2> TAKE e \in R \cup {c}
    <2>1. CASE e = c
        BY <2>1, <1>3, <1>5, <1>8
    <2>2. CASE e = b /\ e # c
        <3>1. e \in R /\ x[e] = c /\ c # Base /\ \A d \in R : k[d] <= k[e]
            BY <2>2, <1>2, <1>8 DEF Ring
        <3> QED BY <3>1, <1>3, <1>5
    <2>3. CASE e # b /\ e # c
        <3>1. e \in R /\ x[e] = nx[e] /\ nx[e] \in R
            BY <2>3, <1>0, <1>2, <1>8 DEF Ring
        <3>2. nx[e] # Base /\ k[e] < k[nx[e]]
              /\ \A d \in R : k[d] <= k[e] \/ k[nx[e]] <= k[d]
            BY <3>1, <1>2 DEF Ring
        <3>3. m[nx[e]] <= m[c]
            BY <3>1, <1>3, <1>5
        <3> QED BY <3>1, <3>2, <3>3, <1>5
    <2> QED BY <2>1, <2>2, <2>3
<1>14. Ring(m, x, v, R \cup {c})
    <2>1. (R \cup {c}) \cup {Base} = R \cup {c, Base}
        OBVIOUS
    <2> QED BY <2>1, <1>9, <1>10, <1>11, <1>12, <1>13 DEF Ring
<1> QED BY <1>0, <1>5, <1>6, <1>7, <1>14

LEMMA RingRemove ==
    ASSUME NEW k \in [Children -> Nat], NEW nx \in [Nodes -> Nodes],
           NEW pv \in [Nodes -> Nodes], NEW R \in SUBSET Children,
           Ring(k, nx, pv, R), NEW c \in R
    PROVE  Ring(k, [nx EXCEPT ![pv[c]] = nx[c]], [pv EXCEPT ![nx[c]] = pv[c]], R \ {c})
<1>0. PICK a, b : a = pv[c] /\ b = nx[c]
    OBVIOUS
<1>1. /\ a # c /\ b # c /\ a \in R \cup {Base} /\ b \in R \cup {Base}
      /\ nx[a] = c /\ pv[b] = c /\ Base \notin Children
    BY <1>0, RingFacts, SmiAssumption DEF Ring
<1>2. PICK x, v : x = [nx EXCEPT ![a] = b] /\ v = [pv EXCEPT ![b] = a]
    OBVIOUS
<1>3. /\ x[a] = b /\ \A d \in R \cup {Base} : d # a => x[d] = nx[d]
      /\ v[b] = a /\ \A d \in R \cup {Base} : d # b => v[d] = pv[d]
    BY <1>1, <1>2 DEF Nodes
<1> DEFINE S == (R \ {c}) \cup {Base}
<1>4. \A d \in S : /\ d # a => x[d] = nx[d] /\ nx[d] \in S
                   /\ d # b => v[d] = pv[d] /\ pv[d] \in S
    <2> TAKE d \in S
    <2>1. d # a => nx[d] # c
        BY <1>0, <1>1 DEF Ring
    <2>2. d # b => pv[d] # c
        BY <1>0, <1>1 DEF Ring
    <2> QED BY <2>1, <2>2, <1>3 DEF Ring
<1>5. a \in S /\ b \in S
    BY <1>1
<1>6. \A d \in S : x[d] \in S /\ v[d] \in S
    BY <1>3, <1>4, <1>5
<1>7. \A d \in S : v[x[d]] = d /\ x[v[d]] = d
    <2> TAKE d \in S
    <2>1. v[x[d]] = d
        <3>1. CASE d = a
            BY <3>1, <1>3
        <3>2. CASE d # a
            <4>1. x[d] = nx[d] /\ nx[d] \in S /\ pv[nx[d]] = d /\ d # c
                BY <3>2, <1>4, <1>1 DEF Ring
            <4>2. nx[d] # b
                BY <4>1, <1>1
            <4> QED BY <4>1, <4>2, <1>4
        <3> QED BY <3>1, <3>2
    <2>2. x[v[d]] = d
        <3>1. CASE d = b
            BY <3>1, <1>3
        <3>2. CASE d # b
            <4>1. v[d] = pv[d] /\ pv[d] \in S /\ nx[pv[d]] = d /\ d # c
                BY <3>2, <1>4, <1>1 DEF Ring
            <4>2. pv[d] # a
                BY <4>1, <1>1
            <4> QED BY <4>1, <4>2, <1>4
        <3> QED BY <3>1, <3>2
    <2> QED BY <2>1, <2>2
<1>8. \A d \in R : k[d] \in Nat
    OBVIOUS
<1>9. \A d \in R \ {c} : x[Base] # Base /\ k[x[Base]] <= k[d]
    <2> TAKE d \in R \ {c}
    <2>1. CASE a = Base
        <3>1. k[c] <= k[d] /\ k[c] # k[d]
            BY <2>1, <1>1 DEF Ring
        <3>2. b # Base /\ k[b] <= k[d]
            <4>1. b # Base
                BY <3>1, <1>0, <1>8 DEF Ring
            <4>2. k[d] <= k[c] \/ k[b] <= k[d]
                BY <4>1, <1>0 DEF Ring
            <4> QED BY <3>1, <4>1, <4>2, <1>8
        <3> QED BY <2>1, <3>2, <1>3
    <2>2. CASE a # Base
        BY <2>2, <1>4, <1>3 DEF Ring
    <2> QED BY <2>1, <2>2
<1>10. \A e \in R \ {c} :
          IF x[e] = Base THEN \A d \in R \ {c} : k[d] <= k[e]
          ELSE k[e] < k[x[e]] /\ \A d \in R \ {c} : k[d] <= k[e] \/ k[x[e]] <= k[d]
    <2> TAKE e \in R \ {c}
    <2>1. CASE e # a
        <3>1. x[e] = nx[e]
            BY <2>1, <1>3
        <3> QED BY <3>1 DEF Ring
    <2>2. CASE e = a
        <3>1. x[e] = b /\ e # Base /\ nx[e] = c /\ c # Base
            BY <2>2, <1>1, <1>3
        <3>2. k[e] < k[c] /\ \A d \in R : k[d] <= k[e] \/ k[c] <= k[d]
            BY <3>1 DEF Ring
        <3>3. \A d \in R \ {c} : k[d] # k[c]
            BY DEF Ring
        <3>4. CASE b = Base
            <4>1. \A d \in R : k[d] <= k[c]
                BY <3>4, <1>0 DEF Ring
            <4> QED BY <3>1, <3>2, <3>3, <3>4, <4>1, <1>8
        <3>5. CASE b # Base
            <4>1. b \in R /\ k[c] < k[b] /\ \A d \in R : k[d] <= k[c] \/ k[b] <= k[d]
                BY <3>5, <1>0, <1>1 DEF Ring
            <4>2. k[e] < k[b]
                BY <3>2, <4>1, <1>8
            <4>3. \A d \in R \ {c} : k[d] <= k[e] \/ k[b] <= k[d]
                BY <3>2, <3>3, <4>1, <1>8
            <4> QED BY <3>1, <3>5, <4>2, <4>3
        <3> QED BY <3>4, <3>5
    <2> QED BY <2>1, <2>2
<1>11. \A d, e \in R \ {c} : k[d] = k[e] => d = e
    BY DEF Ring
<1>12. Ring(k, x, v, R \ {c})
    BY <1>6, <1>7, <1>9, <1>10, <1>11 DEF Ring
<1> QED BY <1>0, <1>2, <1>12

-----------------------------------------------------------------------------
(***************************************************************************)
(* Numbers of sources.                                                     *)
(***************************************************************************)
LEMMA SizeType == ASSUME NEW S PROVE Size(S) \in 0 .. 4
BY DEF Size

LEMMA SizeAdd ==
    ASSUME NEW S, NEW s \in Sources \ S
    PROVE  Size(S \cup {s}) = Size(S) + 1
<1>1. s \in {"Sw", "Sx", "Timer", "PowerButton"}
    BY DEF Sources
<1>2. CASE s = "Sw" BY <1>2 DEF Size
<1>3. CASE s = "Sx" BY <1>3 DEF Size
<1>4. CASE s = "Timer" BY <1>4 DEF Size
<1>5. CASE s = "PowerButton" BY <1>5 DEF Size
<1> QED BY <1>1, <1>2, <1>3, <1>4, <1>5

LEMMA SizeLess == ASSUME NEW S, NEW T, S \subseteq T PROVE Size(S) <= Size(T)
<1>1. /\ (IF "Sw" \in S THEN 1 ELSE 0) <= (IF "Sw" \in T THEN 1 ELSE 0)
      /\ (IF "Sx" \in S THEN 1 ELSE 0) <= (IF "Sx" \in T THEN 1 ELSE 0)
      /\ (IF "Timer" \in S THEN 1 ELSE 0) <= (IF "Timer" \in T THEN 1 ELSE 0)
      /\ (IF "PowerButton" \in S THEN 1 ELSE 0) <= (IF "PowerButton" \in T THEN 1 ELSE 0)
    OBVIOUS
<1> QED BY <1>1 DEF Size

LEMMA SizeRemove ==
    ASSUME NEW S, S \subseteq Sources, NEW s \in S
    PROVE  Size(S \ {s}) + 1 = Size(S)
<1>1. s \in Sources \ (S \ {s}) /\ (S \ {s}) \cup {s} = S
    OBVIOUS
<1>2. Size((S \ {s}) \cup {s}) = Size(S \ {s}) + 1
    BY <1>1, SizeAdd
<1> QED BY <1>1, <1>2

LEMMA SizeEmpty == Size({}) = 0
BY DEF Size

LEMMA SizeSome == ASSUME NEW S, S \subseteq Sources, S # {} PROVE Size(S) >= 1
<1>1. PICK s : s \in S
    OBVIOUS
<1>2. Size(S \ {s}) + 1 = Size(S)
    BY <1>1, SizeRemove
<1> QED BY <1>2, SizeType

\* All but the command port, which Communicate makes active without an event.
LEMMA SizeButSw ==
    ASSUME NEW S, S \subseteq Sources
    PROVE  Size(S) <= Size(S \ {"Sw"}) + 1
<1>1. CASE "Sw" \in S
    BY <1>1, SizeRemove, SizeType
<1>2. CASE "Sw" \notin S
    <2>1. S \ {"Sw"} = S
        BY <1>2
    <2> QED BY <2>1, SizeType
<1> QED BY <1>1, <1>2

-----------------------------------------------------------------------------
(***************************************************************************)
(* What follows from the invariant.                                        *)
(***************************************************************************)
\* The sources that ask for an SMI are the active ones.
LEMMA RaisingIs ==
    ASSUME NEW e, NEW s \in SUBSET e, sci => "PowerButton" \notin s
    PROVE  Raising(e, s) = s
BY DEF Raising

LEMMA RaisingNow ==
    ASSUME IInv, pc # "off"
    PROVE  Raising(en, sts) = sts
BY RaisingIs DEF IInv, Covered

\* Each active source has a child, while children are being looked for.
LEMMA ActiveCovered ==
    ASSUME IInv, pc \in Loop, NEW s \in sts
    PROVE  \E c \in registered : child[c].source = s
<1>1. registered # {} /\ pc # "handler" /\ pc # "off"
    BY DEF IInv, Bare, Loop
<1> QED BY <1>1 DEF IInv, Covered

LEMMA Numbers == ASSUME IInv
    PROVE  /\ rounds \in Nat /\ events \in Nat /\ MaxEvents \in Nat /\ EscapeCount \in Nat
           /\ Size(sts) \in Nat /\ Need \in Int /\ rounds \in 0 .. EscapeCount
           /\ Need = Size(sts) + MaxEvents - events /\ events <= MaxEvents
<1>1. MaxEvents \in Nat /\ EscapeCount \in Nat
    BY SmiAssumption
<1>2. Size(sts) \in 0 .. 4
    BY SizeType
<1>3. rounds \in 0 .. EscapeCount /\ events \in 0 .. MaxEvents
    BY DEF IInv, Types
<1> QED BY <1>1, <1>2, <1>3 DEF Need

LEMMA ChildType == ASSUME NEW c \in Children
    PROVE  /\ child[c].source \in Sources /\ child[c].context \in Contexts
           /\ child[c].effect \in Effects
BY SmiAssumption

-----------------------------------------------------------------------------
(***************************************************************************)
(* The loop of the dispatcher.                                             *)
(***************************************************************************)
LEMMA DispatchKeeps == ASSUME Platform, IInv, Dispatch PROVE IInv'
<1>0. PICK k \in [Children -> Nat] :
          Ring(k, next, prev, registered) /\ ScanAt(k) /\ ExhaustAt(k)
    BY DEF IInv, Listed
<1>1. next[Base] = Base => registered = {}
    BY <1>0 DEF Ring
<1>2. next[Base] # Base => registered # {}
    BY <1>0 DEF Ring
<1>3. Types'
    <2>1. rounds' \in 0 .. EscapeCount /\ smiClear' \in BOOLEAN /\ sx' \in BOOLEAN
        <3>1. CASE next[Base] = Base
            BY <3>1 DEF IInv, Types, Dispatch
        <3>2. CASE next[Base] # Base
            <4>1. rounds' = EscapeCount /\ smiClear' = FALSE /\ sx' = FALSE
                BY <3>2 DEF Dispatch
            <4>2. EscapeCount \in 0 .. EscapeCount
                BY SmiAssumption
            <4> QED BY <4>1, <4>2
        <3> QED BY <3>1, <3>2
    <2>2. pc' \in {"out", "round"}
        BY DEF Dispatch
    <2> QED BY <2>1, <2>2 DEF IInv, Types, Dispatch, hardware, list, outside, Places, Loop
<1>4. Planned' /\ Covered' /\ DueActive'
    BY DEF IInv, Planned, Covered, DueActive, Wants, ContextOf, Dispatch, hardware, list
<1>5. Calm' /\ Latched' /\ Bare'
    BY <1>1, <1>2 DEF IInv, Calm, Latched, Bare, Covered, Dispatch, hardware, list, outside, Loop, Async
<1>6. Request' /\ Answer' /\ Sleepy' /\ AtWork'
    BY DEF IInv, Request, Answer, Sleepy, AsAsked, AtWork, Dispatch, hardware, list, outside, Loop
<1>7. Budget'
    <2>1. Size(sts) <= Size(sts \ {"Sw"}) + 1
        BY SizeButSw DEF IInv, Types
    <2>2. EscapeCount >= Need
        <3>1. Size(sts \ {"Sw"}) <= events /\ EscapeCount > MaxEvents
            BY DEF IInv, Budget, Platform
        <3>2. Size(sts \ {"Sw"}) \in 0 .. 4
            BY SizeType
        <3> QED BY <2>1, <3>1, <3>2, Numbers
    <2> QED BY <2>2, SmiAssumption
            DEF IInv, Budget, Need, Types, Dispatch, hardware
<1>8. Listed'
    <2>1. ScanAt(k)'
        BY DEF ScanAt, Dispatch
    <2>2. ExhaustAt(k)'
        BY <1>0 DEF ExhaustAt, Dispatch, hardware, list, ContextOf, Wants
    <2> QED BY <1>0, <2>1, <2>2 DEF Listed, Dispatch, list
<1> QED BY <1>3, <1>4, <1>5, <1>6, <1>7, <1>8 DEF IInv

LEMMA NextRoundKeeps == ASSUME Platform, IInv, NextRound PROVE IInv'
<1>0. PICK k \in [Children -> Nat] :
          Ring(k, next, prev, registered) /\ ScanAt(k) /\ ExhaustAt(k)
    BY DEF IInv, Listed
<1>1. pc = "round" /\ registered # {}
    BY DEF NextRound, IInv, Bare
<1>2. next[Base] \in registered
    BY <1>0, <1>1 DEF Ring
<1>3. next[Base] # Base
    BY <1>2, SmiAssumption DEF IInv, Types
\* It does not end because of EscapeCount.
<1>4. smiClear \/ rounds > 0
    BY <1>1, Numbers DEF IInv, Budget
<1>5. Types'
    BY <1>2, SmiAssumption DEF IInv, Types, NextRound, hardware, list, outside, Places, Loop
<1>6. Planned' /\ Covered' /\ DueActive'
    BY DEF IInv, Planned, Covered, DueActive, Wants, ContextOf, NextRound, hardware, list
<1>7. Calm' /\ Latched' /\ Bare'
    BY <1>1, <1>4 DEF IInv, Types, Calm, Latched, Bare, NextRound, hardware, list, outside, Loop
<1>8. Request' /\ Answer' /\ Sleepy' /\ AtWork'
    BY DEF IInv, Request, Answer, Sleepy, AsAsked, AtWork, NextRound, hardware, list,
           outside, Loop
<1>9. Budget'
    BY <1>1, <1>3 DEF IInv, Budget, Need, Types, NextRound, hardware
<1>10. Listed'
    <2>1. ScanAt(k)'
        <3>1. CASE smiClear
            BY <1>1, <3>1 DEF ScanAt, NextRound
        <3>2. CASE ~smiClear
            <4>1. /\ rounds >= 1 /\ rounds >= Need /\ (sts # {} \/ rounds = EscapeCount)
                  /\ pc' = "scan" /\ rounds' = rounds - 1 /\ scan' = next[Base]
                  /\ Need' = Need /\ due' = due /\ registered' = registered /\ sts' = sts
                BY <1>1, <3>2, Numbers DEF IInv, Budget, NextRound, hardware, list, Need
            <4>2. \A c \in registered : k[scan'] <= k[c]
                BY <1>0, <4>1 DEF Ring
            <4>3. rounds \in Nat /\ Need \in Int
                BY Numbers
            <4>4. CASE sts # {}
                <5>1. \E c \in registered : child[c].source \in sts
                    BY <4>4, <1>1, ActiveCovered DEF Loop
                <5> QED BY <4>1, <4>2, <4>3, <5>1 DEF ScanAt, IInv, Types
            <4>5. CASE sts = {}
                <5>1. rounds >= Need + 1
                    BY <4>1, <4>5, SizeEmpty, SmiAssumption DEF Need, Platform, IInv, Types
                <5> QED BY <4>1, <4>2, <4>3, <5>1 DEF ScanAt, IInv, Types
            <4> QED BY <4>4, <4>5
        <3> QED BY <3>1, <3>2
    <2>2. ExhaustAt(k)'
        BY <1>0 DEF ExhaustAt, NextRound, hardware, list, ContextOf, Wants
    <2> QED BY <1>0, <2>1, <2>2 DEF Listed, NextRound, list
<1> QED BY <1>5, <1>6, <1>7, <1>8, <1>9, <1>10 DEF IInv

LEMMA ScanEndsKeeps == ASSUME Platform, IInv, ScanEnds PROVE IInv'
<1>0. PICK k \in [Children -> Nat] :
          Ring(k, next, prev, registered) /\ ScanAt(k) /\ ExhaustAt(k)
    BY DEF IInv, Listed
<1>1. Types'
    BY DEF IInv, Types, ScanEnds, hardware, list, loop, outside, Places, Loop
<1>2. Planned' /\ Covered' /\ DueActive'
    BY DEF IInv, Planned, Covered, DueActive, Wants, ContextOf, ScanEnds, hardware, list
<1>3. Calm' /\ Latched' /\ Bare'
    BY DEF IInv, Calm, Latched, Bare, ScanEnds, hardware, list, loop, outside, Loop
<1>4. Request' /\ Answer' /\ Sleepy' /\ AtWork'
    BY DEF IInv, Request, Answer, Sleepy, AsAsked, AtWork, ScanEnds, hardware, list, loop,
           outside, Loop
<1>5. Budget'
    <2>1. sts # {} => Size(sts) >= 1
        BY SizeSome DEF IInv, Types
    <2>2. /\ pc = "scan" /\ scan = Base /\ pc' = "round"
          /\ UNCHANGED <<sts, events, rounds, smiClear>> /\ Need' = Need
        BY DEF ScanEnds, hardware, loop, Need
    <2>3. ~smiClear => rounds >= Need /\ sts # {} /\ Need >= Size(sts)
        BY <2>2, Numbers DEF IInv, Budget
    <2>4. ~smiClear => rounds >= 1
        BY <2>1, <2>3, Numbers
    <2> QED BY <2>2, <2>3, <2>4 DEF IInv, Budget
<1>6. Listed'
    <2>1. ScanAt(k)'
        BY DEF ScanAt, ScanEnds
    <2>2. ExhaustAt(k)'
        BY <1>0 DEF ExhaustAt, ScanEnds, hardware, list, ContextOf, Wants
    <2> QED BY <1>0, <2>1, <2>2 DEF Listed, ScanEnds, list
<1> QED BY <1>1, <1>2, <1>3, <1>4, <1>5, <1>6 DEF IInv

LEMMA ScanOnKeeps == ASSUME Platform, IInv, ScanOn PROVE IInv'
<1>0. PICK k \in [Children -> Nat] :
          Ring(k, next, prev, registered) /\ ScanAt(k) /\ ExhaustAt(k)
    BY DEF IInv, Listed
<1>1. /\ pc = "scan" /\ scan # Base /\ scan \in registered
      /\ child[scan].source \notin sts /\ ~smiClear
    BY RaisingNow DEF ScanOn, SourceIsActive, IInv, Types, AtWork
<1>2. next[scan] \in registered \cup {Base} /\ Base \notin registered
    BY <1>0, <1>1, SmiAssumption DEF Ring, IInv, Types
<1>3. IF next[scan] = Base
      THEN insmi' = (sts # {}) /\ latch' = (latch \/ sts # {}) /\ smiClear' = (sts = {})
      ELSE UNCHANGED <<insmi, latch, smiClear>>
    BY <1>1, RaisingNow DEF ScanOn, SetInActive, Inactive
<1>4. Types'
    BY <1>1, <1>2, <1>3 DEF IInv, Types, ScanOn, list, outside
<1>5. Planned' /\ Covered' /\ DueActive'
    BY DEF IInv, Planned, Covered, DueActive, Wants, ContextOf, ScanOn, list
<1>6. Calm' /\ Latched' /\ Bare'
    BY <1>1, <1>3 DEF IInv, Types, Calm, Latched, Bare, ScanOn, list, outside, Loop
<1>7. Request' /\ Answer' /\ Sleepy' /\ AtWork'
    BY <1>1, <1>3 DEF IInv, Request, Answer, Sleepy, AsAsked, AtWork, ScanOn, list, outside, Loop
<1>8. /\ UNCHANGED <<pc, rounds, sts, en, registered, due, cmd, slp, active, events>>
      /\ scan' = next[scan] /\ Need' = Need
    BY DEF ScanOn, list, Need
<1>9. Need \in Int /\ rounds \in Nat /\ \A c \in registered : k[c] \in Nat
    <2>1. registered \subseteq Children
        BY DEF IInv, Types
    <2> QED BY <2>1, Numbers
<1>10. CASE next[scan] # Base
    <2>1. next[scan] \in registered /\ k[scan] < k[next[scan]]
          /\ \A d \in registered : k[d] <= k[scan] \/ k[next[scan]] <= k[d]
        BY <1>0, <1>1, <1>2, <1>10 DEF Ring
    <2>2. \A d \in registered \ {scan} : k[scan] <= k[d] => k[next[scan]] <= k[d]
        <3> TAKE d \in registered \ {scan}
        <3>1. k[d] # k[scan] /\ k[d] \in Nat /\ k[scan] \in Nat
            BY <1>0, <1>1, <1>9 DEF Ring
        <3>2. k[d] <= k[scan] \/ k[next[scan]] <= k[d]
            BY <2>1
        <3> QED BY <3>1, <3>2
    <2>3. ScanAt(k)'
        <3>1. \A c \in due' : child[c].source \notin Async => k[scan'] <= k[c]
            BY <1>0, <1>1, <1>8, <2>2 DEF ScanAt, IInv, Types, DueActive
        <3>2. \/ rounds' >= Need'
              \/ rounds' + 1 >= Need'
                 /\ \E c \in registered' : k[scan'] <= k[c] /\ child[c].source \in sts'
            BY <1>0, <1>1, <1>8, <2>2 DEF ScanAt
        <3> QED BY <3>1, <3>2 DEF ScanAt
    <2>4. ExhaustAt(k)'
        BY <1>0, <1>1, <1>8 DEF ExhaustAt, ContextOf, Wants
    <2>5. Budget'
        BY <1>1, <1>2, <1>8, <1>10 DEF IInv, Budget
    <2>6. Listed'
        BY <1>0, <2>3, <2>4 DEF Listed, ScanOn, list
    <2> QED BY <1>4, <1>5, <1>6, <1>7, <2>5, <2>6 DEF IInv
<1>11. CASE next[scan] = Base
    <2>1. \A d \in registered : k[d] <= k[scan]
        BY <1>0, <1>1, <1>11 DEF Ring
    \* The last one was not found active, so that an event must have come since.
    <2>2. rounds >= Need
        BY <1>0, <1>1, <1>9, <2>1 DEF ScanAt, Ring
    <2>3. Budget'
        BY <1>1, <1>3, <1>8, <1>11, <2>2 DEF IInv, Budget
    <2>4. ScanAt(k)'
        BY <1>8, <1>11 DEF ScanAt
    <2>5. ExhaustAt(k)'
        BY <1>0, <1>1, <1>8 DEF ExhaustAt, ContextOf, Wants
    <2>6. Listed'
        BY <1>0, <2>4, <2>5 DEF Listed, ScanOn, list
    <2> QED BY <1>4, <1>5, <1>6, <1>7, <2>3, <2>6 DEF IInv
<1> QED BY <1>10, <1>11

LEMMA FoundKeeps == ASSUME Platform, IInv, Found PROVE IInv'
<1>0. PICK k \in [Children -> Nat] :
          Ring(k, next, prev, registered) /\ ScanAt(k) /\ ExhaustAt(k)
    BY DEF IInv, Listed
<1>1. /\ pc = "scan" /\ scan # Base /\ scan \in registered /\ scan \in Children
      /\ child[scan].source \in sts /\ ~smiClear
    BY RaisingNow DEF Found, SourceIsActive, IInv, Types, AtWork
<1>2. /\ UNCHANGED <<hardware, list, rounds, smiClear, scan, who, outside, events, due, asked>>
      /\ pc' = "exhaust" /\ link' = scan /\ active' = child[scan].source
      /\ sx' = (sx \/ active' \in {"Sx", "PowerButton"})
    BY DEF Found, ForSleep
<1>3. active' \in sts /\ active' \in Sources
    BY <1>1, <1>2, ChildType
<1>4. Types'
    BY <1>1, <1>2, <1>3 DEF IInv, Types, hardware, list, outside, Places, Loop
<1>5. Planned' /\ Covered' /\ DueActive'
    BY <1>1, <1>2 DEF IInv, Planned, Covered, DueActive, Wants, ContextOf, hardware, list
<1>6. Calm' /\ Latched' /\ Bare' /\ Request' /\ Answer'
    BY <1>1, <1>2
    DEF IInv, Types, Calm, Latched, Bare, Request, Answer, hardware, list, outside, Loop
<1>7. Sleepy'
    BY <1>1, <1>2, <1>3 DEF IInv, Types, Sleepy, AsAsked, Covered, hardware, Loop
<1>8. AtWork'
    BY <1>1, <1>2, <1>3 DEF AtWork, hardware
<1>9. Need' = Need /\ rounds + 1 >= Need
    BY <1>0, <1>1, <1>2, Numbers DEF ScanAt, Need, hardware
<1>10. Budget'
    BY <1>1, <1>2, <1>9 DEF IInv, Budget, hardware
<1>11. Listed'
    <2>1. ScanAt(k)'
        BY <1>2 DEF ScanAt
    <2>2. \A c \in due : child[c].source = active' => k[scan] <= k[c]
        <3> TAKE c \in due
        <3> HAVE child[c].source = active'
        <3>1. CASE child[c].source \notin Async
            BY <3>1, <1>0, <1>1 DEF ScanAt
        <3>2. CASE child[c].source \in Async
            <4>1. c \in Children /\ child[c].source = child[scan].source
                BY <1>2 DEF IInv, Types
            <4>2. c = scan
                BY <3>2, <4>1, <1>1 DEF Platform
            <4>3. k[scan] \in Nat
                BY <1>1
            <4> QED BY <4>2, <4>3
        <3> QED BY <3>1, <3>2
    <2>3. ExhaustAt(k)'
        BY <1>0, <1>1, <1>2, <2>2 DEF ExhaustAt, hardware, list, ContextOf, Wants
    <2> QED BY <1>0, <1>2, <2>1, <2>3 DEF Listed, list
<1> QED BY <1>4, <1>5, <1>6, <1>7, <1>8, <1>10, <1>11 DEF IInv

\* The context of the active source, as Exhaust reads it.
LEMMA ContextIs == active \in Sources => Context = ContextOf(active)
BY DEF Context, ContextOf, Sources

\* A child that is called is one that is due.
LEMMA CalledIsDue ==
    ASSUME IInv, pc = "exhaust", link # Base, Wants(link, active, Context)
    PROVE  link \in due /\ link \in registered
<1>0. PICK k \in [Children -> Nat] :
          Ring(k, next, prev, registered) /\ ScanAt(k) /\ ExhaustAt(k)
    BY DEF IInv, Listed
<1>1. link \in registered /\ link \in Children /\ active \in Sources /\ active \in sts
    BY DEF IInv, Types, AtWork
<1>2. child[link].source = active /\ Wants(link, active, ContextOf(active))
    BY <1>1, ContextIs DEF Wants
<1>3. ~(k[link] < k[link])
    BY <1>1
<1> QED BY <1>0, <1>1, <1>2, <1>3 DEF ExhaustAt

LEMMA ExhaustKeeps == ASSUME Platform, IInv, Exhaust PROVE IInv'
<1>0. PICK k \in [Children -> Nat] :
          Ring(k, next, prev, registered) /\ ScanAt(k) /\ ExhaustAt(k)
    BY DEF IInv, Listed
<1>1. /\ pc = "exhaust" /\ link # Base /\ link \in registered /\ link \in Children
      /\ active \in sts /\ active \in Sources /\ ~smiClear /\ registered \subseteq Children
    BY DEF Exhaust, IInv, Types, AtWork
<1>2. PICK w : w = Wants(link, active, Context)
    OBVIOUS
<1>3. /\ UNCHANGED <<hardware, list, rounds, smiClear, sx, scan, active, outside, events, asked>>
      /\ link' = next[link]
      /\ pc' = IF w THEN "callback" ELSE "exhaust"
      /\ who' = IF w THEN link ELSE who
      /\ due' = IF w THEN due \ {link} ELSE due
    BY <1>1, <1>2 DEF Exhaust
<1>4. next[link] \in registered \cup {Base} /\ Base \notin registered
    BY <1>0, <1>1, SmiAssumption DEF Ring
\* One that is passed over is not due.
<1>5. ~w => link \notin due \/ child[link].source # active
    BY <1>1, <1>2, ContextIs DEF IInv, DueActive
<1>6. w => child[link].source = active
    BY <1>2 DEF Wants
<1>7. \A c \in due' : c \in due /\ (child[c].source = active => c # link)
    BY <1>3, <1>5
<1>8. Types'
    <2>1. due' \subseteq registered'
        BY <1>3, <1>7 DEF IInv, Types, list
    <2>2. pc' = "callback" => who' \in registered' /\ child[who'].source = active'
        BY <1>1, <1>3, <1>6 DEF list
    <2>3. link' \in registered' \cup {Base} /\ pc' \in {"exhaust", "callback"}
        BY <1>3, <1>4 DEF list
    <2> QED BY <1>3, <2>1, <2>2, <2>3 DEF IInv, Types, hardware, list, outside, Places, Loop
<1>9. Planned' /\ Covered'
    BY <1>1, <1>3 DEF IInv, Planned, Covered, hardware, list
<1>10. DueActive' /\ Calm'
    BY <1>1, <1>3, <1>7 DEF IInv, DueActive, Calm, Wants, ContextOf, hardware, outside
<1>11. Latched' /\ Bare' /\ Request' /\ Answer' /\ Sleepy'
    BY <1>1, <1>3
    DEF IInv, Latched, Bare, Request, Answer, Sleepy, AsAsked, hardware, list, outside, Loop
<1>12. AtWork'
    <2>1. active = "PowerButton" => w
        BY <1>1, <1>2 DEF IInv, AtWork, Platform, Wants
    <2>2. next[link] # link
        BY <1>0, <1>1, RingFacts
    <2>3. w /\ child[link].effect = "softOff" => slp = "S5"
        <3>1. child[link].effect = "softOff" =>
                  child[link].source = "Sx" /\ child[link].context = "S5"
            BY <1>1 DEF Platform
        <3> QED BY <1>2, <3>1 DEF Wants, Context
    <2>4. pc' # "acpi" /\ slp' = slp
        BY <1>3 DEF hardware
    <2> QED BY <1>1, <1>3, <2>1, <2>2, <2>3, <2>4 DEF AtWork, hardware
<1>13. Budget'
    BY <1>1, <1>3 DEF IInv, Budget, Need, hardware
<1>14. Listed'
    <2>1. ScanAt(k)'
        BY <1>3 DEF ScanAt
    <2>2. \A d \in registered \ {link} :
             /\ k[link] <= k[d] => next[link] # Base /\ k[next[link]] <= k[d]
             /\ k[d] < k[link] => next[link] = Base \/ k[d] < k[next[link]]
        <3> TAKE d \in registered \ {link}
        <3>1. k[d] # k[link] /\ k[d] \in Nat /\ k[link] \in Nat
            BY <1>0, <1>1 DEF Ring
        <3>2. CASE next[link] = Base
            <4>1. k[d] <= k[link]
                BY <1>0, <1>1, <3>2 DEF Ring
            <4> QED BY <3>1, <3>2, <4>1
        <3>3. CASE next[link] # Base
            <4>1. k[link] < k[next[link]] /\ (k[d] <= k[link] \/ k[next[link]] <= k[d])
                BY <1>0, <1>1, <3>3 DEF Ring
            <4>2. k[next[link]] \in Nat
                BY <1>1, <1>4, <3>3
            <4> QED BY <3>1, <3>3, <4>1, <4>2
        <3> QED BY <3>2, <3>3
    <2>3. next[link] = Base \/ k[link] < k[next[link]]
        BY <1>0, <1>1 DEF Ring
    <2>4. \A c \in due' : child[c].source = active' => link' # Base /\ k[link'] <= k[c]
        <3> TAKE c \in due'
        <3> HAVE child[c].source = active'
        <3>1. c \in due /\ c # link /\ child[c].source = active /\ c \in registered \ {link}
            BY <1>3, <1>7 DEF IInv, Types
        <3>2. k[link] <= k[c]
            BY <1>0, <1>1, <3>1 DEF ExhaustAt
        <3> QED BY <1>3, <2>2, <3>1, <3>2
    <2>5. ASSUME NEW c \in registered, child[c].source \in sts,
                 Wants(c, child[c].source, ContextOf(child[c].source))
          PROVE  c \in due' \/ (child[c].source = active /\ (link' = Base \/ k[c] < k[link']))
        <3>1. CASE c = link
            <4>1. c \in due => w \/ c \in due'
                BY <1>3
            <4>2. w => child[c].source = active
                BY <1>6, <3>1
            <4>3. ~(k[link] < k[link])
                BY <1>1
            <4>4. c \in due
                BY <1>0, <1>1, <2>5, <3>1, <4>3 DEF ExhaustAt
            <4> QED BY <1>3, <2>3, <3>1, <4>1, <4>2, <4>4
        <3>2. CASE c # link
            <4>1. c \in due \/ (child[c].source = active /\ k[c] < k[link])
                BY <1>0, <1>1, <2>5 DEF ExhaustAt
            <4> QED BY <1>3, <2>2, <3>2, <4>1
        <3> QED BY <3>1, <3>2
    <2>6. /\ registered' = registered /\ sts' = sts /\ active' = active
          /\ pc' \in {"exhaust", "callback"}
          /\ \A s : ContextOf(s)' = ContextOf(s)
        BY <1>3 DEF hardware, list, ContextOf
    <2>7. pc' \in {"callback", "acpi"} => link' = Base \/ k[who'] < k[link']
        BY <1>3, <2>3
    <2>8. \A c, d \in registered' :
             child[c].effect = "softOff" /\ child[d].source = "Sx" => k[d] <= k[c]
        BY <1>0, <2>6 DEF ExhaustAt
    <2>9. ExhaustAt(k)'
        BY <2>4, <2>5, <2>6, <2>7, <2>8 DEF ExhaustAt, Wants
    <2> QED BY <1>0, <1>3, <2>1, <2>9 DEF Listed, list
<1> QED BY <1>8, <1>9, <1>10, <1>11, <1>12, <1>13, <1>14 DEF IInv

LEMMA ExhaustedKeeps == ASSUME Platform, IInv, Exhausted PROVE IInv'
<1>0. PICK k \in [Children -> Nat] :
          Ring(k, next, prev, registered) /\ ScanAt(k) /\ ExhaustAt(k)
    BY DEF IInv, Listed
<1>1. Types'
    BY DEF IInv, Types, Exhausted, hardware, list, loop, outside, Places, Loop
<1>2. Planned' /\ Covered' /\ DueActive'
    BY DEF IInv, Planned, Covered, DueActive, Wants, ContextOf, Exhausted, hardware, list
<1>3. Calm' /\ Latched' /\ Bare'
    BY DEF IInv, Calm, Latched, Bare, Exhausted, hardware, list, loop, outside, Loop
<1>4. Request' /\ Answer' /\ AtWork'
    BY DEF IInv, Request, Answer, AtWork, Exhausted, hardware, list, loop, outside, Loop
<1>5. Sleepy'
    BY DEF IInv, AtWork, Sleepy, AsAsked, Exhausted, hardware, loop, Loop
<1>6. Budget'
    BY DEF IInv, Budget, Need, Exhausted, hardware, loop
<1>7. Listed'
    <2>1. ScanAt(k)'
        BY DEF ScanAt, Exhausted
    <2>2. ExhaustAt(k)'
        BY <1>0 DEF ExhaustAt, Exhausted, hardware, list, loop, ContextOf, Wants
    <2> QED BY <1>0, <2>1, <2>2 DEF Listed, Exhausted, list
<1> QED BY <1>1, <1>2, <1>3, <1>4, <1>5, <1>6, <1>7 DEF IInv

LEMMA ClearKeeps == ASSUME Platform, IInv, SbSmmClearSource PROVE IInv'
<1>0. PICK k \in [Children -> Nat] :
          Ring(k, next, prev, registered) /\ ScanAt(k) /\ ExhaustAt(k)
    BY DEF IInv, Listed
<1>1. /\ pc = "clear" /\ pc' = "quiet" /\ active \in sts /\ ~smiClear
      /\ sts' = sts \ {active} /\ sts \subseteq Sources
      /\ UNCHANGED <<en, cmd, slp, sci, insmi, latch, list, loop, outside, events, due, asked>>
    BY DEF SbSmmClearSource, IInv, Types, AtWork
\* Its children have all been called.
<1>2. \A c \in due : child[c].source # active
    BY <1>0, <1>1 DEF ExhaustAt
<1>3. Types'
    BY <1>1 DEF IInv, Types, list, loop, outside, Places, Loop
<1>4. Planned' /\ Covered'
    BY <1>1 DEF IInv, Planned, Covered, list
<1>5. DueActive'
    BY <1>1, <1>2 DEF IInv, DueActive, Wants, ContextOf
<1>6. Calm' /\ Latched' /\ Bare'
    BY <1>1 DEF IInv, Calm, Latched, Bare, list, loop, outside, Loop
<1>7. Request' /\ Answer' /\ Sleepy' /\ AtWork'
    BY <1>1 DEF IInv, Request, Answer, Sleepy, AsAsked, AtWork, loop, outside, Loop
<1>8. Budget'
    <2>1. Size(sts') + 1 = Size(sts) /\ Size(sts') \in 0 .. 4
        BY <1>1, SizeRemove, SizeType
    <2>2. Size(sts' \ {"Sw"}) <= Size(sts \ {"Sw"})
        <3>1. sts' \ {"Sw"} \subseteq sts \ {"Sw"}
            BY <1>1
        <3> QED BY <3>1, SizeLess
    <2>3. Size(sts' \ {"Sw"}) \in 0 .. 4 /\ Size(sts \ {"Sw"}) \in 0 .. 4
        BY SizeType
    <2>4. events' = events /\ rounds' = rounds
        BY <1>1 DEF loop
    <2> QED BY <1>1, <2>1, <2>2, <2>3, <2>4, Numbers DEF IInv, Budget, Need
<1>9. Listed'
    <2>1. ScanAt(k)'
        BY <1>1 DEF ScanAt
    <2>2. ExhaustAt(k)'
        BY <1>0, <1>1 DEF ExhaustAt, list, loop, ContextOf, Wants
    <2> QED BY <1>0, <1>1, <2>1, <2>2 DEF Listed, list
<1> QED BY <1>3, <1>4, <1>5, <1>6, <1>7, <1>8, <1>9 DEF IInv

LEMMA SetInActiveKeeps == ASSUME Platform, IInv, SbSmiSetInActive PROVE IInv'
<1>0. PICK k \in [Children -> Nat] :
          Ring(k, next, prev, registered) /\ ScanAt(k) /\ ExhaustAt(k)
    BY DEF IInv, Listed
<1>1. /\ pc = "quiet" /\ pc' = "round" /\ sts \subseteq Sources
      /\ insmi' = (sts # {}) /\ latch' = (latch \/ sts # {}) /\ smiClear' = (sts = {})
      /\ UNCHANGED <<en, sts, cmd, slp, sci, list, rounds, sx, scan, active, link,
                     who, outside, events, due, asked>>
    BY RaisingNow DEF SbSmiSetInActive, SetInActive, Inactive, IInv, Types
<1>2. Types'
    BY <1>1 DEF IInv, Types, list, outside, Places, Loop
<1>3. Planned' /\ Covered' /\ DueActive'
    BY <1>1 DEF IInv, Planned, Covered, DueActive, Wants, ContextOf, list
<1>4. Calm' /\ Latched' /\ Bare'
    BY <1>1 DEF IInv, Types, Calm, Latched, Bare, list, outside, Loop
<1>5. Request' /\ Answer' /\ Sleepy' /\ AtWork'
    BY <1>1 DEF IInv, Request, Answer, Sleepy, AsAsked, AtWork, outside, Loop
<1>6. Budget'
    <2>1. sts # {} => Size(sts) >= 1
        BY <1>1, SizeSome
    <2>2. Need' = Need /\ rounds' = rounds /\ rounds >= Need /\ Need >= Size(sts)
        BY <1>1, Numbers DEF IInv, Budget, Need
    <2>3. sts # {} => rounds >= 1 /\ rounds >= Need
        BY <2>1, <2>2, Numbers
    <2> QED BY <1>1, <2>2, <2>3 DEF IInv, Budget
<1>7. Listed'
    <2>1. ScanAt(k)'
        BY <1>1 DEF ScanAt
    <2>2. ExhaustAt(k)'
        BY <1>0, <1>1 DEF ExhaustAt, list, ContextOf, Wants
    <2> QED BY <1>0, <1>1, <2>1, <2>2 DEF Listed, list
<1> QED BY <1>2, <1>3, <1>4, <1>5, <1>6, <1>7 DEF IInv

LEMMA GoToSleepKeeps == ASSUME Platform, IInv, SbSmmSxGoToSleep PROVE IInv'
<1>0. PICK k \in [Children -> Nat] :
          Ring(k, next, prev, registered) /\ ScanAt(k) /\ ExhaustAt(k)
    BY DEF IInv, Listed
<1>1. /\ pc = "sleep" /\ pc' \in {"asleep", "off"}
      /\ sts \subseteq Async /\ sts' = sts /\ en' = en \ {"Sx"} /\ "Sx" \in en
      /\ UNCHANGED <<cmd, slp, sci, insmi, latch, list, loop, outside, events, due, asked>>
    BY DEF SbSmmSxGoToSleep, IInv, Calm, Sleepy, AsAsked, Async
<1>2. \E c \in registered : child[c].source = "Sx"
    BY <1>1 DEF IInv, Covered
<1>3. Types'
    BY <1>1 DEF IInv, Types, list, loop, outside, Places, Loop
<1>4. Planned'
    BY <1>1 DEF IInv, Planned, list
<1>5. Covered'
    BY <1>1, <1>2 DEF IInv, Covered, list, Async
<1>6. DueActive'
    BY <1>1 DEF IInv, DueActive, Wants, ContextOf
<1>7. Calm' /\ Latched' /\ Bare'
    BY <1>1 DEF IInv, Calm, Latched, Bare, list, loop, outside, Loop
<1>8. Request' /\ Answer' /\ Sleepy' /\ AtWork'
    BY <1>1 DEF IInv, Request, Answer, Sleepy, AsAsked, AtWork, loop, outside, Loop, Async
<1>9. Budget'
    BY <1>1 DEF IInv, Budget, Need, loop
<1>10. Listed'
    <2>1. ScanAt(k)'
        BY <1>1 DEF ScanAt
    <2>2. ExhaustAt(k)'
        BY <1>0, <1>1 DEF ExhaustAt, list, loop, ContextOf, Wants
    <2> QED BY <1>0, <1>1, <2>1, <2>2 DEF Listed, list
<1> QED BY <1>3, <1>4, <1>5, <1>6, <1>7, <1>8, <1>9, <1>10 DEF IInv

-----------------------------------------------------------------------------
(***************************************************************************)
(* Callbacks.                                                              *)
(***************************************************************************)
LEMMA CalledBack ==
    ASSUME Platform, IInv, pc = "callback", child[who].effect # "shutdown"
    PROVE  /\ who \in registered /\ who \in Children /\ child[who].source = active
           /\ active \in sts /\ active \in Sources /\ active # "PowerButton"
           /\ ~smiClear /\ link \in registered \cup {Base} /\ link # who
<1>1. who \in registered /\ who \in Children /\ child[who].source = active
    BY DEF IInv, Types
<1>2. active # "PowerButton"
    BY <1>1 DEF Platform
<1> QED BY <1>1, <1>2 DEF IInv, Types, AtWork

\* A callback that changes neither sources nor list.
LEMMA ReturnKeeps ==
    ASSUME Platform, IInv, pc = "callback", child[who].effect # "shutdown", Returns,
           sci' \in BOOLEAN, sci' => sci,
           UNCHANGED <<en, sts, cmd, slp, insmi, latch, list, rounds, smiClear, scan, active,
                       link, who, outside, events, due, asked>>
    PROVE  IInv'
<1>0. PICK k \in [Children -> Nat] :
          Ring(k, next, prev, registered) /\ ScanAt(k) /\ ExhaustAt(k)
    BY DEF IInv, Listed
<1>1. /\ who \in registered /\ who \in Children /\ child[who].source = active
      /\ active \in sts /\ active \in Sources /\ active # "PowerButton"
      /\ ~smiClear /\ link \in registered \cup {Base} /\ link # who
    BY CalledBack
<1>2. pc' = "exhaust" /\ sx' = (sx \/ active = "Sx")
    BY <1>1 DEF Returns, ForSleep
<1>3. Types'
    BY <1>1, <1>2 DEF IInv, Types, list, outside, Places, Loop
<1>4. Planned' /\ Covered' /\ DueActive'
    BY <1>2 DEF IInv, Planned, Covered, DueActive, Wants, ContextOf, list
<1>5. Calm' /\ Latched' /\ Bare' /\ Request' /\ Answer'
    BY <1>1, <1>2 DEF IInv, Calm, Latched, Bare, Request, Answer, list, outside, Loop
<1>6. Sleepy' /\ AtWork'
    BY <1>1, <1>2 DEF IInv, Sleepy, AsAsked, AtWork, Covered, Loop
<1>7. Budget'
    BY <1>2 DEF IInv, Budget, Need
<1>8. Listed'
    <2>1. ScanAt(k)'
        BY <1>2 DEF ScanAt
    <2>2. ExhaustAt(k)'
        BY <1>0, <1>2 DEF ExhaustAt, list, ContextOf, Wants
    <2> QED BY <1>0, <2>1, <2>2 DEF Listed, list
<1> QED BY <1>3, <1>4, <1>5, <1>6, <1>7, <1>8 DEF IInv

LEMMA NothingToDoKeeps == ASSUME Platform, IInv, NothingToDo PROVE IInv'
<1>1. sci' = sci /\ sci \in BOOLEAN
    BY DEF NothingToDo, hardware, IInv, Types
<1> QED BY <1>1, ReturnKeeps DEF NothingToDo, Served, hardware

LEMMA DisableAcpiKeeps == ASSUME Platform, IInv, DisableAcpiCallback PROVE IInv'
<1>1. sci' = FALSE
    BY DEF DisableAcpiCallback
<1> QED BY <1>1, ReturnKeeps DEF DisableAcpiCallback, Served

\* Sources whose status is cleared need no round.
LEMMA LessToDo ==
    ASSUME IInv, pc \in {"callback", "acpi"}, pc' \in {"exhaust", "callback", "acpi"},
           sts' \subseteq sts, rounds' = rounds, events' = events
    PROVE  Budget'
<1>1. Size(sts') <= Size(sts) /\ Size(sts') \in 0 .. 4
    BY SizeLess, SizeType
<1>2. Size(sts' \ {"Sw"}) <= Size(sts \ {"Sw"})
    <2>1. sts' \ {"Sw"} \subseteq sts \ {"Sw"}
        OBVIOUS
    <2> QED BY <2>1, SizeLess
<1>3. Size(sts' \ {"Sw"}) \in 0 .. 4 /\ Size(sts \ {"Sw"}) \in 0 .. 4
    BY SizeType
<1>4. Need' <= Need /\ Need' \in Int
    BY <1>1, Numbers DEF Need
<1>5. Size(sts \ {"Sw"}) <= events /\ rounds + 1 >= Need
    BY DEF IInv, Budget
<1> QED BY <1>2, <1>3, <1>4, <1>5, Numbers DEF Budget

LEMMA EnableAcpiKeeps == ASSUME Platform, IInv, EnableAcpiCallback PROVE IInv'
<1>0. PICK k \in [Children -> Nat] :
          Ring(k, next, prev, registered) /\ ScanAt(k) /\ ExhaustAt(k)
    BY DEF IInv, Listed
<1>1. pc = "callback" /\ child[who].effect = "acpiOn"
    BY DEF EnableAcpiCallback, Served
<1>2. /\ who \in registered /\ who \in Children /\ child[who].source = active
      /\ active \in sts /\ active = "Sw" /\ ~smiClear /\ link \in registered \cup {Base}
      /\ link # who
    BY <1>1, CalledBack DEF Platform
<1>3. /\ pc' = "acpi"
      /\ en' = en \cup {"PowerButton"} /\ sts' = sts \ {"PowerButton"}
      /\ due' = {c \in due : child[c].source # "PowerButton"}
      /\ UNCHANGED <<cmd, slp, sci, insmi, latch, list, loop, outside, events, asked>>
    BY DEF EnableAcpiCallback
<1>4. sts' \subseteq sts /\ due' \subseteq due
    BY <1>3
<1>5. Types'
    BY <1>2, <1>3, <1>4 DEF IInv, Types, list, loop, outside, Places, Loop, Sources
<1>6. Planned'
    BY <1>3 DEF IInv, Planned, list
<1>7. Covered'
    <2>1. \E d \in registered : child[d].source = "PowerButton"
        BY <1>1, <1>2 DEF IInv, Planned
    <2> QED BY <1>1, <1>3, <2>1 DEF IInv, Covered, list
<1>8. DueActive'
    BY <1>1, <1>3 DEF IInv, DueActive, Wants, ContextOf
<1>9. Calm' /\ Latched' /\ Bare'
    BY <1>1, <1>2, <1>3, <1>4 DEF IInv, Calm, Latched, Bare, list, loop, outside, Loop
<1>10. Request' /\ Answer'
    BY <1>1, <1>2, <1>3 DEF IInv, Request, Answer, outside
<1>11. Sleepy' /\ AtWork'
    BY <1>1, <1>2, <1>3, <1>4 DEF IInv, Sleepy, AsAsked, AtWork, loop, Loop
<1>12. Budget'
    BY <1>1, <1>3, <1>4, LessToDo DEF loop
<1>13. Listed'
    <2>1. ScanAt(k)'
        BY <1>3 DEF ScanAt
    <2>2. ExhaustAt(k)'
        BY <1>0, <1>1, <1>2, <1>3 DEF ExhaustAt, list, loop, ContextOf, Wants
    <2> QED BY <1>0, <1>3, <2>1, <2>2 DEF Listed, list
<1> QED BY <1>5, <1>6, <1>7, <1>8, <1>9, <1>10, <1>11, <1>12, <1>13 DEF IInv

LEMMA SciEnableKeeps == ASSUME Platform, IInv, SciEnable PROVE IInv'
<1>0. PICK k \in [Children -> Nat] :
          Ring(k, next, prev, registered) /\ ScanAt(k) /\ ExhaustAt(k)
    BY DEF IInv, Listed
<1>1. pc = "acpi" /\ child[who].effect = "acpiOn"
    BY DEF SciEnable, IInv, AtWork
<1>2. /\ who \in registered /\ who \in Children /\ child[who].source = active
      /\ active \in sts /\ active = "Sw" /\ ~smiClear /\ link \in registered \cup {Base}
    BY <1>1 DEF IInv, Types, AtWork
<1>3. /\ pc' = "exhaust" /\ sx' = sx /\ sci' = TRUE
      /\ en' = en \ {"Timer"}
      /\ sts' = sts \ {"Timer", "PowerButton"}
      /\ due' = {c \in due : child[c].source \notin Async}
      /\ UNCHANGED <<cmd, slp, insmi, latch, list, rounds, smiClear, scan, active, link, who,
                     outside, events, asked>>
    <2>1. sx \in BOOLEAN
        BY DEF IInv, Types
    <2> QED BY <1>2, <2>1 DEF SciEnable, Returns, ForSleep, Async
<1>4. sts' \subseteq sts /\ due' \subseteq due
    BY <1>3
<1>5. Types'
    BY <1>2, <1>3, <1>4 DEF IInv, Types, list, outside, Places, Loop, Sources
<1>6. Planned'
    BY <1>3 DEF IInv, Planned, list
<1>7. Covered'
    BY <1>1, <1>3 DEF IInv, Covered, list
<1>8. DueActive'
    BY <1>1, <1>3 DEF IInv, DueActive, Wants, ContextOf, Async
<1>9. Calm' /\ Latched' /\ Bare'
    BY <1>1, <1>2, <1>3, <1>4 DEF IInv, Calm, Latched, Bare, list, outside, Loop
<1>10. Request' /\ Answer'
    BY <1>1, <1>2, <1>3 DEF IInv, Request, Answer, outside
<1>11. Sleepy' /\ AtWork'
    BY <1>1, <1>2, <1>3, <1>4 DEF IInv, Sleepy, AsAsked, AtWork, Loop
<1>12. Budget'
    BY <1>1, <1>3, <1>4, LessToDo
<1>13. Listed'
    <2>1. ScanAt(k)'
        BY <1>3 DEF ScanAt
    <2>2. ExhaustAt(k)'
        BY <1>0, <1>1, <1>3 DEF ExhaustAt, list, ContextOf, Wants, Async
    <2> QED BY <1>0, <1>3, <2>1, <2>2 DEF Listed, list
<1> QED BY <1>5, <1>6, <1>7, <1>8, <1>9, <1>10, <1>11, <1>12, <1>13 DEF IInv

\* The children for sleep that are due would be behind this one, and there are none: so
\* that those who want the type it leaves have been called.
LEMMA S5Keeps == ASSUME Platform, IInv, S5SleepEntryCallBack PROVE IInv'
<1>0. PICK k \in [Children -> Nat] :
          Ring(k, next, prev, registered) /\ ScanAt(k) /\ ExhaustAt(k)
    BY DEF IInv, Listed
<1>1. pc = "callback" /\ child[who].effect = "softOff"
    BY DEF S5SleepEntryCallBack, Served
<1>2. /\ who \in registered /\ who \in Children /\ child[who].source = active
      /\ active \in sts /\ active = "Sx" /\ ~smiClear /\ link \in registered \cup {Base}
      /\ link # who /\ registered \subseteq Children
    <2>1. child[who].effect # "shutdown" /\ registered \subseteq Children
        BY <1>1 DEF IInv, Types
    <2> QED BY <1>1, <2>1, CalledBack DEF Platform
<1>3. /\ pc' = "exhaust" /\ sx' = TRUE
      /\ en' = en \ {"Timer"} /\ sts' = sts \ {"Timer"}
      /\ due' = {c \in due : child[c].source # "Timer"}
      /\ slp' = slp \/ (Capsule /\ slp' = "S3")
      /\ UNCHANGED <<cmd, sci, insmi, latch, list, rounds, smiClear, scan, active, link, who,
                     outside, events, asked>>
    BY <1>2 DEF S5SleepEntryCallBack, Returns, ForSleep
<1>4. sts' \subseteq sts /\ due' \subseteq due
    BY <1>3
\* What was asked for is S5.
<1>5. slp = "S5" /\ asked = "S5" /\ "Sx" \in en
    BY <1>1, <1>2 DEF IInv, AtWork, Sleepy, AsAsked, Covered
<1>6. /\ \A c \in registered : child[c].source = "Sx" => k[c] <= k[who]
      /\ \A c \in registered : k[c] \in Nat
      /\ link = Base \/ (k[who] < k[link] /\ k[link] \in Nat)
    BY <1>0, <1>1, <1>2 DEF ExhaustAt
<1>7. \A c \in registered : child[c].source = "Sx" =>
          c \notin due /\ (link = Base \/ k[c] < k[link])
    <2> TAKE c \in registered
    <2> HAVE child[c].source = "Sx"
    <2>1. c \in due => link # Base /\ k[link] <= k[c]
        BY <1>0, <1>1, <1>2 DEF ExhaustAt
    <2>2. link # Base => k[c] < k[link]
        <3>1. link # Base => k[who] < k[link] /\ k[link] \in Nat
            BY <1>6
        <3>2. k[c] <= k[who] /\ k[c] \in Nat /\ k[who] \in Nat
            BY <1>2, <1>6
        <3> QED BY <3>1, <3>2
    <2>3. link # Base => k[c] \in Nat /\ k[link] \in Nat
        BY <1>6
    <2> QED BY <2>1, <2>2, <2>3
<1>8. Types'
    BY <1>2, <1>3, <1>4 DEF IInv, Types, list, outside, Places, Loop
<1>9. Planned'
    BY <1>3 DEF IInv, Planned, list
<1>10. Covered'
    BY <1>1, <1>3 DEF IInv, Covered, list
<1>11. DueActive'
    <2>1. due \subseteq registered
        BY DEF IInv, Types
    <2>2. \A c \in due' : c \in due /\ child[c].source # "Timer" /\ child[c].source # "Sx"
        BY <1>3, <1>7, <2>1
    <2> QED BY <1>1, <1>3, <2>2 DEF IInv, DueActive, Wants, ContextOf
<1>12. Calm' /\ Latched' /\ Bare'
    BY <1>1, <1>2, <1>3, <1>4 DEF IInv, Calm, Latched, Bare, list, outside, Loop
<1>13. Request' /\ Answer'
    BY <1>1, <1>2, <1>3 DEF IInv, Request, Answer, outside
<1>14. Sleepy' /\ AtWork'
    BY <1>1, <1>2, <1>3, <1>4, <1>5 DEF IInv, Sleepy, AsAsked, AtWork, Loop
<1>15. Budget'
    BY <1>1, <1>3, <1>4, LessToDo
<1>16. Listed'
    <2>1. ScanAt(k)'
        BY <1>3 DEF ScanAt
    <2>2. \A c \in due' : child[c].source = active' => link' # Base /\ k[link'] <= k[c]
        BY <1>0, <1>1, <1>3, <1>4 DEF ExhaustAt
    <2>3. ASSUME NEW c \in registered, child[c].source \in sts',
                 Wants(c, child[c].source, ContextOf(child[c].source)')
          PROVE  \/ c \in due'
                 \/ child[c].source = active' /\ (link' = Base \/ k[c] < k[link'])
        <3>1. CASE child[c].source = "Sx"
            BY <1>2, <1>3, <1>7, <3>1
        <3>2. CASE child[c].source # "Sx"
            <4>1. /\ ContextOf(child[c].source)' = ContextOf(child[c].source)
                  /\ child[c].source \in sts /\ child[c].source # "Timer"
                BY <1>3, <2>3, <3>2 DEF ContextOf
            <4>2. c \in due
                BY <1>0, <1>1, <1>2, <2>3, <3>2, <4>1 DEF ExhaustAt
            <4> QED BY <1>3, <4>1, <4>2
        <3> QED BY <3>1, <3>2
    <2>4. registered' = registered
        BY <1>3 DEF list
    <2>5. \A c, d \in registered' :
             child[c].effect = "softOff" /\ child[d].source = "Sx" => k[d] <= k[c]
        BY <1>0, <2>4 DEF ExhaustAt
    <2>6. ExhaustAt(k)'
        BY <1>3, <2>2, <2>3, <2>4, <2>5 DEF ExhaustAt, Wants
    <2> QED BY <1>0, <1>3, <2>1, <2>6 DEF Listed, list
<1> QED BY <1>8, <1>9, <1>10, <1>11, <1>12, <1>13, <1>14, <1>15, <1>16 DEF IInv

LEMMA PowerButtonKeeps == ASSUME Platform, IInv, PowerButtonCallback PROVE IInv'
<1>0. PICK k \in [Children -> Nat] :
          Ring(k, next, prev, registered) /\ ScanAt(k) /\ ExhaustAt(k)
    BY DEF IInv, Listed
<1>1. /\ pc = "callback" /\ pc' = "off" /\ en' = en \ {"Sx"} /\ sts' = sts \ {"PowerButton"}
      /\ UNCHANGED <<cmd, sci, insmi, latch, list, loop, outside, events, due, asked>>
    BY DEF PowerButtonCallback, Served
<1>2. Types'
    BY <1>1 DEF IInv, Types, list, loop, outside, Places, Loop
<1>3. Planned' /\ Covered' /\ DueActive'
    BY <1>1 DEF IInv, Planned, Covered, DueActive, list
<1>4. Calm' /\ Latched' /\ Bare' /\ Request' /\ Answer'
    BY <1>1 DEF IInv, Calm, Latched, Bare, Request, Answer, list, loop, outside, Loop
<1>5. Sleepy' /\ AtWork'
    BY <1>1 DEF Sleepy, AsAsked, AtWork, Loop
<1>6. Budget'
    <2>1. sts' \ {"Sw"} \subseteq sts \ {"Sw"}
        BY <1>1
    <2>2. Size(sts' \ {"Sw"}) <= Size(sts \ {"Sw"})
        BY <2>1, SizeLess
    <2>3. Size(sts' \ {"Sw"}) \in 0 .. 4 /\ Size(sts \ {"Sw"}) \in 0 .. 4
        BY SizeType
    <2> QED BY <1>1, <2>2, <2>3, Numbers DEF IInv, Budget
<1>7. Listed'
    <2>1. ScanAt(k)'
        BY <1>1 DEF ScanAt
    <2>2. ExhaustAt(k)'
        BY <1>0, <1>1 DEF ExhaustAt, list
    <2> QED BY <1>0, <1>1, <2>1, <2>2 DEF Listed, list
<1> QED BY <1>2, <1>3, <1>4, <1>5, <1>6, <1>7 DEF IInv

LEMMA UnRegisterKeeps == ASSUME Platform, IInv, UnRegisterCallback PROVE IInv'
<1>0. PICK k \in [Children -> Nat] :
          Ring(k, next, prev, registered) /\ ScanAt(k) /\ ExhaustAt(k)
    BY DEF IInv, Listed
<1>1. pc = "callback" /\ child[who].effect = "unregister" /\ Returns
      /\ UNCHANGED <<hardware, rounds, smiClear, scan, active, link, who, outside, events, asked>>
    BY DEF UnRegisterCallback, Served
<1>2. /\ who \in registered /\ who \in Children /\ child[who].source = active
      /\ active \in sts /\ active \in Sources /\ active # "PowerButton"
      /\ ~smiClear /\ link \in registered \cup {Base} /\ link # who
    BY <1>1, CalledBack
<1>3. CASE ~\E c \in registered \ {who} : child[c].source = child[who].source
    <2>1. UNCHANGED <<list, due>>
        BY <1>3 DEF UnRegisterCallback, Platform
    <2>2. sci' = sci /\ sci \in BOOLEAN
        BY <1>1 DEF hardware, IInv, Types
    <2> QED BY <1>1, <2>1, <2>2, ReturnKeeps DEF hardware
<1>4. CASE \E c \in registered \ {who} : child[c].source = child[who].source
    <2>1. /\ RemoveEntryList(who) /\ registered' = registered \ {who} /\ due' = due \ {who}
          /\ plan' = plan
        BY <1>4 DEF UnRegisterCallback, SbSmmCoreUnRegister
    <2>2. pc' = "exhaust" /\ sx' = (sx \/ active = "Sx")
        BY <1>1, <1>2 DEF Returns, ForSleep
    <2>3. next \in [Nodes -> Nodes] /\ prev \in [Nodes -> Nodes] /\ registered \in SUBSET Children
        BY DEF IInv, Types
    <2>4. Ring(k, next', prev', registered')
        BY <1>0, <1>2, <2>1, <2>3, RingRemove DEF RemoveEntryList
    <2>5. next' \in [Nodes -> Nodes] /\ prev' \in [Nodes -> Nodes]
        BY <1>2, <2>1, <2>3 DEF RemoveEntryList, Nodes
    <2>6. Types'
        <3>1. link' \in registered' \cup {Base} /\ due' \subseteq registered'
              /\ registered' \subseteq Children
            BY <1>1, <1>2, <2>1, <2>3 DEF IInv, Types
        <3> QED BY <1>1, <2>1, <2>2, <2>5, <3>1 DEF IInv, Types, hardware, outside, Places, Loop
    <2>7. \A c \in registered : \E d \in registered' : child[d].source = child[c].source
        BY <1>4, <2>1
    <2>8. Planned'
        <3>1. child[who].source # "PowerButton"
            BY <1>2
        <3> QED BY <2>1, <3>1 DEF IInv, Planned
    <2>9. Covered'
        <3>1. \A s : (\E c \in registered : child[c].source = s)
                        => \E c \in registered' : child[c].source = s
            BY <2>7
        <3> QED BY <1>1, <2>1, <2>2, <3>1 DEF IInv, Covered, hardware
    <2>10. DueActive' /\ Calm'
        BY <1>1, <2>1, <2>2 DEF IInv, DueActive, Calm, Wants, ContextOf, hardware, outside
    <2>11. Latched' /\ Bare' /\ Request' /\ Answer'
        BY <1>1, <1>2, <1>4, <2>1, <2>2
        DEF IInv, Latched, Bare, Request, Answer, hardware, outside, Loop
    <2>12. Sleepy' /\ AtWork'
        BY <1>1, <1>2, <2>2 DEF IInv, Sleepy, AsAsked, AtWork, Covered, hardware, Loop
    <2>13. Budget'
        BY <1>1, <2>2 DEF IInv, Budget, Need, hardware
    <2>14. ScanAt(k)'
        BY <2>2 DEF ScanAt
    <2>15. ExhaustAt(k)'
        BY <1>0, <1>1, <2>1, <2>2 DEF ExhaustAt, hardware, ContextOf, Wants
    <2>16. Listed'
        BY <2>4, <2>14, <2>15 DEF Listed
    <2> QED BY <2>6, <2>8, <2>9, <2>10, <2>11, <2>12, <2>13, <2>16 DEF IInv
<1> QED BY <1>3, <1>4

-----------------------------------------------------------------------------
(***************************************************************************)
(* The SMM core.                                                           *)
(***************************************************************************)
LEMMA SmiKeeps == ASSUME Platform, IInv, Smi PROVE IInv'
<1>0. PICK k \in [Children -> Nat] :
          Ring(k, next, prev, registered) /\ ScanAt(k) /\ ExhaustAt(k)
    BY DEF IInv, Listed
<1>1. /\ pc = "out" /\ latch /\ (caller = "size" => Torn) /\ latch' = FALSE /\ pc' = "entry"
      /\ UNCHANGED <<en, sts, cmd, slp, sci, insmi, list, loop, outside, events, due, asked>>
    BY DEF Smi
<1>2. Types'
    BY <1>1 DEF IInv, Types, list, loop, outside, Places, Loop
<1>3. Planned' /\ Covered' /\ DueActive'
    BY <1>1 DEF IInv, Planned, Covered, DueActive, Wants, ContextOf, list
<1>4. Calm' /\ Latched' /\ Bare' /\ Request' /\ Answer'
    BY <1>1 DEF IInv, Calm, Latched, Bare, Request, Answer, list, loop, outside, Loop
<1>5. Sleepy' /\ AtWork' /\ Budget'
    BY <1>1 DEF IInv, Sleepy, AsAsked, AtWork, Budget, Need, loop, Loop
<1>6. Listed'
    <2>1. ScanAt(k)'
        BY <1>1 DEF ScanAt
    <2>2. ExhaustAt(k)'
        BY <1>0, <1>1 DEF ExhaustAt, list, ContextOf, Wants
    <2> QED BY <1>0, <1>1, <2>1, <2>2 DEF Listed, list
<1> QED BY <1>2, <1>3, <1>4, <1>5, <1>6 DEF IInv

LEMMA EntryKeeps == ASSUME Platform, IInv, SmmEntryPoint PROVE IInv'
<1>0. PICK k \in [Children -> Nat] :
          Ring(k, next, prev, registered) /\ ScanAt(k) /\ ExhaustAt(k)
    BY DEF IInv, Listed
<1>1. /\ pc = "entry" /\ pc' \in {"dispatch", "handler"}
      /\ pc' = "handler" => comm # "null"
      /\ comm' = "null"
      /\ handled' = IF comm = "null" THEN handled ELSE Append(handled, comm)
      /\ UNCHANGED <<hardware, list, loop, caller, calls, events, due, asked>>
    BY DEF SmmEntryPoint
<1>2. Types'
    BY <1>1 DEF IInv, Types, hardware, list, loop, Places, Loop
<1>3. Planned'
    BY <1>1 DEF IInv, Planned, list
<1>4. Covered' /\ DueActive'
    BY <1>1 DEF IInv, Covered, DueActive, Wants, ContextOf, hardware, list
<1>5. Calm' /\ Latched' /\ Bare' /\ Request'
    BY <1>1 DEF IInv, Calm, Latched, Bare, Request, hardware, list, loop, Loop
<1>6. Answer'
    <2>1. Append(<< >>, "own") = << "own" >>
        OBVIOUS
    <2> QED BY <1>1, <2>1 DEF IInv, Answer
<1>7. Sleepy' /\ AtWork' /\ Budget'
    BY <1>1 DEF IInv, Sleepy, AsAsked, AtWork, Budget, Need, hardware, loop, Loop
<1>8. Listed'
    <2>1. ScanAt(k)'
        BY <1>1 DEF ScanAt
    <2>2. ExhaustAt(k)'
        BY <1>0, <1>1 DEF ExhaustAt, hardware, list, ContextOf, Wants
    <2> QED BY <1>0, <1>1, <2>1, <2>2 DEF Listed, list
<1> QED BY <1>2, <1>3, <1>4, <1>5, <1>6, <1>7, <1>8 DEF IInv

LEMMA HandledKeeps == ASSUME Platform, IInv, Handled PROVE IInv'
<1>0. PICK k \in [Children -> Nat] :
          Ring(k, next, prev, registered) /\ ScanAt(k) /\ ExhaustAt(k)
    BY DEF IInv, Listed
<1>1. /\ pc = "handler" /\ pc' = "dispatch"
      /\ registered # {} => \E c \in registered : child[c].source = "Sw"
      /\ UNCHANGED <<hardware, list, loop, outside, events, due, asked>>
    BY DEF Handled
<1>2. Types'
    BY <1>1 DEF IInv, Types, hardware, list, loop, outside, Places, Loop
<1>3. Planned' /\ Covered' /\ DueActive'
    BY <1>1 DEF IInv, Planned, Covered, DueActive, Wants, ContextOf, hardware, list
<1>4. Calm' /\ Latched' /\ Bare' /\ Request' /\ Answer'
    BY <1>1 DEF IInv, Calm, Latched, Bare, Request, Answer, hardware, list, loop, outside, Loop
<1>5. Sleepy' /\ AtWork' /\ Budget'
    BY <1>1 DEF IInv, Sleepy, AsAsked, AtWork, Budget, Need, hardware, loop, Loop
<1>6. Listed'
    <2>1. ScanAt(k)'
        BY <1>1 DEF ScanAt
    <2>2. ExhaustAt(k)'
        BY <1>0, <1>1 DEF ExhaustAt, hardware, list, ContextOf, Wants
    <2> QED BY <1>0, <1>1, <2>1, <2>2 DEF Listed, list
<1> QED BY <1>2, <1>3, <1>4, <1>5, <1>6 DEF IInv

LEMMA TailIs ==
    ASSUME NEW p \in Seq(Children), p # << >>
    PROVE  /\ p[1] \in Children /\ Tail(p) \in Seq(Children) /\ Len(p) \in Nat \ {0}
           /\ Len(Tail(p)) = Len(p) - 1
           /\ \A i \in 1 .. Len(p) - 1 : Tail(p)[i] = p[i + 1]
OBVIOUS

\* A rejected command is not registered; what is left of the plan is as it was.
LEMMA RegisterKeeps == ASSUME Platform, IInv, SbSmmCoreRegister PROVE IInv'
<1>0. PICK k \in [Children -> Nat] :
          Ring(k, next, prev, registered) /\ ScanAt(k) /\ ExhaustAt(k)
    BY DEF IInv, Listed
<1>1. PICK c, s, p, q :
          c = plan[1] /\ s = child[c].source /\ p = plan /\ q = Tail(plan)
    OBVIOUS
<1>2. /\ pc = "handler" /\ plan # << >> /\ plan' = q
      /\ UNCHANGED <<cmd, slp, sci, insmi, latch, pc, loop, outside, events, due, asked>>
    BY <1>1 DEF SbSmmCoreRegister
<1>3. /\ c \in Children /\ q \in Seq(Children) /\ Len(p) \in Nat \ {0} /\ Len(q) = Len(p) - 1
      /\ \A i \in 1 .. Len(q) : q[i] = p[i + 1]
      /\ s \in Sources
    BY <1>1, <1>2, TailIs, ChildType DEF IInv, Types
<1>4. registered \in SUBSET Children /\ sts \subseteq Sources /\ en \subseteq Sources
      /\ due \subseteq registered
    BY DEF IInv, Types
<1>5. /\ \A i, j \in 1 .. Len(p) : p[i] = p[j] => i = j
      /\ \A i \in 1 .. Len(p) : p[i] \notin registered
      /\ \A i \in 1 .. Len(p) : child[p[i]].effect = "acpiOn" =>
            \/ \E j \in 1 .. i - 1 : child[p[j]].source = "PowerButton"
            \/ \E d \in registered : child[d].source = "PowerButton"
      /\ \A i, j \in 1 .. Len(p) :
            i < j /\ child[p[i]].effect = "softOff" => child[p[j]].source # "Sx"
      /\ \A d \in registered, j \in 1 .. Len(p) :
            child[d].effect = "softOff" => child[p[j]].source # "Sx"
    BY <1>1 DEF IInv, Planned
<1>6. /\ \A i, j \in 1 .. Len(q) : q[i] = q[j] => i = j
      /\ \A i \in 1 .. Len(q) : q[i] \notin registered \cup {c}
      /\ \A i, j \in 1 .. Len(q) :
            i < j /\ child[q[i]].effect = "softOff" => child[q[j]].source # "Sx"
      /\ \A d \in registered \cup {c}, j \in 1 .. Len(q) :
            child[d].effect = "softOff" => child[q[j]].source # "Sx"
      /\ \A d \in registered : child[d].effect = "softOff" => child[c].source # "Sx"
    <2>1. \A i \in 1 .. Len(q) : i + 1 \in 1 .. Len(p) /\ 1 < i + 1 /\ q[i] = p[i + 1]
        BY <1>3
    <2>2. c = p[1] /\ 1 \in 1 .. Len(p)
        BY <1>1, <1>3
    <2>3. \A i, j \in 1 .. Len(q) : (i < j => i + 1 < j + 1) /\ (i + 1 = j + 1 => i = j)
        BY <1>3
    <2>4. \A i, j \in 1 .. Len(q) : q[i] = q[j] => i = j
        BY <1>5, <2>1, <2>3
    <2>5. \A i \in 1 .. Len(q) : q[i] \notin registered \cup {c}
        BY <1>5, <2>1, <2>2
    <2>6. \A i, j \in 1 .. Len(q) :
             i < j /\ child[q[i]].effect = "softOff" => child[q[j]].source # "Sx"
        BY <1>5, <2>1, <2>3
    <2>7. \A d \in registered \cup {c}, j \in 1 .. Len(q) :
             child[d].effect = "softOff" => child[q[j]].source # "Sx"
        BY <1>5, <2>1, <2>2
    <2>8. \A d \in registered : child[d].effect = "softOff" => child[c].source # "Sx"
        BY <1>5, <2>2
    <2> QED BY <2>4, <2>5, <2>6, <2>7, <2>8
<1>7. ASSUME NEW R, registered \subseteq R, s = "PowerButton" => c \in R
      PROVE  \A i \in 1 .. Len(q) : child[q[i]].effect = "acpiOn" =>
                \/ \E j \in 1 .. i - 1 : child[q[j]].source = "PowerButton"
                \/ \E d \in R : child[d].source = "PowerButton"
    <2> TAKE i \in 1 .. Len(q)
    <2> HAVE child[q[i]].effect = "acpiOn"
    <2>1. i + 1 \in 1 .. Len(p) /\ q[i] = p[i + 1]
        BY <1>3
    <2>2. CASE \E d \in registered : child[d].source = "PowerButton"
        BY <2>2, <1>7
    <2>3. CASE \E j \in 1 .. i : child[p[j]].source = "PowerButton"
        <3>1. PICK j \in 1 .. i : child[p[j]].source = "PowerButton"
            BY <2>3
        <3>2. CASE j = 1
            BY <3>1, <3>2, <1>1, <1>7
        <3>3. CASE j # 1
            <4>1. j - 1 \in 1 .. i - 1 /\ j - 1 \in 1 .. Len(q) /\ q[j - 1] = p[(j - 1) + 1]
                BY <1>3, <3>3
            <4>2. p[(j - 1) + 1] = p[j]
                OBVIOUS
            <4> QED BY <3>1, <4>1, <4>2
        <3> QED BY <3>2, <3>3
    <2> QED BY <1>5, <2>1, <2>2, <2>3
<1>8. Calm' /\ Latched' /\ Request' /\ Answer' /\ AtWork'
    <2>1. sts' \subseteq sts
        BY <1>1 DEF SbSmmCoreRegister
    <2> QED BY <1>2, <2>1 DEF IInv, Calm, Latched, Request, Answer, AtWork, loop, outside, Loop
<1>9. CASE Duplicate(c)
    <2>1. UNCHANGED <<next, prev, registered, en, sts>> /\ s # "PowerButton"
        BY <1>1, <1>9 DEF SbSmmCoreRegister, Duplicate
    <2>2. Types'
        BY <1>2, <1>3, <2>1 DEF IInv, Types, loop, outside
    <2>3. Planned'
        <3>1. \A i \in 1 .. Len(q) : child[q[i]].effect = "acpiOn" =>
                \/ \E j \in 1 .. i - 1 : child[q[j]].source = "PowerButton"
                \/ \E d \in registered : child[d].source = "PowerButton"
            BY <1>7, <2>1
        <3> QED BY <1>2, <1>6, <2>1, <3>1 DEF IInv, Planned
    <2>4. Covered' /\ DueActive' /\ Bare'
        BY <1>2, <2>1 DEF IInv, Covered, DueActive, Bare, Wants, ContextOf, outside
    <2>5. Sleepy' /\ Budget'
        BY <1>2, <2>1 DEF IInv, Sleepy, AsAsked, Budget, Need, loop, Loop
    <2>6. ScanAt(k)' /\ ExhaustAt(k)'
        BY <1>0, <1>2, <2>1 DEF ScanAt, ExhaustAt, loop, ContextOf, Wants
    <2>7. Listed'
        BY <1>0, <2>1, <2>6 DEF Listed
    <2> QED BY <1>8, <2>2, <2>3, <2>4, <2>5, <2>7 DEF IInv
<1>10. CASE ~Duplicate(c)
    <2>1. /\ InsertTailList(c) /\ registered' = registered \cup {c}
          /\ en' = en \cup {s} /\ sts' = sts \ {s}
        BY <1>1, <1>10 DEF SbSmmCoreRegister
    <2>2. c \in Children \ registered
        BY <1>1, <1>3, <1>5
    \* Nobody waits for an event of this source.
    <2>3. \A d \in due : child[d].source # s
        <3>1. caller # "idle"
            BY <1>2 DEF IInv, Request
        <3>2. \A d \in due : child[d].source \in Async
            BY <3>1 DEF IInv, Calm
        <3> QED BY <1>1, <1>4, <2>2, <3>2 DEF Platform
    <2>4. PICK m \in [Children -> Nat] :
              Ring(m, next', prev', registered') /\ \A d \in registered : m[d] = k[d]
        <3>1. next \in [Nodes -> Nodes] /\ prev \in [Nodes -> Nodes]
            BY DEF IInv, Types
        <3>2. Ring(k, next, prev, registered)
            BY <1>0
        <3>3. \E m \in [Children -> Nat] :
                 /\ \A d \in registered : m[d] = k[d]
                 /\ Ring(m, [next EXCEPT ![c] = Base, ![prev[Base]] = c],
                            [prev EXCEPT ![c] = prev[Base], ![Base] = c], registered \cup {c})
            BY <1>4, <2>2, <3>1, <3>2, RingInsert
        <3> QED BY <2>1, <3>3 DEF InsertTailList
    <2>5. Types'
        <3>1. next' \in [Nodes -> Nodes] /\ prev' \in [Nodes -> Nodes]
            BY <2>1, <2>2 DEF IInv, Types, InsertTailList, Nodes
        <3>2. en' \subseteq Sources /\ sts' \subseteq Sources /\ registered' \subseteq Children
              /\ due' \subseteq registered'
            BY <1>2, <1>3, <1>4, <2>1, <2>2
        <3> QED BY <1>2, <1>3, <3>1, <3>2 DEF IInv, Types, loop, outside
    <2>6. Planned'
        <3>1. \A i \in 1 .. Len(q) : child[q[i]].effect = "acpiOn" =>
                \/ \E j \in 1 .. i - 1 : child[q[j]].source = "PowerButton"
                \/ \E d \in registered \cup {c} : child[d].source = "PowerButton"
            BY <1>7
        <3>2. child[c].effect = "acpiOn" =>
                  \E d \in registered : child[d].source = "PowerButton"
            BY <1>1, <1>3, <1>5
        <3> QED BY <1>2, <1>6, <2>1, <3>1, <3>2 DEF IInv, Planned
    <2>7. Covered' /\ DueActive' /\ Bare'
        BY <1>1, <1>2, <2>1, <2>3 DEF IInv, Covered, DueActive, Bare, Wants, ContextOf, outside
    <2>8. Sleepy'
        BY <1>2, <2>1 DEF IInv, Sleepy, AsAsked, loop, Loop
    <2>9. Budget'
        <3>1. sts' \ {"Sw"} \subseteq sts \ {"Sw"}
            BY <2>1
        <3>2. Size(sts' \ {"Sw"}) <= Size(sts \ {"Sw"})
            BY <3>1, SizeLess
        <3>3. Size(sts' \ {"Sw"}) \in 0 .. 4 /\ Size(sts \ {"Sw"}) \in 0 .. 4
            BY SizeType
        <3> QED BY <1>2, <3>2, <3>3, Numbers DEF IInv, Budget, loop
    <2>10. ScanAt(m)' /\ ExhaustAt(m)'
        \* It is the last one of the list.
        <3>1. \A d \in registered' : m[d] <= m[c]
            <4>1. next'[c] = Base
                BY <1>0, <1>4, <2>1, <2>2, SmiAssumption
                DEF InsertTailList, IInv, Types, Nodes, Ring
            <4> QED BY <2>1, <2>4, <4>1 DEF Ring
        <3>2. \A d, e \in registered' :
                 child[d].effect = "softOff" /\ child[e].source = "Sx" => m[e] <= m[d]
            <4> TAKE d, e \in registered'
            <4> HAVE child[d].effect = "softOff" /\ child[e].source = "Sx"
            <4>1. CASE d = c
                BY <3>1, <4>1
            <4>2. CASE d # c
                <5>1. d \in registered /\ e # c /\ e \in registered
                    BY <1>6, <2>1, <4>2
                <5> QED BY <1>0, <2>4, <5>1 DEF ExhaustAt
            <4> QED BY <4>1, <4>2
        <3>3. ScanAt(m)'
            BY <1>2 DEF ScanAt
        <3>4. \A x : ContextOf(x)' = ContextOf(x)
            BY <1>2 DEF ContextOf
        <3>5. ASSUME NEW d \in registered', child[d].source \in sts',
                     Wants(d, child[d].source, ContextOf(child[d].source))
              PROVE  d \in due
            BY <1>0, <1>1, <1>2, <2>1, <3>5 DEF ExhaustAt
        <3> QED BY <1>2, <3>2, <3>3, <3>4, <3>5 DEF ExhaustAt, Wants
    <2>11. Listed'
        BY <2>4, <2>10 DEF Listed
    <2> QED BY <1>8, <2>5, <2>6, <2>7, <2>8, <2>9, <2>11 DEF IInv
<1> QED BY <1>9, <1>10

-----------------------------------------------------------------------------
(***************************************************************************)
(* Communicate.                                                            *)
(***************************************************************************)
LEMMA CommunicateKeeps ==
    ASSUME Platform, IInv, SmmCommunicationCommunicate PROVE IInv'
<1>0. PICK k \in [Children -> Nat] :
          Ring(k, next, prev, registered) /\ ScanAt(k) /\ ExhaustAt(k)
    BY DEF IInv, Listed
<1>1. /\ pc = "out" /\ ~latch /\ caller = "idle" /\ caller' = "size"
      /\ comm' = "stale" /\ handled' = << >>
      /\ UNCHANGED <<hardware, list, pc, loop, events, due, asked>>
    BY DEF SmmCommunicationCommunicate, Running
\* Commands and sleep requests have been served.
<1>2. sts \subseteq Async /\ \A c \in due : child[c].source \in Async
    BY <1>1 DEF IInv, Calm, DueActive
<1>3. Types'
    BY <1>1 DEF IInv, Types, hardware, list, loop
<1>4. Planned'
    BY <1>1 DEF IInv, Planned, list
<1>5. Covered' /\ DueActive'
    BY <1>1 DEF IInv, Covered, DueActive, Wants, ContextOf, hardware, list
<1>6. Calm' /\ Latched' /\ Bare'
    BY <1>1, <1>2 DEF IInv, Calm, Latched, Bare, hardware, list, loop, Loop
<1>7. Request' /\ Answer'
    BY <1>1 DEF Request, Answer
<1>8. Sleepy' /\ AtWork' /\ Budget'
    BY <1>1 DEF IInv, Sleepy, AsAsked, AtWork, Budget, Need, hardware, loop, Loop
<1>9. Listed'
    <2>1. ScanAt(k)'
        BY <1>1 DEF ScanAt
    <2>2. ExhaustAt(k)'
        BY <1>0, <1>1 DEF ExhaustAt, hardware, list, ContextOf, Wants
    <2> QED BY <1>0, <1>1, <2>1, <2>2 DEF Listed, list
<1> QED BY <1>3, <1>4, <1>5, <1>6, <1>7, <1>8, <1>9 DEF IInv

LEMMA BufferSizeKeeps == ASSUME Platform, IInv, BufferSize PROVE IInv'
<1>0. PICK k \in [Children -> Nat] :
          Ring(k, next, prev, registered) /\ ScanAt(k) /\ ExhaustAt(k)
    BY DEF IInv, Listed
<1>1. /\ pc = "out" /\ caller = "size" /\ caller' = "trigger"
      /\ comm' = (IF comm = "null" THEN "null" ELSE "own") /\ handled' = handled
      /\ UNCHANGED <<hardware, list, pc, loop, events, due, asked>>
    BY DEF BufferSize
<1>2. Types'
    BY <1>1 DEF IInv, Types, hardware, list, loop
<1>3. Planned'
    BY <1>1 DEF IInv, Planned, list
<1>4. Covered' /\ DueActive'
    BY <1>1 DEF IInv, Covered, DueActive, Wants, ContextOf, hardware, list
<1>5. Calm' /\ Latched' /\ Bare'
    BY <1>1 DEF IInv, Calm, Latched, Bare, hardware, list, loop, Loop
<1>6. Request' /\ Answer'
    BY <1>1 DEF IInv, Request, Answer
<1>7. Sleepy' /\ AtWork' /\ Budget'
    BY <1>1 DEF IInv, Sleepy, AsAsked, AtWork, Budget, Need, hardware, loop, Loop
<1>8. Listed'
    <2>1. ScanAt(k)'
        BY <1>1 DEF ScanAt
    <2>2. ExhaustAt(k)'
        BY <1>0, <1>1 DEF ExhaustAt, hardware, list, ContextOf, Wants
    <2> QED BY <1>0, <1>1, <2>1, <2>2 DEF Listed, list
<1> QED BY <1>2, <1>3, <1>4, <1>5, <1>6, <1>7, <1>8 DEF IInv

LEMMA TriggerKeeps == ASSUME Platform, IInv, SmmTrigger PROVE IInv'
<1>0. PICK k \in [Children -> Nat] :
          Ring(k, next, prev, registered) /\ ScanAt(k) /\ ExhaustAt(k)
    BY DEF IInv, Listed
<1>1. /\ pc = "out" /\ ~latch /\ caller = "trigger" /\ caller' = "clear"
      /\ en' = en \cup {"Sw"} /\ sts' = sts \cup {"Sw"} /\ cmd' = "communicate"
      /\ UNCHANGED <<slp, sci, list, pc, loop, comm, handled, events, due, asked>>
    BY DEF SmmTrigger, Running
<1>2. sts \subseteq en /\ (sci => "PowerButton" \notin sts) /\ ~insmi
      /\ sts \subseteq Async
    BY <1>1 DEF IInv, Covered, Latched, Calm, Loop
\* So PMIO_INSMI rises, and the processor takes the SMI.
<1>3. insmi' = TRUE /\ latch' = TRUE
    <2>1. Raising(en', sts') = sts'
        BY <1>1, <1>2, RaisingIs
    <2> QED BY <1>1, <1>2, <2>1 DEF SmmTrigger, Raise
<1>4. Types'
    BY <1>1, <1>3 DEF IInv, Types, list, loop, Sources
<1>5. Planned'
    BY <1>1 DEF IInv, Planned, list
<1>6. Covered'
    BY <1>1, <1>2 DEF IInv, Covered, list
<1>7. DueActive'
    <2>1. \A c \in due : child[c].source \in Async
        BY <1>1 DEF IInv, Calm
    <2> QED BY <1>1, <2>1 DEF IInv, DueActive, Wants, ContextOf, Async
<1>8. Calm' /\ Latched' /\ Bare'
    BY <1>1, <1>2, <1>3 DEF IInv, Calm, Latched, Bare, list, loop, Loop, Async
<1>9. Request' /\ Answer'
    BY <1>1, <1>3 DEF IInv, Request, Answer
<1>10. Sleepy' /\ AtWork'
    BY <1>1 DEF IInv, Sleepy, AsAsked, AtWork, loop, Loop
<1>11. Budget'
    <2>1. sts' \ {"Sw"} = sts \ {"Sw"}
        BY <1>1
    <2> QED BY <1>1, <2>1 DEF IInv, Budget, loop
<1>12. Listed'
    <2>1. ScanAt(k)'
        BY <1>1 DEF ScanAt
    \* No child has the command value of Communicate.
    <2>2. \A c \in registered : child[c].source = "Sw" => ~Wants(c, "Sw", "communicate")
        BY SmiAssumption DEF Platform, Wants, IInv, Types
    <2>3. ExhaustAt(k)'
        BY <1>0, <1>1, <2>2 DEF ExhaustAt, list, ContextOf, Wants
    <2> QED BY <1>0, <1>1, <2>1, <2>3 DEF Listed, list
<1> QED BY <1>4, <1>5, <1>6, <1>7, <1>8, <1>9, <1>10, <1>11, <1>12 DEF IInv

\* When Trigger clears the command port its SMI is over.
LEMMA AtClear == ASSUME IInv, SmmClear PROVE comm = "null"
BY DEF SmmClear, Running, IInv, Request

LEMMA SmmClearKeeps == ASSUME Platform, IInv, SmmClear PROVE IInv'
<1>0. PICK k \in [Children -> Nat] :
          Ring(k, next, prev, registered) /\ ScanAt(k) /\ ExhaustAt(k)
    BY DEF IInv, Listed
<1>1. /\ pc = "out" /\ ~latch /\ caller = "clear" /\ caller' = "idle" /\ comm = "null"
      /\ sts' = sts \ {"Sw"}
      /\ UNCHANGED <<en, cmd, slp, sci, list, pc, loop, comm, handled, events, due, asked>>
    BY AtClear DEF SmmClear, Running
<1>2. sts \subseteq en /\ (sci => "PowerButton" \notin sts) /\ "Sx" \notin sts
      /\ sts \subseteq Sources
    BY <1>1 DEF IInv, Covered, Calm, Types
<1>3. insmi' = (sts' # {}) /\ latch' = (sts' # {})
    <2>1. Raising(en, sts') = sts'
        BY <1>1, <1>2, RaisingIs
    <2> QED BY <1>1, <2>1 DEF SmmClear, Inactive
<1>4. sts' \subseteq Async
    BY <1>1, <1>2 DEF Async, Sources
<1>5. Types'
    BY <1>1, <1>2, <1>3 DEF IInv, Types, list, loop
<1>6. Planned'
    BY <1>1 DEF IInv, Planned, list
<1>7. Covered'
    BY <1>1, <1>2 DEF IInv, Covered, list
<1>8. DueActive'
    <2>1. \A c \in due : child[c].source \in Async
        BY <1>1 DEF IInv, Calm
    <2> QED BY <1>1, <2>1 DEF IInv, DueActive, Wants, ContextOf, Async
<1>9. Calm' /\ Latched'
    BY <1>1, <1>3, <1>4 DEF IInv, Calm, Latched, loop
<1>10. Bare'
    <2>1. registered = {} => sts' = {}
        BY <1>1, <1>2 DEF IInv, Covered
    <2> QED BY <1>1, <1>3, <2>1 DEF IInv, Bare, list
<1>11. Request' /\ Answer'
    BY <1>1 DEF IInv, Request, Answer
<1>12. Sleepy' /\ AtWork'
    BY <1>1 DEF IInv, Sleepy, AsAsked, AtWork, loop, Loop
<1>13. Budget'
    <2>1. sts' \ {"Sw"} = sts \ {"Sw"}
        BY <1>1
    <2> QED BY <1>1, <2>1 DEF IInv, Budget, loop
<1>14. Listed'
    <2>1. ScanAt(k)'
        BY <1>1 DEF ScanAt
    <2>2. ExhaustAt(k)'
        BY <1>0, <1>1 DEF ExhaustAt, list, ContextOf, Wants
    <2> QED BY <1>0, <1>1, <2>1, <2>2 DEF Listed, list
<1> QED BY <1>5, <1>6, <1>7, <1>8, <1>9, <1>10, <1>11, <1>12, <1>13, <1>14 DEF IInv

-----------------------------------------------------------------------------
(***************************************************************************)
(* Hardware.                                                               *)
(***************************************************************************)
\* The status of a source is set: what all three kinds of events have in common.
LEMMA HappensFacts ==
    ASSUME IInv, NEW s \in Sources, NEW x, Happens(s, x), pc # "off",
           s = "PowerButton" => ~sci
    PROVE  /\ s \in en /\ s \notin sts /\ sts' = sts \cup {s} /\ events' = events + 1
           /\ events < MaxEvents
           /\ insmi' = TRUE /\ latch' = (latch \/ ~insmi)
           /\ due' = due \cup {c \in registered : Wants(c, s, x)}
           /\ Size(sts') = Size(sts) + 1
           /\ Size(sts' \ {"Sw"}) <= Size(sts \ {"Sw"}) + 1
           /\ Need' = Need /\ (registered # {} \/ s = "Sw")
<1>1. /\ s \in en /\ s \notin sts /\ sts' = sts \cup {s} /\ events' = events + 1
      /\ events < MaxEvents
      /\ due' = due \cup {c \in registered : Wants(c, s, x)}
    BY DEF Happens
<1>2. sts \subseteq en /\ (sci => "PowerButton" \notin sts)
    BY DEF IInv, Covered
<1>3. Raising(en, sts') = sts'
    <2>1. sts' \in SUBSET en /\ (sci => "PowerButton" \notin sts')
        BY <1>1, <1>2
    <2> QED BY <2>1, RaisingIs
<1>4. insmi' = TRUE /\ latch' = (latch \/ ~insmi)
    BY <1>1, <1>3 DEF Happens, Raise
<1>5. Size(sts') = Size(sts) + 1
    BY <1>1, SizeAdd
<1>6. Size(sts' \ {"Sw"}) <= Size(sts \ {"Sw"}) + 1
    <2>1. CASE s = "Sw"
        <3>1. sts' \ {"Sw"} = sts \ {"Sw"}
            BY <1>1, <2>1
        <3> QED BY <3>1, SizeType
    <2>2. CASE s # "Sw"
        <3>1. sts' \ {"Sw"} = (sts \ {"Sw"}) \cup {s} /\ s \in Sources \ (sts \ {"Sw"})
            BY <1>1, <2>2
        <3>2. Size((sts \ {"Sw"}) \cup {s}) = Size(sts \ {"Sw"}) + 1
            BY <3>1, SizeAdd
        <3> QED BY <3>1, <3>2, SizeType
    <2> QED BY <2>1, <2>2
<1>7. Need' = Need
    BY <1>1, <1>5, Numbers DEF Need
<1>8. registered # {} \/ s = "Sw"
    BY <1>1 DEF IInv, Covered
<1> QED BY <1>1, <1>4, <1>5, <1>6, <1>7, <1>8

LEMMA EventKeeps == ASSUME Platform, IInv, NEW s \in Async, Event(s) PROVE IInv'
<1>0. PICK k \in [Children -> Nat] :
          Ring(k, next, prev, registered) /\ ScanAt(k) /\ ExhaustAt(k)
    BY DEF IInv, Listed
<1>1. /\ pc # "off" /\ s \in Sources /\ s \notin {"Sw", "Sx"} /\ (s = "PowerButton" => ~sci)
      /\ Happens(s, "any")
      /\ UNCHANGED <<en, cmd, slp, sci, list, pc, loop, outside, asked>>
    BY DEF Event, Async, Sources
<1>2. /\ s \in en /\ s \notin sts /\ sts' = sts \cup {s} /\ events' = events + 1
      /\ events < MaxEvents
      /\ insmi' = TRUE /\ latch' = (latch \/ ~insmi)
      /\ due' = due \cup {c \in registered : Wants(c, s, "any")}
      /\ Size(sts') = Size(sts) + 1
      /\ Size(sts' \ {"Sw"}) <= Size(sts \ {"Sw"}) + 1
      /\ Need' = Need /\ registered # {}
    BY <1>1, HappensFacts
<1>3. Types'
    <2>1. events' \in 0 .. MaxEvents
        BY <1>2, Numbers
    <2>2. latch' \in BOOLEAN /\ sts' \subseteq Sources /\ due' \subseteq registered
        BY <1>1, <1>2 DEF IInv, Types
    <2> QED BY <1>1, <1>2, <2>1, <2>2 DEF IInv, Types, list, loop, outside
<1>4. Planned'
    BY <1>1 DEF IInv, Planned, list
<1>5. Covered'
    BY <1>1, <1>2 DEF IInv, Covered, list
<1>6. DueActive'
    BY <1>1, <1>2 DEF IInv, DueActive, Wants, ContextOf
<1>7. Calm'
    BY <1>1, <1>2 DEF IInv, Calm, Latched, Wants, loop, outside, Async
<1>8. Latched' /\ Bare'
    BY <1>1, <1>2 DEF IInv, Types, Latched, Bare, list, loop, outside, Loop
<1>9. Request' /\ Answer'
    BY <1>1, <1>2 DEF IInv, Types, Request, Answer, outside
<1>10. Sleepy' /\ AtWork'
    BY <1>1, <1>2 DEF IInv, Sleepy, AsAsked, AtWork, loop, Loop
<1>11. Budget'
    <2>1. Size(sts \ {"Sw"}) \in 0 .. 4 /\ Size(sts' \ {"Sw"}) \in 0 .. 4
        BY SizeType
    <2>2. Size(sts' \ {"Sw"}) <= events'
        BY <1>2, <2>1, Numbers DEF IInv, Budget
    <2>3. sts # {} => sts' # {}
        BY <1>2
    <2> QED BY <1>1, <1>2, <2>2, <2>3 DEF IInv, Budget, loop
<1>12. Listed'
    <2>1. \A c \in due' : c \in due \/ child[c].source = s
        BY <1>2 DEF Wants
    <2>2. ScanAt(k)'
        BY <1>0, <1>1, <1>2, <2>1 DEF ScanAt, list, loop
    <2>3. pc \in {"exhaust", "callback", "acpi", "clear"} => active # s
        BY <1>2 DEF IInv, AtWork
    <2>4. ExhaustAt(k)'
        BY <1>0, <1>1, <1>2, <2>1, <2>3 DEF ExhaustAt, list, loop, ContextOf, Wants
    <2> QED BY <1>0, <1>1, <2>2, <2>4 DEF Listed, list
<1> QED BY <1>3, <1>4, <1>5, <1>6, <1>7, <1>8, <1>9, <1>10, <1>11, <1>12 DEF IInv

LEMMA SwCommandKeeps ==
    ASSUME Platform, IInv, NEW v \in Commands, SwCommand(v) PROVE IInv'
<1>0. PICK k \in [Children -> Nat] :
          Ring(k, next, prev, registered) /\ ScanAt(k) /\ ExhaustAt(k)
    BY DEF IInv, Listed
<1>1. /\ pc = "out" /\ ~latch /\ caller = "idle" /\ next[Base] # Base
      /\ Happens("Sw", v) /\ cmd' = v
      /\ UNCHANGED <<en, slp, sci, list, pc, loop, outside, asked>>
    BY DEF SwCommand, Running
<1>2. "Sw" \in Sources /\ registered # {} /\ ~insmi
    BY <1>0, <1>1 DEF Sources, Ring, IInv, Latched, Loop
<1>3. /\ "Sw" \in en /\ "Sw" \notin sts /\ sts' = sts \cup {"Sw"} /\ events' = events + 1
      /\ events < MaxEvents
      /\ insmi' = TRUE /\ latch' = TRUE
      /\ due' = due \cup {c \in registered : Wants(c, "Sw", v)}
      /\ Size(sts' \ {"Sw"}) <= Size(sts \ {"Sw"}) + 1
    BY <1>1, <1>2, HappensFacts
<1>4. Types'
    <2>1. events' \in 0 .. MaxEvents
        BY <1>3, Numbers
    <2>2. sts' \subseteq Sources /\ due' \subseteq registered
        BY <1>1, <1>2, <1>3 DEF IInv, Types
    <2> QED BY <1>1, <1>3, <2>1, <2>2 DEF IInv, Types, list, loop, outside
<1>5. Planned'
    BY <1>1 DEF IInv, Planned, list
<1>6. Covered'
    BY <1>1, <1>3 DEF IInv, Covered, list
<1>7. DueActive'
    BY <1>1, <1>3 DEF IInv, DueActive, Wants, ContextOf
<1>8. Calm' /\ Latched' /\ Bare'
    BY <1>1, <1>2, <1>3 DEF Calm, Latched, Bare, list, outside
<1>9. Request' /\ Answer'
    BY <1>1 DEF IInv, Request, Answer, outside
<1>10. Sleepy' /\ AtWork'
    BY <1>1, <1>3 DEF IInv, Sleepy, AsAsked, AtWork, loop, Loop
<1>11. Budget'
    <2>1. Size(sts \ {"Sw"}) \in 0 .. 4 /\ Size(sts' \ {"Sw"}) \in 0 .. 4
        BY SizeType
    <2>2. Size(sts' \ {"Sw"}) <= events'
        BY <1>3, <2>1, Numbers DEF IInv, Budget
    <2> QED BY <1>1, <2>2 DEF Budget
<1>12. Listed'
    <2>1. ScanAt(k)'
        BY <1>1 DEF ScanAt
    <2>2. ExhaustAt(k)'
        BY <1>0, <1>1, <1>3 DEF ExhaustAt, list, ContextOf, Wants
    <2> QED BY <1>0, <1>1, <2>1, <2>2 DEF Listed, list
<1> QED BY <1>4, <1>5, <1>6, <1>7, <1>8, <1>9, <1>10, <1>11, <1>12 DEF IInv

LEMMA SleepRequestKeeps ==
    ASSUME Platform, IInv, NEW t \in Sleeps, SleepRequest(t) PROVE IInv'
<1>0. PICK k \in [Children -> Nat] :
          Ring(k, next, prev, registered) /\ ScanAt(k) /\ ExhaustAt(k)
    BY DEF IInv, Listed
<1>1. /\ pc = "out" /\ ~latch /\ caller = "idle"
      /\ Happens("Sx", t) /\ slp' = t /\ asked' = t
      /\ UNCHANGED <<en, cmd, sci, list, pc, loop, outside>>
    BY DEF SleepRequest, Running
<1>2. "Sx" \in Sources /\ ~insmi
    BY <1>1 DEF Sources, IInv, Latched, Loop
<1>3. /\ "Sx" \in en /\ "Sx" \notin sts /\ sts' = sts \cup {"Sx"} /\ events' = events + 1
      /\ events < MaxEvents
      /\ insmi' = TRUE /\ latch' = TRUE
      /\ due' = due \cup {c \in registered : Wants(c, "Sx", t)}
      /\ Size(sts' \ {"Sw"}) <= Size(sts \ {"Sw"}) + 1
      /\ registered # {}
    BY <1>1, <1>2, HappensFacts
<1>4. Types'
    <2>1. events' \in 0 .. MaxEvents
        BY <1>3, Numbers
    <2>2. sts' \subseteq Sources /\ due' \subseteq registered
        BY <1>1, <1>2, <1>3 DEF IInv, Types
    <2> QED BY <1>1, <1>3, <2>1, <2>2 DEF IInv, Types, list, loop, outside
<1>5. Planned'
    BY <1>1 DEF IInv, Planned, list
<1>6. Covered'
    BY <1>1, <1>3 DEF IInv, Covered, list
<1>7. DueActive'
    BY <1>1, <1>3 DEF IInv, DueActive, Wants, ContextOf
<1>8. Calm' /\ Latched' /\ Bare'
    BY <1>1, <1>2, <1>3 DEF Calm, Latched, Bare, list, outside
<1>9. Request' /\ Answer'
    BY <1>1 DEF IInv, Request, Answer, outside
<1>10. Sleepy' /\ AtWork'
    BY <1>1, <1>3 DEF IInv, Sleepy, AsAsked, AtWork, loop, Loop
<1>11. Budget'
    <2>1. Size(sts \ {"Sw"}) \in 0 .. 4 /\ Size(sts' \ {"Sw"}) \in 0 .. 4
        BY SizeType
    <2>2. Size(sts' \ {"Sw"}) <= events'
        BY <1>3, <2>1, Numbers DEF IInv, Budget
    <2> QED BY <1>1, <2>2 DEF Budget
<1>12. Listed'
    <2>1. ScanAt(k)'
        BY <1>1 DEF ScanAt
    <2>2. ExhaustAt(k)'
        BY <1>0, <1>1, <1>3 DEF ExhaustAt, list, ContextOf, Wants
    <2> QED BY <1>0, <1>1, <2>1, <2>2 DEF Listed, list
<1> QED BY <1>4, <1>5, <1>6, <1>7, <1>8, <1>9, <1>10, <1>11, <1>12 DEF IInv

LEMMA WakeKeeps == ASSUME Platform, IInv, Wake PROVE IInv'
<1>0. PICK k \in [Children -> Nat] :
          Ring(k, next, prev, registered) /\ ScanAt(k) /\ ExhaustAt(k)
    BY DEF IInv, Listed
<1>1. /\ pc = "asleep" /\ pc' = "out" /\ sts \subseteq Async /\ "Sx" \notin sts
      /\ sts' = sts /\ en' = en \cup {"Sx"}
      /\ UNCHANGED <<cmd, sci, insmi, latch, list, loop, outside, events, due>>
    BY DEF Wake, IInv, Calm, Async
<1>2. Types'
    BY <1>1 DEF IInv, Types, list, loop, outside, Places, Loop, Sources
<1>3. Planned'
    BY <1>1 DEF IInv, Planned, list
<1>4. Covered'
    BY <1>1 DEF IInv, Covered, list
<1>5. DueActive'
    BY <1>1 DEF IInv, DueActive, Wants, ContextOf
<1>6. Calm' /\ Latched' /\ Bare'
    BY <1>1 DEF IInv, Calm, Latched, Bare, list, loop, outside, Loop
<1>7. Request' /\ Answer'
    BY <1>1 DEF IInv, Request, Answer, outside
<1>8. Sleepy' /\ AtWork' /\ Budget'
    BY <1>1 DEF IInv, Sleepy, AsAsked, AtWork, Budget, Need, loop, Loop
<1>9. Listed'
    <2>1. ScanAt(k)'
        BY <1>1 DEF ScanAt
    <2>2. ExhaustAt(k)'
        BY <1>0, <1>1 DEF ExhaustAt, list, ContextOf, Wants
    <2> QED BY <1>0, <1>1, <2>1, <2>2 DEF Listed, list
<1> QED BY <1>2, <1>3, <1>4, <1>5, <1>6, <1>7, <1>8, <1>9 DEF IInv

-----------------------------------------------------------------------------
(***************************************************************************)
(* The theorems.                                                           *)
(***************************************************************************)
LEMMA StutterKeeps == ASSUME IInv, UNCHANGED vars PROVE IInv'
<1>0. PICK k \in [Children -> Nat] :
          Ring(k, next, prev, registered) /\ ScanAt(k) /\ ExhaustAt(k)
    BY DEF IInv, Listed
<1>1. Types' /\ Planned' /\ Covered' /\ DueActive'
    BY DEF IInv, Types, Planned, Covered, DueActive, Wants, ContextOf,
           vars, hardware, list, loop, outside
<1>2. Calm' /\ Latched' /\ Bare' /\ Request' /\ Answer'
    BY DEF IInv, Calm, Latched, Bare, Request, Answer, vars, hardware, list, loop, outside
<1>3. Sleepy' /\ AtWork' /\ Budget'
    BY DEF IInv, Sleepy, AsAsked, AtWork, Budget, Need, vars, hardware, list, loop, outside
<1>4. Listed'
    BY <1>0 DEF Listed, ScanAt, ExhaustAt, Need, Wants, ContextOf,
                vars, hardware, list, loop, outside
<1> QED BY <1>1, <1>2, <1>3, <1>4 DEF IInv

LEMMA NextKeeps == ASSUME Platform, IInv, [Next]_vars PROVE IInv'
<1>1. CASE Dispatcher
    BY <1>1, DispatchKeeps, NextRoundKeeps, ScanOnKeeps, ScanEndsKeeps, FoundKeeps,
       ExhaustKeeps, ExhaustedKeeps, ClearKeeps, SetInActiveKeeps, GoToSleepKeeps
    DEF Dispatcher
<1>2. CASE Callback
    BY <1>2, NothingToDoKeeps, EnableAcpiKeeps, SciEnableKeeps, DisableAcpiKeeps,
       PowerButtonKeeps, S5Keeps, UnRegisterKeeps DEF Callback
<1>3. CASE Core
    BY <1>3, SmiKeeps, EntryKeeps, RegisterKeeps, HandledKeeps DEF Core
<1>4. CASE Caller
    BY <1>4, CommunicateKeeps, BufferSizeKeeps, TriggerKeeps, SmmClearKeeps DEF Caller
<1>5. CASE Hardware
    BY <1>5, EventKeeps, SwCommandKeeps, SleepRequestKeeps, WakeKeeps DEF Hardware
<1>6. CASE UNCHANGED vars
    BY <1>6, StutterKeeps
<1> QED BY <1>1, <1>2, <1>3, <1>4, <1>5, <1>6 DEF Next

LEMMA InitHolds == ASSUME Platform, Init PROVE IInv
<1>1. /\ en = {} /\ sts = {} /\ sci = FALSE /\ insmi = FALSE /\ latch = FALSE
      /\ next = [c \in Nodes |-> Base] /\ prev = next /\ plan \in Plans
      /\ registered = {} /\ pc = "out" /\ rounds = 0 /\ smiClear = FALSE /\ sx = FALSE
      /\ scan = Base /\ active = "Sw" /\ link = Base /\ who = Base
      /\ caller = "idle" /\ comm = "null" /\ events = 0 /\ due = {}
    BY DEF Init, Nodes
<1>2. plan \in Seq(Children) /\ Orderly(plan)
    BY <1>1, SmiAssumption DEF Platform
<1>3. 0 \in 0 .. EscapeCount /\ 0 \in 0 .. MaxEvents
    BY SmiAssumption
<1>4. Types
    BY <1>1, <1>2, <1>3 DEF Types, Nodes, Places, Loop, Sources
<1>5. Planned
    BY <1>1, <1>2 DEF Planned, Orderly
<1>6. Covered /\ DueActive /\ Calm /\ Latched /\ Bare
    BY <1>1 DEF Covered, DueActive, Calm, Latched, Bare
<1>7. Request /\ Answer /\ Sleepy /\ AtWork
    BY <1>1 DEF Request, Answer, Sleepy, AsAsked, AtWork, Loop
<1>8. Budget
    <2>1. Size(sts \ {"Sw"}) = 0
        BY <1>1 DEF Size
    <2> QED BY <1>1, <2>1 DEF Budget
<1>9. Listed
    <2>1. PICK k \in [Children -> Nat] : k = [c \in Children |-> 0]
        OBVIOUS
    <2>2. next[Base] = Base /\ prev[Base] = Base
        BY <1>1 DEF Nodes
    <2>3. Ring(k, next, prev, registered)
        BY <1>1, <2>2 DEF Ring
    <2>4. ScanAt(k) /\ ExhaustAt(k)
        BY <1>1 DEF ScanAt, ExhaustAt
    <2> QED BY <2>1, <2>3, <2>4 DEF Listed
<1> QED BY <1>4, <1>5, <1>6, <1>7, <1>8, <1>9 DEF IInv

LEMMA Invariance == ASSUME Platform PROVE Spec => []IInv
<1>1. Init => IInv
    BY InitHolds
<1>2. IInv /\ [Next]_vars => IInv'
    BY NextKeeps
<1> QED BY <1>1, <1>2, PTL DEF Spec

LEMMA IInvSmiInv == IInv => SmiInv
<1> SUFFICES ASSUME IInv PROVE SmiInv
    OBVIOUS
<1>1. TypeOK
    BY DEF IInv, Types, TypeOK, Nodes, Places, Loop
<1>2. NoneMissed
    BY DEF IInv, DueActive, NoneMissed
<1>3. Quiesced
    <2>1. pc = "round" /\ rounds = 0 => smiClear
        BY Numbers DEF IInv, Budget
    <2>2. pc = "out" /\ insmi => latch \/ caller = "clear"
        BY DEF IInv, Latched, Loop
    <2> QED BY <2>1, <2>2 DEF Quiesced
<1>4. SleepsAsAsked
    BY DEF IInv, DueActive, Calm, Sleepy, SleepsAsAsked, Async, Wants
<1> QED BY <1>1, <1>2, <1>3, <1>4 DEF SmiInv

(* The status of a source is not cleared before all of its children were    *)
(* called, SbSmmCoreDispatcher never gives up and leaves PMIO_INSMI so that *)
(* the next SMI comes, and the machine sleeps only as asked; for any        *)
(* children and plans of such a platform, and any events.                   *)
THEOREM NoneMissedNoneLast == ASSUME Platform PROVE Spec => []SmiInv
<1>1. Spec => []IInv
    BY Invariance
<1> QED BY <1>1, IInvSmiInv, PTL

(* SbSmmCoreDispatcher calls a child only for an event of its own that it   *)
(* was not called for, and never one that has been unregistered.            *)
THEOREM EachCalledOnce == ASSUME Platform PROVE Spec => CalledOnce
<1>1. Spec => []IInv
    BY Invariance
<1>2. IInv /\ [Next]_vars
          => [Exhaust /\ pc' = "callback" => who' \in due \cap registered]_vars
    <2> SUFFICES ASSUME IInv, Exhaust, pc' = "callback" PROVE who' \in due \cap registered
        OBVIOUS
    <2>1. pc = "exhaust" /\ link # Base
        BY DEF Exhaust
    <2>2. Wants(link, active, Context) /\ who' = link
        BY <2>1 DEF Exhaust
    <2> QED BY <2>1, <2>2, CalledIsDue
<1> QED BY <1>1, <1>2, PTL DEF Spec, CalledOnce

(* Communicate returns when its request was handled, once and with the size *)
(* that it set, where no SMI comes between the two stores that set it.      *)
THEOREM RequestsHandledOnce ==
    ASSUME Platform, ~Torn PROVE Spec => HandledOnce
<1>1. Spec => []IInv
    BY Invariance
<1>2. IInv /\ [Next]_vars
          => [caller = "clear" /\ caller' = "idle" => handled = << "own" >>]_vars
    <2> SUFFICES ASSUME IInv, Next, caller = "clear", caller' = "idle"
                 PROVE  handled = << "own" >>
        OBVIOUS
    <2>1. SmmClear
        BY DEF Next, Dispatcher, Callback, Core, Caller, Hardware, Dispatch, NextRound, ScanOn,
               ScanEnds, Found, Exhaust, Exhausted, SbSmmClearSource, SbSmiSetInActive,
               SbSmmSxGoToSleep, NothingToDo, EnableAcpiCallback, SciEnable,
               DisableAcpiCallback, PowerButtonCallback, S5SleepEntryCallBack,
               UnRegisterCallback, Smi, SmmEntryPoint, SbSmmCoreRegister,
               Handled, SmmCommunicationCommunicate, BufferSize, SmmTrigger, Event, SwCommand,
               SleepRequest, Wake, outside
    <2>2. comm = "null"
        BY <2>1, AtClear
    <2> QED BY <2>2 DEF IInv, Answer
<1> QED BY <1>1, <1>2, PTL DEF Spec, HandledOnce
=============================================================================

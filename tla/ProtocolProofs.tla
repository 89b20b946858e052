--------------------------- MODULE ProtocolProofs ---------------------------
(***************************************************************************)
(* Proofs about ProtocolDatabase: one manager of an interface, nobody      *)
(* missed, no interface removed under its users, and the promise of        *)
(* RegisterProtocolNotify, for any handles, drivers and nesting of         *)
(* services.                                                               *)
(***************************************************************************)
EXTENDS ProtocolDatabase, FiniteSetTheorems, EventListProofs

-----------------------------------------------------------------------------
(***************************************************************************)
(* Positions in a list of handles                                          *)
(***************************************************************************)
\* How many handles a registration at position x has been told of.
Place(l, x) == IF x = None THEN 0 ELSE CHOOSE i \in DOMAIN l : l[i] = x

\* The handles behind it
Rest(l, x) == SubSeq(l, Place(l, x) + 1, Len(l))

GoodList(l) == l \in Seq(Handles) /\ IsInjective(l)
IsPosition(x, l) == x = None \/ x \in ToSet(l)

LEMMA NoneIsNoHandle == None \notin Handles
BY ProtocolAssumption

LEMMA BehindIsRest ==
    ASSUME NEW x
    PROVE  Behind(x) = Rest(list, x) /\ (x # None => Index(x) = Place(list, x))
BY DEF Behind, Rest, Place, Index

LEMMA PlaceOf ==
    ASSUME NEW l, GoodList(l), NEW x, IsPosition(x, l)
    PROVE  /\ Place(l, x) \in 0 .. Len(l)
           /\ x = None => Place(l, x) = 0
           /\ x # None => Place(l, x) \in 1 .. Len(l) /\ l[Place(l, x)] = x
<1>1. Len(l) \in Nat
    BY DEF GoodList
<1>2. CASE x = None
    BY <1>1, <1>2 DEF Place
<1>3. CASE x # None
    <2>1. \E i \in DOMAIN l : l[i] = x
        BY <1>3 DEF IsPosition, ToSet
    <2>2. Place(l, x) \in DOMAIN l /\ l[Place(l, x)] = x
        BY <1>3, <2>1 DEF Place
    <2> QED BY <1>1, <1>3, <2>2 DEF GoodList
<1> QED BY <1>2, <1>3

LEMMA PlaceIs ==
    ASSUME NEW l, GoodList(l), NEW i \in 1 .. Len(l)
    PROVE  Place(l, l[i]) = i /\ l[i] \in Handles /\ l[i] # None /\ l[i] \in ToSet(l)
<1>1. l[i] \in Handles /\ l[i] # None /\ l[i] \in ToSet(l)
    BY NoneIsNoHandle, ElementOfSeq DEF GoodList, ToSet
<1>2. l[Place(l, l[i])] = l[i] /\ Place(l, l[i]) \in 1 .. Len(l)
    BY <1>1, PlaceOf DEF IsPosition
<1>3. Place(l, l[i]) = i
    BY <1>2 DEF GoodList, IsInjective
<1> QED BY <1>1, <1>3

LEMMA RestIs ==
    ASSUME NEW l, GoodList(l), NEW x, IsPosition(x, l)
    PROVE  /\ Rest(l, x) \in Seq(Handles)
           /\ Len(Rest(l, x)) = Len(l) - Place(l, x)
           /\ \A i \in 1 .. Len(l) - Place(l, x) :
                 Rest(l, x)[i] = l[Place(l, x) + i]
           /\ Rest(l, x) # << >> <=> Place(l, x) < Len(l)
<1> DEFINE p == Place(l, x)
<1>1. p \in 0 .. Len(l) /\ Len(l) \in Nat
    BY PlaceOf DEF GoodList
<1> HIDE DEF p
<1>2. \A i \in p + 1 .. Len(l) : l[i] \in Handles
    BY <1>1, ElementOfSeq DEF GoodList
<1>3. /\ SubSeq(l, p + 1, Len(l)) \in Seq(Handles)
      /\ Len(SubSeq(l, p + 1, Len(l))) =
            IF p + 1 <= Len(l) THEN Len(l) - (p + 1) + 1 ELSE 0
      /\ \A i \in 1 .. Len(l) - (p + 1) + 1 :
            SubSeq(l, p + 1, Len(l))[i] = l[p + 1 + i - 1]
    BY <1>1, <1>2, SubSeqProperties
<1>4. /\ Len(SubSeq(l, p + 1, Len(l))) = Len(l) - p
      /\ \A i \in 1 .. Len(l) - p : SubSeq(l, p + 1, Len(l))[i] = l[p + i]
    BY <1>1, <1>3
<1> DEFINE q == SubSeq(l, p + 1, Len(l))
<1> HIDE DEF q
<1>5. q # << >> <=> p < Len(l)
    <2>1. q \in Seq(Handles) /\ Len(q) = Len(l) - p
        BY <1>3, <1>4 DEF q
    <2>2. q = << >> <=> Len(q) = 0
        BY <2>1, EmptySeq
    <2> QED BY <1>1, <2>1, <2>2
<1> QED BY <1>3, <1>4, <1>5 DEF Rest, p, q

LEMMA UnlinkPlaces ==
    ASSUME NEW l, GoodList(l), NEW h \in ToSet(l)
    PROVE  /\ GoodList(Unlink(l, h)) /\ Len(Unlink(l, h)) = Len(l) - 1
           /\ ToSet(Unlink(l, h)) = ToSet(l) \ {h}
           /\ \A i \in 1 .. Len(l) - 1 :
                 Unlink(l, h)[i] = IF i < Place(l, h) THEN l[i] ELSE l[i + 1]
<1> DEFINE m == Unlink(l, h)
<1>1. PICK k \in 1 .. Len(l) :
          /\ l[k] = h
          /\ m \in Seq(Handles)
          /\ Len(m) = Len(l) - 1
          /\ \A i \in 1 .. Len(l) - 1 : m[i] = IF i < k THEN l[i] ELSE l[i + 1]
    BY UnlinkEntry DEF GoodList
<1>2. Place(l, h) = k
    BY <1>1, PlaceIs
<1>3. m \in Seq(Handles) /\ IsInjective(m) /\ ToSet(m) = ToSet(l) \ {h}
    BY UnlinkInjective DEF GoodList
<1> HIDE DEF m
<1> QED BY <1>1, <1>2, <1>3 DEF GoodList, m

LEMMA AppendPlaces ==
    ASSUME NEW l, GoodList(l), NEW h \in Handles, h \notin ToSet(l)
    PROVE  /\ GoodList(Append(l, h)) /\ Len(Append(l, h)) = Len(l) + 1
           /\ ToSet(Append(l, h)) = ToSet(l) \cup {h}
           /\ \A i \in 1 .. Len(l) : Append(l, h)[i] = l[i]
           /\ Append(l, h)[Len(l) + 1] = h
           /\ \A x : IsPosition(x, l) =>
                 IsPosition(x, Append(l, h)) /\ Place(Append(l, h), x) = Place(l, x)
<1> DEFINE m == Append(l, h)
<1>1. /\ m \in Seq(Handles) /\ Len(m) = Len(l) + 1 /\ Len(l) \in Nat
      /\ \A i \in 1 .. Len(l) : m[i] = l[i]
      /\ m[Len(l) + 1] = h
    BY AppendProperties DEF GoodList
<1> HIDE DEF m
<1>2. \A i \in 1 .. Len(l) : l[i] # h
    BY DEF ToSet
<1>3. GoodList(m)
    <2> SUFFICES ASSUME NEW i \in 1 .. Len(l) + 1, NEW j \in 1 .. Len(l) + 1,
                        m[i] = m[j]
                 PROVE  i = j
        BY <1>1 DEF GoodList, IsInjective
    <2>1. CASE i \in 1 .. Len(l) /\ j \in 1 .. Len(l)
        BY <1>1, <2>1 DEF GoodList, IsInjective
    <2>2. CASE i = Len(l) + 1 \/ j = Len(l) + 1
        BY <1>1, <1>2, <2>2
    <2> QED BY <1>1, <2>1, <2>2
<1>4. ToSet(m) = ToSet(l) \cup {h}
    <2>1. ASSUME NEW x \in ToSet(m) PROVE x \in ToSet(l) \cup {h}
        <3>1. PICK i \in 1 .. Len(l) + 1 : x = m[i]
            BY <1>1, <2>1 DEF ToSet
        <3>2. CASE i = Len(l) + 1
            BY <1>1, <3>1, <3>2
        <3>3. CASE i \in 1 .. Len(l)
            BY <1>1, <3>1, <3>3 DEF ToSet
        <3> QED BY <1>1, <3>2, <3>3
    <2>2. ASSUME NEW x \in ToSet(l) \cup {h} PROVE x \in ToSet(m)
        <3>1. CASE x = h
            <4>1. Len(l) + 1 \in DOMAIN m
                BY <1>1
            <4> QED BY <1>1, <3>1, <4>1 DEF ToSet
        <3>2. CASE x \in ToSet(l)
            <4>1. PICK i \in 1 .. Len(l) : x = l[i]
                BY <3>2 DEF ToSet
            <4>2. i \in DOMAIN m /\ m[i] = x
                BY <1>1, <4>1
            <4> QED BY <4>2 DEF ToSet
        <3> QED BY <3>1, <3>2
    <2> QED BY <2>1, <2>2
<1>5. ASSUME NEW x, IsPosition(x, l)
      PROVE  IsPosition(x, m) /\ Place(m, x) = Place(l, x)
    <2>1. CASE x = None
        BY <2>1 DEF IsPosition, Place
    <2>2. CASE x # None
        <3>1. Place(l, x) \in 1 .. Len(l) /\ l[Place(l, x)] = x
            BY <1>5, <2>2, PlaceOf
        <3>2. Place(l, x) \in 1 .. Len(m) /\ m[Place(l, x)] = x
            BY <1>1, <3>1
        <3> QED BY <1>3, <3>2, PlaceIs DEF IsPosition
    <2> QED BY <2>1, <2>2
<1> QED BY <1>1, <1>3, <1>4, <1>5 DEF m

\* What CoreRemoveInterfaceFromProtocol makes of a position when it unlinks h.
BackedUp(l, x, h) ==
    IF x # h THEN x
    ELSE IF Place(l, h) = 1 THEN None ELSE l[Place(l, h) - 1]

LEMMA BackUpPlaces ==
    ASSUME NEW l, GoodList(l), NEW h \in ToSet(l), NEW x, IsPosition(x, l)
    PROVE  /\ IsPosition(BackedUp(l, x, h), Unlink(l, h))
           /\ Place(Unlink(l, h), BackedUp(l, x, h)) =
                 IF Place(l, x) < Place(l, h) THEN Place(l, x) ELSE Place(l, x) - 1
<1> DEFINE m == Unlink(l, h)
           k == Place(l, h)
           p == Place(l, x)
           y == BackedUp(l, x, h)
<1>1. k \in 1 .. Len(l) /\ l[k] = h /\ Len(l) \in Nat /\ h # None /\ h \in Handles
    <2>1. PICK i \in 1 .. Len(l) : h = l[i]
        BY DEF ToSet
    <2> QED BY <2>1, PlaceIs DEF GoodList
<1>2. /\ GoodList(m) /\ Len(m) = Len(l) - 1
      /\ \A i \in 1 .. Len(l) - 1 : m[i] = IF i < k THEN l[i] ELSE l[i + 1]
    BY UnlinkPlaces
<1>3. CASE x = None
    <2>1. p = 0 /\ y = None /\ Place(m, None) = 0
        BY <1>1, <1>3 DEF BackedUp, Place
    <2> HIDE DEF k, p, y
    <2> QED BY <1>1, <2>1 DEF IsPosition, k, p, y
<1>4. CASE x = h
    <2>1. p = k /\ y = IF k = 1 THEN None ELSE l[k - 1]
        BY <1>4 DEF BackedUp
    <2>2. CASE k = 1
        <3>1. y = None /\ Place(m, None) = 0
            BY <2>1, <2>2 DEF Place
        <3> HIDE DEF k, p, y
        <3> QED BY <2>1, <2>2, <3>1 DEF IsPosition, k, p, y
    <2>3. CASE k # 1
        <3> HIDE DEF k, p, y, m
        <3>1. k - 1 \in 1 .. Len(m) /\ m[k - 1] = l[k - 1] /\ y = l[k - 1]
            BY <1>1, <1>2, <2>1, <2>3
        <3>2. Place(m, y) = k - 1 /\ y \in ToSet(m)
            BY <1>2, <3>1, PlaceIs
        <3> QED BY <1>1, <2>1, <3>2 DEF IsPosition, k, p, y, m
    <2> QED BY <2>2, <2>3
<1>5. CASE x # None /\ x # h
    <2>1. p \in 1 .. Len(l) /\ l[p] = x /\ y = x
        BY <1>5, PlaceOf DEF BackedUp
    <2> HIDE DEF k, p, y, m
    <2>2. p # k
        BY <1>1, <1>5, <2>1
    <2>3. CASE p < k
        <3>1. p \in 1 .. Len(m) /\ m[p] = y
            BY <1>1, <1>2, <2>1, <2>3
        <3>2. Place(m, y) = p /\ y \in ToSet(m)
            BY <1>2, <3>1, PlaceIs
        <3> QED BY <2>3, <3>2 DEF IsPosition, k, p, y, m
    <2>4. CASE p > k
        <3>1. p - 1 \in 1 .. Len(m) /\ m[p - 1] = y
            BY <1>1, <1>2, <2>1, <2>4
        <3>2. Place(m, y) = p - 1 /\ y \in ToSet(m)
            BY <1>2, <3>1, PlaceIs
        <3>3. ~(p < k)
            BY <1>1, <2>1, <2>4
        <3> QED BY <3>2, <3>3 DEF IsPosition, k, p, y, m
    <2> QED BY <1>1, <2>1, <2>2, <2>3, <2>4
<1> QED BY <1>3, <1>4, <1>5

-----------------------------------------------------------------------------
(***************************************************************************)
(* The handles behind a position                                           *)
(***************************************************************************)
LEMMA RestGood ==
    ASSUME NEW l, GoodList(l), NEW x, IsPosition(x, l)
    PROVE  GoodList(Rest(l, x))
<1> DEFINE p == Place(l, x)
           q == Rest(l, x)
<1>1. p \in 0 .. Len(l) /\ Len(l) \in Nat
    BY PlaceOf DEF GoodList
<1>2. /\ q \in Seq(Handles) /\ Len(q) = Len(l) - p
      /\ \A i \in 1 .. Len(l) - p : q[i] = l[p + i]
    BY RestIs
<1> HIDE DEF p, q
<1>3. ASSUME NEW i \in 1 .. Len(q), NEW j \in 1 .. Len(q), q[i] = q[j]
      PROVE  i = j
    <2>1. p + i \in 1 .. Len(l) /\ p + j \in 1 .. Len(l) /\ l[p + i] = l[p + j]
        BY <1>1, <1>2, <1>3
    <2>2. p + i = p + j
        BY <2>1 DEF GoodList, IsInjective
    <2> QED BY <1>1, <2>2
<1>4. DOMAIN q = 1 .. Len(q)
    BY <1>2
<1> QED BY <1>2, <1>3, <1>4 DEF GoodList, IsInjective, q

\* An interface that is installed comes last for every registration.
LEMMA AppendRest ==
    ASSUME NEW l, GoodList(l), NEW h \in Handles, h \notin ToSet(l),
           NEW x, IsPosition(x, l)
    PROVE  /\ Rest(Append(l, h), x) = Append(Rest(l, x), h)
           /\ h \notin ToSet(Rest(l, x))
<1> DEFINE p == Place(l, x)
           q == Rest(l, x)
           m == Append(l, h)
<1>1. p \in 0 .. Len(l) /\ Len(l) \in Nat
    BY PlaceOf DEF GoodList
<1>2. /\ q \in Seq(Handles) /\ Len(q) = Len(l) - p
      /\ \A i \in 1 .. Len(l) - p : q[i] = l[p + i]
    BY RestIs
<1>3. /\ GoodList(m) /\ Len(m) = Len(l) + 1 /\ IsPosition(x, m) /\ Place(m, x) = p
      /\ \A i \in 1 .. Len(l) : m[i] = l[i]
      /\ m[Len(l) + 1] = h
    BY AppendPlaces
<1>4. /\ Rest(m, x) \in Seq(Handles) /\ Len(Rest(m, x)) = Len(m) - p
      /\ \A i \in 1 .. Len(m) - p : Rest(m, x)[i] = m[p + i]
    <2> HIDE DEF m, p
    <2> QED BY <1>3, RestIs
<1>5. /\ Append(q, h) \in Seq(Handles) /\ Len(Append(q, h)) = Len(q) + 1
      /\ \A i \in 1 .. Len(q) : Append(q, h)[i] = q[i]
      /\ Append(q, h)[Len(q) + 1] = h
    BY <1>2, AppendProperties
<1>6. h \notin ToSet(q)
    <2> SUFFICES ASSUME h \in ToSet(q) PROVE FALSE
        OBVIOUS
    <2>1. PICK i \in 1 .. Len(q) : q[i] = h
        BY <1>2 DEF ToSet
    <2> HIDE DEF p, q
    <2>2. p + i \in 1 .. Len(l) /\ l[p + i] = h
        BY <1>1, <1>2, <2>1
    <2> QED BY <2>2, PlaceIs
<1> DEFINE u == Rest(m, x)
           v == Append(q, h)
<1>7. Len(u) = Len(v) /\ \A i \in 1 .. Len(u) : u[i] = v[i]
    <2>1. /\ Len(u) = Len(m) - p /\ Len(v) = Len(q) + 1
          /\ \A i \in 1 .. Len(m) - p : u[i] = m[p + i]
          /\ \A i \in 1 .. Len(q) : v[i] = q[i]
          /\ v[Len(q) + 1] = h
        BY <1>4, <1>5
    <2> HIDE DEF p, q, m, u, v
    <2>2. /\ Len(u) = Len(l) + 1 - p /\ Len(v) = Len(l) - p + 1
          /\ \A i \in 1 .. Len(l) + 1 - p : u[i] = m[p + i]
          /\ \A i \in 1 .. Len(l) - p : v[i] = q[i]
          /\ v[Len(l) - p + 1] = h
        BY <1>1, <1>2, <1>3, <2>1
    <2>3. Len(u) = Len(v)
        BY <1>1, <2>2
    <2>4. ASSUME NEW i \in 1 .. Len(u) PROVE u[i] = v[i]
        <3>1. CASE i = Len(l) + 1 - p
            <4>1. p + i = Len(l) + 1 /\ i = Len(l) - p + 1
                BY <1>1, <3>1
            <4>2. u[i] = m[Len(l) + 1]
                BY <2>2, <4>1
            <4> QED BY <1>3, <2>2, <4>1, <4>2
        <3>2. CASE i # Len(l) + 1 - p
            <4>1. /\ i \in 1 .. Len(l) - p /\ i \in 1 .. Len(l) + 1 - p
                  /\ p + i \in 1 .. Len(l)
                BY <1>1, <2>2, <3>2
            <4>2. u[i] = l[p + i] /\ v[i] = q[i]
                BY <1>3, <2>2, <4>1
            <4> QED BY <1>2, <4>1, <4>2
        <3> QED BY <3>1, <3>2
    <2> QED BY <2>3, <2>4
<1>8. u = v
    <2>1. u \in Seq(Handles) /\ v \in Seq(Handles)
        BY <1>4, <1>5
    <2> HIDE DEF u, v
    <2> QED BY <1>7, <2>1, SeqEqual
<1> QED BY <1>6, <1>8

\* The next interface is passed.
LEMMA TailRest ==
    ASSUME NEW l, GoodList(l), NEW x, IsPosition(x, l), Rest(l, x) # << >>
    PROVE  /\ Head(Rest(l, x)) \in Handles /\ Head(Rest(l, x)) \in ToSet(l)
           /\ Rest(l, Head(Rest(l, x))) = Tail(Rest(l, x))
<1> DEFINE p == Place(l, x)
           q == Rest(l, x)
           y == Head(q)
<1>1. p \in 0 .. Len(l) - 1 /\ Len(l) \in Nat
    BY PlaceOf, RestIs DEF GoodList
<1>2. /\ q \in Seq(Handles) /\ Len(q) = Len(l) - p
      /\ \A i \in 1 .. Len(l) - p : q[i] = l[p + i]
    BY RestIs
<1>3. y = l[p + 1]
    <2>1. y = q[1]
        OBVIOUS
    <2> HIDE DEF p, q, y
    <2> QED BY <1>1, <1>2, <2>1
<1>4. y \in Handles /\ y \in ToSet(l) /\ Place(l, y) = p + 1
    <2> HIDE DEF p, q, y
    <2>1. p + 1 \in 1 .. Len(l)
        BY <1>1
    <2> QED BY <1>3, <2>1, PlaceIs
<1> DEFINE u == Rest(l, y)
           v == Tail(q)
<1>5. /\ u \in Seq(Handles) /\ Len(u) = Len(l) - (p + 1)
      /\ \A i \in 1 .. Len(l) - (p + 1) : u[i] = l[p + 1 + i]
    <2>1. IsPosition(y, l)
        BY <1>4 DEF IsPosition
    <2> HIDE DEF p, q, y
    <2> QED BY <1>4, <2>1, RestIs
<1>6. /\ v \in Seq(Handles) /\ Len(v) = Len(q) - 1
      /\ \A i \in 1 .. Len(v) : v[i] = q[i + 1]
    BY <1>2, HeadTailProperties
<1>7. u = v
    <2> HIDE DEF p, q, y, u, v
    <2>1. Len(u) = Len(v)
        BY <1>1, <1>2, <1>5, <1>6
    <2>2. ASSUME NEW i \in 1 .. Len(u) PROVE u[i] = v[i]
        BY <1>1, <1>2, <1>5, <1>6
    <2> QED BY <1>5, <1>6, <2>1, <2>2, SeqEqual
<1> QED BY <1>4, <1>7

\* An interface that is removed goes from what each registration has yet to see,
\* and nothing else does: this is why a position on it is backed up.
LEMMA UnlinkRest ==
    ASSUME NEW l, GoodList(l), NEW h \in ToSet(l), NEW x, IsPosition(x, l)
    PROVE  Rest(Unlink(l, h), BackedUp(l, x, h)) = Unlink(Rest(l, x), h)
<1> DEFINE m == Unlink(l, h)
           y == BackedUp(l, x, h)
           p == Place(l, x)
           k == Place(l, h)
           q == Rest(l, x)
           u == Rest(m, y)
           v == Unlink(q, h)
           n == IF p < k THEN p ELSE p - 1
<1>1. p \in 0 .. Len(l) /\ k \in 1 .. Len(l) /\ l[k] = h /\ Len(l) \in Nat
    <2>1. PICK i \in 1 .. Len(l) : h = l[i]
        BY DEF ToSet
    <2> QED BY <2>1, PlaceIs, PlaceOf DEF GoodList
<1>2. /\ GoodList(m) /\ Len(m) = Len(l) - 1
      /\ \A i \in 1 .. Len(l) - 1 : m[i] = IF i < k THEN l[i] ELSE l[i + 1]
    BY UnlinkPlaces
<1>3. IsPosition(y, m) /\ Place(m, y) = n
    BY BackUpPlaces
<1>4. /\ GoodList(q) /\ q \in Seq(Handles) /\ Len(q) = Len(l) - p
      /\ \A i \in 1 .. Len(l) - p : q[i] = l[p + i]
    BY RestIs, RestGood
<1>5. /\ u \in Seq(Handles) /\ Len(u) = Len(m) - n
      /\ \A i \in 1 .. Len(m) - n : u[i] = m[n + i]
    <2> HIDE DEF m, y, n
    <2> QED BY <1>2, <1>3, RestIs
<1>6. CASE p < k
    <2>1. /\ Len(u) = Len(l) - 1 - p
          /\ \A i \in 1 .. Len(l) - 1 - p : u[i] = m[p + i]
        BY <1>2, <1>5, <1>6
    <2> HIDE DEF m, y, n, u, p, k, q
    <2>2. k - p \in 1 .. Len(q) /\ q[k - p] = h
        BY <1>1, <1>4, <1>6
    <2>3. Place(q, h) = k - p /\ h \in ToSet(q)
        BY <1>4, <2>2, PlaceIs
    <2>4. /\ GoodList(v) /\ Len(v) = Len(q) - 1
          /\ \A i \in 1 .. Len(q) - 1 : v[i] = IF i < k - p THEN q[i] ELSE q[i + 1]
        BY <1>4, <2>3, UnlinkPlaces
    <2> HIDE DEF v
    <2>5. Len(u) = Len(v)
        BY <1>1, <1>4, <2>1, <2>4
    <2>6. ASSUME NEW i \in 1 .. Len(u) PROVE u[i] = v[i]
        <3>1. p + i \in 1 .. Len(l) - 1 /\ i \in 1 .. Len(q) - 1
            BY <1>1, <1>4, <2>1
        <3>2. u[i] = IF p + i < k THEN l[p + i] ELSE l[p + i + 1]
            BY <1>2, <2>1, <3>1
        <3>3. v[i] = IF i < k - p THEN l[p + i] ELSE l[p + i + 1]
            BY <1>1, <1>4, <2>4, <3>1
        <3> QED BY <1>1, <3>1, <3>2, <3>3
    <2>7. u \in Seq(Handles) /\ v \in Seq(Handles)
        BY <1>5, <2>4 DEF GoodList
    <2> QED BY <2>5, <2>6, <2>7, SeqEqual DEF m, y, u, q, v
<1>7. CASE ~(p < k)
    <2>1. Len(u) = Len(l) - p /\ \A i \in 1 .. Len(l) - p : u[i] = m[p - 1 + i]
        BY <1>1, <1>2, <1>5, <1>7
    <2> HIDE DEF m, y, n, u, p, k, q
    <2>2. h \notin ToSet(q)
        <3> SUFFICES ASSUME h \in ToSet(q) PROVE FALSE
            OBVIOUS
        <3>1. PICK i \in 1 .. Len(q) : q[i] = h
            BY <1>4 DEF ToSet
        <3>2. p + i \in 1 .. Len(l) /\ l[p + i] = l[k] /\ p + i # k
            BY <1>1, <1>4, <1>7, <3>1
        <3> QED BY <1>1, <3>2 DEF GoodList, IsInjective
    <2>3. v = q
        BY <2>2 DEF Unlink
    <2>4. \A i \in 1 .. Len(u) : u[i] = q[i]
        BY <1>1, <1>2, <1>4, <1>7, <2>1
    <2>5. u = q
        BY <1>4, <1>5, <2>1, <2>4, SeqEqual
    <2> QED BY <2>3, <2>5 DEF m, y, u, q
<1> QED BY <1>6, <1>7

-----------------------------------------------------------------------------
(***************************************************************************)
(* Stacks                                                                  *)
(***************************************************************************)
LEMMA Pushed ==
    ASSUME NEW T, NEW s \in Seq(T), NEW f \in T
    PROVE  /\ Append(s, f) \in Seq(T) /\ Len(Append(s, f)) = Len(s) + 1
           /\ Len(s) \in Nat
           /\ \A i \in 1 .. Len(s) : Append(s, f)[i] = s[i]
           /\ Append(s, f)[Len(s) + 1] = f
           /\ ToSet(Append(s, f)) = ToSet(s) \cup {f}
<1> DEFINE m == Append(s, f)
<1>1. /\ m \in Seq(T) /\ Len(m) = Len(s) + 1 /\ Len(s) \in Nat
      /\ \A i \in 1 .. Len(s) : m[i] = s[i]
      /\ m[Len(s) + 1] = f
    BY AppendProperties
<1> HIDE DEF m
<1>2. ASSUME NEW x \in ToSet(m) PROVE x \in ToSet(s) \cup {f}
    <2>1. PICK i \in 1 .. Len(s) + 1 : x = m[i]
        BY <1>1, <1>2 DEF ToSet
    <2>2. CASE i = Len(s) + 1
        BY <1>1, <2>1, <2>2
    <2>3. CASE i \in 1 .. Len(s)
        BY <1>1, <2>1, <2>3 DEF ToSet
    <2> QED BY <1>1, <2>2, <2>3
<1>3. ASSUME NEW x \in ToSet(s) PROVE x \in ToSet(m)
    <2>1. PICK i \in 1 .. Len(s) : x = s[i]
        BY <1>3 DEF ToSet
    <2>2. i \in DOMAIN m /\ m[i] = x
        BY <1>1, <2>1
    <2> QED BY <2>2 DEF ToSet
<1>4. f \in ToSet(m)
    <2>1. Len(s) + 1 \in DOMAIN m
        BY <1>1
    <2> QED BY <1>1, <2>1 DEF ToSet
<1> QED BY <1>1, <1>2, <1>3, <1>4 DEF m

LEMMA Popped ==
    ASSUME NEW T, NEW s \in Seq(T), s # << >>
    PROVE  /\ Len(s) \in Nat \ {0} /\ Last(s) = s[Len(s)] /\ Last(s) \in ToSet(s)
           /\ Last(s) \in T
           /\ Front(s) \in Seq(T) /\ Len(Front(s)) = Len(s) - 1
           /\ \A i \in 1 .. Len(s) - 1 : Front(s)[i] = s[i]
           /\ ToSet(s) = ToSet(Front(s)) \cup {Last(s)}
<1>1. Len(s) \in Nat /\ Len(s) # 0
    BY EmptySeq
<1> DEFINE m == Front(s)
           n == Len(s) - 1
<1>2. n \in Nat /\ m = SubSeq(s, 1, n)
    BY <1>1 DEF Front
<1>3. \A i \in 1 .. n : s[i] \in T
    BY <1>1, ElementOfSeq
<1>4. /\ m \in Seq(T) /\ Len(m) = n /\ \A i \in 1 .. n : m[i] = s[i]
    <2> HIDE DEF m, n
    <2> QED BY <1>2, <1>3, SubSeqProperties
<1>5. Last(s) = s[Len(s)]
    BY DEF Last
<1>6. Last(s) \in ToSet(s) /\ Last(s) \in T
    BY <1>1, <1>5, ElementOfSeq DEF ToSet
<1> HIDE DEF m
<1>7. ASSUME NEW x \in ToSet(s), x # Last(s) PROVE x \in ToSet(m)
    <2>1. PICK i \in 1 .. Len(s) : x = s[i]
        BY <1>7 DEF ToSet
    <2>2. i \in 1 .. n
        BY <1>1, <1>5, <1>7, <2>1
    <2>3. i \in DOMAIN m /\ m[i] = x
        BY <1>4, <2>1, <2>2
    <2> QED BY <2>3 DEF ToSet
<1>8. ASSUME NEW x \in ToSet(m) PROVE x \in ToSet(s)
    <2>1. PICK i \in 1 .. n : x = m[i]
        BY <1>4, <1>8 DEF ToSet
    <2>2. i \in DOMAIN s /\ s[i] = x
        BY <1>1, <1>4, <2>1
    <2> QED BY <2>2 DEF ToSet
<1> QED BY <1>1, <1>4, <1>5, <1>6, <1>7, <1>8 DEF m

-----------------------------------------------------------------------------
(***************************************************************************)
(* The inductive invariant.                                                *)
(***************************************************************************)
FrameType ==
    [do : Stopping \cup {"disconnect", "connect", "denied", "notification"},
     h : Handles \cup {None}, agent : Drivers \cup Apps \cup Regs \cup {None},
     how : Hows, stop : Drivers \cup Apps \cup {None}, left : SUBSET Drivers,
     at : {"lock", "stop", "connect"}]

\* It stops the drivers of its handle, and nobody touches that one meanwhile.
Active(f) == f.do \in Stopping /\ f.at # "connect"

GoodFrame(f) ==
    /\ f.do # "notification" => f.h \in Handles
    /\ f.do = "notification" => f.agent \in Regs /\ f.at = "lock"
    /\ f.do \in {"connect", "denied"} => f.at = "connect"
    /\ f.do = "disconnect" => f.at = "stop"
    /\ f.do \in {"open", "uninstall"} => f.at # "connect"
    /\ f.do = "open" => /\ f.agent \in Drivers \cup Apps
                        /\ f.how \in {"exclusive", "driver exclusive"}

\* Only a driver that is started can get on top of another service on its handle.
MayBeOn(f, fs) ==
    Active(f) => \A g \in ToSet(fs) : Active(g) /\ g.h = f.h =>
       f.do = "open" /\ f.how = "driver exclusive"

Nested(fs) ==
    \A i, j \in 1 .. Len(fs) :
       i < j /\ Active(fs[i]) /\ Active(fs[j]) /\ fs[i].h = fs[j].h =>
          fs[j].do = "open" /\ fs[j].how = "driver exclusive"

GoodStack(fs) ==
    /\ fs \in Seq(FrameType)
    /\ \A f \in ToSet(fs) : GoodFrame(f)
    /\ Nested(fs)

\* The interface is still there, and no application has opened it exclusively, where
\* drivers are stopped to open it.
Held ==
    \A f \in ToSet(frames) : Active(f) =>
       /\ Installed(f.h)
       /\ f.do = "open" => \A e \in openList[f.h] : e.how # "exclusive"

\* An agent that manages an interface is the only one, and the interface is there.
Managers ==
    \A h \in Handles : \A e \in openList[h] : e.how # "get" =>
       /\ Installed(h)
       /\ \A f \in openList[h] : f.how # "get" => e = f

\* A frame that will tell the registration r
Tells(f, r) ==
    \/ f.do = "notification" /\ f.agent = r
    \/ f.do = "reinstall" /\ f.at = "connect"

Told ==
    \A r \in registered : Rest(list, position[r]) # << >> =>
       r \in signaled \/ \E f \in ToSet(frames) : Tells(f, r)

Positions ==
    /\ GoodList(list)
    /\ position \in [Regs -> Handles \cup {None}]
    /\ \A r \in Regs : IsPosition(position[r], list)

Entries == [agent : Drivers \cup Apps \cup {None}, how : Hows]
OpenLists == [Handles -> SUBSET Entries]

Types ==
    /\ version \in [Handles -> 0 .. 1] /\ openList \in OpenLists
    /\ registered \subseteq Regs /\ signaled \subseteq registered
    /\ calls \in 0 .. MaxCalls

IInv == Types /\ Positions /\ GoodStack(frames) /\ Held /\ Managers /\ Told

LEMMA PushGood ==
    ASSUME NEW fs, GoodStack(fs), NEW f \in FrameType, GoodFrame(f),
           MayBeOn(f, fs)
    PROVE  GoodStack(Append(fs, f)) /\ ToSet(Append(fs, f)) = ToSet(fs) \cup {f}
<1> DEFINE m == Append(fs, f)
<1>1. /\ fs \in Seq(FrameType)
      /\ m \in Seq(FrameType) /\ Len(m) = Len(fs) + 1 /\ Len(fs) \in Nat
      /\ \A i \in 1 .. Len(fs) : m[i] = fs[i]
      /\ m[Len(fs) + 1] = f
      /\ ToSet(m) = ToSet(fs) \cup {f}
    <2>1. fs \in Seq(FrameType)
        BY DEF GoodStack
    <2>2. /\ m \in Seq(FrameType)
          /\ ToSet(m) = ToSet(fs) \cup {f}
        BY <2>1, Pushed
    <2>3. Len(m) = Len(fs) + 1 /\ Len(fs) \in Nat
        BY <2>1, Pushed
    <2>4. m[Len(fs) + 1] = f
        BY <2>1, Pushed
    <2>5. \A i \in 1 .. Len(fs) : m[i] = fs[i]
        BY <2>1, Pushed
    <2> QED BY <2>1, <2>2, <2>3, <2>4, <2>5
<1> HIDE DEF m
<1>2. \A g \in ToSet(m) : GoodFrame(g)
    BY <1>1 DEF GoodStack
<1>3. Nested(m)
    <2> SUFFICES ASSUME NEW i \in 1 .. Len(m), NEW j \in 1 .. Len(m), i < j,
                        Active(m[i]), Active(m[j]), m[i].h = m[j].h
                 PROVE  m[j].do = "open" /\ m[j].how = "driver exclusive"
        BY DEF Nested
    <2>0. DOMAIN fs = 1 .. Len(fs) /\ i \in 1 .. Len(fs)
        BY <1>1
    <2>1. i \in 1 .. Len(fs) /\ m[i] = fs[i] /\ fs[i] \in ToSet(fs)
        BY <1>1, <2>0 DEF ToSet
    <2>2. CASE j = Len(fs) + 1
        BY <1>1, <2>1, <2>2 DEF MayBeOn
    <2>3. CASE j # Len(fs) + 1
        <3>1. j \in 1 .. Len(fs) /\ m[j] = fs[j]
            BY <1>1, <2>3
        <3> QED BY <2>1, <3>1 DEF GoodStack, Nested
    <2> QED BY <2>2, <2>3
<1> QED BY <1>1, <1>2, <1>3 DEF GoodStack, m

LEMMA PopGood ==
    ASSUME NEW fs, GoodStack(fs), fs # << >>
    PROVE  /\ GoodStack(Front(fs)) /\ ToSet(fs) = ToSet(Front(fs)) \cup {Last(fs)}
           /\ Last(fs) \in FrameType /\ GoodFrame(Last(fs))
           /\ MayBeOn(Last(fs), Front(fs))
<1> DEFINE m == Front(fs)
<1>1. /\ m \in Seq(FrameType) /\ Len(m) = Len(fs) - 1 /\ Len(fs) \in Nat \ {0}
      /\ \A i \in 1 .. Len(fs) - 1 : m[i] = fs[i]
      /\ ToSet(fs) = ToSet(m) \cup {Last(fs)}
      /\ Last(fs) = fs[Len(fs)] /\ Last(fs) \in FrameType
    BY Popped DEF GoodStack
<1> HIDE DEF m
<1>2. GoodFrame(Last(fs)) /\ \A g \in ToSet(m) : GoodFrame(g)
    BY <1>1 DEF GoodStack
<1>3. Nested(m)
    <2> SUFFICES ASSUME NEW i \in 1 .. Len(m), NEW j \in 1 .. Len(m), i < j,
                        Active(m[i]), Active(m[j]), m[i].h = m[j].h
                 PROVE  m[j].do = "open" /\ m[j].how = "driver exclusive"
        BY DEF Nested
    <2>1. /\ i \in 1 .. Len(fs) /\ j \in 1 .. Len(fs)
          /\ m[i] = fs[i] /\ m[j] = fs[j]
        BY <1>1
    <2> QED BY <2>1 DEF GoodStack, Nested
<1>4. ASSUME Active(Last(fs)), NEW g \in ToSet(m), Active(g), g.h = Last(fs).h
      PROVE  Last(fs).do = "open" /\ Last(fs).how = "driver exclusive"
    <2>1. PICK i \in 1 .. Len(fs) - 1 : g = fs[i]
        BY <1>1, <1>4 DEF ToSet
    <2>2. i \in 1 .. Len(fs) /\ Len(fs) \in 1 .. Len(fs) /\ i < Len(fs)
        BY <1>1
    <2> QED BY <1>1, <1>4, <2>1, <2>2 DEF GoodStack, Nested
<1> QED BY <1>1, <1>2, <1>3, <1>4 DEF GoodStack, MayBeOn, m

\* A service that goes on
Continues(f, g) ==
    Active(f) => Active(g) /\ f.h = g.h /\ f.do = g.do /\ f.how = g.how

LEMMA ReplaceGood ==
    ASSUME NEW fs, GoodStack(fs), fs # << >>, NEW f \in FrameType, GoodFrame(f),
           Continues(f, Last(fs))
    PROVE  /\ GoodStack(Append(Front(fs), f))
           /\ ToSet(Append(Front(fs), f)) = ToSet(Front(fs)) \cup {f}
<1>1. /\ GoodStack(Front(fs))
      /\ MayBeOn(Last(fs), Front(fs))
    BY PopGood
<1>2. MayBeOn(f, Front(fs))
    BY <1>1 DEF MayBeOn, Continues
<1> QED BY <1>1, <1>2, PushGood

-----------------------------------------------------------------------------
(***************************************************************************)
(* What the invariant implies                                              *)
(***************************************************************************)
LEMMA IInvTypes == IInv => TypeOK
<1> SUFFICES ASSUME IInv PROVE TypeOK
    OBVIOUS
<1>1. \A r \in Regs : position[r] = None \/ Installed(position[r])
    BY DEF IInv, Positions, IsPosition, Installed
<1>2. ASSUME NEW i \in DOMAIN frames PROVE frames[i].h \in Handles \cup {None}
    <2>1. frames \in Seq(FrameType)
        BY DEF IInv, GoodStack
    <2>2. frames[i] \in FrameType
        BY <2>1, ElementOfSeq
    <2> QED BY <2>2 DEF FrameType
<1> QED BY <1>1, <1>2 DEF IInv, Types, Positions, GoodList, TypeOK, OpenLists, Entries

LEMMA IInvOneManager == IInv => OneManager
<1> SUFFICES ASSUME IInv, NEW h \in Handles
             PROVE  Cardinality({e \in openList[h] : e.how # "get"}) <= 1
    BY DEF OneManager
<1> DEFINE M == {e \in openList[h] : e.how # "get"}
<1>1. \A e \in M : \A f \in M : e = f
    BY DEF IInv, Managers
<1>2. CASE M = {}
    BY <1>2, FS_EmptySet
<1>3. CASE M # {}
    <2>1. PICK e : e \in M
        BY <1>3
    <2>2. M = {e}
        BY <1>1, <2>1
    <2>3. Cardinality(M) = 1
        BY <2>2, FS_Singleton
    <2> QED BY <2>3
<1> QED BY <1>2, <1>3

LEMMA IInvNobodyMissed == IInv => NobodyMissed
<1> SUFFICES ASSUME IInv, NEW r \in registered, Behind(position[r]) # << >>,
                    r \notin signaled
             PROVE  \/ Draining(r)
                    \/ \E i \in DOMAIN frames :
                          frames[i].do = "reinstall" /\ frames[i].at = "connect"
    BY DEF NobodyMissed
<1>1. Rest(list, position[r]) # << >>
    BY BehindIsRest
<1>2. PICK f \in ToSet(frames) : Tells(f, r)
    BY <1>1 DEF IInv, Told
<1>3. PICK i \in DOMAIN frames : f = frames[i]
    BY DEF ToSet
<1> QED BY <1>2, <1>3 DEF Tells, Draining

LEMMA IInvDatabaseInv == IInv => DatabaseInv
BY IInvTypes, IInvOneManager, IInvNobodyMissed DEF DatabaseInv

LEMMA InitIInv == Init => IInv
<1> SUFFICES ASSUME Init PROVE IInv
    OBVIOUS
<1>1. Types
    BY ProtocolAssumption DEF Init, Types, OpenLists
<1>2. ToSet(<< >>) = {} /\ << >> \in Seq(FrameType) /\ << >> \in Seq(Handles)
    BY DEF ToSet
<1>3. Positions
    BY <1>2 DEF Init, Positions, GoodList, IsPosition, IsInjective
<1>4. GoodStack(frames)
    BY <1>2 DEF Init, GoodStack, Nested
<1>5. Held /\ Managers /\ Told
    BY <1>2 DEF Init, Held, Managers, Told
<1> QED BY <1>1, <1>3, <1>4, <1>5 DEF IInv

-----------------------------------------------------------------------------
(***************************************************************************)
(* What keeps the parts of the invariant where no interface is installed   *)
(* or removed                                                              *)
(***************************************************************************)
LEMMA FrameOfHandle ==
    ASSUME NEW fs, GoodStack(fs), NEW f \in ToSet(fs), Active(f)
    PROVE  f.h \in Handles
BY DEF GoodStack, GoodFrame, Active, Stopping

LEMMA PositionsKept ==
    ASSUME Positions, list' = list, position' = position
    PROVE  Positions'
BY DEF Positions

LEMMA ManagersKept ==
    ASSUME Managers, list' = list,
           \A h \in Handles : \A e \in openList'[h] : e.how # "get" => e \in openList[h]
    PROVE  Managers'
BY DEF Managers, Installed

LEMMA HeldKept ==
    ASSUME Held, list' = list, GoodStack(frames'),
           \A h \in Handles : \A e \in openList'[h] :
              e.how = "exclusive" => e \in openList[h],
           \A f \in ToSet(frames') : Active(f) =>
              \E g \in ToSet(frames) : Active(g) /\ g.h = f.h /\ g.do = f.do
    PROVE  Held'
<1> SUFFICES ASSUME NEW f \in ToSet(frames'), Active(f)
             PROVE  /\ f.h \in ToSet(list')
                    /\ f.do = "open" => \A e \in openList'[f.h] : e.how # "exclusive"
    BY DEF Held, Installed
<1>1. PICK g \in ToSet(frames) : Active(g) /\ g.h = f.h /\ g.do = f.do
    OBVIOUS
<1>2. f.h \in Handles
    BY FrameOfHandle
<1> QED BY <1>1, <1>2 DEF Held, Installed

LEMMA ToldKept ==
    ASSUME Told, list' = list, position' = position, registered' = registered,
           signaled \subseteq signaled',
           \A f \in ToSet(frames), r \in registered : Tells(f, r) =>
              r \in signaled' \/ \E g \in ToSet(frames') : Tells(g, r)
    PROVE  Told'
<1> SUFFICES ASSUME NEW r \in registered, Rest(list, position[r]) # << >>
             PROVE  r \in signaled' \/ \E g \in ToSet(frames') : Tells(g, r)
    BY DEF Told
<1> QED BY DEF Told

-----------------------------------------------------------------------------
(***************************************************************************)
(* Each action keeps the invariant: the calls                              *)
(***************************************************************************)
\* Nobody stops drivers of a handle that may be touched.
LEMMA Untouched ==
    ASSUME Owned = TRUE, NEW h, MayTouch(h), NEW f \in ToSet(frames), Active(f)
    PROVE  f.h # h
<1>1. PICK i \in DOMAIN frames : f = frames[i]
    BY DEF ToSet
<1> QED BY <1>1 DEF MayTouch, Active

\* An interface that is asked for again is not installed twice.
LEMMA InstallKeeps ==
    ASSUME Owned = TRUE, IInv, NEW h \in Handles, CoreInstallProtocolInterface(h)
    PROVE  IInv'
<1> USE DEF CoreInstallProtocolInterface, MayCall, database, notify
<1>1. CASE Installed(h)
    <2>1. /\ UNCHANGED <<list, version, registered, position, signaled, frames>>
          /\ openList' = [openList EXCEPT ![h] = @ \cup {Entry(None, "get")}]
          /\ calls' \in 0 .. MaxCalls
        BY <1>1, ProtocolAssumption DEF IInv, Types
    <2>2. openList' \in OpenLists
        <3>1. Entry(None, "get") \in Entries
            BY DEF Entry, Entries, Hows
        <3> QED BY <2>1, <3>1 DEF IInv, Types, OpenLists
    <2>3. \A g \in Handles : \A e \in openList'[g] : e.how # "get" => e \in openList[g]
        BY <2>1 DEF IInv, Types, OpenLists, Entry
    <2>4. \A g \in Handles : \A e \in openList'[g] : e.how = "exclusive" => e \in openList[g]
        BY <2>3
    <2>5. GoodStack(frames')
        BY <2>1 DEF IInv
    <2>6. Held'
        BY <2>1, <2>4, <2>5, HeldKept DEF IInv
    <2>7. Told'
        BY <2>1, ToldKept DEF IInv
    <2>8. Managers'
        BY <2>1, <2>3, ManagersKept DEF IInv
    <2>9. Types' /\ Positions'
        BY <2>1, <2>2, PositionsKept DEF IInv, Types
    <2> QED BY <2>5, <2>6, <2>7, <2>8, <2>9 DEF IInv
<1>2. CASE ~Installed(h)
    <2>1. /\ UNCHANGED <<version, registered, position, frames>>
          /\ list' = Append(list, h) /\ openList' = [openList EXCEPT ![h] = {}]
          /\ signaled' = signaled \cup registered
          /\ calls' \in 0 .. MaxCalls
        BY <1>2, ProtocolAssumption DEF IInv, Types, CoreNotifyProtocolEntry
    <2>2. /\ GoodList(list') /\ ToSet(list') = ToSet(list) \cup {h}
          /\ \A x : IsPosition(x, list) => IsPosition(x, list')
        BY <1>2, <2>1, AppendPlaces DEF IInv, Positions, Installed
    <2>3. Types'
        BY <2>1 DEF IInv, Types, OpenLists
    <2>4. Positions'
        BY <2>1, <2>2 DEF IInv, Positions
    <2>5. GoodStack(frames')
        BY <2>1 DEF IInv
    <2>6. ASSUME NEW g \in Handles, NEW e \in openList'[g]
          PROVE  e \in openList[g] /\ openList'[g] \subseteq openList[g]
        BY <2>1, <2>6 DEF IInv, Types, OpenLists
    <2>7. Held'
        <3> SUFFICES ASSUME NEW f \in ToSet(frames), Active(f)
                     PROVE  /\ f.h \in ToSet(list')
                            /\ f.do = "open" => \A e \in openList'[f.h] : e.how # "exclusive"
            BY <2>1 DEF Held, Installed
        <3>1. f.h \in Handles
            BY FrameOfHandle DEF IInv
        <3> QED BY <2>2, <2>6, <3>1 DEF IInv, Held, Installed
    <2>8. Managers'
        BY <2>2, <2>6 DEF IInv, Managers, Installed
    <2>9. Told'
        BY <2>1 DEF Told
    <2> QED BY <2>3, <2>4, <2>5, <2>7, <2>8, <2>9 DEF IInv
<1> QED BY <1>1, <1>2

LEMMA CoreUninstallKeeps ==
    ASSUME Owned = TRUE, IInv, NEW h \in Handles, NEW do \in {"uninstall", "reinstall"},
           CoreUninstall(h, do)
    PROVE  IInv'
<1> DEFINE f == Frame(do, h)
<1>1. /\ UNCHANGED <<list, version, openList, registered, position, signaled>>
      /\ frames' = Append(frames, f) /\ calls' \in 0 .. MaxCalls
      /\ Installed(h) /\ MayTouch(h)
    BY ProtocolAssumption DEF CoreUninstall, MayCall, Push, database, notify, IInv, Types
<1>2. f \in FrameType /\ f.h = h /\ f.do = do /\ GoodFrame(f)
    BY DEF Frame, FrameType, GoodFrame, Stopping, Hows
<1>3. MayBeOn(f, frames)
    BY <1>1, <1>2, Untouched DEF MayBeOn
<1> HIDE DEF f
<1>4. GoodStack(frames') /\ ToSet(frames') = ToSet(frames) \cup {f}
    BY <1>1, <1>2, <1>3, PushGood DEF IInv
<1>5. Held'
    <2>1. ASSUME NEW g \in ToSet(frames'), Active(g)
          PROVE  /\ g.h \in ToSet(list)
                 /\ g.do = "open" => \A e \in openList[g.h] : e.how # "exclusive"
        <3>1. CASE g = f
            BY <1>1, <1>2, <3>1 DEF Installed
        <3>2. CASE g \in ToSet(frames)
            BY <2>1, <3>2 DEF IInv, Held, Installed
        <3> QED BY <1>4, <3>1, <3>2
    <2> QED BY <1>1, <2>1 DEF Held, Installed
<1>6. Told'
    BY <1>1, <1>4, ToldKept DEF IInv
<1>7. Types' /\ Positions' /\ Managers'
    BY <1>1, PositionsKept, ManagersKept DEF IInv, Types
<1> QED BY <1>4, <1>5, <1>6, <1>7 DEF IInv

LEMMA RegisterKeeps ==
    ASSUME IInv, NEW r \in Regs, CoreRegisterProtocolNotify(r)
    PROVE  IInv'
<1>1. /\ UNCHANGED <<list, version, openList, frames>>
      /\ registered' = registered \cup {r} /\ signaled' = signaled \cup {r}
      /\ position' = [position EXCEPT ![r] = None] /\ calls' \in 0 .. MaxCalls
    BY ProtocolAssumption DEF CoreRegisterProtocolNotify, MayCall, database, IInv, Types
<1>2. GoodStack(frames') /\ Held' /\ Managers'
    BY <1>1 DEF IInv, Held, Managers, Installed
<1>3. Types'
    BY <1>1 DEF IInv, Types
<1>4. Positions'
    BY <1>1 DEF IInv, Positions, IsPosition
<1>5. Told'
    BY <1>1 DEF IInv, Types, Positions, Told
<1> QED BY <1>2, <1>3, <1>4, <1>5 DEF IInv

LEMMA UnregisterKeeps ==
    ASSUME IInv, NEW r \in Regs, CoreUnregisterProtocolNotify(r)
    PROVE  IInv'
<1>1. /\ UNCHANGED <<list, version, openList, calls>>
      /\ registered' = registered \ {r} /\ signaled' = signaled \ {r}
      /\ position' = [position EXCEPT ![r] = None]
    BY DEF CoreUnregisterProtocolNotify, database
<1>2. \/ frames' = frames
      \/ /\ frames # << >> /\ frames' = Front(frames)
         /\ Last(frames).do = "notification" /\ Last(frames).agent = r
    BY DEF CoreUnregisterProtocolNotify, On, Top, Pop
<1>3. /\ GoodStack(frames') /\ ToSet(frames') \subseteq ToSet(frames)
      /\ \A f \in ToSet(frames) :
            f \in ToSet(frames') \/ (f.do = "notification" /\ f.agent = r)
    BY <1>2, PopGood DEF IInv
<1>4. Held'
    BY <1>1, <1>3, HeldKept DEF IInv
<1>5. Told'
    BY <1>1, <1>3 DEF IInv, Types, Positions, Told, Tells
<1>6. Types' /\ Managers'
    BY <1>1, ManagersKept DEF IInv, Types
<1>7. Positions'
    BY <1>1 DEF IInv, Positions, IsPosition
<1> QED BY <1>3, <1>4, <1>5, <1>6, <1>7 DEF IInv

\* An exclusive open begins to stop drivers only where no application has opened
\* exclusively, and an entry is made only where nobody manages the interface.
LEMMA OpenCases ==
    ASSUME IInv, NEW h \in Handles, NEW a, NEW how \in Hows, NEW fs, Open(h, a, how, fs)
    PROVE  \/ frames' = fs /\ openList' = openList
           \/ /\ frames' = fs /\ Installed(h)
              /\ openList' = [openList EXCEPT ![h] = @ \cup {Entry(a, how)}]
              /\ how # "get" => \A e \in openList[h] : e.how = "get"
           \/ /\ frames' = Append(fs, [Frame("open", h) EXCEPT !.agent = a, !.how = how])
              /\ openList' = openList /\ Installed(h)
              /\ how \in {"exclusive", "driver exclusive"}
              /\ \A e \in openList[h] : e.how # "exclusive"
<1> DEFINE excl == \E e \in openList[h] : IsExclusive(e)
<1>1. \A e \in openList[h] : e.how \in Hows
    BY DEF IInv, Types, OpenLists, Entries
<1>2. ~excl => \A e \in openList[h] : e.how \notin {"exclusive", "driver exclusive"}
    BY DEF IsExclusive
<1>3. ByDriver(h) = {} =>
         \A e \in openList[h] : e.how \notin {"driver", "driver exclusive"}
    BY DEF ByDriver, IsByDriver
<1>4. ~excl /\ ByDriver(h) = {} => \A e \in openList[h] : e.how = "get"
    BY <1>1, <1>2, <1>3 DEF Hows
<1> HIDE DEF excl
<1>5. CASE ~Installed(h)
    BY <1>5 DEF Open
<1>6. CASE Installed(h) /\ how = "get"
    BY <1>6 DEF Open
<1>7. CASE Installed(h) /\ how = "driver"
    BY <1>4, <1>7 DEF Open, excl
<1>8. CASE Installed(h) /\ how \in {"exclusive", "driver exclusive"}
    BY <1>2, <1>4, <1>8 DEF Open, excl
<1> QED BY <1>5, <1>6, <1>7, <1>8 DEF Hows

\* OpenProtocol, on top of frames that say what the frames did
LEMMA OpenKeeps ==
    ASSUME IInv, NEW h \in Handles, NEW a \in Drivers \cup Apps, NEW how \in Hows,
           NEW fs, GoodStack(fs), Open(h, a, how, fs),
           \A f \in ToSet(fs) : Active(f) => f \in ToSet(frames),
           \A f \in ToSet(frames), r \in registered : Tells(f, r) =>
              \E g \in ToSet(fs) : Tells(g, r),
           how = "exclusive" => \A f \in ToSet(frames) : Active(f) => f.h # h,
           UNCHANGED <<list, version, registered, position, signaled>>,
           calls' \in 0 .. MaxCalls
    PROVE  IInv'
<1>1. CASE frames' = fs /\ openList' = openList
    <2>1. Held'
        BY <1>1, HeldKept DEF IInv
    <2>2. Told' /\ Managers' /\ Positions' /\ Types'
        BY <1>1, ToldKept, ManagersKept, PositionsKept DEF IInv, Types
    <2> QED BY <1>1, <2>1, <2>2 DEF IInv
<1>2. CASE /\ frames' = fs /\ Installed(h)
           /\ openList' = [openList EXCEPT ![h] = @ \cup {Entry(a, how)}]
           /\ how # "get" => \A e \in openList[h] : e.how = "get"
    <2> DEFINE e0 == Entry(a, how)
    <2>1. e0 \in Entries /\ e0.how = how
        BY DEF Entry, Entries
    <2> HIDE DEF e0
    <2>2. /\ openList \in OpenLists
          /\ openList' = [openList EXCEPT ![h] = @ \cup {e0}]
        BY <1>2 DEF e0, IInv, Types
    <2>3. openList' \in OpenLists
        BY <2>1, <2>2 DEF OpenLists
    <2>4. \A g \in Handles : openList'[g] = IF g = h THEN openList[h] \cup {e0} ELSE openList[g]
        BY <2>2 DEF OpenLists
    <2>5. Managers'
        <3> SUFFICES ASSUME NEW g \in Handles, NEW e \in openList'[g], e.how # "get"
                     PROVE  /\ g \in ToSet(list)
                            /\ \A f \in openList'[g] : f.how # "get" => e = f
            BY DEF Managers, Installed
        <3>1. CASE g # h
            BY <2>4, <3>1 DEF IInv, Managers, Installed
        <3>2. CASE g = h
            <4>1. CASE how = "get"
                BY <2>1, <2>4, <3>2, <4>1 DEF IInv, Managers, Installed
            <4>2. CASE how # "get"
                BY <1>2, <2>1, <2>4, <3>2, <4>2 DEF Installed
            <4> QED BY <4>1, <4>2
        <3> QED BY <3>1, <3>2
    <2>6. Held'
        <3> SUFFICES ASSUME NEW f \in ToSet(fs), Active(f)
                     PROVE  /\ f.h \in ToSet(list)
                            /\ f.do = "open" => \A e \in openList'[f.h] : e.how # "exclusive"
            BY <1>2 DEF Held, Installed
        <3>1. f \in ToSet(frames) /\ f.h \in Handles
            BY FrameOfHandle
        <3>2. ASSUME f.do = "open", NEW e \in openList'[f.h] PROVE e.how # "exclusive"
            <4>1. CASE e \in openList[f.h]
                BY <3>1, <3>2, <4>1 DEF IInv, Held
            <4>2. CASE f.h = h /\ e = e0
                BY <2>1, <3>1, <4>2
            <4> QED BY <2>4, <3>1, <3>2, <4>1, <4>2
        <3> QED BY <3>1, <3>2 DEF IInv, Held, Installed
    <2>7. Told' /\ Positions' /\ Types'
        BY <1>2, <2>3, ToldKept, PositionsKept DEF IInv, Types
    <2> QED BY <1>2, <2>5, <2>6, <2>7 DEF IInv
<1>3. CASE /\ frames' = Append(fs, [Frame("open", h) EXCEPT !.agent = a, !.how = how])
           /\ openList' = openList /\ Installed(h)
           /\ how \in {"exclusive", "driver exclusive"}
           /\ \A e \in openList[h] : e.how # "exclusive"
    <2> DEFINE f == [Frame("open", h) EXCEPT !.agent = a, !.how = how]
    <2>1. f \in FrameType /\ f.h = h /\ f.do = "open" /\ f.how = how /\ GoodFrame(f)
        BY <1>3 DEF Frame, FrameType, GoodFrame, Stopping, Hows
    <2>2. MayBeOn(f, fs)
        <3> HIDE DEF f
        <3> QED BY <1>3, <2>1 DEF MayBeOn
    <2>3. frames' = Append(fs, f)
        BY <1>3
    <2> HIDE DEF f
    <2>4. GoodStack(frames') /\ ToSet(frames') = ToSet(fs) \cup {f}
        BY <2>1, <2>2, <2>3, PushGood
    <2>5. ASSUME NEW g \in ToSet(frames'), Active(g)
          PROVE  /\ g.h \in ToSet(list)
                 /\ g.do = "open" => \A e \in openList[g.h] : e.how # "exclusive"
        <3>1. CASE g = f
            BY <1>3, <2>1, <3>1 DEF Installed
        <3>2. CASE g \in ToSet(fs)
            BY <2>5, <3>2 DEF IInv, Held, Installed
        <3> QED BY <2>4, <2>5, <3>1, <3>2
    <2>6. Held'
        BY <1>3, <2>5 DEF Held, Installed
    <2>7. Told' /\ Positions' /\ Types' /\ Managers'
        BY <1>3, <2>4, ToldKept, PositionsKept, ManagersKept DEF IInv, Types
    <2> QED BY <2>4, <2>6, <2>7 DEF IInv
<1> QED BY <1>1, <1>2, <1>3, OpenCases

LEMMA CoreOpenProtocolKeeps ==
    ASSUME Owned = TRUE, IInv, NEW h \in Handles, NEW a \in Apps,
           NEW how \in {"exclusive", "get"}, CoreOpenProtocol(h, a, how)
    PROVE  IInv'
<1>1. /\ Open(h, a, how, frames) /\ how \in Hows
      /\ UNCHANGED <<list, version, registered, position, signaled>>
      /\ calls' \in 0 .. MaxCalls
      /\ how = "exclusive" => MayTouch(h)
    <2>1. calls' \in 0 .. MaxCalls
        BY ProtocolAssumption DEF CoreOpenProtocol, MayCall, IInv, Types
    <2>2. UNCHANGED <<list, version, registered, position, signaled>>
        BY DEF CoreOpenProtocol, database, notify
    <2> QED BY <2>1, <2>2 DEF CoreOpenProtocol, Hows
<1>2. GoodStack(frames)
    BY DEF IInv
<1>3. how = "exclusive" => \A f \in ToSet(frames) : Active(f) => f.h # h
    BY <1>1, Untouched
<1> QED BY <1>1, <1>2, <1>3, OpenKeeps

\* Entries go, and the frames stay.
LEMMA CoreCloseProtocolKeeps ==
    ASSUME IInv, NEW h \in Handles, NEW a, CoreCloseProtocol(h, a)
    PROVE  IInv'
<1>1. /\ UNCHANGED <<list, version, registered, position, signaled, frames, calls>>
      /\ openList' = [openList EXCEPT ![h] = {e \in @ : e.agent # a}]
    BY DEF CoreCloseProtocol, database, notify
<1>2. /\ openList' \in OpenLists
      /\ \A g \in Handles : openList'[g] \subseteq openList[g]
    BY <1>1 DEF IInv, Types, OpenLists
<1>3. GoodStack(frames')
    BY <1>1 DEF IInv
<1>4. Held'
    BY <1>1, <1>2, <1>3, HeldKept DEF IInv
<1>5. Told' /\ Managers' /\ Positions' /\ Types'
    BY <1>1, <1>2, ToldKept, ManagersKept, PositionsKept DEF IInv, Types
<1> QED BY <1>3, <1>4, <1>5 DEF IInv

-----------------------------------------------------------------------------
(***************************************************************************)
(* Each action keeps the invariant: notifications                          *)
(***************************************************************************)
LEMMA TopGood ==
    ASSUME IInv, frames # << >>
    PROVE  /\ GoodStack(Front(frames)) /\ ToSet(frames) = ToSet(Front(frames)) \cup {Top}
           /\ Top \in FrameType /\ GoodFrame(Top) /\ Top \in ToSet(frames)
           /\ MayBeOn(Top, Front(frames))
<1>1. GoodStack(frames)
    BY DEF IInv
<1> QED BY <1>1, PopGood DEF Top

LEMMA NotificationKeeps ==
    ASSUME IInv, NEW r \in Regs, Notification(r)
    PROVE  IInv'
<1> DEFINE f == [Frame("notification", None) EXCEPT !.agent = r]
<1>1. /\ UNCHANGED <<list, version, openList, registered, position, calls>>
      /\ signaled' = signaled \ {r} /\ frames' = Append(frames, f)
    BY DEF Notification, Push, database
<1>2. f \in FrameType /\ GoodFrame(f) /\ ~Active(f) /\ Tells(f, r)
    BY DEF Frame, FrameType, GoodFrame, Stopping, Hows, Active, Tells
<1> HIDE DEF f
<1>3. MayBeOn(f, frames)
    BY <1>2 DEF MayBeOn
<1>4. GoodStack(frames') /\ ToSet(frames') = ToSet(frames) \cup {f}
    BY <1>1, <1>2, <1>3, PushGood DEF IInv
<1>5. Held'
    BY <1>1, <1>2, <1>4, HeldKept DEF IInv
<1>6. Told'
    BY <1>1, <1>2, <1>4 DEF IInv, Told
<1>7. Types' /\ Positions' /\ Managers'
    BY <1>1, PositionsKept, ManagersKept DEF IInv, Types
<1> QED BY <1>4, <1>5, <1>6, <1>7 DEF IInv

LEMMA LocateKeeps ==
    ASSUME IInv, CoreLocateProtocol
    PROVE  IInv'
<1> DEFINE r == Top.agent
           x == position[r]
<1>1. /\ UNCHANGED <<list, version, openList, registered, signaled, calls>>
      /\ frames # << >> /\ Top.do = "notification"
    BY DEF CoreLocateProtocol, On, database
<1>2. r \in Regs /\ IsPosition(x, list) /\ GoodList(list)
    BY <1>1, TopGood DEF GoodFrame, IInv, Positions
<1>3. Types'
    BY <1>1 DEF IInv, Types
<1>4. CASE Rest(list, x) = << >>
    <2>1. position' = position /\ frames' = Front(frames)
        BY <1>4, BehindIsRest DEF CoreLocateProtocol, Pop
    <2>2. GoodStack(frames') /\ ToSet(frames) = ToSet(frames') \cup {Top}
        BY <1>1, <2>1, TopGood
    <2>3. Held'
        BY <1>1, <2>2, HeldKept DEF IInv
    <2>4. Told'
        <3> SUFFICES ASSUME NEW q \in registered, Rest(list, position[q]) # << >>,
                            q \notin signaled
                     PROVE  \E g \in ToSet(frames') : Tells(g, q)
            BY <1>1, <2>1 DEF Told
        <3>1. PICK g \in ToSet(frames) : Tells(g, q)
            BY DEF IInv, Told
        <3>2. q # r
            BY <1>4
        <3>3. g # Top
            BY <1>1, <3>1, <3>2 DEF Tells
        <3> QED BY <2>2, <3>1, <3>3
    <2>5. Managers' /\ Positions'
        BY <1>1, <2>1, ManagersKept, PositionsKept DEF IInv
    <2> QED BY <1>3, <2>2, <2>3, <2>4, <2>5 DEF IInv
<1>5. CASE Rest(list, x) # << >>
    <2> DEFINE y == Head(Rest(list, x))
    <2>1. position' = [position EXCEPT ![r] = y] /\ frames' = frames
        BY <1>2, <1>5, BehindIsRest DEF CoreLocateProtocol, Advance
    <2>2. y \in Handles /\ IsPosition(y, list)
        BY <1>2, <1>5, TailRest DEF IsPosition
    <2> HIDE DEF r, x, y
    <2>3. Positions'
        BY <1>1, <1>2, <2>1, <2>2 DEF IInv, Positions
    <2>4. GoodStack(frames') /\ Held' /\ Managers'
        BY <1>1, <2>1 DEF IInv, Held, Managers, Installed
    <2>5. Told'
        <3> SUFFICES ASSUME NEW q \in registered, Rest(list, position'[q]) # << >>
                     PROVE  q \in signaled \/ \E g \in ToSet(frames) : Tells(g, q)
            BY <1>1, <2>1 DEF Told
        <3>1. CASE q = r
            BY <1>1, <3>1, TopGood DEF Tells, r
        <3>2. CASE q # r
            <4>1. position'[q] = position[q]
                BY <2>1, <3>2 DEF IInv, Positions, Types
            <4> QED BY <4>1 DEF IInv, Told
        <3> QED BY <3>1, <3>2
    <2> QED BY <1>3, <2>3, <2>4, <2>5 DEF IInv
<1> QED BY <1>4, <1>5

-----------------------------------------------------------------------------
(***************************************************************************)
(* Each action keeps the invariant: the services that stop drivers         *)
(***************************************************************************)
\* A service that goes on, or returns, without a change to the database
LEMMA GoesOn ==
    ASSUME IInv, frames # << >>, NEW f \in FrameType, GoodFrame(f), Continues(f, Top),
           frames' = Append(Front(frames), f),
           \A r \in registered : Tells(Top, r) => Tells(f, r),
           UNCHANGED <<list, version, registered, position, signaled>>,
           openList' \in OpenLists, calls' \in 0 .. MaxCalls,
           \A h \in Handles : \A e \in openList'[h] : e.how # "get" => e \in openList[h]
    PROVE  IInv'
<1>1. GoodStack(frames') /\ ToSet(frames') = ToSet(Front(frames)) \cup {f}
    BY ReplaceGood DEF IInv, Top
<1>2. ToSet(frames) = ToSet(Front(frames)) \cup {Top}
    BY TopGood
<1>3. Held'
    <2>1. \A h \in Handles : \A e \in openList'[h] : e.how = "exclusive" => e \in openList[h]
        OBVIOUS
    <2>2. \A g \in ToSet(frames') : Active(g) =>
             \E g2 \in ToSet(frames) : Active(g2) /\ g2.h = g.h /\ g2.do = g.do
        BY <1>1, <1>2 DEF Continues
    <2> QED BY <1>1, <2>1, <2>2, HeldKept DEF IInv
<1>4. Told'
    BY <1>1, <1>2, ToldKept DEF IInv
<1>5. Types' /\ Positions' /\ Managers'
    BY PositionsKept, ManagersKept DEF IInv, Types
<1> QED BY <1>1, <1>3, <1>4, <1>5 DEF IInv

LEMMA EndsOne ==
    ASSUME IInv, frames # << >>, frames' = Front(frames),
           \A r \in registered : ~Tells(Top, r) \/ r \in signaled',
           UNCHANGED <<list, version, registered, position>>,
           signaled \subseteq signaled', signaled' \subseteq registered,
           openList' \in OpenLists, calls' \in 0 .. MaxCalls,
           \A h \in Handles : \A e \in openList'[h] : e.how # "get" => e \in openList[h]
    PROVE  IInv'
<1>1. GoodStack(frames') /\ ToSet(frames) = ToSet(frames') \cup {Top}
    BY TopGood
<1>2. Held'
    <2>1. \A h \in Handles : \A e \in openList'[h] : e.how = "exclusive" => e \in openList[h]
        OBVIOUS
    <2> QED BY <1>1, <2>1, HeldKept DEF IInv
<1>3. Told'
    BY <1>1, ToldKept DEF IInv
<1>4. Types' /\ Positions' /\ Managers'
    BY PositionsKept, ManagersKept DEF IInv, Types
<1> QED BY <1>1, <1>2, <1>3, <1>4 DEF IInv

\* No entry is made.
LEMMA Closing ==
    ASSUME IInv, NEW h \in Handles, NEW S, S \subseteq openList[h],
           openList' = [openList EXCEPT ![h] = S]
    PROVE  /\ openList' \in OpenLists
           /\ \A g \in Handles : openList'[g] = IF g = h THEN S ELSE openList[g]
           /\ \A g \in Handles : \A e \in openList'[g] : e.how # "get" => e \in openList[g]
<1>1. openList \in OpenLists
    BY DEF IInv, Types
<1>2. \A g \in Handles : openList'[g] = IF g = h THEN S ELSE openList[g]
    BY <1>1 DEF OpenLists
<1>3. openList' \in OpenLists
    BY <1>1 DEF OpenLists
<1> QED BY <1>2, <1>3

LEMMA FindDriverKeeps ==
    ASSUME IInv, FindDriver
    PROVE  IInv'
<1>1. /\ UNCHANGED <<list, version, openList, registered, position, signaled, calls>>
      /\ frames # << >> /\ Top.at = "lock" /\ Top.do \in Stopping
    BY DEF FindDriver, At, database, notify
<1>2. PICK e \in ByDriver(Top.h) :
         frames' = Append(Front(frames), [Top EXCEPT !.at = "stop", !.stop = e.agent])
    BY DEF FindDriver, Replace
<1> DEFINE f == [Top EXCEPT !.at = "stop", !.stop = e.agent]
<1>3. Top \in FrameType /\ GoodFrame(Top) /\ Top.h \in Handles
    BY <1>1, TopGood DEF GoodFrame, Stopping
<1>4. e.agent \in Drivers \cup Apps \cup {None}
    BY <1>3 DEF ByDriver, IInv, Types, OpenLists, Entries
<1>5. f \in FrameType
    BY <1>3, <1>4 DEF FrameType
<1>6. GoodFrame(f) /\ Continues(f, Top) /\ \A r : ~Tells(Top, r)
    BY <1>1, <1>3 DEF FrameType, GoodFrame, Continues, Active, Stopping, Tells
<1> HIDE DEF f
<1>7. openList' \in OpenLists /\ calls' \in 0 .. MaxCalls
    BY <1>1 DEF IInv, Types
<1>8. frames' = Append(Front(frames), f)
    BY <1>2 DEF f
<1> QED BY <1>1, <1>5, <1>6, <1>7, <1>8, GoesOn

LEMMA DisconnectKeeps ==
    ASSUME IInv, NEW h \in Handles, NEW d \in Drivers, CoreDisconnectController(h, d)
    PROVE  IInv'
<1> DEFINE f == [Frame("disconnect", h) EXCEPT !.at = "stop", !.stop = d]
<1>1. /\ UNCHANGED <<list, version, openList, registered, position, signaled>>
      /\ frames' = Append(frames, f) /\ calls' \in 0 .. MaxCalls
    BY ProtocolAssumption DEF CoreDisconnectController, MayCall, Push, database, notify,
                              IInv, Types
<1>2. f \in FrameType /\ GoodFrame(f) /\ ~Active(f)
    BY DEF Frame, FrameType, GoodFrame, Stopping, Hows, Active
<1> HIDE DEF f
<1>3. GoodStack(frames') /\ ToSet(frames') = ToSet(frames) \cup {f}
    BY <1>1, <1>2, PushGood DEF IInv, MayBeOn
<1>4. Held'
    BY <1>1, <1>2, <1>3, HeldKept DEF IInv
<1>5. Told'
    BY <1>1, <1>3, ToldKept DEF IInv
<1>6. Types' /\ Positions' /\ Managers'
    BY <1>1, PositionsKept, ManagersKept DEF IInv, Types
<1> QED BY <1>3, <1>4, <1>5, <1>6 DEF IInv

LEMMA ConnectKeeps ==
    ASSUME IInv, NEW h \in Handles, CoreConnectController(h)
    PROVE  IInv'
<1> DEFINE f == [Frame("connect", h) EXCEPT !.at = "connect", !.left = Drivers]
<1>1. /\ UNCHANGED <<list, version, openList, registered, position, signaled>>
      /\ frames' = Append(frames, f) /\ calls' \in 0 .. MaxCalls
    BY ProtocolAssumption DEF CoreConnectController, MayCall, Push, database, notify,
                              IInv, Types
<1>2. f \in FrameType /\ GoodFrame(f) /\ ~Active(f)
    BY DEF Frame, FrameType, GoodFrame, Stopping, Hows, Active
<1> HIDE DEF f
<1>3. GoodStack(frames') /\ ToSet(frames') = ToSet(frames) \cup {f}
    BY <1>1, <1>2, PushGood DEF IInv, MayBeOn
<1>4. Held'
    BY <1>1, <1>2, <1>3, HeldKept DEF IInv
<1>5. Told'
    BY <1>1, <1>3, ToldKept DEF IInv
<1>6. Types' /\ Positions' /\ Managers'
    BY <1>1, PositionsKept, ManagersKept DEF IInv, Types
<1> QED BY <1>3, <1>4, <1>5, <1>6 DEF IInv

LEMMA StopKeeps ==
    ASSUME IInv, Stop
    PROVE  IInv'
<1>1. /\ UNCHANGED <<list, version, registered, position, signaled, calls>>
      /\ frames # << >> /\ Top.at = "stop"
      /\ \/ openList' = [openList EXCEPT ![Top.h] = {e \in @ : e.agent # Top.stop}]
         \/ openList' = openList
      /\ IF Top.do = "disconnect" THEN frames' = Front(frames)
         ELSE frames' = Append(Front(frames), [Top EXCEPT !.at = "lock"])
    BY DEF Stop, At, On, Pop, Replace, database, notify
<1>2. Top \in FrameType /\ GoodFrame(Top) /\ Top.h \in Handles /\ Top.do # "notification"
    BY <1>1, TopGood DEF GoodFrame
<1>3. PICK S \in SUBSET openList[Top.h] : openList' = [openList EXCEPT ![Top.h] = S]
    <2>1. CASE openList' = [openList EXCEPT ![Top.h] = {e \in @ : e.agent # Top.stop}]
        <3>1. {e \in openList[Top.h] : e.agent # Top.stop} \in SUBSET openList[Top.h]
            OBVIOUS
        <3> QED BY <2>1, <3>1
    <2>2. CASE openList' = openList
        <3>1. openList = [openList EXCEPT ![Top.h] = openList[Top.h]]
            BY DEF IInv, Types, OpenLists
        <3> QED BY <2>2, <3>1
    <2> QED BY <1>1, <2>1, <2>2
<1>4. /\ openList' \in OpenLists /\ calls' \in 0 .. MaxCalls
      /\ \A g \in Handles : \A e \in openList'[g] : e.how # "get" => e \in openList[g]
    BY <1>1, <1>2, <1>3, Closing DEF IInv, Types
<1>5. \A r : ~Tells(Top, r)
    BY <1>1, <1>2 DEF Tells
<1>6. CASE Top.do = "disconnect"
    <2>1. signaled' \subseteq registered
        BY <1>1 DEF IInv, Types
    <2> QED BY <1>1, <1>4, <1>5, <1>6, <2>1, EndsOne
<1>7. CASE Top.do # "disconnect"
    <2> DEFINE f == [Top EXCEPT !.at = "lock"]
    <2>1. f \in FrameType
        BY <1>2 DEF FrameType
    <2>2. GoodFrame(f) /\ Continues(f, Top)
        BY <1>1, <1>2, <1>7 DEF FrameType, GoodFrame, Continues, Active, Stopping
    <2>3. frames' = Append(Front(frames), f)
        BY <1>1, <1>7
    <2> HIDE DEF f
    <2> QED BY <1>1, <1>4, <1>5, <2>1, <2>2, <2>3, GoesOn
<1> QED BY <1>6, <1>7

LEMMA DeniedFrame ==
    ASSUME IInv, frames # << >>, Top.do \in {"uninstall", "reinstall"}
    PROVE  LET f == [Top EXCEPT !.do = "denied", !.at = "connect", !.left = Drivers]
           IN  f \in FrameType /\ GoodFrame(f) /\ Continues(f, Top)
<1>1. Top \in FrameType /\ GoodFrame(Top)
    BY TopGood
<1> DEFINE f == [Top EXCEPT !.do = "denied", !.at = "connect", !.left = Drivers]
<1>2. f \in FrameType
    BY <1>1 DEF FrameType
<1>3. GoodFrame(f) /\ Continues(f, Top)
    BY <1>1 DEF FrameType, GoodFrame, Continues, Active, Stopping
<1> QED BY <1>2, <1>3

LEMMA StopFailsKeeps ==
    ASSUME IInv, StopFails
    PROVE  IInv'
<1>1. /\ UNCHANGED <<list, version, openList, registered, position, signaled, calls>>
      /\ frames # << >> /\ Top.at = "stop"
    BY DEF StopFails, At, database, notify
<1>2. /\ openList' \in OpenLists /\ calls' \in 0 .. MaxCalls
      /\ signaled' \subseteq registered
    BY <1>1 DEF IInv, Types
<1>3. \A r : ~Tells(Top, r)
    BY <1>1, TopGood DEF Tells, GoodFrame
<1>4. CASE Top.do \in {"uninstall", "reinstall"}
    <2> DEFINE f == [Top EXCEPT !.do = "denied", !.at = "connect", !.left = Drivers]
    <2>1. f \in FrameType /\ GoodFrame(f) /\ Continues(f, Top)
        BY <1>1, <1>4, DeniedFrame
    <2>2. frames' = Append(Front(frames), f)
        BY <1>4 DEF StopFails, Denied, Replace
    <2> HIDE DEF f
    <2> QED BY <1>1, <1>2, <1>3, <2>1, <2>2, GoesOn
<1>5. CASE Top.do \notin {"uninstall", "reinstall"}
    <2>1. frames' = Front(frames)
        BY <1>5 DEF StopFails, Pop
    <2> QED BY <1>1, <1>2, <1>3, <2>1, EndsOne
<1> QED BY <1>4, <1>5

LEMMA AccessDeniedKeeps ==
    ASSUME IInv, AccessDenied
    PROVE  IInv'
<1>1. /\ UNCHANGED <<list, version, registered, position, signaled, calls>>
      /\ frames # << >> /\ Top.do \in {"uninstall", "reinstall"} /\ Top.at = "lock"
      /\ openList' = [openList EXCEPT ![Top.h] = Left]
    BY DEF AccessDenied, Stopped, At, On, CloseOthers, database, notify
<1>2. Top.h \in Handles
    BY <1>1, TopGood DEF GoodFrame
<1>3. Left \subseteq openList[Top.h]
    BY DEF Left
<1>4. /\ openList' \in OpenLists /\ calls' \in 0 .. MaxCalls
      /\ \A g \in Handles : \A e \in openList'[g] : e.how # "get" => e \in openList[g]
    BY <1>1, <1>2, <1>3, Closing DEF IInv, Types
<1> DEFINE f == [Top EXCEPT !.do = "denied", !.at = "connect", !.left = Drivers]
<1>5. f \in FrameType /\ GoodFrame(f) /\ Continues(f, Top)
    BY <1>1, DeniedFrame
<1>6. frames' = Append(Front(frames), f)
    BY DEF AccessDenied, Denied, Replace
<1>7. \A r : ~Tells(Top, r)
    BY <1>1 DEF Tells
<1> HIDE DEF f
<1> QED BY <1>1, <1>4, <1>5, <1>6, <1>7, GoesOn

\* No service below the one that removes or replaces an interface works on its handle.
LEMMA OnlyOnTop ==
    ASSUME IInv, frames # << >>, Top.do \in {"uninstall", "reinstall"}, Top.at = "lock",
           NEW f \in ToSet(Front(frames)), Active(f)
    PROVE  f.h # Top.h /\ f.h \in Handles /\ f \in ToSet(frames)
<1>1. Active(Top)
    BY DEF Active, Stopping
<1>2. MayBeOn(Top, Front(frames)) /\ f \in ToSet(frames)
    BY TopGood
<1>3. f.h \in Handles
    BY <1>2, FrameOfHandle DEF IInv
<1> QED BY <1>1, <1>2, <1>3 DEF MayBeOn

\* The positions when the interface of the service on top is unlinked
LEMMA BackUpIs ==
    ASSUME IInv, NEW h, h \in ToSet(list), BackUp(h)
    PROVE  /\ position' \in [Regs -> Handles \cup {None}]
           /\ \A r \in Regs :
                 /\ position'[r] = BackedUp(list, position[r], h)
                 /\ IsPosition(position'[r], Unlink(list, h))
                 /\ Place(Unlink(list, h), position'[r]) < Len(list) - 1 =>
                       Place(list, position[r]) < Len(list)
<1>1. h # None /\ h \in Handles /\ GoodList(list) /\ Len(list) \in Nat
    <2>1. GoodList(list)
        BY DEF IInv, Positions
    <2>2. PICK i \in 1 .. Len(list) : h = list[i]
        BY <2>1 DEF GoodList, ToSet
    <2> QED BY <2>1, <2>2, PlaceIs DEF GoodList
<1>2. Index(h) = Place(list, h)
    BY <1>1, BehindIsRest
<1>3. \A r \in Regs : position'[r] = BackedUp(list, position[r], h)
    BY <1>2 DEF BackUp, BackedUp
<1>4. ASSUME NEW r \in Regs
      PROVE  /\ IsPosition(position'[r], Unlink(list, h))
             /\ position'[r] \in Handles \cup {None}
             /\ Place(Unlink(list, h), position'[r]) < Len(list) - 1 =>
                   Place(list, position[r]) < Len(list)
    <2>1. IsPosition(position[r], list)
        BY DEF IInv, Positions
    <2>2. /\ IsPosition(position'[r], Unlink(list, h))
          /\ Place(Unlink(list, h), position'[r]) =
                IF Place(list, position[r]) < Place(list, h) THEN Place(list, position[r])
                ELSE Place(list, position[r]) - 1
        BY <1>1, <1>3, <2>1, BackUpPlaces
    <2>3. GoodList(Unlink(list, h)) /\ Place(list, position[r]) \in Nat
        BY <1>1, <2>1, UnlinkPlaces, PlaceOf
    <2>4. position'[r] \in Handles \cup {None}
        <3>1. CASE position'[r] = None
            BY <3>1
        <3>2. CASE position'[r] \in ToSet(Unlink(list, h))
            <4>1. PICK i \in 1 .. Len(Unlink(list, h)) : position'[r] = Unlink(list, h)[i]
                BY <2>3, <3>2 DEF GoodList, ToSet
            <4> QED BY <2>3, <4>1, PlaceIs
        <3> QED BY <2>2, <3>1, <3>2 DEF IsPosition
    <2> QED BY <1>1, <2>2, <2>3, <2>4
<1>5. position' = [r \in Regs |-> position'[r]]
    BY DEF BackUp
<1> QED BY <1>3, <1>4, <1>5

LEMMA UninstallKeeps ==
    ASSUME IInv, CoreUninstallProtocolInterface
    PROVE  IInv'
<1> DEFINE h == Top.h
<1>1. /\ UNCHANGED <<version, registered, signaled, calls>>
      /\ frames # << >> /\ Top.do = "uninstall" /\ Top.at = "lock"
      /\ openList' = [openList EXCEPT ![h] = Left] /\ Left = {}
      /\ BackUp(h) /\ list' = Unlink(list, h) /\ frames' = Front(frames)
    BY DEF CoreUninstallProtocolInterface, Stopped, At, On, CloseOthers, Pop
<1>2. h \in Handles /\ h \in ToSet(list)
    BY <1>1, TopGood DEF GoodFrame, IInv, Held, Active, Stopping, Installed
<1> HIDE DEF h
<1>3. /\ openList' \in OpenLists /\ openList'[h] = {}
      /\ \A g \in Handles : g # h => openList'[g] = openList[g]
    BY <1>1, <1>2 DEF IInv, Types, OpenLists
<1>4. GoodList(list') /\ ToSet(list') = ToSet(list) \ {h} /\ Len(list') = Len(list) - 1
    BY <1>1, <1>2, UnlinkPlaces DEF IInv, Positions
<1>5. GoodStack(frames') /\ ToSet(frames) = ToSet(frames') \cup {Top}
    BY <1>1, TopGood
<1>6. Types'
    BY <1>1, <1>3 DEF IInv, Types
<1>7. Positions'
    BY <1>1, <1>2, <1>4, BackUpIs DEF Positions
<1>8. Held'
    <2> SUFFICES ASSUME NEW f \in ToSet(frames'), Active(f)
                 PROVE  /\ f.h \in ToSet(list')
                        /\ f.do = "open" => \A e \in openList'[f.h] : e.how # "exclusive"
        BY DEF Held, Installed
    <2>1. f.h # h /\ f.h \in Handles /\ f \in ToSet(frames)
        BY <1>1, OnlyOnTop DEF h
    <2> QED BY <1>3, <1>4, <2>1 DEF IInv, Held, Installed
<1>9. Managers'
    BY <1>3, <1>4 DEF IInv, Managers, Installed
<1>10. Told'
    <2> SUFFICES ASSUME NEW r \in registered, Rest(list', position'[r]) # << >>,
                        r \notin signaled
                 PROVE  \E g \in ToSet(frames') : Tells(g, r)
        BY <1>1 DEF Told
    <2>1. r \in Regs /\ GoodList(list) /\ IsPosition(position[r], list)
        BY DEF IInv, Types, Positions
    <2>2. IsPosition(position'[r], list') /\ Place(list', position'[r]) < Len(list) - 1
        BY <1>1, <1>2, <1>4, <2>1, BackUpIs, RestIs
    <2>3. Place(list, position[r]) < Len(list)
        BY <1>1, <1>2, <2>1, <2>2, BackUpIs
    <2>4. Rest(list, position[r]) # << >>
        BY <2>1, <2>3, RestIs
    <2>5. PICK g \in ToSet(frames) : Tells(g, r)
        BY <2>4 DEF IInv, Told
    <2>6. g # Top
        BY <1>1, <2>5 DEF Tells
    <2> QED BY <1>5, <2>5, <2>6
<1> QED BY <1>5, <1>6, <1>7, <1>8, <1>9, <1>10 DEF IInv

\* The interface comes back as the last one, for everybody to be told of.
LEMMA ReinstallKeeps ==
    ASSUME IInv, CoreReinstallProtocolInterface
    PROVE  IInv'
<1> DEFINE h == Top.h
           f == [Top EXCEPT !.at = "connect", !.left = Drivers]
<1>1. /\ UNCHANGED <<registered, signaled, calls>>
      /\ version' = [version EXCEPT ![h] = 1 - @]
      /\ frames # << >> /\ Top.do = "reinstall" /\ Top.at = "lock"
      /\ openList' = [openList EXCEPT ![h] = Left] /\ Left = {}
      /\ BackUp(h) /\ list' = Append(Unlink(list, h), h)
      /\ frames' = Append(Front(frames), f)
    BY DEF CoreReinstallProtocolInterface, Stopped, At, On, CloseOthers, Replace
<1>2. h \in Handles /\ h \in ToSet(list)
    BY <1>1, TopGood DEF GoodFrame, IInv, Held, Active, Stopping, Installed
<1>3. Top \in FrameType /\ GoodFrame(Top)
    BY <1>1, TopGood
<1>4. f \in FrameType
    BY <1>3 DEF FrameType
<1>5. GoodFrame(f) /\ ~Active(f) /\ \A r : Tells(f, r)
    BY <1>1, <1>3 DEF FrameType, GoodFrame, Active, Stopping, Tells
<1> HIDE DEF h, f
<1>6. GoodStack(frames') /\ ToSet(frames') = ToSet(Front(frames)) \cup {f}
    BY <1>1, <1>4, <1>5, ReplaceGood DEF IInv, Continues
<1>7. /\ openList' \in OpenLists /\ openList'[h] = {}
      /\ \A g \in Handles : g # h => openList'[g] = openList[g]
    BY <1>1, <1>2 DEF IInv, Types, OpenLists
<1> DEFINE m == Unlink(list, h)
<1>8. GoodList(m) /\ ToSet(m) = ToSet(list) \ {h}
    BY <1>2, UnlinkPlaces DEF IInv, Positions
<1>9. /\ GoodList(list') /\ ToSet(list') = ToSet(list)
      /\ \A x : IsPosition(x, m) => IsPosition(x, list')
    <2>1. list' = Append(m, h)
        BY <1>1
    <2> HIDE DEF m
    <2>2. /\ GoodList(Append(m, h)) /\ ToSet(Append(m, h)) = ToSet(m) \cup {h}
          /\ \A x : IsPosition(x, m) => IsPosition(x, Append(m, h))
        BY <1>2, <1>8, AppendPlaces
    <2> QED BY <1>2, <1>8, <2>1, <2>2
<1>10. Types'
    <2>1. version' \in [Handles -> 0 .. 1]
        BY <1>1, <1>2 DEF IInv, Types
    <2> QED BY <1>1, <1>7, <2>1 DEF IInv, Types
<1>11. Positions'
    <2>1. /\ position' \in [Regs -> Handles \cup {None}]
          /\ \A r \in Regs : IsPosition(position'[r], m)
        BY <1>1, <1>2, BackUpIs
    <2> HIDE DEF m
    <2> QED BY <1>9, <2>1 DEF Positions
<1>12. Held'
    <2> SUFFICES ASSUME NEW g \in ToSet(frames'), Active(g)
                 PROVE  /\ g.h \in ToSet(list')
                        /\ g.do = "open" => \A e \in openList'[g.h] : e.how # "exclusive"
        BY DEF Held, Installed
    <2>1. g \in ToSet(Front(frames))
        BY <1>5, <1>6
    <2>2. g.h # h /\ g.h \in Handles /\ g \in ToSet(frames)
        BY <1>1, <2>1, OnlyOnTop DEF h
    <2> QED BY <1>7, <1>9, <2>2 DEF IInv, Held, Installed
<1>13. Managers'
    BY <1>7, <1>9 DEF IInv, Managers, Installed
<1>14. Told'
    BY <1>5, <1>6 DEF Told
<1> QED BY <1>6, <1>10, <1>11, <1>12, <1>13, <1>14 DEF IInv

\* Nobody manages the interface any more, so that the one that has waited may.
LEMMA OpenExclusiveKeeps ==
    ASSUME IInv, OpenExclusive
    PROVE  IInv'
<1> DEFINE h == Top.h
           e0 == Entry(Top.agent, Top.how)
<1>1. /\ UNCHANGED <<list, version, registered, position, signaled, calls>>
      /\ frames # << >> /\ Top.do = "open" /\ Top.at = "lock" /\ ByDriver(h) = {}
      /\ openList' = [openList EXCEPT ![h] = @ \cup {e0}] /\ frames' = Front(frames)
    BY DEF OpenExclusive, Stopped, At, On, Pop, database, notify
<1>2. /\ Top \in FrameType /\ GoodFrame(Top) /\ h \in Handles /\ Active(Top)
      /\ Top \in ToSet(frames) /\ MayBeOn(Top, Front(frames))
    BY <1>1, TopGood DEF GoodFrame, Active, Stopping
<1>3. /\ h \in ToSet(list) /\ \A e \in openList[h] : e.how # "exclusive"
    BY <1>1, <1>2 DEF IInv, Held, Installed
<1>4. \A e \in openList[h] : e.how = "get"
    <2>1. \A e \in openList[h] : e.how \in Hows
        BY <1>2 DEF IInv, Types, OpenLists, Entries
    <2>2. \A e \in openList[h] : e.how \notin {"driver", "driver exclusive"}
        BY <1>1 DEF ByDriver, IsByDriver
    <2> QED BY <1>3, <2>1, <2>2 DEF Hows
<1>5. e0 \in Entries /\ e0.how = Top.how
    BY <1>1, <1>2 DEF Entry, Entries, GoodFrame, Hows
<1>6. GoodStack(frames') /\ ToSet(frames) = ToSet(frames') \cup {Top}
    BY <1>1, TopGood
<1> HIDE DEF h, e0
<1>7. /\ openList' \in OpenLists
      /\ \A g \in Handles : openList'[g] = IF g = h THEN openList[h] \cup {e0} ELSE openList[g]
    BY <1>1, <1>2, <1>5 DEF IInv, Types, OpenLists
<1>8. Managers'
    <2> SUFFICES ASSUME NEW g \in Handles, NEW e \in openList'[g], e.how # "get"
                 PROVE  /\ g \in ToSet(list)
                        /\ \A f \in openList'[g] : f.how # "get" => e = f
        BY <1>1 DEF Managers, Installed
    <2>1. CASE g # h
        BY <1>7, <2>1 DEF IInv, Managers, Installed
    <2>2. CASE g = h
        BY <1>3, <1>4, <1>7, <2>2
    <2> QED BY <2>1, <2>2
<1>9. Held'
    <2> SUFFICES ASSUME NEW f \in ToSet(frames'), Active(f)
                 PROVE  /\ f.h \in ToSet(list)
                        /\ f.do = "open" => \A e \in openList'[f.h] : e.how # "exclusive"
        BY <1>1 DEF Held, Installed
    <2>1. f \in ToSet(frames) /\ f.h \in Handles
        BY <1>6, FrameOfHandle
    <2>2. f.h = h => e0.how # "exclusive"
        BY <1>1, <1>2, <1>5 DEF MayBeOn, h
    <2> QED BY <1>7, <2>1, <2>2 DEF IInv, Held, Installed
<1>10. Told'
    <2>1. \A r : ~Tells(Top, r)
        BY <1>1 DEF Tells
    <2> QED BY <1>1, <1>6, <2>1, ToldKept DEF IInv
<1>11. Types' /\ Positions'
    BY <1>1, <1>7, PositionsKept DEF IInv, Types
<1> QED BY <1>6, <1>8, <1>9, <1>10, <1>11 DEF IInv

-----------------------------------------------------------------------------
(***************************************************************************)
(* Each action keeps the invariant: drivers are started                    *)
(***************************************************************************)
\* The service on top with one driver less to be started
LEMMA StartedStack ==
    ASSUME IInv, frames # << >>, Top.at = "connect", NEW d
    PROVE  LET f == [Top EXCEPT !.left = @ \ {d}]
           IN  /\ f \in FrameType /\ GoodFrame(f) /\ ~Active(f) /\ Continues(f, Top)
               /\ \A r : Tells(Top, r) => Tells(f, r)
               /\ Started(d) = Append(Front(frames), f)
               /\ GoodStack(Started(d))
               /\ ToSet(Started(d)) = ToSet(Front(frames)) \cup {f}
<1> DEFINE f == [Top EXCEPT !.left = @ \ {d}]
<1>1. Top \in FrameType /\ GoodFrame(Top)
    BY TopGood
<1>2. f \in FrameType
    BY <1>1 DEF FrameType
<1>3. GoodFrame(f) /\ ~Active(f) /\ Continues(f, Top)
    BY <1>1 DEF FrameType, GoodFrame, Continues, Active
<1>4. \A r : Tells(Top, r) => Tells(f, r)
    BY <1>1 DEF FrameType, Tells
<1>5. Started(d) = Append(Front(frames), f)
    BY DEF Started
<1> HIDE DEF f
<1>6. /\ GoodStack(Started(d))
      /\ ToSet(Started(d)) = ToSet(Front(frames)) \cup {f}
    BY <1>2, <1>3, <1>5, ReplaceGood DEF IInv, Top
<1> QED BY <1>2, <1>3, <1>4, <1>5, <1>6 DEF f

LEMMA StartKeeps ==
    ASSUME IInv, NEW d \in Drivers, Start(d)
    PROVE  IInv'
<1> DEFINE f == [Top EXCEPT !.left = @ \ {d}]
           h == Top.h
           fs == Started(d)
<1>1. /\ UNCHANGED <<list, version, registered, position, signaled, calls>>
      /\ frames # << >> /\ Top.at = "connect"
      /\ Open(h, d, HowOf(d), fs)
    BY DEF Start, At, database, notify
<1>2. /\ ~Active(f) /\ GoodStack(fs) /\ ToSet(fs) = ToSet(Front(frames)) \cup {f}
      /\ \A r : Tells(Top, r) => Tells(f, r)
    BY <1>1, StartedStack
<1>3. h \in Handles /\ ToSet(frames) = ToSet(Front(frames)) \cup {Top}
    BY <1>1, TopGood DEF GoodFrame
<1>4. HowOf(d) \in Hows /\ HowOf(d) # "exclusive" /\ calls' \in 0 .. MaxCalls
    BY <1>1 DEF HowOf, Hows, IInv, Types
<1> HIDE DEF f, h, fs
<1>5. \A g \in ToSet(fs) : Active(g) => g \in ToSet(frames)
    BY <1>2, <1>3
<1>6. \A g \in ToSet(frames), r \in registered : Tells(g, r) =>
         \E k \in ToSet(fs) : Tells(k, r)
    BY <1>2, <1>3
<1> QED BY <1>1, <1>2, <1>3, <1>4, <1>5, <1>6, OpenKeeps

LEMMA NotStartedKeeps ==
    ASSUME IInv, NEW d \in Drivers, NotStarted(d)
    PROVE  IInv'
<1> DEFINE f == [Top EXCEPT !.left = @ \ {d}]
<1>1. /\ UNCHANGED <<list, version, openList, registered, position, signaled, calls>>
      /\ frames # << >> /\ Top.at = "connect" /\ frames' = Started(d)
    BY DEF NotStarted, At, database, notify
<1>2. /\ f \in FrameType /\ GoodFrame(f) /\ Continues(f, Top)
      /\ \A r : Tells(Top, r) => Tells(f, r)
      /\ frames' = Append(Front(frames), f)
    BY <1>1, StartedStack
<1>3. openList' \in OpenLists /\ calls' \in 0 .. MaxCalls
    BY <1>1 DEF IInv, Types
<1> HIDE DEF f
<1> QED BY <1>1, <1>2, <1>3, GoesOn

\* The interface that is replaced is signaled when everybody has been connected.
LEMMA ConnectedKeeps ==
    ASSUME IInv, Connected
    PROVE  IInv'
<1>1. /\ UNCHANGED <<list, version, openList, registered, position, calls>>
      /\ frames # << >> /\ Top.at = "connect" /\ frames' = Front(frames)
      /\ IF Top.do = "reinstall" THEN signaled' = signaled \cup registered
         ELSE signaled' = signaled
    BY DEF Connected, At, On, Pop, CoreNotifyProtocolEntry, database
<1>2. signaled \subseteq signaled' /\ signaled' \subseteq registered
    BY <1>1 DEF IInv, Types
<1>3. \A r \in registered : ~Tells(Top, r) \/ r \in signaled'
    BY <1>1, TopGood DEF Tells, GoodFrame
<1>4. openList' \in OpenLists /\ calls' \in 0 .. MaxCalls
    BY <1>1 DEF IInv, Types
<1> QED BY <1>1, <1>2, <1>3, <1>4, EndsOne

-----------------------------------------------------------------------------
(***************************************************************************)
(* The invariant                                                           *)
(***************************************************************************)
LEMMA NextIInv ==
    ASSUME Owned = TRUE, IInv, [Next]_vars
    PROVE  IInv'
<1>1. CASE \E h \in Handles : CoreInstallProtocolInterface(h)
    BY <1>1, InstallKeeps
<1>2. CASE \E h \in Handles : CoreConnectController(h)
    BY <1>2, ConnectKeeps
<1>3. CASE \E h \in Handles, do \in {"uninstall", "reinstall"} : CoreUninstall(h, do)
    BY <1>3, CoreUninstallKeeps
<1>4. CASE \E h \in Handles, d \in Drivers : CoreDisconnectController(h, d)
    BY <1>4, DisconnectKeeps
<1>5. CASE \E h \in Handles, a \in Apps : CoreCloseProtocol(h, a)
    BY <1>5, CoreCloseProtocolKeeps
<1>6. CASE \E h \in Handles, a \in Apps, how \in {"exclusive", "get"} :
              CoreOpenProtocol(h, a, how)
    BY <1>6, CoreOpenProtocolKeeps
<1>7. CASE \E r \in Regs : CoreRegisterProtocolNotify(r)
    BY <1>7, RegisterKeeps
<1>8. CASE \E r \in Regs : CoreUnregisterProtocolNotify(r)
    BY <1>8, UnregisterKeeps
<1>9. CASE FindDriver
    BY <1>9, FindDriverKeeps
<1>10. CASE Stop
    BY <1>10, StopKeeps
<1>11. CASE StopFails
    BY <1>11, StopFailsKeeps
<1>12. CASE AccessDenied
    BY <1>12, AccessDeniedKeeps
<1>13. CASE Connected
    BY <1>13, ConnectedKeeps
<1>14. CASE CoreUninstallProtocolInterface
    BY <1>14, UninstallKeeps
<1>15. CASE CoreReinstallProtocolInterface
    BY <1>15, ReinstallKeeps
<1>16. CASE OpenExclusive
    BY <1>16, OpenExclusiveKeeps
<1>17. CASE \E d \in Drivers : Start(d)
    BY <1>17, StartKeeps
<1>18. CASE \E d \in Drivers : NotStarted(d)
    BY <1>18, NotStartedKeeps
<1>19. CASE CoreLocateProtocol
    BY <1>19, LocateKeeps
<1>20. CASE \E r \in Regs : Notification(r)
    BY <1>20, NotificationKeeps
<1>21. CASE UNCHANGED vars
    BY <1>21 DEF vars, database, notify, IInv, Types, Positions, GoodStack, Nested, Held,
                 Managers, Told, Installed
<1> QED BY <1>1, <1>2, <1>3, <1>4, <1>5, <1>6, <1>7, <1>8, <1>9, <1>10, <1>11, <1>12,
           <1>13, <1>14, <1>15, <1>16, <1>17, <1>18, <1>19, <1>20, <1>21
        DEF Next, Call, GoOn

LEMMA Invariance == ASSUME Owned = TRUE PROVE Spec => []IInv
<1>1. Init => IInv
    BY InitIInv
<1>2. IInv /\ [Next]_vars => IInv'
    BY NextIInv
<1> QED BY <1>1, <1>2, PTL DEF Spec

\* Where nobody touches an interface from which drivers are being stopped, types hold, one
\* agent at most manages an interface (Handle.c:1117-1146), and no registration misses an
\* interface that it could still be told of.
THEOREM OneManagerNobodyMissed == ASSUME Owned = TRUE PROVE Spec => []DatabaseInv
<1>1. Spec => []IInv
    BY Invariance
<1> QED BY <1>1, IInvDatabaseInv, PTL

-----------------------------------------------------------------------------
(***************************************************************************)
(* No interface goes while somebody manages it.                            *)
(***************************************************************************)
Untaken ==
    \A h \in Handles : (\E e \in openList[h] : e.how # "get") =>
       Installed(h)' /\ version'[h] = version[h]

\* The calls and steps that neither install nor remove an interface
LEMMA ListStays ==
    ASSUME [Next]_vars,
           ~ \E h \in Handles : CoreInstallProtocolInterface(h),
           ~ CoreUninstallProtocolInterface, ~ CoreReinstallProtocolInterface
    PROVE  UNCHANGED <<list, version>>
BY DEF Next, Call, GoOn, vars, database,
       CoreConnectController, CoreUninstall, CoreDisconnectController, CoreCloseProtocol,
       CoreOpenProtocol, CoreRegisterProtocolNotify, CoreUnregisterProtocolNotify,
       FindDriver, Stop, StopFails, AccessDenied, Connected, OpenExclusive, Start,
       NotStarted, CoreLocateProtocol, Notification

LEMMA NextUntaken ==
    ASSUME IInv, [Next]_vars
    PROVE  Untaken
<1> SUFFICES ASSUME NEW h \in Handles, NEW e \in openList[h], e.how # "get"
             PROVE  h \in ToSet(list') /\ version'[h] = version[h]
    BY DEF Untaken, Installed
<1>1. h \in ToSet(list) /\ GoodList(list)
    BY DEF IInv, Managers, Installed, Positions
<1>2. CASE \E g \in Handles : CoreInstallProtocolInterface(g)
    <2>1. PICK g \in Handles : CoreInstallProtocolInterface(g)
        BY <1>2
    <2>2. CASE Installed(g)
        BY <1>1, <2>1, <2>2 DEF CoreInstallProtocolInterface, database
    <2>3. CASE ~Installed(g)
        <3>1. list' = Append(list, g) /\ version' = version
            BY <2>1, <2>3 DEF CoreInstallProtocolInterface
        <3>2. ToSet(list') = ToSet(list) \cup {g}
            BY <1>1, <2>3, <3>1, AppendPlaces DEF Installed
        <3> QED BY <1>1, <3>1, <3>2
    <2> QED BY <2>2, <2>3
<1>3. CASE CoreUninstallProtocolInterface \/ CoreReinstallProtocolInterface
    <2>1. /\ frames # << >> /\ Top.do \in {"uninstall", "reinstall"} /\ Top.at = "lock"
          /\ Left = {}
        BY <1>3 DEF CoreUninstallProtocolInterface, CoreReinstallProtocolInterface,
                    Stopped, At, On
    <2>2. Top.h \in Handles /\ Top.h \in ToSet(list)
        BY <2>1, TopGood DEF GoodFrame, IInv, Held, Active, Stopping, Installed
    <2>3. h # Top.h
        BY <2>1 DEF Left
    <2>4. GoodList(Unlink(list, Top.h)) /\ ToSet(Unlink(list, Top.h)) = ToSet(list) \ {Top.h}
        BY <1>1, <2>2, UnlinkPlaces
    <2>5. CASE CoreUninstallProtocolInterface
        BY <1>1, <2>3, <2>4, <2>5 DEF CoreUninstallProtocolInterface
    <2>6. CASE CoreReinstallProtocolInterface
        <3>1. /\ list' = Append(Unlink(list, Top.h), Top.h)
              /\ version' = [version EXCEPT ![Top.h] = 1 - @]
            BY <2>6 DEF CoreReinstallProtocolInterface
        <3>2. version'[h] = version[h]
            BY <2>3, <3>1 DEF IInv, Types
        <3>3. ToSet(list') = ToSet(Unlink(list, Top.h)) \cup {Top.h}
            BY <2>2, <2>4, <3>1, AppendPlaces
        <3> QED BY <1>1, <2>4, <3>2, <3>3
    <2> QED BY <1>3, <2>5, <2>6
<1>4. CASE UNCHANGED <<list, version>>
    BY <1>1, <1>4
<1> QED BY <1>2, <1>3, <1>4, ListStays

\* An interface is not removed or replaced while a driver or an application manages it,
\* whatever the drivers and notifications do that run meanwhile.
THEOREM NoneTakenAway == ASSUME Owned = TRUE PROVE Spec => NotUnderItsUsers
<1>1. Spec => []IInv
    BY Invariance
<1>2. IInv /\ [Next]_vars => [Untaken]_vars
    BY NextUntaken
<1> QED BY <1>1, <1>2, PTL DEF Spec, NotUnderItsUsers, Untaken

-----------------------------------------------------------------------------
(***************************************************************************)
(* Positions implement what RegisterProtocolNotify promises.               *)
(***************************************************************************)
LEMMA SameUnlink ==
    ASSUME NEW s, NEW e
    PROVE  Notify!Unlink(s, e) = Unlink(s, e)
BY DEF Notify!Unlink, Notify!ToSet, Notify!RemoveAt, Unlink, ToSet, RemoveAt

LEMMA UnseenIs ==
    /\ Unseen = [r \in Regs |-> IF r \in registered THEN Rest(list, position[r]) ELSE << >>]
    /\ Unseen' = [r \in Regs |->
                     IF r \in registered' THEN Rest(list', position'[r]) ELSE << >>]
BY DEF Unseen, Behind, Index, Rest, Place

LEMMA InitNotify == Init => Notify!Init
BY DEF Init, Notify!Init, Unseen

\* An interface that is installed
LEMMA InstallNotify ==
    ASSUME IInv, NEW h \in Handles, CoreInstallProtocolInterface(h), ~Installed(h)
    PROVE  Notify!Install(h)
<1>1. list' = Append(list, h) /\ registered' = registered /\ position' = position
    BY DEF CoreInstallProtocolInterface
<1>2. GoodList(list) /\ h \notin ToSet(list)
    BY DEF IInv, Positions, Installed
<1>3. Notify!Unlink(list, h) = list
    BY <1>2, SameUnlink DEF Unlink
<1>4. ASSUME NEW r \in registered
      PROVE  /\ r \in Regs /\ Unseen[r] = Rest(list, position[r])
             /\ Rest(list', position'[r]) = Append(Notify!Unlink(Unseen[r], h), h)
    <2>1. r \in Regs /\ IsPosition(position[r], list)
        BY DEF IInv, Types, Positions
    <2>2. Unseen[r] = Rest(list, position[r])
        BY <2>1, UnseenIs
    <2>3. /\ Rest(Append(list, h), position[r]) = Append(Rest(list, position[r]), h)
          /\ h \notin ToSet(Rest(list, position[r]))
        BY <1>2, <2>1, AppendRest
    <2>4. Notify!Unlink(Unseen[r], h) = Unseen[r]
        BY <2>2, <2>3, SameUnlink DEF Unlink
    <2> QED BY <1>1, <2>1, <2>2, <2>3, <2>4
<1>5. Unseen' = [r \in Regs |-> IF r \in registered
                               THEN Append(Notify!Unlink(Unseen[r], h), h) ELSE << >>]
    BY <1>1, <1>4, UnseenIs
<1>6. list' = Append(Notify!Unlink(list, h), h)
    BY <1>1, <1>3
<1> QED BY <1>1, <1>5, <1>6 DEF Notify!Install

\* What the registrations have yet to see when an interface is unlinked
LEMMA BackUpUnseen ==
    ASSUME IInv, NEW h, h \in ToSet(list), BackUp(h), NEW r \in registered
    PROVE  /\ r \in Regs /\ Unseen[r] = Rest(list, position[r])
           /\ IsPosition(position'[r], Unlink(list, h))
           /\ Rest(Unlink(list, h), position'[r]) = Notify!Unlink(Unseen[r], h)
<1>1. r \in Regs /\ IsPosition(position[r], list) /\ GoodList(list)
    BY DEF IInv, Types, Positions
<1>2. Unseen[r] = Rest(list, position[r])
    BY <1>1, UnseenIs
<1>3. /\ position'[r] = BackedUp(list, position[r], h)
      /\ IsPosition(position'[r], Unlink(list, h))
    BY <1>1, BackUpIs
<1>4. Rest(Unlink(list, h), BackedUp(list, position[r], h)) = Unlink(Rest(list, position[r]), h)
    BY <1>1, UnlinkRest
<1> QED BY <1>1, <1>2, <1>3, <1>4, SameUnlink

\* Nobody is registered under a name that has nothing to see.
LEMMA UnseenOfOthers ==
    ASSUME NEW r \in Regs, r \notin registered, NEW h
    PROVE  Notify!Unlink(Unseen[r], h) = << >>
<1>1. Unseen[r] = << >>
    BY UnseenIs
<1>2. h \notin ToSet(<< >>)
    BY DEF ToSet
<1> QED BY <1>1, <1>2, SameUnlink DEF Unlink

LEMMA UninstallNotify ==
    ASSUME IInv, CoreUninstallProtocolInterface
    PROVE  Top.h \in Handles /\ Notify!Uninstall(Top.h)
<1> DEFINE h == Top.h
<1>1. /\ frames # << >> /\ Top.do = "uninstall" /\ Top.at = "lock"
      /\ BackUp(h) /\ list' = Unlink(list, h) /\ registered' = registered
    BY DEF CoreUninstallProtocolInterface, Stopped, At, On
<1>2. h \in Handles /\ h \in ToSet(list)
    BY <1>1, TopGood DEF GoodFrame, IInv, Held, Active, Stopping, Installed
<1> HIDE DEF h
<1>3. list' = Notify!Unlink(list, h)
    BY <1>1, SameUnlink
<1>4. ASSUME NEW r \in Regs
      PROVE  (IF r \in registered THEN Rest(list', position'[r]) ELSE << >>) =
                Notify!Unlink(Unseen[r], h)
    BY <1>1, <1>2, BackUpUnseen, UnseenOfOthers
<1>5. Unseen' = [r \in Regs |-> Notify!Unlink(Unseen[r], h)]
    BY <1>1, <1>4, UnseenIs
<1>6. Notify!Uninstall(h)
    BY <1>1, <1>3, <1>5 DEF Notify!Uninstall
<1> QED BY <1>2, <1>6 DEF h

LEMMA ReinstallNotify ==
    ASSUME IInv, CoreReinstallProtocolInterface
    PROVE  Top.h \in Handles /\ Notify!Install(Top.h)
<1> DEFINE h == Top.h
           m == Unlink(list, h)
<1>1. /\ frames # << >> /\ Top.do = "reinstall" /\ Top.at = "lock"
      /\ BackUp(h) /\ list' = Append(m, h) /\ registered' = registered
    BY DEF CoreReinstallProtocolInterface, Stopped, At, On
<1>2. h \in Handles /\ h \in ToSet(list)
    BY <1>1, TopGood DEF GoodFrame, IInv, Held, Active, Stopping, Installed
<1> HIDE DEF h
<1>3. GoodList(m) /\ h \notin ToSet(m)
    BY <1>2, UnlinkPlaces DEF IInv, Positions
<1>4. m = Notify!Unlink(list, h)
    BY SameUnlink
<1>5. ASSUME NEW r \in registered
      PROVE  /\ r \in Regs
             /\ Rest(list', position'[r]) = Append(Notify!Unlink(Unseen[r], h), h)
    <2>1. /\ r \in Regs /\ IsPosition(position'[r], m)
          /\ Rest(m, position'[r]) = Notify!Unlink(Unseen[r], h)
        BY <1>1, <1>2, BackUpUnseen
    <2> HIDE DEF m
    <2>2. Rest(Append(m, h), position'[r]) = Append(Rest(m, position'[r]), h)
        BY <1>2, <1>3, <2>1, AppendRest
    <2> QED BY <1>1, <2>1, <2>2
<1> HIDE DEF m
<1>6. Unseen' = [r \in Regs |-> IF r \in registered
                               THEN Append(Notify!Unlink(Unseen[r], h), h) ELSE << >>]
    BY <1>1, <1>5, UnseenIs
<1>7. Notify!Install(h)
    BY <1>1, <1>4, <1>6 DEF Notify!Install
<1> QED BY <1>2, <1>7 DEF h

LEMMA RegisterNotify ==
    ASSUME IInv, NEW r \in Regs, CoreRegisterProtocolNotify(r)
    PROVE  Notify!Register(r)
<1>1. /\ r \notin registered /\ registered' = registered \cup {r}
      /\ position' = [position EXCEPT ![r] = None] /\ list' = list
    BY DEF CoreRegisterProtocolNotify, database
<1>2. Rest(list, None) = list
    <2>1. list \in Seq(Handles) /\ Len(list) \in Nat
        BY DEF IInv, Positions, GoodList
    <2>2. Rest(list, None) = SubSeq(list, 1, Len(list))
        BY <2>1 DEF Rest, Place
    <2> QED BY <2>1, <2>2, SubSeqFull
<1>3. position \in [Regs -> Handles \cup {None}]
    BY DEF IInv, Positions
<1>4. ASSUME NEW q \in Regs
      PROVE  (IF q \in registered' THEN Rest(list', position'[q]) ELSE << >>) =
                IF q = r THEN list ELSE Unseen[q]
    <2>1. CASE q = r
        BY <1>1, <1>2, <1>3, <2>1
    <2>2. CASE q # r
        BY <1>1, <1>3, <2>2, UnseenIs
    <2> QED BY <2>1, <2>2
<1>5. Unseen' = [Unseen EXCEPT ![r] = list]
    BY <1>4, UnseenIs
<1> QED BY <1>1, <1>5 DEF Notify!Register

LEMMA UnregisterNotify ==
    ASSUME IInv, NEW r \in Regs, CoreUnregisterProtocolNotify(r)
    PROVE  Notify!Unregister(r)
<1>1. /\ registered' = registered \ {r} /\ list' = list
      /\ position' = [position EXCEPT ![r] = None]
    BY DEF CoreUnregisterProtocolNotify, database
<1>2. position \in [Regs -> Handles \cup {None}]
    BY DEF IInv, Positions
<1>3. ASSUME NEW q \in Regs
      PROVE  (IF q \in registered' THEN Rest(list', position'[q]) ELSE << >>) =
                IF q = r THEN << >> ELSE Unseen[q]
    BY <1>1, <1>2, UnseenIs
<1>4. Unseen' = [Unseen EXCEPT ![r] = << >>]
    BY <1>3, UnseenIs
<1> QED BY <1>1, <1>4 DEF Notify!Unregister, Notify!Forget

\* A registration that is closed in its notification function sees no more.
LEMMA LocateNotify ==
    ASSUME IInv, CoreLocateProtocol
    PROVE  \/ UNCHANGED <<list, registered, Unseen>>
           \/ \E r \in Regs : Notify!Locate(r)
<1> DEFINE r == Top.agent
           x == position[r]
<1>1. /\ UNCHANGED <<list, registered>> /\ frames # << >> /\ Top.do = "notification"
    BY DEF CoreLocateProtocol, On, database
<1>2. r \in Regs /\ IsPosition(x, list) /\ GoodList(list)
    BY <1>1, TopGood DEF GoodFrame, IInv, Positions
<1>3. CASE Rest(list, x) = << >>
    <2>1. position' = position
        BY <1>3, BehindIsRest DEF CoreLocateProtocol
    <2> QED BY <1>1, <2>1, UnseenIs
<1>4. CASE Rest(list, x) # << >>
    <2> DEFINE y == Head(Rest(list, x))
    <2>1. position' = [position EXCEPT ![r] = y]
        BY <1>2, <1>4, BehindIsRest DEF CoreLocateProtocol, Advance
    <2>2. Rest(list, y) = Tail(Rest(list, x))
        BY <1>2, <1>4, TailRest
    <2>3. position \in [Regs -> Handles \cup {None}]
        BY DEF IInv, Positions
    <2>4. position'[r] = y /\ \A q \in Regs : q # r => position'[q] = position[q]
        BY <1>2, <2>1, <2>3
    <2>5. CASE r \in registered
        <3>1. Unseen[r] = Rest(list, x)
            BY <1>2, <2>5, UnseenIs
        <3> HIDE DEF r, y
        <3>2. ASSUME NEW q \in Regs
              PROVE  (IF q \in registered' THEN Rest(list', position'[q]) ELSE << >>) =
                        IF q = r THEN Tail(Unseen[r]) ELSE Unseen[q]
            BY <1>1, <2>2, <2>4, <2>5, <3>1, UnseenIs
        <3>3. Unseen' = [Unseen EXCEPT ![r] = Tail(@)]
            BY <3>2, UnseenIs
        <3>4. Notify!Locate(r)
            BY <1>1, <1>4, <3>1, <3>3 DEF Notify!Locate
        <3> QED BY <1>2, <3>4
    <2>6. CASE r \notin registered
        BY <1>1, <2>4, <2>6, UnseenIs
    <2> QED BY <2>5, <2>6
<1> QED BY <1>3, <1>4

\* The others
LEMMA NotifyStays ==
    ASSUME [Next]_vars,
           ~ \E h \in Handles : CoreInstallProtocolInterface(h) /\ ~Installed(h),
           ~ CoreUninstallProtocolInterface, ~ CoreReinstallProtocolInterface,
           ~ \E r \in Regs : CoreRegisterProtocolNotify(r) \/ CoreUnregisterProtocolNotify(r),
           ~ CoreLocateProtocol
    PROVE  UNCHANGED <<list, registered, Unseen>>
<1>1. UNCHANGED <<list, registered, position>>
    BY DEF Next, Call, GoOn, vars, database, notify, CoreInstallProtocolInterface,
           CoreConnectController, CoreUninstall, CoreDisconnectController,
           CoreCloseProtocol, CoreOpenProtocol, FindDriver, Stop, StopFails, AccessDenied,
           Connected, OpenExclusive, Start, NotStarted, Notification
<1> QED BY <1>1, UnseenIs

LEMMA NextNotify ==
    ASSUME IInv, [Next]_vars
    PROVE  [Notify!Next]_(Notify!vars)
<1>1. CASE \E h \in Handles : CoreInstallProtocolInterface(h) /\ ~Installed(h)
    BY <1>1, InstallNotify DEF Notify!Next
<1>2. CASE CoreUninstallProtocolInterface
    BY <1>2, UninstallNotify DEF Notify!Next
<1>3. CASE CoreReinstallProtocolInterface
    BY <1>3, ReinstallNotify DEF Notify!Next
<1>4. CASE \E r \in Regs : CoreRegisterProtocolNotify(r) \/ CoreUnregisterProtocolNotify(r)
    BY <1>4, RegisterNotify, UnregisterNotify DEF Notify!Next
<1>5. CASE CoreLocateProtocol
    BY <1>5, LocateNotify DEF Notify!Next, Notify!vars
<1>6. CASE UNCHANGED <<list, registered, Unseen>>
    BY <1>6 DEF Notify!vars
<1> QED BY <1>1, <1>2, <1>3, <1>4, <1>5, <1>6, NotifyStays

\* Each registration is told of each interface that is there or is installed later, once
\* and in the order of installation, unless the interface is removed before: the position
\* of a registration, backed up when its interface is unlinked, is enough to remember it.
THEOREM NotifyImplemented == ASSUME Owned = TRUE PROVE Spec => ImplementsNotify
<1>1. Spec => []IInv
    BY Invariance
<1>2. Init => Notify!Init
    BY InitNotify
<1>3. IInv /\ [Next]_vars => [Notify!Next]_(Notify!vars)
    BY NextNotify
<1> QED BY <1>1, <1>2, <1>3, PTL DEF Spec, ImplementsNotify, Notify!Spec
=============================================================================

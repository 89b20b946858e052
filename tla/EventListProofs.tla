-------------------------- MODULE EventListProofs --------------------------
(***************************************************************************)
(* Lemmas about lists and about the least number of a set, which the       *)
(* proofs about the modules that keep lists have in common.                *)
(***************************************************************************)
EXTENDS EventList, SequenceTheorems, WellFoundedInduction, TLAPS

\* A set of numbers that is not empty has a least one.
LEMMA LeastNat ==
    ASSUME NEW S, S \subseteq Nat, S # {}
    PROVE  \E i \in S : \A j \in S : i <= j
<1>1. PICK x \in S : \A y \in S : ~(<<y, x>> \in OpToRel(<, Nat))
    BY WFMin, NatLessThanWellFounded
<1>2. \A y \in S : ~(y < x)
    BY <1>1 DEF OpToRel
<1>3. \A y \in S : y \in Nat /\ x \in Nat
    OBVIOUS
<1> QED BY <1>2, <1>3

\* Unlink closes the gap that the entry leaves.
LEMMA UnlinkEntry ==
    ASSUME NEW S, NEW s \in Seq(S), NEW e, e \in ToSet(s)
    PROVE  \E k \in 1 .. Len(s) :
              /\ s[k] = e
              /\ Unlink(s, e) \in Seq(S)
              /\ Len(Unlink(s, e)) = Len(s) - 1
              /\ \A i \in 1 .. Len(s) - 1 :
                    Unlink(s, e)[i] = IF i < k THEN s[i] ELSE s[i + 1]
<1> DEFINE k == CHOOSE j \in DOMAIN s : s[j] = e
           a == SubSeq(s, 1, k - 1)
           b == SubSeq(s, k + 1, Len(s))
<1>1. k \in 1 .. Len(s) /\ s[k] = e /\ Len(s) \in Nat
    BY DEF ToSet
<1>2. /\ a \in Seq(S) /\ Len(a) = k - 1
      /\ \A i \in 1 .. k - 1 : a[i] = s[i]
    <2>1. \A i \in 1 .. k - 1 : s[i] \in S
        BY <1>1
    <2> HIDE DEF k
    <2> QED BY <1>1, <2>1, SubSeqProperties
<1>3. /\ b \in Seq(S) /\ Len(b) = Len(s) - k
      /\ \A i \in 1 .. Len(s) - k : b[i] = s[k + i]
    <2>1. \A i \in k + 1 .. Len(s) : s[i] \in S
        BY <1>1
    <2> HIDE DEF k
    <2>2. /\ b \in Seq(S)
          /\ Len(b) = IF k + 1 <= Len(s) THEN Len(s) - (k + 1) + 1 ELSE 0
          /\ \A i \in 1 .. Len(s) - (k + 1) + 1 : b[i] = s[k + 1 + i - 1]
        BY <1>1, <2>1, SubSeqProperties
    <2> QED BY <1>1, <2>2
<1>4. Unlink(s, e) = a \o b
    BY DEF Unlink, RemoveAt
<1> HIDE DEF k, a, b
<1>5. /\ a \o b \in Seq(S) /\ Len(a \o b) = Len(s) - 1
      /\ \A i \in 1 .. Len(s) - 1 :
            (a \o b)[i] = IF i <= k - 1 THEN a[i] ELSE b[i - (k - 1)]
    BY <1>1, <1>2, <1>3, ConcatProperties
<1>6. \A i \in 1 .. Len(s) - 1 :
            (a \o b)[i] = IF i < k THEN s[i] ELSE s[i + 1]
    BY <1>1, <1>2, <1>3, <1>5
<1> QED BY <1>1, <1>4, <1>5, <1>6

LEMMA UnlinkType ==
    ASSUME NEW S, NEW s \in Seq(S), NEW e
    PROVE  Unlink(s, e) \in Seq(S)
<1>1. CASE e \notin ToSet(s)
    BY <1>1 DEF Unlink
<1>2. CASE e \in ToSet(s)
    BY <1>2, UnlinkEntry
<1> QED BY <1>1, <1>2

\* In a list without repetitions, Unlink takes out e and nothing else.
LEMMA UnlinkInjective ==
    ASSUME NEW S, NEW s \in Seq(S), IsInjective(s), NEW e
    PROVE  /\ Unlink(s, e) \in Seq(S) /\ IsInjective(Unlink(s, e))
           /\ ToSet(Unlink(s, e)) = ToSet(s) \ {e}
<1>1. CASE e \notin ToSet(s)
    BY <1>1 DEF Unlink
<1>2. CASE e \in ToSet(s)
    <2> DEFINE r == Unlink(s, e)
    <2>1. PICK k \in 1 .. Len(s) :
              /\ s[k] = e
              /\ r \in Seq(S)
              /\ Len(r) = Len(s) - 1
              /\ \A i \in 1 .. Len(s) - 1 :
                    r[i] = IF i < k THEN s[i] ELSE s[i + 1]
        BY <1>2, UnlinkEntry
    <2> HIDE DEF r
    <2>2. \A i, j \in 1 .. Len(s) : s[i] = s[j] => i = j
        BY DEF IsInjective
    <2>3. ToSet(r) = ToSet(s) \ {e}
        <3>1. ASSUME NEW x \in ToSet(r) PROVE x \in ToSet(s) \ {e}
            <4>1. PICK i \in 1 .. Len(s) - 1 : x = r[i]
                BY <2>1, <3>1 DEF ToSet
            <4>2. CASE i < k
                <5>1. i \in 1 .. Len(s) /\ i # k /\ x = s[i]
                    BY <2>1, <4>1, <4>2
                <5> QED BY <2>1, <2>2, <5>1 DEF ToSet
            <4>3. CASE ~(i < k)
                <5>1. i + 1 \in 1 .. Len(s) /\ i + 1 # k /\ x = s[i + 1]
                    BY <2>1, <4>1, <4>3
                <5> QED BY <2>1, <2>2, <5>1 DEF ToSet
            <4> QED BY <4>2, <4>3
        <3>2. ASSUME NEW x \in ToSet(s) \ {e} PROVE x \in ToSet(r)
            <4>1. PICK i \in 1 .. Len(s) : x = s[i]
                BY <3>2 DEF ToSet
            <4>2. CASE i < k
                <5>1. i \in 1 .. Len(s) - 1 /\ r[i] = x
                    BY <2>1, <4>1, <4>2
                <5> QED BY <2>1, <5>1 DEF ToSet
            <4>3. CASE i > k
                <5>1. i - 1 \in 1 .. Len(s) - 1 /\ r[i - 1] = x
                    BY <2>1, <4>1, <4>3
                <5> QED BY <2>1, <5>1 DEF ToSet
            <4> QED BY <2>1, <3>2, <4>1, <4>2, <4>3
        <3> QED BY <3>1, <3>2
    <2>4. IsInjective(r)
        <3> SUFFICES ASSUME NEW i \in 1 .. Len(s) - 1,
                            NEW j \in 1 .. Len(s) - 1, r[i] = r[j]
                     PROVE  i = j
            BY <2>1 DEF IsInjective
        <3> DEFINE m == IF i < k THEN i ELSE i + 1
                   n == IF j < k THEN j ELSE j + 1
        <3>1. m \in 1 .. Len(s) /\ n \in 1 .. Len(s) /\ (m = n => i = j)
            BY <2>1
        <3>2. r[i] = s[m] /\ r[j] = s[n]
            BY <2>1
        <3> HIDE DEF m, n
        <3> QED BY <2>2, <3>1, <3>2
    <2> QED BY <2>1, <2>3, <2>4 DEF r
<1> QED BY <1>1, <1>2


\* InsertTailList of an entry that is not listed
LEMMA AppendInjects ==
    ASSUME NEW S, NEW s \in Seq(S), IsInjective(s), NEW e \in S, e \notin ToSet(s)
    PROVE  /\ Append(s, e) \in Seq(S) /\ IsInjective(Append(s, e))
           /\ ToSet(Append(s, e)) = ToSet(s) \cup {e}
<1> DEFINE t == Append(s, e)
<1>1. /\ t \in Seq(S) /\ Len(t) = Len(s) + 1 /\ Len(s) \in Nat
      /\ \A i \in 1 .. Len(s) : t[i] = s[i]
      /\ t[Len(s) + 1] = e
    BY AppendProperties
<1> HIDE DEF t
<1>2. DOMAIN t = 1 .. Len(s) + 1 /\ DOMAIN s = 1 .. Len(s)
    BY <1>1
<1>3. \A i \in 1 .. Len(s) : s[i] # e
    BY <1>2 DEF ToSet
<1>4. IsInjective(t)
    <2> SUFFICES ASSUME NEW i \in 1 .. Len(s) + 1, NEW j \in 1 .. Len(s) + 1, t[i] = t[j]
                 PROVE  i = j
        BY <1>2 DEF IsInjective
    <2>1. CASE i \in 1 .. Len(s) /\ j \in 1 .. Len(s)
        BY <1>1, <1>2, <2>1 DEF IsInjective
    <2>2. CASE i = Len(s) + 1 \/ j = Len(s) + 1
        BY <1>1, <1>3, <2>2
    <2> QED BY <1>1, <2>1, <2>2
<1>5. ToSet(t) \subseteq ToSet(s) \cup {e}
    <2> SUFFICES ASSUME NEW i \in 1 .. Len(s) + 1 PROVE t[i] \in ToSet(s) \cup {e}
        BY <1>2 DEF ToSet
    <2>1. CASE i = Len(s) + 1
        BY <1>1, <2>1
    <2>2. CASE i \in 1 .. Len(s)
        BY <1>1, <1>2, <2>2 DEF ToSet
    <2> QED BY <1>1, <2>1, <2>2
<1>6. ToSet(s) \cup {e} \subseteq ToSet(t)
    <2>1. ASSUME NEW i \in 1 .. Len(s) PROVE s[i] \in ToSet(t)
        <3>1. i \in DOMAIN t /\ t[i] = s[i]
            BY <1>1, <1>2
        <3> QED BY <3>1 DEF ToSet
    <2>2. e \in ToSet(t)
        <3>1. Len(s) + 1 \in DOMAIN t
            BY <1>1, <1>2
        <3> QED BY <1>1, <3>1 DEF ToSet
    <2> QED BY <1>2, <2>1, <2>2 DEF ToSet
<1> QED BY <1>1, <1>4, <1>5, <1>6 DEF t

\* The first entry is taken off the list.
LEMMA TailInjects ==
    ASSUME NEW S, NEW s \in Seq(S), IsInjective(s), s # << >>
    PROVE  /\ Head(s) \in ToSet(s) /\ Tail(s) \in Seq(S) /\ IsInjective(Tail(s))
           /\ ToSet(Tail(s)) = ToSet(s) \ {Head(s)}
<1> DEFINE t == Tail(s)
<1>1. Len(s) \in Nat \ {0} /\ DOMAIN s = 1 .. Len(s)
    BY EmptySeq
<1>2. /\ t \in Seq(S) /\ Len(t) = Len(s) - 1 /\ Head(s) = s[1]
      /\ \A i \in 1 .. Len(t) : t[i] = s[i + 1]
    BY HeadTailProperties
<1> HIDE DEF t
<1>3. DOMAIN t = 1 .. Len(s) - 1
    BY <1>1, <1>2
<1>4. Head(s) \in ToSet(s)
    BY <1>1, <1>2 DEF ToSet
<1>5. IsInjective(t)
    <2> SUFFICES ASSUME NEW i \in 1 .. Len(s) - 1, NEW j \in 1 .. Len(s) - 1, t[i] = t[j]
                 PROVE  i = j
        BY <1>3 DEF IsInjective
    <2>1. /\ i + 1 \in 1 .. Len(s) /\ j + 1 \in 1 .. Len(s)
          /\ s[i + 1] = s[j + 1]
        BY <1>1, <1>2
    <2>2. i + 1 = j + 1
        BY <1>1, <2>1 DEF IsInjective
    <2> QED BY <2>2
<1>6. ASSUME NEW x \in ToSet(t) PROVE x \in ToSet(s) /\ x # Head(s)
    <2>1. PICK i \in 1 .. Len(s) - 1 : x = t[i]
        BY <1>3 DEF ToSet
    <2>2. i + 1 \in 1 .. Len(s) /\ x = s[i + 1] /\ i + 1 # 1 /\ 1 \in 1 .. Len(s)
        BY <1>1, <1>2, <2>1
    <2> QED BY <1>1, <1>2, <2>2 DEF ToSet, IsInjective
<1>7. ASSUME NEW x \in ToSet(s), x # Head(s) PROVE x \in ToSet(t)
    <2>1. PICK i \in 1 .. Len(s) : x = s[i]
        BY <1>1 DEF ToSet
    <2>2. i - 1 \in 1 .. Len(s) - 1 /\ t[i - 1] = x
        BY <1>1, <1>2, <1>7, <2>1
    <2> QED BY <1>3, <2>2 DEF ToSet
<1> QED BY <1>2, <1>4, <1>5, <1>6, <1>7 DEF t

\* InsertHeadList of an entry that is not listed
LEMMA ConsInjects ==
    ASSUME NEW S, NEW s \in Seq(S), IsInjective(s), NEW e \in S, e \notin ToSet(s)
    PROVE  /\ Cons(e, s) \in Seq(S) /\ IsInjective(Cons(e, s))
           /\ ToSet(Cons(e, s)) = ToSet(s) \cup {e}
<1> DEFINE t == Cons(e, s)
<1>1. /\ t \in Seq(S) /\ Len(t) = Len(s) + 1 /\ Len(s) \in Nat /\ t[1] = e
      /\ \A i \in 2 .. Len(s) + 1 : t[i] = s[i - 1]
    <2>1. << e >> \in Seq(S) /\ Len(<< e >>) = 1 /\ << e >>[1] = e
        OBVIOUS
    <2>2. t = << e >> \o s
        BY DEF Cons
    <2> HIDE DEF t
    <2> QED BY <2>1, <2>2, ConcatProperties
<1> HIDE DEF t
<1>2. DOMAIN t = 1 .. Len(s) + 1 /\ DOMAIN s = 1 .. Len(s)
    BY <1>1
<1>3. ASSUME NEW i \in 1 .. Len(s)
      PROVE  s[i] # e /\ s[i] \in ToSet(t)
    <2>1. i + 1 \in 2 .. Len(s) + 1 /\ t[i + 1] = s[i]
        BY <1>1
    <2>2. i + 1 \in DOMAIN t
        BY <1>1, <1>2
    <2> QED BY <1>2, <2>1, <2>2 DEF ToSet
<1>4. ASSUME NEW i \in 2 .. Len(s) + 1
      PROVE  i - 1 \in 1 .. Len(s) /\ t[i] = s[i - 1] /\ t[i] # e /\ t[i] \in ToSet(s)
    BY <1>1, <1>2, <1>3 DEF ToSet
<1>5. IsInjective(t)
    <2> SUFFICES ASSUME NEW i \in 1 .. Len(s) + 1, NEW j \in 1 .. Len(s) + 1, t[i] = t[j]
                 PROVE  i = j
        BY <1>2 DEF IsInjective
    <2>1. CASE i = 1 \/ j = 1
        BY <1>1, <1>4, <2>1
    <2>2. CASE i \in 2 .. Len(s) + 1 /\ j \in 2 .. Len(s) + 1
        <3>1. i - 1 = j - 1
            BY <1>2, <1>4, <2>2 DEF IsInjective
        <3> QED BY <3>1
    <2> QED BY <1>1, <2>1, <2>2
<1>6. e \in ToSet(t)
    <2>1. 1 \in DOMAIN t
        BY <1>1, <1>2
    <2> QED BY <1>1, <2>1 DEF ToSet
<1>7. ToSet(t) \subseteq ToSet(s) \cup {e}
    <2> SUFFICES ASSUME NEW i \in 1 .. Len(s) + 1 PROVE t[i] \in ToSet(s) \cup {e}
        BY <1>2 DEF ToSet
    <2>1. CASE i = 1
        BY <1>1, <2>1
    <2>2. CASE i \in 2 .. Len(s) + 1
        BY <1>4, <2>2
    <2> QED BY <1>1, <2>1, <2>2
<1>8. ToSet(s) \subseteq ToSet(t)
    BY <1>2, <1>3 DEF ToSet
<1> QED BY <1>1, <1>5, <1>6, <1>7, <1>8 DEF t
=============================================================================

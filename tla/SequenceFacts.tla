---------------------------- MODULE SequenceFacts ----------------------------
(***************************************************************************)
(* Facts about sequences that the proofs of the components cite: what      *)
(* appending, joining and taking the head or the first occurrence away do  *)
(* to the elements, and that a set of numbers has a least one.             *)
(***************************************************************************)
EXTENDS Naturals, Sequences, SequencesExt, SequenceTheorems,
        WellFoundedInduction, TLAPS

LEMMA Appended ==
  ASSUME NEW S, NEW q \in Seq(S), NEW x \in S
  PROVE  /\ Append(q, x) \in Seq(S)
         /\ Len(Append(q, x)) = Len(q) + 1
         /\ \A i \in 1 .. Len(q) : Append(q, x)[i] = q[i]
         /\ Append(q, x)[Len(q) + 1] = x
  OBVIOUS

LEMMA Joined ==
  ASSUME NEW S, NEW a \in Seq(S), NEW b \in Seq(S)
  PROVE  /\ a \o b \in Seq(S)
         /\ Len(a \o b) = Len(a) + Len(b)
         /\ \A i \in 1 .. Len(a) : (a \o b)[i] = a[i]
         /\ \A i \in 1 .. Len(b) : (a \o b)[Len(a) + i] = b[i]
<1>1. a \o b \in Seq(S) /\ Len(a \o b) = Len(a) + Len(b) BY ConcatProperties
<1>2. ASSUME NEW i \in 1 .. Len(a) PROVE (a \o b)[i] = a[i] BY ConcatProperties
<1>3. ASSUME NEW i \in 1 .. Len(b) PROVE (a \o b)[Len(a) + i] = b[i]
  BY ConcatProperties
<1> QED BY <1>1, <1>2, <1>3

LEMMA Tailed ==
  ASSUME NEW S, NEW q \in Seq(S), q # <<>>
  PROVE  /\ Len(q) \in Nat \ {0} /\ 1 \in DOMAIN q /\ Head(q) = q[1] /\ Head(q) \in S
         /\ Tail(q) \in Seq(S) /\ Len(Tail(q)) = Len(q) - 1
         /\ \A i \in 1 .. Len(q) - 1 : Tail(q)[i] = q[i + 1]
  OBVIOUS

\* What is behind the first w elements.
Behind(q, w) == SubSeq(q, w + 1, Len(q))

LEMMA BehindFacts ==
  ASSUME NEW S, NEW q \in Seq(S), NEW w \in 0 .. Len(q)
  PROVE  /\ Behind(q, w) \in Seq(S)
         /\ Len(Behind(q, w)) = Len(q) - w
         /\ \A i \in 1 .. Len(q) - w : Behind(q, w)[i] = q[w + i]
  BY DEF Behind

(***************************************************************************)
(* A set of natural numbers has a least element: the form of induction     *)
(* that can be cited here.                                                 *)
(***************************************************************************)
Less == OpToRel(<, Nat)

LEMMA LessIs == \A x, y \in Nat : <<x, y>> \in Less <=> x < y
<1>1. Less = {ss \in Nat \X Nat : ss[1] < ss[2]}
  BY Zenon DEF OpToRel, Less
<1>2. SUFFICES ASSUME NEW x \in Nat, NEW y \in Nat PROVE <<x, y>> \in Less <=> x < y
  OBVIOUS
<1>3. <<x, y>> \in Nat \X Nat /\ <<x, y>>[1] = x /\ <<x, y>>[2] = y OBVIOUS
<1> QED BY <1>1, <1>3, Zenon

LEMMA LeastIndex ==
  ASSUME NEW I \in SUBSET Nat, I # {}
  PROVE  Min(I) \in I /\ \A i \in I : Min(I) <= i
<1>1. IsWellFoundedOn(Less, Nat) BY NatLessThanWellFounded DEF Less
<1>2. PICK x \in I : \A y \in I : ~ (<<y, x>> \in Less)
  BY <1>1, WFMin
<1>3. \A y \in I : ~ (y < x) BY <1>2, LessIs, Zenon
<1>4. \A y \in I : x <= y BY <1>3
<1> QED BY <1>4, Zenon DEF Min

LEMMA JoinedWithout ==
  ASSUME NEW S, NEW q \in Seq(S), NEW i \in 1 .. Len(q), NEW a \in Seq(S), NEW b \in Seq(S),
         Len(a) = i - 1, \A j \in 1 .. i - 1 : a[j] = q[j],
         Len(b) = Len(q) - i, \A j \in 1 .. Len(q) - i : b[j] = q[i + j]
  PROVE  /\ a \o b \in Seq(S)
         /\ Len(a \o b) = Len(q) - 1
         /\ \A j \in 1 .. Len(q) - 1 : (a \o b)[j] = IF j < i THEN q[j] ELSE q[j + 1]
<1>0. a \o b \in Seq(S) /\ Len(a \o b) = Len(a) + Len(b) BY ConcatProperties
<1>1. Len(a \o b) = Len(q) - 1 BY <1>0
<1>2. ASSUME NEW j \in 1 .. Len(q) - 1
      PROVE  (a \o b)[j] = IF j < i THEN q[j] ELSE q[j + 1]
  <2>1. CASE j < i
    <3>1. j \in 1 .. i - 1 BY <2>1
    <3>2. (a \o b)[j] = a[j] BY <3>1
    <3> QED BY <2>1, <3>1, <3>2
  <2>2. CASE ~ (j < i)
    <3>1. j - (i - 1) \in 1 .. Len(q) - i /\ i + (j - (i - 1)) = j + 1 BY <2>2
    <3>2. (a \o b)[j] = b[j - Len(a)] BY <2>2, ConcatProperties
    <3> QED BY <2>2, <3>1, <3>2
  <2> QED BY <2>1, <2>2
<1> QED BY <1>0, <1>1, <1>2

LEMMA RemoveFirstFacts ==
  ASSUME NEW S, NEW q \in Seq(S), NEW m, \E j \in DOMAIN q : q[j] = m
  PROVE  \E i \in DOMAIN q :
           /\ q[i] = m
           /\ RemoveFirst(q, m) \in Seq(S)
           /\ Len(RemoveFirst(q, m)) = Len(q) - 1
           /\ \A j \in 1 .. Len(q) - 1 : RemoveFirst(q, m)[j] = IF j < i THEN q[j] ELSE q[j + 1]
<1> DEFINE I == {i \in 1 .. Len(q) : q[i] = m}
<1>0. I \in SUBSET Nat /\ I # {} OBVIOUS
<1>1. PICK i \in I : i = Min(I)
  BY <1>0, LeastIndex
<1>2. RemoveFirst(q, m) = SubSeq(q, 1, i - 1) \o SubSeq(q, i + 1, Len(q))
  <2>1. SelectInSeq(q, LAMBDA v : v = m) = i
    BY <1>0, <1>1, Zenon DEF SelectInSeq
  <2>2. \E j \in 1 .. Len(q) : q[j] = m OBVIOUS
  <2>3. RemoveFirst(q, m) = RemoveAt(q, SelectInSeq(q, LAMBDA v : v = m))
    BY <2>2, Zenon DEF RemoveFirst
  <2> QED BY <2>1, <2>3, Zenon DEF RemoveAt
<1> HIDE DEF I
<1>3. i \in 1 .. Len(q) /\ q[i] = m BY DEF I
<1>5. /\ SubSeq(q, 1, i - 1) \in Seq(S) /\ Len(SubSeq(q, 1, i - 1)) = i - 1
      /\ \A j \in 1 .. i - 1 : SubSeq(q, 1, i - 1)[j] = q[j]
  BY <1>3
<1>4. /\ SubSeq(q, i + 1, Len(q)) \in Seq(S) /\ Len(SubSeq(q, i + 1, Len(q))) = Len(q) - i
      /\ \A j \in 1 .. Len(q) - i : SubSeq(q, i + 1, Len(q))[j] = q[i + j]
  BY <1>3
<1>6. PICK a \in Seq(S), b \in Seq(S) : a = SubSeq(q, 1, i - 1) /\ b = SubSeq(q, i + 1, Len(q))
  BY <1>4, <1>5
<1>7. /\ Len(a) = i - 1 /\ \A j \in 1 .. i - 1 : a[j] = q[j]
      /\ Len(b) = Len(q) - i /\ \A j \in 1 .. Len(q) - i : b[j] = q[i + j]
  BY <1>4, <1>5, <1>6
<1>8. RemoveFirst(q, m) = a \o b BY <1>2, <1>6, Zenon
<1>9. /\ a \o b \in Seq(S)
      /\ Len(a \o b) = Len(q) - 1
      /\ \A j \in 1 .. Len(q) - 1 : (a \o b)[j] = IF j < i THEN q[j] ELSE q[j + 1]
  <2>1. i \in 1 .. Len(q) BY <1>3
  <2> QED BY <1>7, <2>1, JoinedWithout
<1>10. i \in DOMAIN q BY <1>3
<1> QED BY <1>3, <1>8, <1>9, <1>10

LEMMA ToSetAppended ==
  ASSUME NEW S, NEW q \in Seq(S), NEW x \in S
  PROVE  /\ ToSet(Append(q, x)) = ToSet(q) \cup {x}
         /\ IsInjective(q) /\ x \notin ToSet(q) => IsInjective(Append(q, x))
  BY Appended DEF ToSet, IsInjective

LEMMA ToSetTail ==
  ASSUME NEW S, NEW q \in Seq(S), q # <<>>
  PROVE  /\ ToSet(q) = {Head(q)} \cup ToSet(Tail(q))
         /\ IsInjective(q) => IsInjective(Tail(q)) /\ Head(q) \notin ToSet(Tail(q))
<1>1. PICK t \in Seq(S) : t = Tail(q) BY Tailed
<1>2. /\ Head(q) = q[1] /\ Len(q) \in Nat \ {0} /\ Len(t) = Len(q) - 1
      /\ \A i \in 1 .. Len(t) : t[i] = q[i + 1]
  BY <1>1, Tailed
<1>3. \A i \in 1 .. Len(q) : i = 1 \/ (i - 1 \in 1 .. Len(t) /\ q[i] = t[i - 1])
  BY <1>2
<1>4. ToSet(q) = {Head(q)} \cup ToSet(t)
  <2>1. ToSet(q) \subseteq {Head(q)} \cup ToSet(t) BY <1>2, <1>3 DEF ToSet
  <2>2. {Head(q)} \cup ToSet(t) \subseteq ToSet(q)
    <3>1. \A i \in DOMAIN t : i + 1 \in DOMAIN q /\ q[i + 1] = t[i] BY <1>2
    <3> QED BY <1>2, <3>1 DEF ToSet
  <2> QED BY <2>1, <2>2
<1>5. ASSUME IsInjective(q) PROVE IsInjective(t) /\ Head(q) \notin ToSet(t)
  <2>1. \A i \in DOMAIN t : i + 1 \in DOMAIN q /\ q[i + 1] = t[i] /\ i + 1 # 1 BY <1>2
  <2>2. 1 \in DOMAIN q /\ q[1] = Head(q) BY <1>2
  <2>3. IsInjective(t)
    <3> SUFFICES ASSUME NEW i \in DOMAIN t, NEW j \in DOMAIN t, t[i] = t[j] PROVE i = j
      BY DEF IsInjective
    <3>1. i + 1 = j + 1 BY <1>5, <2>1 DEF IsInjective
    <3> QED BY <3>1
  <2>4. Head(q) \notin ToSet(t) BY <1>5, <2>1, <2>2 DEF IsInjective, ToSet
  <2> QED BY <2>3, <2>4
<1> QED BY <1>1, <1>4, <1>5

LEMMA ToSetWithout ==
  ASSUME NEW S, NEW q \in Seq(S), NEW m, IsInjective(q)
  PROVE  /\ RemoveFirst(q, m) \in Seq(S)
         /\ ToSet(RemoveFirst(q, m)) = ToSet(q) \ {m}
         /\ IsInjective(RemoveFirst(q, m))
<1>1. CASE \A j \in DOMAIN q : q[j] # m
  <2>1. ~ \E i \in 1 .. Len(q) : q[i] = m BY <1>1
  <2>2. RemoveFirst(q, m) = q BY <2>1, Zenon DEF RemoveFirst
  <2> QED BY <1>1, <2>2 DEF ToSet
<1>2. CASE \E j \in DOMAIN q : q[j] = m
  <2>1. PICK k \in DOMAIN q, r \in Seq(S) :
          /\ r = RemoveFirst(q, m) /\ q[k] = m /\ Len(r) = Len(q) - 1
          /\ \A j \in 1 .. Len(q) - 1 : r[j] = IF j < k THEN q[j] ELSE q[j + 1]
    BY <1>2, RemoveFirstFacts
  <2>2. \A j \in DOMAIN r : LET i == IF j < k THEN j ELSE j + 1
                             IN  i \in DOMAIN q /\ i # k /\ r[j] = q[i]
    BY <2>1
  <2>3. \A i \in DOMAIN q : i # k => \E j \in DOMAIN r : r[j] = q[i]
    <3> SUFFICES ASSUME NEW i \in DOMAIN q, i # k PROVE \E j \in DOMAIN r : r[j] = q[i]
      OBVIOUS
    <3>1. CASE i < k BY <2>1, <3>1
    <3>2. CASE i > k
      <4>1. i - 1 \in DOMAIN r /\ r[i - 1] = q[i - 1 + 1] BY <2>1, <3>2
      <4> QED BY <4>1
    <3> QED BY <3>1, <3>2
  <2>4. ToSet(r) = ToSet(q) \ {m}
    <3>1. ToSet(r) \subseteq ToSet(q) \ {m} BY <2>1, <2>2 DEF ToSet, IsInjective
    <3>2. ToSet(q) \ {m} \subseteq ToSet(r) BY <2>1, <2>3 DEF ToSet
    <3> QED BY <3>1, <3>2
  <2>5. IsInjective(r)
    <3> SUFFICES ASSUME NEW i \in DOMAIN r, NEW j \in DOMAIN r, r[i] = r[j] PROVE i = j
      BY DEF IsInjective
    <3>1. (IF i < k THEN i ELSE i + 1) = (IF j < k THEN j ELSE j + 1)
      BY <2>2 DEF IsInjective
    <3> QED BY <3>1
  <2> QED BY <2>1, <2>4, <2>5
<1> QED BY <1>1, <1>2
==============================================================================

-------------------------- MODULE SessionLoopFacts --------------------------
(***************************************************************************)
(* Facts about the operators SessionLoop is built from, for any messages:  *)
(* how a transcript grows and which messages it has recorded, what the     *)
(* repair of the calls cut off leaves, which messages the inputs of a      *)
(* queue carry, and what an input does to the conversation.  None of them  *)
(* is about a step; SessionLoopProofs cites them.                          *)
(***************************************************************************)
EXTENDS SessionLoop, SequenceFacts, FiniteSetTheorems, TLAPS

LEMMA Numbers ==
  /\ MaxSteps \in Nat /\ MaxReports \in Nat /\ MaxInputs \in Nat /\ MaxRecovery \in Nat
  /\ Notices \subseteq Msgs /\ NoMsg \notin Msgs
  BY LoopBounds, LoopHeld, LoopNoMsg

-----------------------------------------------------------------------------
(* What a transcript says of the messages in it, and what growing does to it. *)

Distinct(log) ==
  \A i, j \in DOMAIN log : log[i].m # NoMsg /\ log[i].m = log[j].m => i = j
Answered(log) == \A i \in DOMAIN log : ~ Unanswered(log, i)
AnsweredBefore(log) == \A i \in DOMAIN log : i < Len(log) => ~ Unanswered(log, i)

\* b is a with more behind it, in which the messages of S are recorded.
Grows(a, b, S) ==
  /\ b \in Seq(Entry) /\ Len(a) <= Len(b)
  /\ \A i \in DOMAIN a : b[i] = a[i]
  /\ \A i \in DOMAIN b : i > Len(a) => b[i].m \in S \cup {NoMsg}
  /\ \A m \in S : \E i \in DOMAIN b : i > Len(a) /\ b[i].m = m
  /\ \A i, j \in DOMAIN b :
       i > Len(a) /\ j > Len(a) /\ b[i].m # NoMsg /\ b[i].m = b[j].m => i = j
\* No call among the new entries.
NoCalls(a, b) == \A i \in DOMAIN b : i > Len(a) => b[i].k # "call"

LEMMA EntryFields ==
  \A e \in Entry : e = [k |-> e.k, m |-> e.m] /\ e.k \in Marks /\ e.m \in SomeMsg
  BY DEF Entry

LEMMA GrowsLogged ==
  ASSUME NEW a \in Seq(Entry), NEW b, NEW S \in SUBSET Msgs, Grows(a, b, S)
  PROVE  /\ Logged(b) = Logged(a) \cup S
         /\ Distinct(a) /\ Logged(a) \cap S = {} => Distinct(b)
<1>1. /\ b \in Seq(Entry) /\ Len(a) \in Nat /\ Len(b) \in Nat
      /\ DOMAIN a = 1 .. Len(a) /\ DOMAIN b = 1 .. Len(b) /\ Len(a) <= Len(b)
  BY DEF Grows
<1>2. Logged(b) = Logged(a) \cup S
  <2>1. Logged(a) \subseteq Logged(b)
    <3>1. \A i \in DOMAIN a : i \in DOMAIN b /\ b[i] = a[i] BY <1>1 DEF Grows
    <3> QED BY <3>1 DEF Logged
  <2>2. S \subseteq Logged(b) BY Numbers DEF Grows, Logged
  <2>3. Logged(b) \subseteq Logged(a) \cup S
    <3> SUFFICES ASSUME NEW i \in DOMAIN b, b[i].m # NoMsg PROVE b[i].m \in Logged(a) \cup S
      BY DEF Logged
    <3>1. CASE i <= Len(a)
      <4>1. i \in DOMAIN a /\ b[i] = a[i] BY <1>1, <3>1 DEF Grows
      <4> QED BY <4>1 DEF Logged
    <3>2. CASE i > Len(a) BY <3>2 DEF Grows
    <3> QED BY <1>1, <3>1, <3>2
  <2> QED BY <2>1, <2>2, <2>3
<1>3. ASSUME Distinct(a), Logged(a) \cap S = {} PROVE Distinct(b)
  <2> SUFFICES ASSUME NEW i \in DOMAIN b, NEW j \in DOMAIN b, b[i].m # NoMsg, b[i].m = b[j].m
               PROVE  i = j
    BY DEF Distinct
  <2>1. \A k \in DOMAIN b : k <= Len(a) => k \in DOMAIN a /\ b[k] = a[k]
    BY <1>1 DEF Grows
  <2>2. \A k \in DOMAIN b : k <= Len(a) /\ b[k].m # NoMsg => b[k].m \in Logged(a)
    BY <2>1 DEF Logged
  <2>3. \A k \in DOMAIN b : k > Len(a) /\ b[k].m # NoMsg => b[k].m \in S
    BY DEF Grows
  <2>4. CASE i <= Len(a) /\ j <= Len(a) BY <1>3, <2>1, <2>4 DEF Distinct
  <2>5. CASE i > Len(a) /\ j > Len(a) BY <2>5 DEF Grows
  <2>6. CASE i <= Len(a) /\ j > Len(a) BY <1>3, <2>2, <2>3, <2>6
  <2>7. CASE i > Len(a) /\ j <= Len(a) BY <1>3, <2>2, <2>3, <2>7
  <2>8. i \in Nat /\ j \in Nat BY <1>1
  <2> QED BY <1>1, <2>4, <2>5, <2>6, <2>7, <2>8
<1> QED BY <1>2, <1>3

LEMMA GrowsAnswered ==
  ASSUME NEW a \in Seq(Entry), NEW b, NEW S, Grows(a, b, S), NoCalls(a, b), Answered(a)
  PROVE  Answered(b)
<1>1. /\ b \in Seq(Entry) /\ Len(a) \in Nat /\ Len(b) \in Nat
      /\ DOMAIN a = 1 .. Len(a) /\ DOMAIN b = 1 .. Len(b) /\ Len(a) <= Len(b)
      /\ \A i \in DOMAIN a : b[i] = a[i]
  BY DEF Grows
<1> SUFFICES ASSUME NEW i \in DOMAIN b, Unanswered(b, i) PROVE FALSE
  BY DEF Answered
<1>2. CASE i > Len(a) BY <1>2 DEF NoCalls, Unanswered
<1>3. CASE i <= Len(a)
  <2>1. i \in DOMAIN a /\ ~ Unanswered(a, i) BY <1>1, <1>3 DEF Answered
  <2>2. a[i].k = "call" BY <1>1, <2>1 DEF Unanswered
  <2>3. i + 1 \in DOMAIN a /\ a[i + 1].k = "result" BY <1>1, <2>1, <2>2 DEF Unanswered
  <2>4. i # Len(b) /\ b[i + 1].k = "result" BY <1>1, <2>3
  <2> QED BY <2>4 DEF Unanswered
<1> QED BY <1>1, <1>2, <1>3

LEMMA GrowsTail ==
  ASSUME NEW a \in Seq(Entry), NEW b, NEW S \in SUBSET Msgs, Grows(a, b, S),
         NEW w \in 0 .. Len(a)
  PROVE  Logged(Behind(b, w)) = Logged(Behind(a, w)) \cup S
<1>1. /\ b \in Seq(Entry) /\ Len(a) \in Nat /\ Len(b) \in Nat
      /\ DOMAIN a = 1 .. Len(a) /\ DOMAIN b = 1 .. Len(b) /\ Len(a) <= Len(b)
      /\ \A i \in DOMAIN a : b[i] = a[i]
  BY DEF Grows
<1> DEFINE c == Behind(a, w)
           d == Behind(b, w)
<1>2. c \in Seq(Entry) /\ Len(c) = Len(a) - w /\ \A i \in 1 .. Len(c) : c[i] = a[w + i]
  BY BehindFacts
<1>3. d \in Seq(Entry) /\ Len(d) = Len(b) - w /\ \A i \in 1 .. Len(d) : d[i] = b[w + i]
  <2>1. w \in 0 .. Len(b) BY <1>1
  <2> QED BY <1>1, <2>1, BehindFacts, ZenonT(30)
<1> HIDE DEF c, d
<1>4. \A i \in 1 .. Len(d) : w + i \in DOMAIN b BY <1>1, <1>3
<1>5. \A i \in 1 .. Len(d) : i <= Len(c) => i \in DOMAIN c /\ d[i] = c[i]
  <2> SUFFICES ASSUME NEW i \in 1 .. Len(d), i <= Len(c)
               PROVE  i \in DOMAIN c /\ d[i] = c[i]
    OBVIOUS
  <2>1. i \in 1 .. Len(c) /\ w + i \in DOMAIN a BY <1>1, <1>2
  <2>2. i \in DOMAIN c BY <1>2, <2>1
  <2>3. c[i] = a[w + i] BY <1>2, <2>1
  <2>4. d[i] = b[w + i] BY <1>3
  <2>5. b[w + i] = a[w + i] BY <1>1, <2>1
  <2> QED BY <2>2, <2>3, <2>4, <2>5
<1>6. \A i \in 1 .. Len(d) : i > Len(c) => w + i > Len(a)
  BY <1>2, <1>3
<1>7. Len(c) <= Len(d) BY <1>1, <1>2, <1>3
<1>8. \A i \in 1 .. Len(c) : i \in DOMAIN d /\ d[i] = c[i]
  <2> SUFFICES ASSUME NEW i \in 1 .. Len(c) PROVE i \in DOMAIN d /\ d[i] = c[i]
    OBVIOUS
  <2>1. Len(c) \in Nat /\ Len(d) \in Nat BY <1>2, <1>3
  <2>2. i \in 1 .. Len(d) /\ i <= Len(c) BY <1>7, <2>1
  <2>3. d[i] = c[i] BY <1>5, <2>2
  <2>4. DOMAIN d = 1 .. Len(d) BY <1>3
  <2> QED BY <2>2, <2>3, <2>4
<1>9. ASSUME NEW m \in S PROVE \E i \in 1 .. Len(d) : d[i].m = m
  <2>1. PICK j \in DOMAIN b : j > Len(a) /\ b[j].m = m BY DEF Grows
  <2>2. j - w \in 1 .. Len(d) /\ w + (j - w) = j BY <1>1, <1>3, <2>1
  <2> QED BY <1>3, <2>1, <2>2
<1>10. Logged(c) \cup S \subseteq Logged(d)
  BY <1>8, <1>9, Numbers DEF Logged
<1>11. Logged(d) \subseteq Logged(c) \cup S
  <2> SUFFICES ASSUME NEW i \in DOMAIN d, d[i].m # NoMsg PROVE d[i].m \in Logged(c) \cup S
    BY DEF Logged
  <2>1. CASE i <= Len(c) BY <1>5, <2>1 DEF Logged
  <2>2. CASE i > Len(c)
    <3>1. i \in 1 .. Len(d) BY <1>3
    <3>2. w + i \in DOMAIN b /\ w + i > Len(a) /\ d[i] = b[w + i]
      BY <1>3, <1>4, <1>6, <2>2, <3>1
    <3>3. b[w + i].m \in S \cup {NoMsg} BY <3>2 DEF Grows
    <3> QED BY <3>2, <3>3
  <2> QED BY <1>2, <1>3, <2>1, <2>2
<1> QED BY <1>10, <1>11 DEF c, d

LEMMA GrowsNot == \A a \in Seq(Entry) : Grows(a, a, {}) /\ NoCalls(a, a)
  BY DEF Grows, NoCalls

LEMMA GrowsPut ==
  ASSUME NEW a \in Seq(Entry), NEW k \in Marks, NEW m \in SomeMsg
  PROVE  /\ Grows(a, Put(a, k, m), {m} \ {NoMsg})
         /\ k # "call" => NoCalls(a, Put(a, k, m))
         /\ AnsweredBefore(Put(a, k, m)) <=> Answered(a) \/ (AnsweredBefore(a) /\ k = "result")
         /\ k # "call" => (Answered(Put(a, k, m)) <=> AnsweredBefore(Put(a, k, m)))
<1> DEFINE e == [k |-> k, m |-> m]
           b == Put(a, k, m)
<1>1. e \in Entry /\ e.k = k /\ e.m = m BY DEF Entry
<1>2. /\ b \in Seq(Entry) /\ Len(b) = Len(a) + 1
      /\ \A i \in 1 .. Len(a) : b[i] = a[i]
      /\ b[Len(a) + 1] = e
  BY <1>1, Appended DEF Put
<1>3. /\ Len(a) \in Nat /\ DOMAIN a = 1 .. Len(a) /\ DOMAIN b = 1 .. Len(a) + 1
  BY <1>2
<1>4. \A i \in DOMAIN b : i > Len(a) => i = Len(a) + 1 BY <1>3
<1> HIDE DEF e, b
<1>5. Grows(a, b, {m} \ {NoMsg}) BY <1>1, <1>2, <1>3, <1>4 DEF Grows
<1>6. k # "call" => NoCalls(a, b) BY <1>1, <1>2, <1>4 DEF NoCalls
<1>7. \A i \in DOMAIN a : i < Len(a) => (Unanswered(b, i) <=> Unanswered(a, i))
  BY <1>2, <1>3 DEF Unanswered
<1>8. \A i \in DOMAIN a : i = Len(a) => (Unanswered(b, i) <=> Unanswered(a, i) /\ k # "result")
  BY <1>1, <1>2, <1>3 DEF Unanswered
<1>9. Unanswered(b, Len(a) + 1) <=> k = "call"
  BY <1>1, <1>2 DEF Unanswered
<1>10. AnsweredBefore(b) <=> \A i \in DOMAIN a : ~ Unanswered(b, i)
  BY <1>2, <1>3 DEF AnsweredBefore
<1>11. Answered(b) <=> AnsweredBefore(b) /\ k # "call"
  BY <1>2, <1>3, <1>4, <1>9 DEF AnsweredBefore, Answered
<1>12. AnsweredBefore(b) <=> Answered(a) \/ (AnsweredBefore(a) /\ k = "result")
  <2>1. \A i \in DOMAIN a : i < Len(a) \/ i = Len(a) BY <1>3
  <2> QED BY <1>7, <1>8, <1>10, <2>1 DEF Answered, AnsweredBefore
<1> QED BY <1>5, <1>6, <1>11, <1>12 DEF b

LEMMA ReportedFacts ==
  ASSUME NEW s \in Scalar, NEW n \in Nat
  PROVE  /\ Reported(s, n) = [s EXCEPT !.log = Reported(s, n).log]
         /\ Grows(s.log, Reported(s, n).log, {}) /\ NoCalls(s.log, Reported(s, n).log)
<1> DEFINE e == [k |-> "report", m |-> NoMsg]
           c == [i \in 1 .. n |-> e]
<1>1. e \in Entry /\ e.k = "report" /\ e.m = NoMsg BY DEF Entry, Marks, SomeMsg
<1>2. c \in Seq(Entry) /\ Len(c) = n /\ \A i \in 1 .. n : c[i] = e BY <1>1
<1>3. s.log \in Seq(Entry) BY DEF Scalar
<1>4. Reported(s, n).log = s.log \o c BY DEF Scalar, Reported
<1>5. /\ s.log \o c \in Seq(Entry) /\ Len(s.log \o c) = Len(s.log) + n
      /\ \A i \in 1 .. Len(s.log) : (s.log \o c)[i] = s.log[i]
      /\ \A i \in 1 .. n : (s.log \o c)[Len(s.log) + i] = e
  BY <1>2, <1>3, Joined, SMTT(30)
<1>6. PICK b \in Seq(Entry) : b = s.log \o c BY <1>5
<1>7. Len(s.log) \in Nat BY <1>3
<1>8. \A i \in DOMAIN b : i > Len(s.log) => b[i] = e
  <2> SUFFICES ASSUME NEW i \in DOMAIN b, i > Len(s.log) PROVE b[i] = e OBVIOUS
  <2>1. i - Len(s.log) \in 1 .. n /\ Len(s.log) + (i - Len(s.log)) = i
    BY <1>5, <1>6, <1>7
  <2> QED BY <1>5, <1>6, <2>1
<1> HIDE DEF e, c
<1>9. Grows(s.log, b, {}) /\ NoCalls(s.log, b)
  BY <1>1, <1>3, <1>5, <1>6, <1>7, <1>8 DEF Grows, NoCalls
<1>10. Reported(s, n) = [s EXCEPT !.log = Reported(s, n).log]
  BY DEF Reported, Scalar
<1> QED BY <1>4, <1>6, <1>9, <1>10

LEMMA AllSteeredFacts ==
  ASSUME NEW s \in Scalar, NEW q \in Seq(Msgs), IsInjective(q)
  PROVE  /\ AllSteered(s, q) = [s EXCEPT !.log = AllSteered(s, q).log]
         /\ Grows(s.log, AllSteered(s, q).log, ToSet(q)) /\ NoCalls(s.log, AllSteered(s, q).log)
<1> DEFINE c == [i \in DOMAIN q |-> [k |-> "user", m |-> q[i]]]
<1>1. Len(q) \in Nat /\ DOMAIN q = 1 .. Len(q) /\ \A i \in DOMAIN q : q[i] \in Msgs OBVIOUS
<1>2. \A i \in DOMAIN q : [k |-> "user", m |-> q[i]] \in Entry
  BY <1>1 DEF Entry, Marks, SomeMsg
<1>3. c \in Seq(Entry) /\ Len(c) = Len(q) /\ \A i \in 1 .. Len(q) : c[i].m = q[i] /\ c[i].k = "user"
  BY <1>1, <1>2
<1>4. s.log \in Seq(Entry) /\ Len(s.log) \in Nat BY DEF Scalar
<1>5. AllSteered(s, q).log = s.log \o c BY DEF Scalar, AllSteered
<1> HIDE DEF c
<1>6. /\ s.log \o c \in Seq(Entry) /\ Len(s.log \o c) = Len(s.log) + Len(q)
      /\ \A i \in 1 .. Len(s.log) : (s.log \o c)[i] = s.log[i]
      /\ \A i \in 1 .. Len(q) : (s.log \o c)[Len(s.log) + i] = c[i]
  <2>1. /\ s.log \o c \in Seq(Entry) /\ Len(s.log \o c) = Len(s.log) + Len(c)
        /\ \A i \in 1 .. Len(s.log) : (s.log \o c)[i] = s.log[i]
        /\ \A i \in 1 .. Len(c) : (s.log \o c)[Len(s.log) + i] = c[i]
    <3>1. c \in Seq(Entry) BY <1>3
    <3>2. s.log \in Seq(Entry) BY <1>4
    <3>3. PICK a \in Seq(Entry), d \in Seq(Entry) : a = s.log /\ d = c BY <3>1, <3>2
    <3>4. /\ a \o d \in Seq(Entry) /\ Len(a \o d) = Len(a) + Len(d)
          /\ \A i \in 1 .. Len(a) : (a \o d)[i] = a[i]
          /\ \A i \in 1 .. Len(d) : (a \o d)[Len(a) + i] = d[i]
      BY Joined
    <3> QED BY <3>3, <3>4
  <2>2. Len(c) = Len(q) BY <1>3
  <2> QED BY <2>1, <2>2
<1>7. PICK b \in Seq(Entry) : b = s.log \o c BY <1>6
<1>8. \A i \in DOMAIN b : i > Len(s.log) =>
        /\ i - Len(s.log) \in DOMAIN q /\ b[i].k = "user" /\ b[i].m = q[i - Len(s.log)]
  <2> SUFFICES ASSUME NEW i \in DOMAIN b, i > Len(s.log)
               PROVE  /\ i - Len(s.log) \in DOMAIN q /\ b[i].k = "user"
                      /\ b[i].m = q[i - Len(s.log)]
    OBVIOUS
  <2>1. i - Len(s.log) \in 1 .. Len(q) /\ Len(s.log) + (i - Len(s.log)) = i
    BY <1>1, <1>4, <1>6, <1>7, SMTT(30)
  <2> QED BY <1>1, <1>3, <1>6, <1>7, <2>1
<1>9. NoCalls(s.log, b) BY <1>8 DEF NoCalls
<1>10. Grows(s.log, b, ToSet(q))
  <2>1. /\ b \in Seq(Entry) /\ Len(s.log) <= Len(b)
        /\ \A i \in DOMAIN s.log : b[i] = s.log[i]
    BY <1>1, <1>4, <1>6, <1>7
  <2>2. \A i \in DOMAIN b : i > Len(s.log) => b[i].m \in ToSet(q) \cup {NoMsg}
    BY <1>8 DEF ToSet
  <2>3. \A m \in ToSet(q) : \E i \in DOMAIN b : i > Len(s.log) /\ b[i].m = m
    <3> SUFFICES ASSUME NEW j \in DOMAIN q
                 PROVE  \E i \in DOMAIN b : i > Len(s.log) /\ b[i].m = q[j]
      BY DEF ToSet
    <3>1. Len(s.log) + j \in DOMAIN b /\ Len(s.log) + j > Len(s.log) BY <1>1, <1>4, <1>6, <1>7
    <3> QED BY <1>1, <1>3, <1>6, <1>7, <3>1
  <2>4. ASSUME NEW i \in DOMAIN b, NEW j \in DOMAIN b, i > Len(s.log), j > Len(s.log),
               b[i].m = b[j].m
        PROVE  i = j
    <3>1. i - Len(s.log) = j - Len(s.log) BY <1>8, <2>4 DEF IsInjective
    <3> QED BY <1>4, <1>7, <2>4, <3>1
  <2> QED BY <2>1, <2>2, <2>3, <2>4 DEF Grows
<1>11. AllSteered(s, q) = [s EXCEPT !.log = AllSteered(s, q).log]
  BY DEF AllSteered, Scalar
<1> QED BY <1>5, <1>7, <1>9, <1>10, <1>11

-----------------------------------------------------------------------------
(* The repair: every call gets its result, and nothing else changes. *)

LEMMA OpenCount ==
  ASSUME NEW log \in Seq(Entry), NEW i \in DOMAIN log
  PROVE  LET B == {j \in Open(log) : j < i}
         IN  /\ IsFiniteSet(Open(log)) /\ Cardinality(Open(log)) \in Nat
             /\ IsFiniteSet(B) /\ Cardinality(B) \in Nat
             /\ Cardinality(B) <= Cardinality(Open(log))
             /\ i \in Open(log) => Cardinality(B) + 1 <= Cardinality(Open(log))
<1> DEFINE B == {j \in Open(log) : j < i}
<1>1. IsFiniteSet(DOMAIN log) BY FS_Interval
<1>2. IsFiniteSet(Open(log)) /\ Cardinality(Open(log)) \in Nat
  BY <1>1, FS_Subset, FS_CardinalityType DEF Open
<1>3. B \in SUBSET Open(log) OBVIOUS
<1>4. IsFiniteSet(B) /\ Cardinality(B) \in Nat /\ Cardinality(B) <= Cardinality(Open(log))
  BY <1>2, <1>3, FS_Subset, FS_CardinalityType
<1>5. ASSUME i \in Open(log) PROVE Cardinality(B) + 1 <= Cardinality(Open(log))
  <2>1. i \notin B OBVIOUS
  <2>2. B \cup {i} \in SUBSET Open(log) BY <1>3, <1>5
  <2>3. Cardinality(B \cup {i}) = Cardinality(B) + 1 BY <1>4, <2>1, FS_AddElement
  <2>4. Cardinality(B \cup {i}) <= Cardinality(Open(log)) BY <1>2, <2>2, FS_Subset
  <2> QED BY <2>3, <2>4
<1> QED BY <1>2, <1>4, <1>5

\* Entries keep their order, with room for a result behind an open call.
LEMMA MovedOrder ==
  ASSUME NEW log \in Seq(Entry), NEW i \in DOMAIN log, NEW j \in DOMAIN log, i < j
  PROVE  /\ Moved(log, i) \in Nat /\ Moved(log, j) \in Nat
         /\ Moved(log, i) < Moved(log, j)
         /\ i \in Open(log) => Moved(log, i) + 1 < Moved(log, j)
<1> DEFINE A == {k \in Open(log) : k < i}
           B == {k \in Open(log) : k < j}
<1>1. i \in Nat /\ j \in Nat OBVIOUS
<1>2. IsFiniteSet(A) /\ Cardinality(A) \in Nat BY OpenCount
<1>3. IsFiniteSet(B) /\ Cardinality(B) \in Nat BY OpenCount
<1>4. A \subseteq B
  <2>1. \A k \in Open(log) : k \in Nat BY DEF Open
  <2> QED BY <1>1, <2>1
<1>5. Cardinality(A) <= Cardinality(B) BY <1>3, <1>4, FS_Subset
<1>6. ASSUME i \in Open(log) PROVE Cardinality(A) + 1 <= Cardinality(B)
  <2>1. i \notin A /\ A \cup {i} \subseteq B BY <1>4, <1>6
  <2>2. Cardinality(A \cup {i}) = Cardinality(A) + 1 BY <1>2, <2>1, FS_AddElement
  <2>3. Cardinality(A \cup {i}) <= Cardinality(B) BY <1>3, <2>1, FS_Subset
  <2> QED BY <2>2, <2>3
<1>7. Moved(log, i) = i + Cardinality(A) /\ Moved(log, j) = j + Cardinality(B)
  BY DEF Moved
<1> HIDE DEF A, B
<1> QED BY <1>1, <1>2, <1>3, <1>5, <1>6, <1>7

LEMMA MovedNext ==
  ASSUME NEW log \in Seq(Entry), NEW i \in DOMAIN log, i + 1 \in DOMAIN log, i \notin Open(log)
  PROVE  Moved(log, i + 1) = Moved(log, i) + 1
<1> DEFINE A == {k \in Open(log) : k < i}
           B == {k \in Open(log) : k < i + 1}
<1>1. \A k \in Open(log) : k \in Nat BY DEF Open
<1>2. A = B BY <1>1
<1>3. Cardinality(A) \in Nat BY OpenCount
<1>4. Moved(log, i) = i + Cardinality(A) /\ Moved(log, i + 1) = i + 1 + Cardinality(B)
  BY DEF Moved
<1> HIDE DEF A, B
<1> QED BY <1>2, <1>3, <1>4

LEMMA MovedRange ==
  ASSUME NEW log \in Seq(Entry), NEW i \in DOMAIN log
  PROVE  LET n == Len(log) + Cardinality(Open(log))
         IN  /\ n \in Nat /\ Moved(log, i) \in 1 .. n
             /\ i \in Open(log) => Moved(log, i) + 1 \in 1 .. n
<1> DEFINE B == {j \in Open(log) : j < i}
<1>1. /\ Cardinality(B) \in Nat /\ Cardinality(Open(log)) \in Nat
      /\ Cardinality(B) <= Cardinality(Open(log))
      /\ i \in Open(log) => Cardinality(B) + 1 <= Cardinality(Open(log))
  BY OpenCount
<1>2. Moved(log, i) = i + Cardinality(B) BY DEF Moved
<1>3. i \in 1 .. Len(log) /\ Len(log) \in Nat OBVIOUS
<1> HIDE DEF B
<1> QED BY <1>1, <1>2, <1>3

LEMMA RepairedEntries ==
  ASSUME NEW log \in Seq(Entry)
  PROVE  /\ Repaired(log) \in Seq(Entry)
         /\ Len(Repaired(log)) = Len(log) + Cardinality(Open(log))
         /\ Len(log) <= Len(Repaired(log))
         /\ \A i \in DOMAIN log :
              Moved(log, i) \in DOMAIN Repaired(log) /\ Repaired(log)[Moved(log, i)] = log[i]
         /\ \A p \in DOMAIN Repaired(log) :
              \/ \E i \in DOMAIN log : Moved(log, i) = p
              \/ Repaired(log)[p] = [k |-> "result", m |-> NoMsg]
<1> DEFINE n == Len(log) + Cardinality(Open(log))
           r == Repaired(log)
           e == [k |-> "result", m |-> NoMsg]
<1>1. Cardinality(Open(log)) \in Nat /\ Len(log) \in Nat /\ n \in Nat /\ Len(log) <= n
  <2>1. IsFiniteSet(DOMAIN log) BY FS_Interval
  <2>2. Cardinality(Open(log)) \in Nat BY <2>1, FS_Subset, FS_CardinalityType DEF Open
  <2> QED BY <2>2
<1>2. \A p \in 1 .. n : r[p] = IF \E i \in DOMAIN log : Moved(log, i) = p
                               THEN log[CHOOSE i \in DOMAIN log : Moved(log, i) = p] ELSE e
  BY Zenon DEF Repaired
<1>3. \A i, j \in DOMAIN log : Moved(log, i) = Moved(log, j) => i = j
  <2> SUFFICES ASSUME NEW i \in DOMAIN log, NEW j \in DOMAIN log, i # j
               PROVE  Moved(log, i) # Moved(log, j)
    OBVIOUS
  <2>1. CASE i < j BY <2>1, MovedOrder
  <2>2. CASE j < i BY <2>2, MovedOrder
  <2> QED BY <2>1, <2>2
<1>4. \A i \in DOMAIN log : r[Moved(log, i)] = log[i]
  <2> SUFFICES ASSUME NEW i \in DOMAIN log PROVE r[Moved(log, i)] = log[i]
    OBVIOUS
  <2> DEFINE p == Moved(log, i)
             c == CHOOSE j \in DOMAIN log : Moved(log, j) = p
  <2>1. p \in 1 .. n BY MovedRange
  <2>2. c \in DOMAIN log /\ Moved(log, c) = p BY Zenon
  <2>3. c = i BY <1>3, <2>2, Zenon
  <2> QED BY <1>2, <2>1, <2>3, Zenon
<1>5. \A p \in 1 .. n : ~ (\E i \in DOMAIN log : Moved(log, i) = p) => r[p] = e
  BY <1>2, Zenon
<1>6. e \in Entry BY DEF Entry, Marks, SomeMsg
<1>7. \A p \in 1 .. n : r[p] \in Entry
  <2> SUFFICES ASSUME NEW p \in 1 .. n PROVE r[p] \in Entry OBVIOUS
  <2>1. CASE \E i \in DOMAIN log : Moved(log, i) = p
    <3>1. PICK i \in DOMAIN log : Moved(log, i) = p BY <2>1
    <3>2. r[p] = log[i] BY <1>4, <3>1
    <3> QED BY <3>2
  <2>2. CASE ~ \E i \in DOMAIN log : Moved(log, i) = p BY <1>5, <1>6, <2>2
  <2> QED BY <2>1, <2>2
<1>8. r = [p \in 1 .. n |-> r[p]] BY Zenon DEF Repaired
<1> HIDE DEF r, e
<1>9. r \in Seq(Entry) /\ Len(r) = n /\ DOMAIN r = 1 .. n BY <1>1, <1>7, <1>8
<1>10. \A i \in DOMAIN log : Moved(log, i) \in DOMAIN r BY <1>9, MovedRange
<1> QED BY <1>1, <1>4, <1>5, <1>9, <1>10 DEF r, e

\* No call is left open, the messages are those of before, each where it was
\* relative to the others.
LEMMA RepairedFacts ==
  ASSUME NEW log \in Seq(Entry)
  PROVE  /\ Repaired(log) \in Seq(Entry) /\ Len(log) <= Len(Repaired(log))
         /\ Answered(Repaired(log))
         /\ Logged(Repaired(log)) = Logged(log)
         /\ Distinct(log) => Distinct(Repaired(log))
<1> DEFINE r == Repaired(log)
<1>1. /\ r \in Seq(Entry) /\ Len(r) = Len(log) + Cardinality(Open(log))
      /\ \A i \in DOMAIN log : Moved(log, i) \in DOMAIN r /\ r[Moved(log, i)] = log[i]
      /\ \A p \in DOMAIN r : \/ \E i \in DOMAIN log : Moved(log, i) = p
                             \/ r[p] = [k |-> "result", m |-> NoMsg]
  BY RepairedEntries
<1> HIDE DEF r
<1>2. DOMAIN r = 1 .. Len(r) /\ Len(r) \in Nat BY <1>1
<1>3. Answered(r)
  <2> SUFFICES ASSUME NEW p \in DOMAIN r, Unanswered(r, p) PROVE FALSE
    BY DEF Answered
  <2>1. r[p].k = "call" BY DEF Unanswered
  <2>2. PICK i \in DOMAIN log : Moved(log, i) = p BY <1>1, <2>1
  <2>3. log[i].k = "call" BY <1>1, <2>1, <2>2
  <2>4. CASE i \in Open(log)
    <3>1. p + 1 \in DOMAIN r BY <1>1, <1>2, <2>2, <2>4, MovedRange
    <3>2. ASSUME NEW j \in DOMAIN log, Moved(log, j) = p + 1 PROVE FALSE
      <4>1. CASE i < j BY <2>2, <2>4, <3>2, <4>1, MovedOrder
      <4>2. CASE j < i BY <1>2, <2>2, <3>2, <4>2, MovedOrder
      <4>3. CASE i = j BY <1>2, <2>2, <3>2, <4>3
      <4> QED BY <4>1, <4>2, <4>3
    <3>3. r[p + 1] = [k |-> "result", m |-> NoMsg] BY <1>1, <3>1, <3>2
    <3> QED BY <1>2, <3>1, <3>3 DEF Unanswered
  <2>5. CASE i \notin Open(log)
    <3>1. i # Len(log) /\ log[i + 1].k = "result" BY <2>3, <2>5 DEF Open, Unanswered
    <3>2. i + 1 \in DOMAIN log BY <3>1
    <3>3. Moved(log, i + 1) = p + 1 BY <2>2, <2>5, <3>2, MovedNext
    <3>4. p + 1 \in DOMAIN r /\ r[p + 1] = log[i + 1] BY <1>1, <3>2, <3>3
    <3> QED BY <1>2, <3>1, <3>4 DEF Unanswered
  <2> QED BY <2>4, <2>5
<1>4. Logged(r) = Logged(log)
  <2>1. Logged(log) \subseteq Logged(r) BY <1>1 DEF Logged
  <2>2. Logged(r) \subseteq Logged(log)
    <3> SUFFICES ASSUME NEW p \in DOMAIN r, r[p].m # NoMsg PROVE r[p].m \in Logged(log)
      BY DEF Logged
    <3>1. PICK i \in DOMAIN log : Moved(log, i) = p BY <1>1
    <3>2. log[i].m = r[p].m BY <1>1, <3>1
    <3> QED BY <3>2 DEF Logged
  <2> QED BY <2>1, <2>2
<1>5. ASSUME Distinct(log) PROVE Distinct(r)
  <2> SUFFICES ASSUME NEW p \in DOMAIN r, NEW q \in DOMAIN r, r[p].m # NoMsg, r[p].m = r[q].m
               PROVE  p = q
    BY DEF Distinct
  <2>1. PICK i \in DOMAIN log : Moved(log, i) = p BY <1>1
  <2>2. PICK j \in DOMAIN log : Moved(log, j) = q BY <1>1
  <2>3. log[i].m # NoMsg /\ log[i].m = log[j].m BY <1>1, <2>1, <2>2
  <2>4. i = j BY <1>5, <2>3 DEF Distinct
  <2> QED BY <2>1, <2>2, <2>4
<1> QED BY <1>1, <1>3, <1>4, <1>5, RepairedEntries DEF r

-----------------------------------------------------------------------------
(* Queues of inputs. *)

Talk == {"say", "queue", "notice"}
Naming == Talk \cup {"steer", "unqueue"}

\* The message an input brings.
Brings(i) == IF i.k \in Talk THEN {i.m} ELSE {}

\* The messages that inputs name are among those of S.
Names(q, S) == \A i \in DOMAIN q : q[i].k \in Naming => q[i].m \in S
CarriedOnce(q) ==
  \A i, j \in DOMAIN q :
    q[i].k \in Talk /\ q[j].k \in Talk /\ q[i].m = q[j].m => i = j

LEMMA CarriedIs ==
  ASSUME NEW q \in Seq(Input)
  PROVE  \A m : m \in Carried(q) <=> \E i \in DOMAIN q : m \in Brings(q[i])
  BY DEF Carried, Brings, Talk

LEMMA CarriedNot == Carried(<<>>) = {} /\ CarriedOnce(<<>>) /\ \A S : Names(<<>>, S)
  BY DEF Carried, CarriedOnce, Names

LEMMA CarriedAppend ==
  ASSUME NEW q \in Seq(Input), NEW i \in Input
  PROVE  /\ Carried(Append(q, i)) = Carried(q) \cup Brings(i)
         /\ CarriedOnce(q) /\ Brings(i) \cap Carried(q) = {} => CarriedOnce(Append(q, i))
         /\ \A S : Names(q, S) /\ (i.k \in Naming => i.m \in S) => Names(Append(q, i), S)
<1> DEFINE r == Append(q, i)
<1>1. /\ r \in Seq(Input) /\ Len(r) = Len(q) + 1
      /\ \A j \in 1 .. Len(q) : r[j] = q[j]
      /\ r[Len(q) + 1] = i
  BY Appended
<1> HIDE DEF r
<1>2. /\ Len(q) \in Nat /\ DOMAIN q = 1 .. Len(q) /\ DOMAIN r = 1 .. Len(q) + 1
      /\ \A j \in DOMAIN r : j \in DOMAIN q \/ j = Len(q) + 1
  BY <1>1
<1>3. Carried(r) = Carried(q) \cup Brings(i)
  <2>1. \A m : m \in Carried(r) <=> m \in Carried(q) \/ m \in Brings(i)
    BY <1>1, <1>2, CarriedIs
  <2> QED BY <2>1
<1>4. ASSUME CarriedOnce(q), Brings(i) \cap Carried(q) = {} PROVE CarriedOnce(r)
  <2> SUFFICES ASSUME NEW j \in DOMAIN r, NEW k \in DOMAIN r,
                      r[j].k \in Talk, r[k].k \in Talk, r[j].m = r[k].m
               PROVE  j = k
    BY DEF CarriedOnce
  <2>1. CASE j \in DOMAIN q /\ k \in DOMAIN q BY <1>1, <1>2, <1>4, <2>1 DEF CarriedOnce
  <2>2. CASE j \in DOMAIN q /\ k = Len(q) + 1
    BY <1>1, <1>2, <1>4, <2>2, CarriedIs DEF Brings
  <2>3. CASE k \in DOMAIN q /\ j = Len(q) + 1
    BY <1>1, <1>2, <1>4, <2>3, CarriedIs DEF Brings
  <2> QED BY <1>2, <2>1, <2>2, <2>3
<1>5. \A S : Names(q, S) /\ (i.k \in Naming => i.m \in S) => Names(r, S)
  BY <1>1, <1>2 DEF Names
<1> QED BY <1>3, <1>4, <1>5 DEF r

LEMMA CarriedTail ==
  ASSUME NEW q \in Seq(Input), q # <<>>
  PROVE  /\ Head(q) \in Input /\ Tail(q) \in Seq(Input)
         /\ Carried(q) = Brings(Head(q)) \cup Carried(Tail(q))
         /\ CarriedOnce(q) => CarriedOnce(Tail(q)) /\ Brings(Head(q)) \cap Carried(Tail(q)) = {}
         /\ \A S : Names(q, S) => Names(Tail(q), S) /\ (Head(q).k \in Naming => Head(q).m \in S)
<1> DEFINE t == Tail(q)
           h == Head(q)
<1>1. /\ Len(q) \in Nat \ {0} /\ 1 \in DOMAIN q /\ h = q[1] /\ h \in Input
      /\ t \in Seq(Input) /\ Len(t) = Len(q) - 1
      /\ \A i \in 1 .. Len(q) - 1 : t[i] = q[i + 1]
  BY Tailed
<1> HIDE DEF t, h
<1>2. \A i \in DOMAIN t : i \in Nat /\ i + 1 \in DOMAIN q /\ t[i] = q[i + 1] BY <1>1
<1>3. \A i \in DOMAIN q : i = 1 \/ (i - 1 \in DOMAIN t /\ q[i] = t[i - 1])
  <2> SUFFICES ASSUME NEW i \in DOMAIN q, i # 1 PROVE i - 1 \in DOMAIN t /\ q[i] = t[i - 1]
    OBVIOUS
  <2>1. i - 1 \in 1 .. Len(q) - 1 /\ i - 1 + 1 = i BY <1>1
  <2> QED BY <1>1, <2>1
<1>4. Carried(q) = Brings(h) \cup Carried(t)
  <2>1. \A m : m \in Carried(q) <=> m \in Brings(h) \/ m \in Carried(t)
    <3> SUFFICES ASSUME NEW m PROVE m \in Carried(q) <=> m \in Brings(h) \/ m \in Carried(t)
      OBVIOUS
    <3>1. m \in Carried(q) => m \in Brings(h) \/ m \in Carried(t)
      BY <1>1, <1>3, CarriedIs
    <3>2. m \in Brings(h) => m \in Carried(q) BY <1>1, CarriedIs
    <3>3. m \in Carried(t) => m \in Carried(q) BY <1>1, <1>2, CarriedIs
    <3> QED BY <3>1, <3>2, <3>3
  <2> QED BY <2>1
<1>5. ASSUME CarriedOnce(q) PROVE CarriedOnce(t) /\ Brings(h) \cap Carried(t) = {}
  <2>1. CarriedOnce(t)
    <3> SUFFICES ASSUME NEW j \in DOMAIN t, NEW k \in DOMAIN t,
                        t[j].k \in Talk, t[k].k \in Talk, t[j].m = t[k].m
                 PROVE  j = k
      BY DEF CarriedOnce
    <3>1. j + 1 = k + 1 BY <1>2, <1>5 DEF CarriedOnce
    <3> QED BY <1>2, <3>1
  <2>2. ASSUME NEW m \in Brings(h), m \in Carried(t) PROVE FALSE
    <3>1. PICK j \in DOMAIN t : m \in Brings(t[j]) BY <1>1, <2>2, CarriedIs
    <3>2. 1 = j + 1 BY <1>1, <1>2, <1>5, <2>2, <3>1 DEF CarriedOnce, Brings
    <3> QED BY <1>1, <3>1, <3>2
  <2> QED BY <2>1, <2>2
<1>6. \A S : Names(q, S) => Names(t, S) /\ (h.k \in Naming => h.m \in S)
  BY <1>1, <1>2 DEF Names
<1> QED BY <1>1, <1>4, <1>5, <1>6 DEF t, h

LEMMA NamesMore == \A q, S, T : S \subseteq T /\ Names(q, S) => Names(q, T)
  BY DEF Names

LEMMA CarriedNamed ==
  ASSUME NEW q \in Seq(Input), NEW S, Names(q, S) PROVE Carried(q) \subseteq S
  BY CarriedIs DEF Names, Brings, Naming

-----------------------------------------------------------------------------
(* What an input does to the state in memory: the messages of N come in, those *)
(* of S are recorded, those of R are removed, and the rest of the queue stays. *)

Moves(s, t, N, S, R) ==
  /\ t \in Scalar
  /\ Grows(s.log, t.log, S)
  /\ S \subseteq ToSet(s.queue) \cup N
  /\ IsInjective(t.queue)
  /\ ToSet(t.queue) \subseteq (ToSet(s.queue) \cup N) \ S
  /\ ToSet(s.queue) \cup N \subseteq ToSet(t.queue) \cup S \cup R

\* And it makes no tool call.
Turns(s, t, N, S, R) == Moves(s, t, N, S, R) /\ NoCalls(s.log, t.log)

LEMMA ScalarFields ==
  ASSUME NEW s \in Scalar
  PROVE  /\ s.status \in Statuses /\ s.asked \in BOOLEAN /\ s.queue \in Seq(Msgs)
         /\ s.goal \in Goals /\ s.log \in Seq(Entry)
  BY DEF Scalar

\* Only the status, the question and the goal change.
LEMMA MovesNot ==
  ASSUME NEW s \in Scalar, IsInjective(s.queue), NEW t \in Scalar,
         t.queue = s.queue, t.log = s.log, NEW R
  PROVE  Turns(s, t, {}, {}, R)
  BY ScalarFields, GrowsNot DEF Moves, Turns

\* A mark without a message is added.
LEMMA MovesMark ==
  ASSUME NEW s \in Scalar, IsInjective(s.queue), NEW t \in Scalar, NEW k \in Marks, k # "call",
         t.queue = s.queue, t.log = Put(s.log, k, NoMsg), NEW R
  PROVE  Turns(s, t, {}, {}, R)
<1>1. /\ Grows(s.log, t.log, {NoMsg} \ {NoMsg}) /\ NoCalls(s.log, t.log)
  BY ScalarFields, GrowsPut DEF SomeMsg
<1>2. {NoMsg} \ {NoMsg} = {} OBVIOUS
<1> QED BY <1>1, <1>2 DEF Moves, Turns

\* A message that was not in the queue is recorded.
LEMMA MovesNew ==
  ASSUME NEW s \in Scalar, IsInjective(s.queue), NEW t \in Scalar, NEW k \in Marks, k # "call",
         NEW m \in Msgs, m \notin ToSet(s.queue), t.queue = s.queue, t.log = Put(s.log, k, m),
         NEW R
  PROVE  Turns(s, t, {m}, {m}, R)
<1>1. /\ Grows(s.log, t.log, {m} \ {NoMsg}) /\ NoCalls(s.log, t.log)
  BY ScalarFields, GrowsPut DEF SomeMsg
<1>2. {m} \ {NoMsg} = {m} BY Numbers
<1> QED BY <1>1, <1>2 DEF Moves, Turns

\* A message new or held is recorded, and leaves the queue.
LEMMA MovesTaken ==
  ASSUME NEW s \in Scalar, IsInjective(s.queue), NEW t \in Scalar, NEW k \in Marks, k # "call",
         NEW m \in Msgs, NEW N \in SUBSET {m}, m \in ToSet(s.queue) \cup N,
         t.queue = Without(s.queue, m), t.log = Put(s.log, k, m), NEW R
  PROVE  Turns(s, t, N, {m}, R)
<1>1. /\ Grows(s.log, t.log, {m} \ {NoMsg}) /\ NoCalls(s.log, t.log)
  BY ScalarFields, GrowsPut DEF SomeMsg
<1>2. {m} \ {NoMsg} = {m} BY Numbers
<1>3. ToSet(t.queue) = ToSet(s.queue) \ {m} /\ IsInjective(t.queue)
  BY ScalarFields, ToSetWithout DEF Without
<1> QED BY <1>1, <1>2, <1>3 DEF Moves, Turns

\* A message is held.
LEMMA MovesQueued ==
  ASSUME NEW s \in Scalar, IsInjective(s.queue), NEW t \in Scalar, NEW m \in Msgs,
         m \notin ToSet(s.queue), t.queue = Append(s.queue, m), t.log = s.log, NEW R
  PROVE  Turns(s, t, {m}, {}, R)
<1>1. ToSet(t.queue) = ToSet(s.queue) \cup {m} /\ IsInjective(t.queue)
  BY ScalarFields, ToSetAppended
<1>2. Grows(s.log, t.log, {}) /\ NoCalls(s.log, t.log) BY ScalarFields, GrowsNot
<1> QED BY <1>1, <1>2 DEF Moves, Turns

\* Held messages are removed.
LEMMA MovesRemoved ==
  ASSUME NEW s \in Scalar, NEW t \in Scalar, NEW R,
         IsInjective(t.queue), ToSet(t.queue) \subseteq ToSet(s.queue),
         ToSet(s.queue) \subseteq ToSet(t.queue) \cup R, t.log = s.log
  PROVE  Turns(s, t, {}, {}, R)
  BY ScalarFields, GrowsNot DEF Moves, Turns

LEMMA HoldsIs == \A s, m : Holds(s, m) <=> m \in ToSet(s.queue)
  BY DEF Holds, ToSet

LEMMA AcceptedFields ==
  ASSUME NEW s \in Scalar, NEW m \in Msgs
  PROVE  /\ Accepted(s, m) \in Scalar
         /\ Accepted(s, m).queue = s.queue
         /\ \E k \in {"user", "answer"} : Accepted(s, m).log = Put(s.log, k, m)
<1> DEFINE k == IF s.status = "waiting" /\ s.asked THEN "answer" ELSE "user"
<1>1. k \in Marks /\ k \in {"user", "answer"} BY DEF Marks
<1>2. Put(s.log, k, m) \in Seq(Entry)
  <2>1. m \in SomeMsg BY DEF SomeMsg
  <2> QED BY <1>1, <2>1, ScalarFields, GrowsPut DEF Grows
<1>3. Accepted(s, m) = [s EXCEPT !.status = "running", !.asked = FALSE, !.log = Put(s.log, k, m)]
  BY DEF Accepted
<1>4. Accepted(s, m).log = Put(s.log, k, m) /\ Accepted(s, m).queue = s.queue
  BY <1>3 DEF Scalar
<1>5. Accepted(s, m) \in Scalar
  <2> HIDE DEF k
  <2> QED BY <1>2, <1>3 DEF Scalar, Statuses
<1> QED BY <1>1, <1>4, <1>5

LEMMA TakenFields ==
  ASSUME NEW s \in Scalar, IsInjective(s.queue), NEW m
  PROVE  LET t == [s EXCEPT !.queue = Without(@, m)]
         IN  t \in Scalar /\ t.queue = Without(s.queue, m) /\ t.log = s.log
<1>1. Without(s.queue, m) \in Seq(Msgs) BY ScalarFields, ToSetWithout DEF Without
<1> QED BY <1>1 DEF Scalar

LEMMA RecordType ==
  ASSUME NEW s \in Scalar, NEW k \in Marks, NEW m \in SomeMsg
  PROVE  LET t == [s EXCEPT !.log = Put(@, k, m)]
         IN  t \in Scalar /\ t.queue = s.queue /\ t.log = Put(s.log, k, m)
<1>1. Put(s.log, k, m) \in Seq(Entry) BY ScalarFields, GrowsPut DEF Grows
<1> QED BY <1>1 DEF Scalar

LEMMA QueueType ==
  ASSUME NEW s \in Scalar, NEW m \in Msgs
  PROVE  LET t == [s EXCEPT !.queue = Append(@, m)]
         IN  t \in Scalar /\ t.queue = Append(s.queue, m) /\ t.log = s.log
<1>1. Append(s.queue, m) \in Seq(Msgs) BY ScalarFields, Appended
<1> QED BY <1>1 DEF Scalar

LEMMA AppliedTurns ==
  ASSUME NEW s \in Scalar, IsInjective(s.queue), NEW i \in Input,
         i.k \in Naming => i.m \in Msgs, Brings(i) \cap ToSet(s.queue) = {}
  PROVE  \E S \in SUBSET Msgs : Turns(s, Applied(s, i), Brings(i), S, Removed(s, i))
<1> DEFINE t == Applied(s, i)
           m == i.m
           R == Removed(s, i)
<1> SUFFICES \E S \in SUBSET Msgs : Turns(s, t, Brings(i), S, R)
  OBVIOUS
<1> HIDE DEF R
<1>1. CASE i.k = "say"
  <2>1. t = [s EXCEPT !.log = Put(@, "user", m)] BY <1>1 DEF Applied, Steered
  <2>2. m \in Msgs /\ Brings(i) = {m} BY <1>1 DEF Naming, Talk, Brings
  <2>3. t \in Scalar /\ t.queue = s.queue /\ t.log = Put(s.log, "user", m)
    BY <2>1, <2>2, RecordType DEF Marks, SomeMsg
  <2> HIDE DEF t
  <2>4. m \notin ToSet(s.queue) BY <2>2
  <2>5. Turns(s, t, {m}, {m}, R) BY <2>2, <2>3, <2>4, MovesNew DEF Marks
  <2> QED BY <2>2, <2>5
<1>2. CASE i.k = "notice"
  <2>1. t = [s EXCEPT !.log = Put(@, "notice", m)] BY <1>2 DEF Applied
  <2>2. m \in Msgs /\ Brings(i) = {m} BY <1>2 DEF Naming, Talk, Brings
  <2>3. t \in Scalar /\ t.queue = s.queue /\ t.log = Put(s.log, "notice", m)
    BY <2>1, <2>2, RecordType DEF Marks, SomeMsg
  <2> HIDE DEF t
  <2>4. m \notin ToSet(s.queue) BY <2>2
  <2>5. Turns(s, t, {m}, {m}, R) BY <2>2, <2>3, <2>4, MovesNew DEF Marks
  <2> QED BY <2>2, <2>5
<1>3. CASE i.k = "queue"
  <2>1. t = [s EXCEPT !.queue = Append(@, m)] BY <1>3 DEF Applied
  <2>2. m \in Msgs /\ Brings(i) = {m} BY <1>3 DEF Naming, Talk, Brings
  <2>3. t \in Scalar /\ t.queue = Append(s.queue, m) /\ t.log = s.log
    BY <2>1, <2>2, QueueType
  <2> HIDE DEF t
  <2>4. Turns(s, t, {m}, {}, R) BY <2>2, <2>3, MovesQueued
  <2> QED BY <2>2, <2>4
<1>4. CASE i.k = "unqueue"
  <2>1. t = [s EXCEPT !.queue = Without(@, m)] BY <1>4 DEF Applied
  <2>2. m \in Msgs /\ Brings(i) = {} BY <1>4 DEF Naming, Talk, Brings
  <2>3. t \in Scalar /\ t.queue = Without(s.queue, m) /\ t.log = s.log
    BY <2>1, TakenFields
  <2> HIDE DEF t
  <2>4. IsInjective(t.queue) /\ ToSet(t.queue) = ToSet(s.queue) \ {m}
    BY <2>3, ScalarFields, ToSetWithout DEF Without
  <2>5. ToSet(s.queue) \subseteq ToSet(t.queue) \cup R
    BY <1>4, <2>2, <2>4, HoldsIs DEF Removed, R
  <2>6. Turns(s, t, {}, {}, R) BY <2>3, <2>4, <2>5, MovesRemoved
  <2> QED BY <2>2, <2>6
<1>5. CASE i.k = "steer" /\ Holds(s, m)
  <2>1. t = [Steered(s, m) EXCEPT !.queue = Without(@, m)] BY <1>5 DEF Applied
  <2>2. m \in Msgs /\ Brings(i) = {} BY <1>5 DEF Naming, Talk, Brings
  <2>3. /\ Steered(s, m) \in Scalar /\ Steered(s, m).queue = s.queue
        /\ Steered(s, m).log = Put(s.log, "user", m)
    BY <2>2, RecordType DEF Steered, Marks, SomeMsg
  <2>4. t \in Scalar /\ t.queue = Without(s.queue, m) /\ t.log = Put(s.log, "user", m)
    <3>1. PICK u \in Scalar : u = Steered(s, m) BY <2>3
    <3>2. IsInjective(u.queue) BY <2>3, <3>1
    <3> QED BY <2>1, <2>3, <3>1, <3>2, TakenFields
  <2> HIDE DEF t
  <2>5. m \in ToSet(s.queue) BY <1>5, HoldsIs
  <2>6. Turns(s, t, {}, {m}, R) BY <2>2, <2>4, <2>5, MovesTaken DEF Marks
  <2> QED BY <2>2, <2>6
<1>6. CASE i.k = "steer" /\ ~ Holds(s, m)
  <2>1. t = s /\ Brings(i) = {} BY <1>6 DEF Applied, Brings, Talk
  <2> QED BY <2>1, MovesNot
<1>7. CASE i.k = "drop"
  <2>1. t = [s EXCEPT !.queue = <<>>] /\ Brings(i) = {} BY <1>7 DEF Applied, Brings, Talk
  <2>2. t \in Scalar /\ t.queue = <<>> /\ t.log = s.log
    <3>1. <<>> \in Seq(Msgs) OBVIOUS
    <3> QED BY <2>1, <3>1 DEF Scalar
  <2> HIDE DEF t
  <2>3. IsInjective(t.queue) /\ ToSet(t.queue) = {} BY <2>2 DEF IsInjective, ToSet
  <2>4. ToSet(s.queue) \subseteq R
    <3>1. ToSet(s.queue) \subseteq Msgs BY ScalarFields DEF ToSet
    <3> QED BY <1>7, <3>1, HoldsIs DEF Removed, R
  <2>5. Turns(s, t, {}, {}, R) BY <2>2, <2>3, <2>4, MovesRemoved
  <2> QED BY <2>1, <2>5
<1>8. CASE i.k \in {"goal", "resume", "cancel"}
  <2>1. Brings(i) = {} BY <1>8 DEF Brings, Talk
  <2>2. CASE t = s BY <2>1, <2>2, MovesNot
  <2>3. CASE t # s
    <3>1. PICK g \in Goals, k \in {"goal", "drive"} :
            t = [s EXCEPT !.goal = g, !.status = "running", !.log = Put(@, k, NoMsg)]
      BY <1>8, <2>3 DEF Applied, Goals
    <3>2. k \in Marks /\ k # "call" /\ NoMsg \in SomeMsg BY DEF Marks, SomeMsg
    <3>3. Put(s.log, k, NoMsg) \in Seq(Entry) BY <3>2, ScalarFields, GrowsPut DEF Grows
    <3>4. t \in Scalar /\ t.queue = s.queue /\ t.log = Put(s.log, k, NoMsg)
      BY <3>1, <3>3 DEF Scalar, Statuses
    <3> HIDE DEF t
    <3>5. Turns(s, t, {}, {}, R) BY <3>2, <3>4, MovesMark
    <3> QED BY <2>1, <3>5
  <2> QED BY <2>2, <2>3
<1>9. CASE i.k \in {"interrupt", "approve"}
  <2>1. t = s /\ Brings(i) = {} BY <1>9 DEF Applied, Brings, Talk
  <2> QED BY <2>1, MovesNot
<1>10. i.k \in Kinds BY DEF Input
<1> QED BY <1>1, <1>2, <1>3, <1>4, <1>5, <1>6, <1>7, <1>8, <1>9, <1>10 DEF Kinds
=============================================================================

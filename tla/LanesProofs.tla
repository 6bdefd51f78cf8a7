----------------------------- MODULE LanesProofs -----------------------------
(***************************************************************************)
(* Theorems about Lanes, for any number of lanes, briefs and stops.        *)
(***************************************************************************)
EXTENDS Lanes, FiniteSetTheorems, TLAPS

LEMMA Numbers == MaxActive \in Nat /\ MaxLanes \in Nat /\ MaxBriefs \in Nat /\ MaxStops \in Nat
  BY LanesBounds

(***************************************************************************)
(* Types.                                                                  *)
(***************************************************************************)
LEMMA WithoutType ==
  ASSUME NEW r \in [Ids -> Statuses \cup {"none"}], NEW old
  PROVE  Without(r, old) \in [Ids -> Statuses \cup {"none"}]
  BY DEF Without

LEMMA BriefTypes ==
  ASSUME TypeOK, NEW l \in Ids, Brief(l)
  PROVE  /\ rec' \in [Ids -> Statuses \cup {"none"}]
         /\ run' \in [Ids \X Nth -> {"none", "going", "stopping", "sent", "over"}]
         /\ briefs' \in [Ids -> Nat]
  BY DEF TypeOK, Brief, Launch, Statuses

LEMMA InitTypes == Init => TypeOK
  BY Numbers DEF Init, TypeOK, NoRuns, Ids

LEMMA NextTypes == TypeOK /\ [Next]_vars => TypeOK'
<1> SUFFICES ASSUME TypeOK, [Next]_vars PROVE TypeOK'
  OBVIOUS
<1> USE Numbers
<1>1. CASE Spawn
  <2>1. counter' \in Ids BY <1>1 DEF Spawn, TypeOK, Ids
  <2>2. PICK l \in Ids : l = counter' BY <2>1
  <2>3. Brief(l) BY <1>1, <2>2 DEF Spawn
  <2>4. /\ rec' \in [Ids -> Statuses \cup {"none"}]
        /\ run' \in [Ids \X Nth -> {"none", "going", "stopping", "sent", "over"}]
        /\ briefs' \in [Ids -> Nat]
    BY <2>3, BriefTypes
  <2>5. counter' \in 0 .. MaxLanes BY <2>1 DEF Ids
  <2> QED BY <1>1, <2>4, <2>5 DEF Spawn, TypeOK, store, Change
<1>2. ASSUME NEW l \in Ids, FollowUp(l) PROVE TypeOK'
  BY <1>2, BriefTypes DEF FollowUp, TypeOK, store, Change
<1>3. ASSUME NEW l \in Ids, Cancel(l) PROVE TypeOK'
  BY <1>3 DEF Cancel, TypeOK, store, Change, Statuses, Finished
<1>4. ASSUME NEW l \in Ids, NEW n \in Nth, Ends(l, n) PROVE TypeOK'
  BY <1>4 DEF Ends, TypeOK, store
<1>5. ASSUME NEW l \in Ids, NEW n \in Nth, Aborted(l, n) PROVE TypeOK'
  BY <1>5 DEF Aborted, TypeOK, store
<1>6. ASSUME NEW l \in Ids, NEW n \in Nth, Report(l, n) PROVE TypeOK'
  <2>1. \A st \in Reported : [rec EXCEPT ![l] = st] \in [Ids -> Statuses \cup {"none"}]
    BY DEF TypeOK, Reported, Statuses, Finished
  <2>2. rec' \in [Ids -> Statuses \cup {"none"}]
    <3>1. CASE rec[l] = "cancelled" BY <1>6, <3>1 DEF Report, TypeOK
    <3>2. CASE rec[l] # "cancelled"
      <4>1. PICK st \in Reported, old \in SUBSET Ids : rec' = Without([rec EXCEPT ![l] = st], old)
        BY <1>6, <3>2 DEF Report, Old
      <4> QED BY <2>1, <4>1, WithoutType
    <3> QED BY <3>1, <3>2
  <2> QED BY <1>6, <2>2 DEF Report, TypeOK, store, Change
<1>7. CASE SaveScalar BY <1>7 DEF SaveScalar, TypeOK
<1>8. CASE SaveMessages BY <1>8 DEF SaveMessages, TypeOK
<1>9. CASE Stop BY <1>9 DEF Stop, TypeOK, NoRuns
<1>10. CASE Start
  <2>1. rec' \in [Ids -> Statuses \cup {"none"}]
    BY <1>10, WithoutType DEF Start, TypeOK
  <2>2. counter' \in 0 .. MaxLanes BY <1>10 DEF Start, Ids
  <2>3. /\ run' \in [Ids \X Nth -> {"none", "going", "stopping", "sent", "over"}]
        /\ save' \in {"clean", "dirty", "half", "down"}
    BY <1>10 DEF Start, Resume
  <2> QED BY <1>10, <2>1, <2>2, <2>3 DEF Start, TypeOK, store
<1>11. CASE UNCHANGED vars BY <1>11 DEF vars, TypeOK
<1> QED BY <1>1, <1>2, <1>3, <1>4, <1>5, <1>6, <1>7, <1>8, <1>9, <1>10, <1>11 DEF Next

\* Every variable keeps to its type.
THEOREM LaneTypes == Spec => []TypeOK
<1> QED BY InitTypes, NextTypes, PTL DEF Spec

(***************************************************************************)
(* One report for each brief.  A brief pays for one task at most, and a    *)
(* report takes one away; what the store would bring back, its reports and *)
(* a task for each lane it has as running, is paid for as well.            *)
(***************************************************************************)
Up == save # "down"
Tasks(l) == Cardinality(AtWork(l))
Owed(l) == IF saved[l] = "running" THEN 1 ELSE 0

Paid == \A l \in Ids : told[l] + Tasks(l) <= briefs[l]
StorePaid == \A l \in Ids : kept[l] + Owed(l) <= briefs[l]
KeptTold == Up => \A l \in Ids : kept[l] <= told[l]
Working == Up => \A l \in Ids : rec[l] = "running" =>
                   \E n \in Nth : run[<<l, n>>] \in {"going", "sent"}
HalfSaved == save = "half" => saved = rec

ReportInv == TypeOK /\ Paid /\ StorePaid /\ KeptTold /\ Working /\ HalfSaved

LEMMA AtWorkSize == \A l : IsFiniteSet(AtWork(l)) /\ Tasks(l) \in Nat
<1>1. IsFiniteSet(Nth) BY Numbers, FS_Interval DEF Nth
<1>2. \A l : AtWork(l) \subseteq Nth BY DEF AtWork
<1> QED BY <1>1, <1>2, FS_Subset, FS_CardinalityType DEF Tasks

LEMMA AtWorkPrimed == \A l : IsFiniteSet(AtWork(l)') /\ Tasks(l)' \in Nat
<1>1. IsFiniteSet(Nth) BY Numbers, FS_Interval DEF Nth
<1>2. \A l : AtWork(l)' \subseteq Nth BY DEF AtWork
<1> QED BY <1>1, <1>2, FS_Subset, FS_CardinalityType DEF Tasks

LEMMA SameTasks == \A l : AtWork(l)' \subseteq AtWork(l) => Tasks(l)' <= Tasks(l)
  BY AtWorkSize, AtWorkPrimed, FS_Subset DEF Tasks

LEMMA OneMore ==
  \A l : \A n \in Nth : AtWork(l)' \subseteq AtWork(l) \cup {n} => Tasks(l)' <= Tasks(l) + 1
<1> SUFFICES ASSUME NEW l, NEW n \in Nth, AtWork(l)' \subseteq AtWork(l) \cup {n}
             PROVE  Tasks(l)' <= Tasks(l) + 1
  OBVIOUS
<1>1. /\ IsFiniteSet(AtWork(l) \cup {n})
      /\ Cardinality(AtWork(l) \cup {n}) <= Tasks(l) + 1
  <2>1. IsFiniteSet(AtWork(l)) /\ Cardinality(AtWork(l)) \in Nat BY AtWorkSize DEF Tasks
  <2>2. /\ IsFiniteSet(AtWork(l) \cup {n})
        /\ Cardinality(AtWork(l) \cup {n}) =
             IF n \in AtWork(l) THEN Cardinality(AtWork(l)) ELSE Cardinality(AtWork(l)) + 1
    BY <2>1, FS_AddElement
  <2> QED BY <2>1, <2>2 DEF Tasks
<1>2. Tasks(l)' <= Cardinality(AtWork(l) \cup {n})
  BY <1>1, FS_Subset DEF Tasks
<1>3. Cardinality(AtWork(l) \cup {n}) \in Nat BY <1>1, FS_CardinalityType
<1>4. Tasks(l) \in Nat BY AtWorkSize
<1>5. Tasks(l)' \in Nat BY AtWorkPrimed
<1> QED BY <1>1, <1>2, <1>3, <1>4, <1>5

LEMMA OneLess ==
  \A l : \A n \in AtWork(l) : AtWork(l)' = AtWork(l) \ {n} => Tasks(l)' + 1 = Tasks(l)
<1> SUFFICES ASSUME NEW l, NEW n \in AtWork(l), AtWork(l)' = AtWork(l) \ {n}
             PROVE  Tasks(l)' + 1 = Tasks(l)
  OBVIOUS
<1>1. Cardinality(AtWork(l) \ {n}) = Tasks(l) - 1
  BY AtWorkSize, FS_RemoveElement DEF Tasks
<1> QED BY <1>1, AtWorkSize DEF Tasks

LEMMA SomeTask == \A l : AtWork(l) # {} => Tasks(l) >= 1
<1> SUFFICES ASSUME NEW l, AtWork(l) # {} PROVE Tasks(l) >= 1
  OBVIOUS
<1>1. Tasks(l) # 0 BY AtWorkSize, FS_EmptySet DEF Tasks
<1> QED BY <1>1, AtWorkSize

LEMMA InitReports == Init => ReportInv
<1> SUFFICES ASSUME Init PROVE ReportInv
  OBVIOUS
<1>1. TypeOK BY InitTypes
<1>2. \A l \in Ids : AtWork(l) = {} BY DEF Init, AtWork, NoRuns
<1>3. \A l \in Ids : Tasks(l) = 0 BY <1>2, FS_EmptySet DEF Tasks
<1> QED BY <1>1, <1>3 DEF Init, ReportInv, Paid, StorePaid, Owed, KeptTold, Working, HalfSaved

LEMMA BriefReports ==
  ASSUME ReportInv, TypeOK', NEW l \in Ids, Brief(l), Calling,
         UNCHANGED <<told, store>>, Change
  PROVE  ReportInv'
<1> DEFINE n == Cardinality(Started(l)) + 1
<1>1. /\ n \in Nth /\ run' = [run EXCEPT ![<<l, n>>] = "going"]
      /\ briefs' = [briefs EXCEPT ![l] = @ + 1] /\ rec' = [rec EXCEPT ![l] = "running"]
  BY DEF Brief, Launch
<1>2. AtWork(l)' \subseteq AtWork(l) \cup {n}
  BY <1>1 DEF AtWork, ReportInv, TypeOK
<1>3. \A k \in Ids : k # l => AtWork(k)' \subseteq AtWork(k)
  BY <1>1 DEF AtWork, ReportInv, TypeOK
<1>4. Paid'
  <2> SUFFICES ASSUME NEW k \in Ids PROVE told'[k] + Tasks(k)' <= briefs'[k]
    BY DEF Paid
  <2>1. told[k] + Tasks(k) <= briefs[k] BY DEF ReportInv, Paid
  <2>2. told[k] \in Nat /\ briefs[k] \in Nat /\ told' = told BY DEF ReportInv, TypeOK
  <2>3. CASE k = l
    <3>1. briefs'[k] = briefs[k] + 1 BY <1>1, <2>3 DEF ReportInv, TypeOK
    <3>2. Tasks(k)' <= Tasks(k) + 1 BY <1>1, <1>2, <2>3, OneMore
    <3> QED BY <2>1, <2>2, <3>1, <3>2, AtWorkSize, AtWorkPrimed
  <2>4. CASE k # l
    <3>1. briefs'[k] = briefs[k] BY <1>1, <2>4 DEF ReportInv, TypeOK
    <3>2. Tasks(k)' <= Tasks(k) BY <1>3, <2>4, SameTasks
    <3> QED BY <2>1, <2>2, <3>1, <3>2, AtWorkSize, AtWorkPrimed
  <2> QED BY <2>3, <2>4
<1>5. StorePaid'
  BY <1>1 DEF StorePaid, Owed, ReportInv, TypeOK, store
<1>6. KeptTold' BY DEF KeptTold, ReportInv, store, Up, Calling, Change
<1>7. Working'
  <2> SUFFICES ASSUME NEW k \in Ids, rec'[k] = "running"
               PROVE  \E i \in Nth : run'[<<k, i>>] \in {"going", "sent"}
    BY DEF Working
  <2>1. CASE k = l BY <1>1, <2>1 DEF ReportInv, TypeOK
  <2>2. CASE k # l
    <3>1. rec[k] = "running" BY <1>1, <2>2 DEF ReportInv, TypeOK
    <3>2. PICK i \in Nth : run[<<k, i>>] \in {"going", "sent"}
      BY <3>1 DEF ReportInv, Working, Up, Calling
    <3>3. run'[<<k, i>>] = run[<<k, i>>] BY <1>1, <2>2 DEF ReportInv, TypeOK
    <3> QED BY <3>2, <3>3
  <2> QED BY <2>1, <2>2
<1>8. HalfSaved' BY DEF HalfSaved, Change
<1> QED BY <1>4, <1>5, <1>6, <1>7, <1>8 DEF ReportInv

LEMMA CancelReports ==
  ASSUME ReportInv, TypeOK', NEW l \in Ids, Cancel(l)
  PROVE  ReportInv'
<1>1. \A k \in Ids : AtWork(k)' \subseteq AtWork(k)
  BY DEF Cancel, AtWork, ReportInv, TypeOK
<1>2. Paid'
  BY <1>1, SameTasks, AtWorkSize, AtWorkPrimed DEF Paid, Cancel, ReportInv, TypeOK
<1>3. StorePaid' BY DEF StorePaid, Owed, ReportInv, Cancel, store
<1>4. KeptTold' BY DEF KeptTold, ReportInv, Cancel, store, Up, Calling
<1>5. Working'
  <2> SUFFICES ASSUME NEW k \in Ids, rec'[k] = "running"
               PROVE  \E i \in Nth : run'[<<k, i>>] \in {"going", "sent"}
    BY DEF Working
  <2>1. k # l /\ rec[k] = "running" BY DEF Cancel, ReportInv, TypeOK
  <2>2. PICK i \in Nth : run[<<k, i>>] \in {"going", "sent"}
    BY <2>1 DEF ReportInv, Working, Up, Calling, Cancel
  <2>3. run'[<<k, i>>] = run[<<k, i>>] BY <2>1 DEF Cancel, ReportInv, TypeOK
  <2> QED BY <2>2, <2>3
<1>6. HalfSaved' BY DEF HalfSaved, Cancel, Change
<1> QED BY <1>2, <1>3, <1>4, <1>5, <1>6 DEF ReportInv

\* A task that ends, by itself or aborted, changes nothing of the lane's record.
LEMMA TaskReports ==
  ASSUME ReportInv, TypeOK', NEW l \in Ids, NEW n \in Nth, Ends(l, n) \/ Aborted(l, n)
  PROVE  ReportInv'
<1>1. \A k \in Ids : AtWork(k)' \subseteq AtWork(k)
  BY DEF Ends, Aborted, AtWork, ReportInv, TypeOK
<1>2. UNCHANGED <<rec, told, saved, kept, save, briefs>>
  BY DEF Ends, Aborted, store
<1>3. Paid'
  BY <1>1, <1>2, SameTasks, AtWorkSize, AtWorkPrimed DEF Paid, ReportInv, TypeOK
<1>4. StorePaid' /\ KeptTold' /\ HalfSaved'
  BY <1>2 DEF StorePaid, Owed, KeptTold, HalfSaved, Up, ReportInv
<1>5. Working'
  <2> SUFFICES ASSUME Up, NEW k \in Ids, rec[k] = "running"
               PROVE  \E i \in Nth : run'[<<k, i>>] \in {"going", "sent"}
    BY <1>2 DEF Working, Up
  <2>1. PICK i \in Nth : run[<<k, i>>] \in {"going", "sent"}
    BY DEF ReportInv, Working
  <2>2. run'[<<k, i>>] \in {"going", "sent"}
    BY <2>1 DEF Ends, Aborted, ReportInv, TypeOK
  <2> QED BY <2>2
<1> QED BY <1>3, <1>4, <1>5 DEF ReportInv

LEMMA ReportReports ==
  ASSUME ReportInv, TypeOK', NEW l \in Ids, NEW n \in Nth, Report(l, n)
  PROVE  ReportInv'
<1>1. /\ run[<<l, n>>] = "sent" /\ run' = [run EXCEPT ![<<l, n>>] = "over"]
      /\ UNCHANGED <<briefs, saved, kept>> /\ Calling /\ save' = "dirty"
  BY DEF Report, store, Change
<1>2. n \in AtWork(l) /\ AtWork(l)' = AtWork(l) \ {n}
  BY <1>1 DEF AtWork, ReportInv, TypeOK
<1>3. \A k \in Ids : k # l => AtWork(k)' \subseteq AtWork(k)
  BY <1>1 DEF AtWork, ReportInv, TypeOK
<1>4. told' = told \/ told' = [told EXCEPT ![l] = @ + 1]
  BY DEF Report
<1>5. \A k \in Ids : rec'[k] = "running" => rec[k] = "running" /\ k # l
  <2>1. CASE rec[l] = "cancelled" BY <2>1 DEF Report
  <2>2. CASE rec[l] # "cancelled"
    <3>1. PICK st \in Reported, old \in SUBSET Ids : rec' = Without([rec EXCEPT ![l] = st], old)
      BY <2>2 DEF Report, Old
    <3> QED BY <3>1 DEF Without, Reported, ReportInv, TypeOK
  <2> QED BY <2>1, <2>2
<1>6. Paid'
  <2> SUFFICES ASSUME NEW k \in Ids PROVE told'[k] + Tasks(k)' <= briefs[k]
    BY <1>1 DEF Paid
  <2>1. told[k] + Tasks(k) <= briefs[k] BY DEF ReportInv, Paid
  <2>2. told[k] \in Nat /\ briefs[k] \in Nat BY DEF ReportInv, TypeOK
  <2>3. CASE k = l
    <3>1. told'[k] <= told[k] + 1 /\ told'[k] \in Nat BY <1>4, <2>2, <2>3 DEF ReportInv, TypeOK
    <3>2. Tasks(k)' + 1 = Tasks(k) BY <1>2, <2>3, OneLess
    <3> QED BY <2>1, <2>2, <3>1, <3>2, AtWorkSize, AtWorkPrimed
  <2>4. CASE k # l
    <3>1. told'[k] = told[k] BY <1>4, <2>4 DEF ReportInv, TypeOK
    <3>2. Tasks(k)' <= Tasks(k) BY <1>3, <2>4, SameTasks
    <3> QED BY <2>1, <2>2, <3>1, <3>2, AtWorkSize, AtWorkPrimed
  <2> QED BY <2>3, <2>4
<1>7. StorePaid' BY <1>1 DEF StorePaid, Owed, ReportInv
<1>8. KeptTold'
  <2> SUFFICES ASSUME NEW k \in Ids PROVE kept[k] <= told'[k]
    BY <1>1 DEF KeptTold
  <2>1. kept[k] <= told[k] BY <1>1 DEF ReportInv, KeptTold, Up, Calling
  <2>2. told[k] \in Nat /\ kept[k] \in Nat BY DEF ReportInv, TypeOK
  <2>3. told'[k] = told[k] \/ told'[k] = told[k] + 1 BY <1>4 DEF ReportInv, TypeOK
  <2> QED BY <2>1, <2>2, <2>3
<1>9. Working'
  <2> SUFFICES ASSUME NEW k \in Ids, rec'[k] = "running"
               PROVE  \E i \in Nth : run'[<<k, i>>] \in {"going", "sent"}
    BY DEF Working
  <2>1. k # l /\ rec[k] = "running" BY <1>5
  <2>2. PICK i \in Nth : run[<<k, i>>] \in {"going", "sent"}
    BY <1>1, <2>1 DEF ReportInv, Working, Up, Calling
  <2>3. run'[<<k, i>>] = run[<<k, i>>] BY <1>1, <2>1 DEF ReportInv, TypeOK
  <2> QED BY <2>2, <2>3
<1>10. HalfSaved' BY <1>1 DEF HalfSaved
<1> QED BY <1>6, <1>7, <1>8, <1>9, <1>10 DEF ReportInv

LEMMA SameRuns == run' = run => \A l : AtWork(l)' \subseteq AtWork(l)
  BY DEF AtWork

LEMMA SaveReports ==
  ASSUME ReportInv, TypeOK', SaveScalar \/ SaveMessages
  PROVE  ReportInv'
<1>1. UNCHANGED <<rec, run, told, briefs>> /\ Up /\ Up'
  BY DEF SaveScalar, SaveMessages, Up
<1>2. Paid'
  BY <1>1, SameRuns, SameTasks, AtWorkSize, AtWorkPrimed DEF Paid, ReportInv, TypeOK
<1>3. Working' BY <1>1 DEF Working, ReportInv
\* A lane that is running has a task, so its brief pays for what is saved of it.
<1>4. \A l \in Ids : rec[l] = "running" => told[l] + 1 <= briefs[l]
  <2> SUFFICES ASSUME NEW l \in Ids, rec[l] = "running" PROVE told[l] + 1 <= briefs[l]
    OBVIOUS
  <2>1. AtWork(l) # {} BY <1>1 DEF ReportInv, Working, AtWork
  <2>2. told[l] + Tasks(l) <= briefs[l] BY DEF ReportInv, Paid
  <2>3. told[l] \in Nat /\ briefs[l] \in Nat BY DEF ReportInv, TypeOK
  <2> QED BY <2>1, <2>2, <2>3, SomeTask, AtWorkSize
<1>5. \A l \in Ids : kept[l] <= told[l] /\ told[l] <= briefs[l]
  <2> SUFFICES ASSUME NEW l \in Ids PROVE kept[l] <= told[l] /\ told[l] <= briefs[l]
    OBVIOUS
  <2>1. told[l] \in Nat /\ briefs[l] \in Nat /\ kept[l] \in Nat BY DEF ReportInv, TypeOK
  <2>2. told[l] + Tasks(l) <= briefs[l] BY DEF ReportInv, Paid
  <2>3. kept[l] <= told[l] BY <1>1 DEF ReportInv, KeptTold
  <2> QED BY <2>1, <2>2, <2>3, AtWorkSize
<1>6. CASE SaveScalar
  <2>1. saved' = rec /\ kept' = kept BY <1>6 DEF SaveScalar
  <2>2. StorePaid'
    <3> SUFFICES ASSUME NEW l \in Ids
                 PROVE  kept[l] + (IF rec[l] = "running" THEN 1 ELSE 0) <= briefs[l]
      BY <1>1, <2>1 DEF StorePaid, Owed
    <3>1. told[l] \in Nat /\ briefs[l] \in Nat /\ kept[l] \in Nat BY DEF ReportInv, TypeOK
    <3> QED BY <1>4, <1>5, <3>1
  <2>3. KeptTold' BY <1>1, <2>1 DEF KeptTold, ReportInv
  <2>4. HalfSaved' BY <1>1, <2>1 DEF HalfSaved
  <2> QED BY <1>2, <1>3, <2>2, <2>3, <2>4 DEF ReportInv
<1>7. CASE SaveMessages
  <2>1. saved' = saved /\ kept' = told /\ saved = rec /\ save' = "clean"
    BY <1>7 DEF SaveMessages, ReportInv, HalfSaved
  <2>2. StorePaid'
    <3> SUFFICES ASSUME NEW l \in Ids
                 PROVE  told[l] + (IF rec[l] = "running" THEN 1 ELSE 0) <= briefs[l]
      BY <1>1, <2>1 DEF StorePaid, Owed
    <3>1. told[l] \in Nat /\ briefs[l] \in Nat BY DEF ReportInv, TypeOK
    <3> QED BY <1>4, <1>5, <3>1
  <2>3. KeptTold'
    <3>1. \A l \in Ids : told[l] <= told[l] BY DEF ReportInv, TypeOK
    <3> QED BY <1>1, <2>1, <3>1 DEF KeptTold
  <2>4. HalfSaved' BY <2>1 DEF HalfSaved
  <2> QED BY <1>2, <1>3, <2>2, <2>3, <2>4 DEF ReportInv
<1> QED BY <1>6, <1>7

LEMMA StopReports ==
  ASSUME ReportInv, TypeOK', Stop
  PROVE  ReportInv'
<1>1. \A l \in Ids : AtWork(l)' \subseteq AtWork(l)
  BY DEF Stop, NoRuns, AtWork
<1>2. UNCHANGED <<told, saved, kept, briefs>> /\ save' = "down" BY DEF Stop
<1>3. Paid'
  BY <1>1, <1>2, SameTasks, AtWorkSize, AtWorkPrimed DEF Paid, ReportInv, TypeOK
<1>4. StorePaid' BY <1>2 DEF StorePaid, Owed, ReportInv
<1> QED BY <1>2, <1>3, <1>4 DEF ReportInv, KeptTold, Working, HalfSaved, Up

\* What is started again was paid for when the store had it.
LEMMA StartReports ==
  ASSUME ReportInv, TypeOK', Start
  PROVE  ReportInv'
<1>1. /\ UNCHANGED <<saved, kept, briefs>> /\ told' = kept
      /\ save' \in {"dirty", "clean"}
      /\ run' = [r \in Ids \X Nth |->
                   IF rec'[r[1]] = "running" /\ r[2] = 1 THEN "going" ELSE "none"]
  BY DEF Start, store, Resume, Interrupted
<1>2. \A l \in Ids : rec'[l] = "running" => saved[l] = "running"
  BY DEF Start, Without
<1>3. 1 \in Nth BY Numbers DEF Nth
<1>4. Paid'
  <2> SUFFICES ASSUME NEW l \in Ids PROVE kept[l] + Tasks(l)' <= briefs[l]
    BY <1>1 DEF Paid
  <2>1. kept[l] \in Nat /\ briefs[l] \in Nat BY DEF ReportInv, TypeOK
  <2>2. kept[l] + Owed(l) <= briefs[l] BY DEF ReportInv, StorePaid
  <2>3. CASE rec'[l] = "running"
    <3>1. AtWork(l)' \subseteq {1} BY <1>1 DEF AtWork
    <3>2. IsFiniteSet({1}) /\ Cardinality({1}) = 1 BY FS_Singleton
    <3>3. Tasks(l)' <= 1 BY <3>1, <3>2, FS_Subset DEF Tasks
    <3>4. Owed(l) = 1 BY <1>2, <2>3 DEF Owed
    <3> QED BY <2>1, <2>2, <3>3, <3>4, AtWorkPrimed
  <2>4. CASE rec'[l] # "running"
    <3>1. AtWork(l)' = {} BY <1>1, <2>4 DEF AtWork
    <3>2. Tasks(l)' = 0 BY <3>1, FS_EmptySet DEF Tasks
    <3>3. Owed(l) \in {0, 1} BY DEF Owed
    <3> QED BY <2>1, <2>2, <3>2, <3>3
  <2> QED BY <2>3, <2>4
<1>5. StorePaid' BY <1>1 DEF StorePaid, Owed, ReportInv
<1>6. KeptTold' 
  <2>1. \A l \in Ids : kept[l] <= kept[l] BY DEF ReportInv, TypeOK
  <2> QED BY <1>1, <2>1 DEF KeptTold
<1>7. Working' BY <1>1, <1>3 DEF Working
<1>8. HalfSaved' BY <1>1 DEF HalfSaved
<1> QED BY <1>4, <1>5, <1>6, <1>7, <1>8 DEF ReportInv

LEMMA NextReports == ReportInv /\ [Next]_vars => ReportInv'
<1> SUFFICES ASSUME ReportInv, [Next]_vars PROVE ReportInv'
  OBVIOUS
<1>0. TypeOK' BY NextTypes DEF ReportInv
<1>1. CASE Spawn
  <2>1. counter' \in Ids BY <1>1, Numbers DEF Spawn, ReportInv, TypeOK, Ids
  <2>2. PICK l \in Ids : l = counter' BY <2>1
  <2>3. Brief(l) /\ Calling /\ UNCHANGED <<told, store>> /\ Change
    BY <1>1, <2>2 DEF Spawn
  <2> QED BY <1>0, <2>3, BriefReports
<1>2. ASSUME NEW l \in Ids, FollowUp(l) PROVE ReportInv'
  BY <1>0, <1>2, BriefReports DEF FollowUp
<1>3. ASSUME NEW l \in Ids, Cancel(l) PROVE ReportInv'
  BY <1>0, <1>3, CancelReports
<1>4. ASSUME NEW l \in Ids, NEW n \in Nth, Ends(l, n) \/ Aborted(l, n) PROVE ReportInv'
  BY <1>0, <1>4, TaskReports
<1>5. ASSUME NEW l \in Ids, NEW n \in Nth, Report(l, n) PROVE ReportInv'
  BY <1>0, <1>5, ReportReports
<1>6. CASE SaveScalar \/ SaveMessages BY <1>0, <1>6, SaveReports
<1>7. CASE Stop BY <1>0, <1>7, StopReports
<1>8. CASE Start BY <1>0, <1>8, StartReports
<1>9. CASE UNCHANGED vars
  BY <1>9 DEF vars, ReportInv, TypeOK, Paid, Tasks, AtWork, StorePaid, Owed, KeptTold,
              Working, HalfSaved, Up
<1> QED BY <1>1, <1>2, <1>3, <1>4, <1>5, <1>6, <1>7, <1>8, <1>9 DEF Next

LEMMA ReportsPaid == ReportInv => OneReportPerBrief
<1> SUFFICES ASSUME ReportInv, NEW l \in Ids PROVE told[l] <= briefs[l]
  BY DEF OneReportPerBrief
<1>1. told[l] + Tasks(l) <= briefs[l] BY DEF ReportInv, Paid
<1>2. told[l] \in Nat /\ briefs[l] \in Nat BY DEF ReportInv, TypeOK
<1> QED BY <1>1, <1>2, AtWorkSize

\* However results, saves, stops, cancellations and further briefs fall together,
\* the conversation hears at most once of each brief.
THEOREM OneReport == Spec => []OneReportPerBrief
<1> QED BY InitReports, NextReports, ReportsPaid, PTL DEF Spec

(***************************************************************************)
(* A cancelled lane.                                                       *)
(***************************************************************************)
Quiet(l) == /\ told'[l] = told[l]
            /\ rec'[l] \in {"cancelled", "none"} \/ briefs'[l] > briefs[l]

\* Whichever lane is briefed: a cancelled one is only brought back by its own brief.
LEMMA BriefQuiet ==
  ASSUME TypeOK, NEW k \in Ids, Brief(k), told' = told, NEW l \in Ids, rec[l] = "cancelled"
  PROVE  Quiet(l)
<1>1. /\ rec' = [rec EXCEPT ![k] = "running"] /\ briefs' = [briefs EXCEPT ![k] = @ + 1]
      /\ rec \in [Ids -> Statuses \cup {"none"}] /\ briefs \in [Ids -> Nat]
  BY DEF Brief, TypeOK
<1>2. CASE l = k
  <2>1. briefs'[l] = briefs[l] + 1 /\ briefs[l] \in Nat BY <1>1, <1>2
  <2> QED BY <2>1 DEF Quiet
<1>3. CASE l # k
  <2>1. rec'[l] = "cancelled" BY <1>1, <1>3
  <2> QED BY <2>1 DEF Quiet
<1> QED BY <1>2, <1>3

LEMMA ReportQuiet ==
  ASSUME TypeOK, NEW k \in Ids, NEW n \in Nth, Report(k, n), NEW l \in Ids, rec[l] = "cancelled"
  PROVE  Quiet(l)
<1>1. CASE rec[k] = "cancelled" BY <1>1 DEF Report, Quiet
<1>2. CASE rec[k] # "cancelled"
  <2>1. PICK st \in Reported, old \in SUBSET Ids :
          /\ told' = [told EXCEPT ![k] = @ + 1]
          /\ rec' = Without([rec EXCEPT ![k] = st], old)
    BY <1>2 DEF Report, Old
  <2>2. l # k BY <1>2
  <2>3. told'[l] = told[l] BY <2>1, <2>2 DEF TypeOK
  <2>4. rec'[l] \in {"none", rec[l]} BY <2>1, <2>2 DEF Without, TypeOK
  <2> QED BY <2>3, <2>4 DEF Quiet
<1> QED BY <1>1, <1>2

\* A lane once cancelled is not heard of again, and keeps its record until it is dropped
\* or given a new brief, whatever its task still sends (cancel, inject_lane_result).
THEOREM CancelledLanesStay == Spec => CancelledStays
<1>1. ASSUME TypeOK, Next, NEW l \in Ids, rec[l] = "cancelled", save # "down" PROVE Quiet(l)
  <2>1. CASE Spawn
    <3>1. counter' \in Ids BY <1>1, <2>1, Numbers DEF Spawn, TypeOK, Ids
    <3>2. PICK k \in Ids : k = counter' BY <3>1
    <3>3. Brief(k) /\ told' = told BY <2>1, <3>2 DEF Spawn
    <3> QED BY <1>1, <3>3, BriefQuiet
  <2>2. ASSUME NEW k \in Ids, FollowUp(k) PROVE Quiet(l)
    BY <1>1, <2>2, BriefQuiet DEF FollowUp
  <2>3. ASSUME NEW k \in Ids, Cancel(k) PROVE Quiet(l)
    BY <1>1, <2>3 DEF Cancel, Quiet, TypeOK
  <2>4. ASSUME NEW k \in Ids, NEW n \in Nth, Report(k, n) PROVE Quiet(l)
    BY <1>1, <2>4, ReportQuiet
  <2>5. ASSUME NEW k \in Ids, NEW n \in Nth, Ends(k, n) \/ Aborted(k, n) PROVE Quiet(l)
    BY <1>1, <2>5 DEF Ends, Aborted, Quiet
  <2>6. CASE SaveScalar \/ SaveMessages \/ Stop
    BY <1>1, <2>6 DEF SaveScalar, SaveMessages, Stop, Quiet
  <2>7. ~ Start BY <1>1 DEF Start
  <2> QED BY <1>1, <2>1, <2>2, <2>3, <2>4, <2>5, <2>6, <2>7 DEF Next
<1>2. TypeOK /\ [Next]_vars =>
        [\A l \in Ids : rec[l] = "cancelled" /\ save # "down" =>
           /\ told'[l] = told[l]
           /\ rec'[l] \in {"cancelled", "none"} \/ briefs'[l] > briefs[l]]_vars
  BY <1>1 DEF Quiet
<1> QED BY <1>2, LaneTypes, PTL DEF Spec, CancelledStays
=============================================================================

-------------------------- MODULE TaskBoardProofs --------------------------
(***************************************************************************)
(* Theorems about TaskBoard, for any number of tasks and sessions.  What a  *)
(* theorem asks of the handlers (one at a time, one dispatcher) or leaves  *)
(* out of the operations is its hypothesis.                                *)
(***************************************************************************)
EXTENDS TaskBoard, TLAPS

(***************************************************************************)
(* What a handler in flight carries.  TypeOK alone is not inductive: a     *)
(* step that writes a row must have a task to write, and a step that binds *)
(* a session, completes or links must have read one.                       *)
(***************************************************************************)
Binding == {"findings", "sendback", "rebind", "bind"}
Carrying == Binding \cup {"complete", "link"}

Engaged ==
  \A p \in Procs :
    /\ proc[p].at # "idle" => proc[p].task \in Tasks
    /\ proc[p].at \in Binding => proc[p].session \in Sessions
    /\ proc[p].at = "complete" => proc[p].outcome \in Terminal
    /\ proc[p].at = "link" => proc[p].other \in Tasks

TypeInv == TypeOK /\ Engaged

HandlersOK == proc \in [Procs -> Handler] /\ Engaged

-----------------------------------------------------------------------------
(* What the writes of TaskRecord leave is a row.                           *)

LEMMA Zero == 0 \in 0..MaxDispatchFailures
  BY FailureAssumption

LEMMA PlainTypes ==
  ASSUME NEW k \in Task
  PROVE  /\ Claimed(k) \in Task
         /\ Revised(k) \in Task
         /\ MovedToBlocked(k) \in Task
         /\ Unblocked(k) \in Task
         /\ Parked(k) \in Task
         /\ Widened(k) \in Task
         /\ HeldBack(k) \in Task
         /\ HandedBack(k) \in Task
         /\ ReportedBlocked(k) \in Task
         /\ Submitted(k) \in Task
  <1> USE DEF Task, Status, Terminal
  <1>1. Claimed(k) \in Task BY DEF Claimed
  <1>2. Revised(k) \in Task BY DEF Revised
  <1>3. MovedToBlocked(k) \in Task BY DEF MovedToBlocked
  <1>4. Unblocked(k) \in Task BY DEF Unblocked
  <1>5. Parked(k) \in Task BY DEF Parked
  <1>6. Widened(k) \in Task BY DEF Widened
  <1>7. HeldBack(k) \in Task BY DEF HeldBack
  <1>8. HandedBack(k) \in Task BY DEF HandedBack
  <1>9. ReportedBlocked(k) \in Task BY DEF ReportedBlocked
  <1>10. Submitted(k) \in Task BY DEF Submitted
  <1> QED BY ONLY <1>1, <1>2, <1>3, <1>4, <1>5, <1>6, <1>7, <1>8, <1>9, <1>10

LEMMA CompletedType ==
  ASSUME NEW k \in Task, NEW outcome \in Terminal PROVE Completed(k, outcome) \in Task
  BY Zero DEF Task, Status, Terminal, Completed

LEMMA RequeuedType ==
  ASSUME NEW k \in Task, NEW reopen \in BOOLEAN PROVE Requeued(k, reopen) \in Task
  BY Zero DEF Task, Status, Terminal, Requeued, MayRequeue

LEMMA SentBackType ==
  ASSUME NEW k \in Task, NEW s \in Sessions PROVE SentBack(k, s) \in Task
  BY Zero DEF Task, Status, Terminal, SentBack

LEMMA BoundType ==
  ASSUME NEW k \in Task, NEW s \in Sessions PROVE Bound(k, s) \in Task
  BY Zero DEF Task, Status, Terminal, Bound

LEMMA EditedType ==
  ASSUME NEW k \in Task, NEW s \in Sessions, NEW paths \in BOOLEAN PROVE Edited(k, s, paths) \in Task
  BY Zero DEF Task, Status, Terminal, Edited

LEMMA ReleasedType ==
  ASSUME NEW k \in Task PROVE Released(k) \in Task
  <1> DEFINE failures == IF k.failures < MaxDispatchFailures
                         THEN k.failures + 1 ELSE MaxDispatchFailures
             status == IF failures >= MaxDispatchFailures THEN "blocked" ELSE "todo"
  <1>1. failures \in 0..MaxDispatchFailures
    BY FailureAssumption DEF Task
  <1>2. status \in Status
    BY DEF Status
  <1>3. Released(k) = [k EXCEPT !.failures = failures, !.reporting = NoSession,
                                !.status = status]
    BY DEF Released
  <1> HIDE DEF failures, status
  <1> QED BY <1>1, <1>2, <1>3 DEF Task

LEMMA ResetType ==
  ASSUME NEW k \in Task PROVE [k EXCEPT !.failures = 0] \in Task
  BY Zero DEF Task

-----------------------------------------------------------------------------
(* What a step does to the row of its task, and to its handler.            *)

LEMMA RowType ==
  ASSUME TypeInv, NEW p \in Procs, ~At(p, "idle")
  PROVE  On(p) \in Tasks /\ Row(p) \in Task
  BY DEF TypeInv, TypeOK, Engaged, At, On, Row

LEMMA NoEnvelopes == 0 \in 0..MaxEnvelopes
  BY DEF MaxEnvelopes

LEMMA WriteType ==
  ASSUME TypeInv, NEW t \in Tasks, NEW row \in Task, Write(t, row)
  PROVE  task' \in [Tasks -> Task]
  BY DEF TypeInv, TypeOK, Write

LEMMA IdleType == Idle \in Handler
  BY DEF Idle, Handler, Steps

LEMMA ReturnType ==
  ASSUME TypeInv, NEW p \in Procs, Return(p)
  PROVE  HandlersOK'
  BY IdleType DEF Return, HandlersOK, Engaged, TypeInv, TypeOK, Idle, Binding

LEMMA StartType ==
  ASSUME TypeInv, NEW p \in Procs, NEW t \in Tasks,
         NEW step \in Steps \ Carrying, Start(p, step, t)
  PROVE  HandlersOK'
  BY IdleType
  DEF Start, HandlersOK, Engaged, TypeInv, TypeOK, Idle, Handler, Binding, Carrying

LEMMA GotoType ==
  ASSUME TypeInv, NEW p \in Procs, ~At(p, "idle"),
         NEW step \in Steps \ Carrying, Goto(p, step)
  PROVE  HandlersOK'
  BY SMTT(60) DEF Goto, At, HandlersOK, Engaged, TypeInv, TypeOK, Handler, Binding, Carrying

LEMMA SetType ==
  ASSUME TypeInv, NEW p \in Procs, NEW h \in Handler,
         h.task \in Tasks, h.at \in Binding => h.session \in Sessions,
         h.at = "complete" => h.outcome \in Terminal,
         h.at = "link" => h.other \in Tasks,
         proc' = [proc EXCEPT ![p] = h]
  PROVE  HandlersOK'
  BY DEF HandlersOK, Engaged, TypeInv, TypeOK, Handler

LEMMA StepNames ==
  /\ Steps \ Carrying = {"idle", "await", "offer", "paths", "worker", "claim", "blockers",
          "hold", "target", "repath", "handback", "release", "deliver",
          "reset", "unblock", "submit", "inreview", "settle",
          "unpend", "block", "requeue",
          "relink", "take", "leave", "park", "assign", "seat",
          "brief", "note", "fail"}
  BY DEF Steps, Carrying, Binding

-----------------------------------------------------------------------------
(* Type correctness, one step per action.                                  *)

LEMMA DispatchKeepsTypes ==
  ASSUME TypeInv, NEW p \in Procs, DispatchStep(p)
  PROVE  TypeInv'
  <1>1. CASE AwaitClaim(p)
    <2>1. ~At(p, "idle")
      BY <1>1 DEF AwaitClaim, At
    <2>2. HandlersOK'
      BY <1>1, <2>1, GotoType, ReturnType, StepNames DEF AwaitClaim
    <2> QED BY <1>1, <2>1, <2>2, RowType DEF AwaitClaim, TypeInv, TypeOK, HandlersOK
  <1>2. CASE Offer(p)
    <2>1. ~At(p, "idle")
      BY <1>2 DEF Offer, At
    <2>2. HandlersOK'
      BY <1>2, <2>1, GotoType, ReturnType, StepNames DEF Offer
    <2> QED BY <1>2, <2>1, <2>2, RowType DEF Offer, TypeInv, TypeOK, HandlersOK, Seats
  <1>3. CASE CheckPaths(p)
    <2>1. ~At(p, "idle")
      BY <1>3 DEF CheckPaths, At
    <2>2. HandlersOK'
      BY <1>3, <2>1, GotoType, ReturnType, StepNames DEF CheckPaths
    <2> QED BY <1>3, <2>1, <2>2, RowType DEF CheckPaths, TypeInv, TypeOK, HandlersOK
  <1>4. CASE WorkerNotReady(p)
    <2>1. ~At(p, "idle")
      BY <1>4 DEF WorkerNotReady, At
    <2>2. HandlersOK'
      BY <1>4, <2>1, GotoType, ReturnType, StepNames DEF WorkerNotReady
    <2> QED BY <1>4, <2>1, <2>2, RowType DEF WorkerNotReady, TypeInv, TypeOK, HandlersOK
  <1>5. CASE WorkerReady(p)
    <2>1. ~At(p, "idle")
      BY <1>5 DEF WorkerReady, At
    <2>2. HandlersOK'
      BY <1>5, <2>1, GotoType, ReturnType, StepNames DEF WorkerReady
    <2> QED BY <1>5, <2>1, <2>2, RowType DEF WorkerReady, TypeInv, TypeOK, HandlersOK
  <1>6. CASE Claim(p)
    <2>1. ~At(p, "idle")
      BY <1>6 DEF Claim, At
    <2>2. HandlersOK'
      BY <1>6, <2>1, GotoType, ReturnType, StepNames DEF Claim
    <2>3. Claimed(Row(p)) \in Task
      BY <2>1, RowType, PlainTypes
    <2>4. task' \in [Tasks -> Task]
      BY <1>6, <2>1, <2>3, RowType, WriteType DEF Claim
    <2> QED BY <1>6, <2>1, <2>2, <2>4, RowType DEF Claim, TypeInv, TypeOK, HandlersOK, MaxEnvelopes
  <1>7. CASE CheckBlockers(p)
    <2>1. ~At(p, "idle")
      BY <1>7 DEF CheckBlockers, At
    <2>2. HandlersOK'
      BY <1>7, <2>1, GotoType, ReturnType, StepNames DEF CheckBlockers
    <2> QED BY <1>7, <2>1, <2>2, RowType DEF CheckBlockers, TypeInv, TypeOK, HandlersOK
  <1>8. CASE HoldBack(p)
    <2>1. ~At(p, "idle")
      BY <1>8 DEF HoldBack, At
    <2>2. HandlersOK'
      BY <1>8, <2>1, GotoType, ReturnType, StepNames DEF HoldBack
    <2>3. HeldBack(Row(p)) \in Task
      BY <2>1, RowType, PlainTypes
    <2>4. task' \in [Tasks -> Task]
      BY <1>8, <2>1, <2>3, RowType, WriteType DEF HoldBack
    <2> QED BY <1>8, <2>1, <2>2, <2>4, RowType DEF HoldBack, TypeInv, TypeOK, HandlersOK
  <1>9. CASE ResolveTarget(p)
    <2>1. ~At(p, "idle")
      BY <1>9 DEF ResolveTarget, At
    <2>2. HandlersOK'
      BY <1>9, <2>1, GotoType, ReturnType, StepNames DEF ResolveTarget
    <2> QED BY <1>9, <2>1, <2>2, RowType DEF ResolveTarget, TypeInv, TypeOK, HandlersOK
  <1>10. CASE RecheckPaths(p)
    <2>1. ~At(p, "idle")
      BY <1>10 DEF RecheckPaths, At
    <2>2. HandlersOK'
      BY <1>10, <2>1, GotoType, ReturnType, StepNames DEF RecheckPaths
    <2> QED BY <1>10, <2>1, <2>2, RowType DEF RecheckPaths, TypeInv, TypeOK, HandlersOK
  <1>11. CASE HandBack(p)
    <2>1. ~At(p, "idle")
      BY <1>11 DEF HandBack, At
    <2>2. HandlersOK'
      BY <1>11, <2>1, GotoType, ReturnType, StepNames DEF HandBack
    <2>3. HandedBack(Row(p)) \in Task
      BY <2>1, RowType, PlainTypes
    <2>4. task' \in [Tasks -> Task]
      BY <1>11, <2>1, <2>3, RowType, WriteType DEF HandBack
    <2> QED BY <1>11, <2>1, <2>2, <2>4, RowType DEF HandBack, TypeInv, TypeOK, HandlersOK
  <1>12. CASE ReleaseFailedClaim(p)
    <2>1. ~At(p, "idle")
      BY <1>12 DEF ReleaseFailedClaim, At
    <2>2. HandlersOK'
      BY <1>12, <2>1, GotoType, ReturnType, StepNames DEF ReleaseFailedClaim
    <2>3. Released(Row(p)) \in Task
      BY <2>1, RowType, ReleasedType
    <2>4. task' \in [Tasks -> Task]
      BY <1>12, <2>1, <2>3, RowType, WriteType DEF ReleaseFailedClaim
    <2> QED BY <1>12, <2>1, <2>2, <2>4, RowType DEF ReleaseFailedClaim, TypeInv, TypeOK, HandlersOK
  <1>13. CASE Deliver(p)
    <2>1. ~At(p, "idle")
      BY <1>13 DEF Deliver, At
    <2>2. HandlersOK'
      BY <1>13, <2>1, GotoType, ReturnType, StepNames DEF Deliver
    <2> QED BY <1>13, <2>1, <2>2, RowType DEF Deliver, TypeInv, TypeOK, HandlersOK, Counted, MaxEnvelopes
  <1>14. CASE ResetFailures(p)
    <2>1. ~At(p, "idle")
      BY <1>14 DEF ResetFailures, At
    <2>2. HandlersOK'
      BY <1>14, <2>1, GotoType, ReturnType, StepNames DEF ResetFailures
    <2>3. [Row(p) EXCEPT !.failures = 0] \in Task
      BY <2>1, RowType, ResetType
    <2>4. task' \in [Tasks -> Task]
      BY <1>14, <2>1, <2>3, RowType, WriteType DEF ResetFailures
    <2> QED BY <1>14, <2>1, <2>2, <2>4, RowType DEF ResetFailures, TypeInv, TypeOK, HandlersOK
  <1> QED BY <1>1, <1>2, <1>3, <1>4, <1>5, <1>6, <1>7, <1>8, <1>9, <1>10, <1>11, <1>12, <1>13, <1>14 DEF DispatchStep

LEMMA ReportKeepsTypes ==
  ASSUME TypeInv, NEW p \in Procs, ReportStep(p)
  PROVE  TypeInv'
  <1>1. CASE ReportBlocked(p)
    <2>1. ~At(p, "idle")
      BY <1>1 DEF ReportBlocked, At
    <2>2. HandlersOK'
      BY <1>1, <2>1, GotoType, ReturnType, StepNames DEF ReportBlocked
    <2>3. ReportedBlocked(Row(p)) \in Task
      BY <2>1, RowType, PlainTypes
    <2>4. task' \in [Tasks -> Task]
      BY <1>1, <2>1, <2>3, RowType, WriteType DEF ReportBlocked
    <2> QED BY <1>1, <2>1, <2>2, <2>4, RowType DEF ReportBlocked, TypeInv, TypeOK, HandlersOK
  <1>2. CASE SubmitReport(p)
    <2>1. ~At(p, "idle")
      BY <1>2 DEF SubmitReport, At
    <2>2. HandlersOK'
      BY <1>2, <2>1, GotoType, ReturnType, StepNames DEF SubmitReport
    <2> QED BY <1>2, <2>1, <2>2, RowType DEF SubmitReport, TypeInv, TypeOK, HandlersOK
  <1>3. CASE HoldForReview(p)
    <2>1. ~At(p, "idle")
      BY <1>3 DEF HoldForReview, At
    <2>2. HandlersOK'
      BY <1>3, <2>1, GotoType, ReturnType, StepNames DEF HoldForReview
    <2>3. Submitted(Row(p)) \in Task
      BY <2>1, RowType, PlainTypes
    <2>4. task' \in [Tasks -> Task]
      BY <1>3, <2>1, <2>3, RowType, WriteType DEF HoldForReview
    <2> QED BY <1>3, <2>1, <2>2, <2>4, RowType DEF HoldForReview, TypeInv, TypeOK, HandlersOK
  <1>4. CASE Complete(p)
    <2>1. ~At(p, "idle")
      BY <1>4 DEF Complete, At
    <2>2. HandlersOK'
      BY <1>4, <2>1, GotoType, ReturnType, StepNames DEF Complete
    <2>3. Completed(Row(p), proc[p].outcome) \in Task
      BY <1>4, <2>1, RowType, CompletedType DEF Complete, At, TypeInv, TypeOK, Handler, Engaged, Binding
    <2>4. task' \in [Tasks -> Task]
      BY <1>4, <2>1, <2>3, RowType, WriteType DEF Complete
    <2> QED BY <1>4, <2>1, <2>2, <2>4, RowType DEF Complete, TypeInv, TypeOK, HandlersOK
  <1>5. CASE SettleOffer(p)
    <2>1. ~At(p, "idle")
      BY <1>5 DEF SettleOffer, At
    <2>2. HandlersOK'
      BY <1>5, <2>1, GotoType, ReturnType, StepNames DEF SettleOffer
    <2> QED BY <1>5, <2>1, <2>2, RowType DEF SettleOffer, TypeInv, TypeOK, HandlersOK, Seats
  <1>6. CASE ClearPending(p)
    <2>1. ~At(p, "idle")
      BY <1>6 DEF ClearPending, At
    <2>2. HandlersOK'
      BY <1>6, <2>1, GotoType, ReturnType, StepNames DEF ClearPending
    <2> QED BY <1>6, <2>1, <2>2, RowType DEF ClearPending, TypeInv, TypeOK, HandlersOK
  <1> QED BY <1>1, <1>2, <1>3, <1>4, <1>5, <1>6 DEF ReportStep

LEMMA ReviewKeepsTypes ==
  ASSUME TypeInv, NEW p \in Procs, ReviewStep(p)
  PROVE  TypeInv'
  <1>1. CASE RecordFindings(p)
    <2> DEFINE h == [proc[p] EXCEPT !.at = "sendback"]
    <2>1. ~At(p, "idle") /\ proc' = [proc EXCEPT ![p] = h]
      BY <1>1 DEF RecordFindings, At, Goto, TypeInv, TypeOK
    <2>2. h \in Handler /\ h.task \in Tasks /\ h.session \in Sessions /\ h.at = "sendback"
      BY <1>1 DEF RecordFindings, At, TypeInv, TypeOK, Engaged, Handler, Steps, Binding
    <2> HIDE DEF h
    <2>3. HandlersOK'
      BY <2>1, <2>2, SetType
    <2> QED BY <1>1, <2>1, <2>3, RowType DEF RecordFindings, TypeInv, TypeOK, HandlersOK
  <1>2. CASE SendBack(p)
    <2>1. ~At(p, "idle")
      BY <1>2 DEF SendBack, At
    <2>2. HandlersOK'
      BY <1>2, <2>1, GotoType, ReturnType, StepNames DEF SendBack
    <2>3. SentBack(Row(p), proc[p].session) \in Task
      BY <1>2, <2>1, RowType, SentBackType DEF SendBack, At, TypeInv, TypeOK, Handler, Engaged, Binding
    <2>4. task' \in [Tasks -> Task]
      BY <1>2, <2>1, <2>3, RowType, WriteType DEF SendBack
    <2> QED BY <1>2, <2>1, <2>2, <2>4, RowType DEF SendBack, TypeInv, TypeOK, HandlersOK
  <1>3. CASE Rebind(p)
    <2>1. ~At(p, "idle")
      BY <1>3 DEF Rebind, At
    <2>2. HandlersOK'
      BY <1>3, <2>1, GotoType, ReturnType, StepNames DEF Rebind
    <2>3. [Row(p) EXCEPT !.reporting = proc[p].session] \in Task
      BY <1>3, <2>1, RowType DEF Rebind, At, TypeInv, TypeOK, Handler, Engaged, Binding, Task
    <2>4. task' \in [Tasks -> Task]
      BY <1>3, <2>1, <2>3, RowType, WriteType DEF Rebind
    <2> QED BY <1>3, <2>1, <2>2, <2>4, RowType DEF Rebind, TypeInv, TypeOK, HandlersOK
  <1> QED BY <1>1, <1>2, <1>3 DEF ReviewStep

LEMMA ManageKeepsTypes ==
  ASSUME TypeInv, NEW p \in Procs, ManageStep(p)
  PROVE  TypeInv'
  <1>1. CASE Requeue(p)
    <2>1. ~At(p, "idle")
      BY <1>1 DEF Requeue, At
    <2>2. HandlersOK'
      BY <1>1, <2>1, GotoType, ReturnType, StepNames DEF Requeue
    <2>3. Requeued(Row(p), proc[p].flag) \in Task
      BY <1>1, <2>1, RowType, RequeuedType DEF Requeue, At, TypeInv, TypeOK, Handler, Engaged, Binding
    <2>4. task' \in [Tasks -> Task]
      BY <1>1, <2>1, <2>3, RowType, WriteType DEF Requeue
    <2> QED BY <1>1, <2>1, <2>2, <2>4, RowType DEF Requeue, TypeInv, TypeOK, HandlersOK
  <1>2. CASE Relink(p)
    <2>1. ~At(p, "idle")
      BY <1>2 DEF Relink, At
    <2>2. HandlersOK'
      BY <1>2, <2>1, GotoType, ReturnType, StepNames DEF Relink
    <2> QED BY <1>2, <2>1, <2>2, RowType DEF Relink, TypeInv, TypeOK, HandlersOK, Seats
  <1>3. CASE TakeSeat(p)
    <2>1. ~At(p, "idle")
      BY <1>3 DEF TakeSeat, At
    <2>2. HandlersOK'
      BY <1>3, <2>1, GotoType, ReturnType, StepNames DEF TakeSeat
    <2> QED BY <1>3, <2>1, <2>2, RowType DEF TakeSeat, TypeInv, TypeOK, HandlersOK, Seats
  <1>4. CASE LeaveSeat(p)
    <2>1. ~At(p, "idle")
      BY <1>4 DEF LeaveSeat, At
    <2>2. HandlersOK'
      BY <1>4, <2>1, GotoType, ReturnType, StepNames DEF LeaveSeat
    <2> QED BY <1>4, <2>1, <2>2, RowType DEF LeaveSeat, TypeInv, TypeOK, HandlersOK, Seats
  <1>5. CASE ParkDeclined(p)
    <2>1. ~At(p, "idle")
      BY <1>5 DEF ParkDeclined, At
    <2>2. HandlersOK'
      BY <1>5, <2>1, GotoType, ReturnType, StepNames DEF ParkDeclined
    <2>3. MovedToBlocked(Row(p)) \in Task
      BY <2>1, RowType, PlainTypes
    <2>4. task' \in [Tasks -> Task]
      BY <1>5, <2>1, <2>3, RowType, WriteType DEF ParkDeclined
    <2> QED BY <1>5, <2>1, <2>2, <2>4, RowType DEF ParkDeclined, TypeInv, TypeOK, HandlersOK
  <1>6. CASE Assign(p)
    <2>1. ~At(p, "idle")
      BY <1>6 DEF Assign, At
    <2>2. HandlersOK'
      BY <1>6, <2>1, GotoType, ReturnType, StepNames DEF Assign
    <2> QED BY <1>6, <2>1, <2>2, RowType DEF Assign, TypeInv, TypeOK, HandlersOK, Seats
  <1>7. CASE BindDirect(p)
    <2>1. ~At(p, "idle")
      BY <1>7 DEF BindDirect, At
    <2>2. HandlersOK'
      BY <1>7, <2>1, GotoType, ReturnType, StepNames DEF BindDirect
    <2>3. Bound(Row(p), proc[p].session) \in Task
      BY <1>7, <2>1, RowType, BoundType DEF BindDirect, At, TypeInv, TypeOK, Handler, Engaged, Binding
    <2>4. task' \in [Tasks -> Task]
      BY <1>7, <2>1, <2>3, RowType, WriteType DEF BindDirect
    <2>5. envelopes' = [envelopes EXCEPT ![On(p)] = 0]
      BY <1>7 DEF BindDirect
    <2>6. envelopes' \in [Tasks -> 0..MaxEnvelopes]
      BY <2>5, NoEnvelopes DEF TypeInv, TypeOK
    <2> QED BY <1>7, <2>2, <2>4, <2>6 DEF BindDirect, TypeInv, TypeOK, HandlersOK
  <1>8. CASE SeatWorker(p)
    <2>1. ~At(p, "idle")
      BY <1>8 DEF SeatWorker, At
    <2>2. HandlersOK'
      BY <1>8, <2>1, GotoType, ReturnType, StepNames DEF SeatWorker
    <2> QED BY <1>8, <2>1, <2>2, RowType DEF SeatWorker, TypeInv, TypeOK, HandlersOK, Seats
  <1>9. CASE SendBrief(p)
    <2>1. ~At(p, "idle")
      BY <1>9 DEF SendBrief, At
    <2>2. HandlersOK'
      BY <1>9, <2>1, GotoType, ReturnType, StepNames DEF SendBrief
    <2> QED BY <1>9, <2>1, <2>2, RowType DEF SendBrief, TypeInv, TypeOK, HandlersOK, Counted, MaxEnvelopes
  <1>10. CASE NoteWrite(p)
    <2>1. ~At(p, "idle")
      BY <1>10 DEF NoteWrite, At
    <2>2. HandlersOK'
      BY <1>10, <2>1, GotoType, ReturnType, StepNames DEF NoteWrite
    <2>3. Widened(Row(p)) \in Task
      BY <2>1, RowType, PlainTypes
    <2>4. task' \in [Tasks -> Task]
      BY <1>10, <2>1, <2>3, RowType, WriteType DEF NoteWrite
    <2> QED BY <1>10, <2>1, <2>2, <2>4, RowType DEF NoteWrite, TypeInv, TypeOK, HandlersOK
  <1>11. CASE ParkFailed(p)
    <2>1. ~At(p, "idle")
      BY <1>11 DEF ParkFailed, At
    <2>2. HandlersOK'
      BY <1>11, <2>1, GotoType, ReturnType, StepNames DEF ParkFailed
    <2>3. Parked(Row(p)) \in Task
      BY <2>1, RowType, PlainTypes
    <2>4. task' \in [Tasks -> Task]
      BY <1>11, <2>1, <2>3, RowType, WriteType DEF ParkFailed
    <2> QED BY <1>11, <2>1, <2>2, <2>4, RowType DEF ParkFailed, TypeInv, TypeOK, HandlersOK
  <1>12. CASE Link(p)
    <2>1. ~At(p, "idle")
      BY <1>12 DEF Link, At
    <2>2. HandlersOK'
      BY <1>12, <2>1, GotoType, ReturnType, StepNames DEF Link
    <2> QED BY <1>12, <2>1, <2>2, RowType DEF Link, TypeInv, TypeOK, HandlersOK, Engaged, At, On
  <1> QED BY <1>1, <1>2, <1>3, <1>4, <1>5, <1>6, <1>7, <1>8, <1>9, <1>10, <1>11, <1>12 DEF ManageStep

LEMMA ContinueKeepsTypes ==
  ASSUME TypeInv, NEW p \in Procs, Continue(p)
  PROVE  TypeInv'
  <1>1. CASE Unblock(p)
    <2>1. ~At(p, "idle")
      BY <1>1 DEF Unblock, At
    <2>2. HandlersOK'
      BY <1>1, <2>1, GotoType, ReturnType, StepNames DEF Unblock
    <2>3. Unblocked(Row(p)) \in Task
      BY <2>1, RowType, PlainTypes
    <2>4. task' \in [Tasks -> Task]
      BY <1>1, <2>1, <2>3, RowType, WriteType DEF Unblock
    <2> QED BY <1>1, <2>1, <2>2, <2>4, RowType DEF Unblock, TypeInv, TypeOK, HandlersOK
  <1>2. CASE DispatchStep(p)
    BY <1>2, DispatchKeepsTypes
  <1>3. CASE ReportStep(p)
    BY <1>3, ReportKeepsTypes
  <1>4. CASE ReviewStep(p)
    BY <1>4, ReviewKeepsTypes
  <1>5. CASE ManageStep(p)
    BY <1>5, ManageKeepsTypes
  <1> QED BY <1>1, <1>2, <1>3, <1>4, <1>5 DEF Continue

LEMMA BeginKeepsTypes ==
  ASSUME TypeInv, NEW p \in Procs, NEW t \in Tasks, Begin(p, t)
  PROVE  TypeInv'
  <1>1. CASE BeginDispatch(p, t)
    <2>1. HandlersOK'
      BY <1>1, StartType, StepNames DEF BeginDispatch
    <2> QED BY <1>1, <2>1 DEF BeginDispatch, TypeInv, TypeOK, HandlersOK
  <1>2. CASE BeginUnblock(p, t)
    <2>1. HandlersOK'
      BY <1>2, StartType, StepNames DEF BeginUnblock
    <2> QED BY <1>2, <2>1 DEF BeginUnblock, TypeInv, TypeOK, HandlersOK
  <1>3. CASE BeginReport(p, t)
    <2>1. PICK o \in {"done", "failed", "blocked"}, step \in {"block", "submit", "complete"} :
                 /\ o = "blocked" => step = "block"
                 /\ proc' = [proc EXCEPT ![p] =
                              [Idle EXCEPT !.at = step, !.task = t,
                                           !.outcome = IF o = "blocked" THEN "none" ELSE o]]
      BY <1>3 DEF BeginReport
    <2> DEFINE h == [Idle EXCEPT !.at = step, !.task = t,
                                 !.outcome = IF o = "blocked" THEN "none" ELSE o]
    <2>2. /\ h \in Handler /\ h.task \in Tasks /\ h.at \in {"block", "submit", "complete"}
          /\ h.at = "complete" => h.outcome \in Terminal
      BY <2>1 DEF Idle, Handler, Steps, Terminal
    <2>3. proc' = [proc EXCEPT ![p] = h]
      BY <2>1
    <2> HIDE DEF h
    <2>4. HandlersOK'
      BY <2>2, <2>3, SetType DEF Binding
    <2> QED BY <1>3, <2>4 DEF BeginReport, TypeInv, TypeOK, HandlersOK
  <1>4. CASE BeginReview(p, t)
    <2> DEFINE approve == [Idle EXCEPT !.at = "complete", !.task = t,
                                       !.outcome = "done", !.flag = TRUE]
               return == [Idle EXCEPT !.at = "findings", !.task = t,
                                      !.session = task[t].session]
    <2>1. \/ proc' = [proc EXCEPT ![p] = approve]
          \/ proc' = [proc EXCEPT ![p] = return]
      BY <1>4 DEF BeginReview
    <2>2. /\ approve \in Handler /\ approve.task \in Tasks
          /\ approve.at = "complete" /\ approve.outcome \in Terminal
      BY DEF Idle, Handler, Steps, Terminal
    <2>3. /\ return \in Handler /\ return.task \in Tasks
          /\ return.at = "findings" /\ return.session \in Sessions
      BY DEF TypeInv, TypeOK, Task, Idle, Handler, Steps
    <2> HIDE DEF approve, return
    <2>4. HandlersOK'
      BY <2>1, <2>2, <2>3, SetType DEF Binding
    <2> QED BY <1>4, <2>4 DEF BeginReview, TypeInv, TypeOK, HandlersOK
  <1>5. CASE Revise(p, t)
    <2> DEFINE h == [Idle EXCEPT !.at = "rebind", !.task = t, !.session = task[t].session]
    <2>1. proc' = [proc EXCEPT ![p] = h]
      BY <1>5 DEF Revise
    <2>2. h \in Handler /\ h.task \in Tasks /\ h.at = "rebind" /\ h.session \in Sessions
      BY DEF TypeInv, TypeOK, Task, Idle, Handler, Steps
    <2> HIDE DEF h
    <2>3. HandlersOK'
      BY <2>1, <2>2, SetType
    <2>4. Revised(task[t]) \in Task
      BY PlainTypes DEF TypeInv, TypeOK
    <2>5. task' \in [Tasks -> Task]
      BY <1>5, <2>4, WriteType DEF Revise
    <2> QED BY <1>5, <2>3, <2>5 DEF Revise, TypeInv, TypeOK, HandlersOK
  <1>6. CASE BeginFinish(p, t)
    <2>1. PICK outcome \in Terminal : proc' = [proc EXCEPT ![p] = [Idle EXCEPT !.at = "complete", !.task = t, !.outcome = outcome]]
      BY <1>6 DEF BeginFinish
    <2> DEFINE h == [Idle EXCEPT !.at = "complete", !.task = t, !.outcome = outcome]
    <2>2. /\ h \in Handler /\ h.task \in Tasks
          /\ h.at \in Binding => h.session \in Sessions
          /\ h.at = "complete" => h.outcome \in Terminal
          /\ h.at = "link" => h.other \in Tasks
      BY DEF TypeInv, TypeOK, Idle, Handler, Steps, Binding, Terminal, Task
    <2> HIDE DEF h
    <2>3. HandlersOK'
      BY <2>1, <2>2, SetType DEF h
    <2> QED BY <1>6, <2>3 DEF BeginFinish, TypeInv, TypeOK, HandlersOK
  <1>7. CASE MoveToBlocked(p, t)
    <2>1. MovedToBlocked(task[t]) \in Task
      BY PlainTypes DEF TypeInv, TypeOK
    <2>2. task' \in [Tasks -> Task]
      BY <1>7, <2>1, WriteType DEF MoveToBlocked
    <2> QED BY <1>7, <2>2 DEF MoveToBlocked, TypeInv, TypeOK, Engaged
  <1>8. CASE BeginRequeue(p, t)
    <2>1. PICK reopen \in BOOLEAN : proc' = [proc EXCEPT ![p] = [Idle EXCEPT !.at = "requeue", !.task = t, !.flag = reopen]]
      BY <1>8 DEF BeginRequeue
    <2> DEFINE h == [Idle EXCEPT !.at = "requeue", !.task = t, !.flag = reopen]
    <2>2. /\ h \in Handler /\ h.task \in Tasks
          /\ h.at \in Binding => h.session \in Sessions
          /\ h.at = "complete" => h.outcome \in Terminal
          /\ h.at = "link" => h.other \in Tasks
      BY DEF TypeInv, TypeOK, Idle, Handler, Steps, Binding, Terminal, Task
    <2> HIDE DEF h
    <2>3. HandlersOK'
      BY <2>1, <2>2, SetType DEF h
    <2> QED BY <1>8, <2>3 DEF BeginRequeue, TypeInv, TypeOK, HandlersOK
  <1>9. CASE BeginTake(p, t)
    <2>1. HandlersOK'
      BY <1>9, StartType, StepNames DEF BeginTake
    <2> QED BY <1>9, <2>1 DEF BeginTake, TypeInv, TypeOK, HandlersOK
  <1>10. CASE BeginDecline(p, t)
    <2>1. HandlersOK'
      BY <1>10, StartType, StepNames DEF BeginDecline
    <2> QED BY <1>10, <2>1 DEF BeginDecline, TypeInv, TypeOK, HandlersOK
  <1>11. CASE BeginAssign(p, t)
    <2>1. proc' = [proc EXCEPT ![p] = [Idle EXCEPT !.at = "assign", !.task = t, !.flag = (task[t].status = "in_progress")]]
      BY <1>11 DEF BeginAssign
    <2> DEFINE h == [Idle EXCEPT !.at = "assign", !.task = t, !.flag = (task[t].status = "in_progress")]
    <2>2. /\ h \in Handler /\ h.task \in Tasks
          /\ h.at \in Binding => h.session \in Sessions
          /\ h.at = "complete" => h.outcome \in Terminal
          /\ h.at = "link" => h.other \in Tasks
      BY DEF TypeInv, TypeOK, Idle, Handler, Steps, Binding, Terminal, Task
    <2> HIDE DEF h
    <2>3. HandlersOK'
      BY <2>1, <2>2, SetType DEF h
    <2> QED BY <1>11, <2>3 DEF BeginAssign, TypeInv, TypeOK, HandlersOK
  <1>12. CASE BeginDirect(p, t)
    <2>1. PICK s \in Sessions : proc' = [proc EXCEPT ![p] = [Idle EXCEPT !.at = "bind", !.task = t, !.session = s]]
      BY <1>12 DEF BeginDirect
    <2> DEFINE h == [Idle EXCEPT !.at = "bind", !.task = t, !.session = s]
    <2>2. /\ h \in Handler /\ h.task \in Tasks
          /\ h.at \in Binding => h.session \in Sessions
          /\ h.at = "complete" => h.outcome \in Terminal
          /\ h.at = "link" => h.other \in Tasks
      BY DEF TypeInv, TypeOK, Idle, Handler, Steps, Binding, Terminal, Task
    <2> HIDE DEF h
    <2>3. HandlersOK'
      BY <2>1, <2>2, SetType DEF h
    <2> QED BY <1>12, <2>3 DEF BeginDirect, TypeInv, TypeOK, HandlersOK
  <1>13. CASE Edit(p, t)
    <2>1. PICK s \in Sessions, paths \in BOOLEAN : Write(t, Edited(task[t], s, paths))
      BY <1>13 DEF Edit
    <2>2. Edited(task[t], s, paths) \in Task
      BY EditedType DEF TypeInv, TypeOK
    <2>3. task' \in [Tasks -> Task]
      BY <2>1, <2>2, WriteType
    <2> QED BY <1>13, <2>3 DEF Edit, TypeInv, TypeOK, Engaged
  <1>14. CASE BeginWrite(p, t)
    <2>1. HandlersOK'
      BY <1>14, StartType, StepNames DEF BeginWrite
    <2> QED BY <1>14, <2>1 DEF BeginWrite, TypeInv, TypeOK, HandlersOK
  <1>15. CASE BeginFailure(p, t)
    <2>1. HandlersOK'
      BY <1>15, StartType, StepNames DEF BeginFailure
    <2> QED BY <1>15, <2>1 DEF BeginFailure, TypeInv, TypeOK, HandlersOK
  <1>16. CASE BeginLink(p, t)
    <2>1. PICK b \in Tasks : proc' = [proc EXCEPT ![p] = [Idle EXCEPT !.at = "link", !.task = t, !.other = b]]
      BY <1>16 DEF BeginLink
    <2> DEFINE h == [Idle EXCEPT !.at = "link", !.task = t, !.other = b]
    <2>2. /\ h \in Handler /\ h.task \in Tasks
          /\ h.at \in Binding => h.session \in Sessions
          /\ h.at = "complete" => h.outcome \in Terminal
          /\ h.at = "link" => h.other \in Tasks
      BY DEF TypeInv, TypeOK, Idle, Handler, Steps, Binding, Terminal, Task
    <2> HIDE DEF h
    <2>3. HandlersOK'
      BY <2>1, <2>2, SetType DEF h
    <2> QED BY <1>16, <2>3 DEF BeginLink, TypeInv, TypeOK, HandlersOK
  <1>17. CASE Unlink(p, t)
    BY <1>17 DEF Unlink, TypeInv, TypeOK, Engaged
  <1> QED BY <1>1, <1>2, <1>3, <1>4, <1>5, <1>6, <1>7, <1>8, <1>9, <1>10, <1>11, <1>12, <1>13, <1>14, <1>15, <1>16, <1>17 DEF Begin

LEMMA TypeInvInductive ==
  ASSUME TypeInv, [Next]_vars PROVE TypeInv'
  <1>1. CASE UNCHANGED vars
    BY <1>1 DEF vars, TypeInv, TypeOK, Engaged
  <1>2. ASSUME NEW p \in Procs, Abandon(p) PROVE TypeInv'
    <2>1. HandlersOK'
      BY <1>2, ReturnType DEF Abandon
    <2> QED BY <1>2, <2>1 DEF Abandon, TypeInv, TypeOK, HandlersOK
  <1> QED BY <1>1, <1>2, ContinueKeepsTypes, BeginKeepsTypes DEF Next

LEMMA FiledType ==
  ASSUME NEW s \in Sessions, NEW owns \in BOOLEAN PROVE Filed(s, owns) \in Task
  BY Zero DEF Task, Status, Filed

LEMMA InitTypes == Init => TypeInv
  <1> SUFFICES ASSUME Init PROVE TypeInv
    OBVIOUS
  <1>1. task \in [Tasks -> Task]
    BY FiledType, ZenonT(60) DEF Init
  <1>2. seat \in [Tasks -> Seats]
    BY FiledAssumption DEF Init, Seats
  <1>3. HandlersOK
    BY IdleType DEF Init, HandlersOK, Engaged, Idle, Binding
  <1> QED BY <1>1, <1>2, <1>3 DEF Init, TypeInv, TypeOK, HandlersOK, MaxEnvelopes

\* Whatever handlers overlap, every row, roster seat and handler keeps its type,
\* and a handler in flight carries what its next step writes.
THEOREM Typing == Spec => []TypeInv
  BY InitTypes, TypeInvInductive, PTL DEF Spec

\* The type invariant the runs check.
THEOREM TypeCorrect == Spec => []TypeOK
  BY Typing, PTL DEF TypeInv

-----------------------------------------------------------------------------
(* The rows.  Whatever a step does to its handler and to the rest of the   *)
(* board, it leaves the rows alone or writes one of them, in one of these  *)
(* ways; what the rows' properties depend on is here.                      *)

WritesOwnRow(p, t) ==
  \/ At(p, "claim") /\ Write(t, Claimed(task[t]))
  \/ At(p, "hold") /\ Write(t, HeldBack(task[t]))
  \/ At(p, "handback") /\ Write(t, HandedBack(task[t]))
  \/ At(p, "release") /\ Write(t, Released(task[t]))
  \/ At(p, "reset") /\ Write(t, [task[t] EXCEPT !.failures = 0])
  \/ At(p, "unblock") /\ Write(t, Unblocked(task[t]))
  \/ At(p, "block") /\ Write(t, ReportedBlocked(task[t]))
  \/ At(p, "inreview") /\ Write(t, Submitted(task[t]))
  \/ At(p, "complete") /\ Write(t, Completed(task[t], proc[p].outcome))
  \/ At(p, "sendback") /\ Write(t, SentBack(task[t], proc[p].session))
  \/ At(p, "rebind") /\ Write(t, [task[t] EXCEPT !.reporting = proc[p].session])
  \/ At(p, "requeue") /\ Write(t, Requeued(task[t], proc[p].flag))
  \/ At(p, "park") /\ Write(t, MovedToBlocked(task[t]))
  \/ At(p, "bind") /\ Write(t, Bound(task[t], proc[p].session))
  \/ At(p, "note") /\ Write(t, Widened(task[t]))
  \/ At(p, "fail") /\ Write(t, Parked(task[t]))

WritesAtOnce(p, t) ==
  \/ /\ task[t].status = "done" /\ Write(t, Revised(task[t]))
     /\ At(p, "idle") /\ proc'[p].at = "rebind" /\ proc'[p].task = t
  \/ Write(t, MovedToBlocked(task[t]))
  \/ /\ "edit" \in Ops
     /\ \E s \in Sessions, paths \in BOOLEAN : Write(t, Edited(task[t], s, paths))

RowsChangeBy(p) ==
  \/ UNCHANGED task
  \/ On(p) \in Tasks /\ WritesOwnRow(p, On(p))
  \/ \E t \in Tasks : WritesAtOnce(p, t)

RowsChange == UNCHANGED task \/ \E p \in Procs : RowsChangeBy(p)

LEMMA ContinueWrites ==
  ASSUME TypeInv, NEW p \in Procs, Continue(p)
  PROVE  RowsChangeBy(p)
  <1>0. ~At(p, "idle") => On(p) \in Tasks
    BY RowType
  <1> SUFFICES UNCHANGED task \/ (~At(p, "idle") /\ WritesOwnRow(p, On(p)))
    BY <1>0 DEF RowsChangeBy
  <1> USE DEF At, Row, WritesOwnRow
  <1>1. CASE DispatchStep(p)
    BY <1>1 DEF DispatchStep, AwaitClaim, Offer, CheckPaths, WorkerNotReady, WorkerReady, Claim, CheckBlockers, HoldBack, ResolveTarget, RecheckPaths, HandBack, ReleaseFailedClaim, Deliver, ResetFailures
  <1>2. CASE ReportStep(p)
    BY <1>2 DEF ReportStep, ReportBlocked, SubmitReport, HoldForReview, Complete, SettleOffer, ClearPending
  <1>3. CASE ReviewStep(p)
    BY <1>3 DEF ReviewStep, RecordFindings, SendBack, Rebind
  <1>4. CASE ManageStep(p)
    BY <1>4 DEF ManageStep, Requeue, Relink, TakeSeat, LeaveSeat, ParkDeclined, Assign, BindDirect, SeatWorker, SendBrief, NoteWrite, ParkFailed, Link
  <1>5. CASE Unblock(p)
    BY <1>5 DEF Unblock
  <1> QED BY <1>1, <1>2, <1>3, <1>4, <1>5 DEF Continue

LEMMA BeginWrites ==
  ASSUME TypeInv, NEW p \in Procs, NEW t \in Tasks, Begin(p, t)
  PROVE  RowsChangeBy(p)
  <1>1. CASE Revise(p, t)
    <2>1. WritesAtOnce(p, t)
      BY <1>1 DEF Revise, WritesAtOnce, Free, At, Idle, TypeInv, TypeOK
    <2> QED BY <2>1 DEF RowsChangeBy
  <1>2. CASE MoveToBlocked(p, t) \/ Edit(p, t)
    BY <1>2 DEF MoveToBlocked, Edit, WritesAtOnce, RowsChangeBy, Free
  <1>3. CASE ~Revise(p, t) /\ ~MoveToBlocked(p, t) /\ ~Edit(p, t)
    BY <1>3 DEF RowsChangeBy, Begin, BeginDispatch, BeginUnblock, BeginReport, BeginReview,
                BeginFinish, BeginRequeue, BeginTake, BeginDecline, BeginAssign,
                BeginDirect, BeginWrite, BeginFailure, BeginLink, Unlink
  <1> QED BY <1>1, <1>2, <1>3

LEMMA StepWrites ==
  ASSUME TypeInv, [Next]_vars PROVE RowsChange
  BY ContinueWrites, BeginWrites DEF Next, Abandon, vars, RowsChange, RowsChangeBy

(***************************************************************************)
(* What a write can do to a row k: it keeps an outcome in place with its   *)
(* result, and records a result and gives up the paths when it finishes    *)
(* the task (Sound); it does not take a finished task back (Keeps); it     *)
(* does not start work on owned paths (Idles); it owns no more (Narrow).   *)
(***************************************************************************)
Sound(k, new) ==
  /\ k.status \in Terminal /\ new.status \in Terminal =>
       new.status = k.status /\ (k.result => new.result)
  /\ k.status \notin Terminal /\ new.status \in Terminal => new.result /\ ~new.owns

Keeps(k, new) == k.status \in Terminal => new.status \in Terminal
Working(k) == k.owns /\ k.status = "in_progress"
Idles(k, new) == Working(new) => Working(k)
Narrow(k, new) == new.owns => k.owns

LEMMA CompletedWrite ==
  ASSUME NEW k \in Task, NEW outcome \in Terminal
  PROVE  LET new == Completed(k, outcome)
         IN  Sound(k, new) /\ Keeps(k, new) /\ Idles(k, new) /\ Narrow(k, new)
  BY DEF Completed, Sound, Keeps, Idles, Narrow, Working, Terminal, Task

LEMMA GuardedWrites ==
  ASSUME NEW k \in Task, NEW s
  PROVE  /\ LET new == Claimed(k)
            IN Sound(k, new) /\ Keeps(k, new) /\ Narrow(k, new)
         /\ LET new == Unblocked(k)
            IN Sound(k, new) /\ Keeps(k, new) /\ Idles(k, new) /\ Narrow(k, new)
         /\ LET new == Parked(k)
            IN Sound(k, new) /\ Keeps(k, new) /\ Idles(k, new) /\ Narrow(k, new)
         /\ LET new == MovedToBlocked(k)
            IN Sound(k, new) /\ Keeps(k, new) /\ Idles(k, new) /\ Narrow(k, new)
         /\ LET new == [k EXCEPT !.failures = 0]
            IN Sound(k, new) /\ Keeps(k, new) /\ Idles(k, new) /\ Narrow(k, new)
         /\ LET new == [k EXCEPT !.reporting = s]
            IN Sound(k, new) /\ Keeps(k, new) /\ Idles(k, new) /\ Narrow(k, new)
         /\ LET new == Widened(k) IN Sound(k, new) /\ Keeps(k, new)
  <1> USE DEF Sound, Keeps, Idles, Narrow, Working, Terminal, Task
  <1>1. LET new == Claimed(k) IN Sound(k, new) /\ Keeps(k, new) /\ Narrow(k, new)
    BY DEF Claimed
  <1>2. LET new == Unblocked(k)
       IN Sound(k, new) /\ Keeps(k, new) /\ Idles(k, new) /\ Narrow(k, new)
    BY DEF Unblocked
  <1>3. LET new == Parked(k)
       IN Sound(k, new) /\ Keeps(k, new) /\ Idles(k, new) /\ Narrow(k, new)
    BY DEF Parked
  <1>4. LET new == MovedToBlocked(k)
       IN Sound(k, new) /\ Keeps(k, new) /\ Idles(k, new) /\ Narrow(k, new)
    BY DEF MovedToBlocked
  <1>5. LET new == [k EXCEPT !.failures = 0]
       IN Sound(k, new) /\ Keeps(k, new) /\ Idles(k, new) /\ Narrow(k, new)
    OBVIOUS
  <1>6. LET new == [k EXCEPT !.reporting = s]
       IN Sound(k, new) /\ Keeps(k, new) /\ Idles(k, new) /\ Narrow(k, new)
    OBVIOUS
  <1>7. LET new == Widened(k) IN Sound(k, new) /\ Keeps(k, new)
    BY DEF Widened
  <1> QED BY ONLY <1>1, <1>2, <1>3, <1>4, <1>5, <1>6, <1>7

LEMMA BlindWrites ==
  ASSUME NEW k \in Task, NEW s
  PROVE  /\ LET new == HeldBack(k) IN Sound(k, new) /\ Idles(k, new) /\ Narrow(k, new)
         /\ LET new == HandedBack(k) IN Sound(k, new) /\ Idles(k, new) /\ Narrow(k, new)
         /\ LET new == Released(k) IN Sound(k, new) /\ Idles(k, new) /\ Narrow(k, new)
         /\ LET new == ReportedBlocked(k) IN Sound(k, new) /\ Idles(k, new) /\ Narrow(k, new)
         /\ LET new == Submitted(k) IN Sound(k, new) /\ Idles(k, new) /\ Narrow(k, new)
         /\ LET new == SentBack(k, s) IN Sound(k, new) /\ Narrow(k, new)
         /\ LET new == Bound(k, s) IN Sound(k, new) /\ Narrow(k, new)
  <1> USE DEF Sound, Keeps, Idles, Narrow, Working, Terminal, Task
  <1>1. LET new == HeldBack(k) IN Sound(k, new) /\ Idles(k, new) /\ Narrow(k, new)
    BY DEF HeldBack
  <1>2. LET new == HandedBack(k) IN Sound(k, new) /\ Idles(k, new) /\ Narrow(k, new)
    BY DEF HandedBack
  <1>3. LET new == Released(k) IN Sound(k, new) /\ Idles(k, new) /\ Narrow(k, new)
    BY DEF Released
  <1>4. LET new == ReportedBlocked(k) IN Sound(k, new) /\ Idles(k, new) /\ Narrow(k, new)
    BY DEF ReportedBlocked
  <1>5. LET new == Submitted(k) IN Sound(k, new) /\ Idles(k, new) /\ Narrow(k, new)
    BY DEF Submitted
  <1>6. LET new == SentBack(k, s) IN Sound(k, new) /\ Narrow(k, new)
    BY DEF SentBack
  <1>7. LET new == Bound(k, s) IN Sound(k, new) /\ Narrow(k, new)
    BY DEF Bound
  <1> QED BY ONLY <1>1, <1>2, <1>3, <1>4, <1>5, <1>6, <1>7

LEMMA RequeuedWrite ==
  ASSUME NEW k \in Task, NEW reopen \in BOOLEAN
  PROVE  LET new == Requeued(k, reopen)
         IN  /\ Sound(k, new) /\ Idles(k, new) /\ Narrow(k, new)
             /\ MayRequeue(k, reopen) \/ Keeps(k, new)
  BY DEF Requeued, MayRequeue, Sound, Keeps, Idles, Narrow, Working, Terminal, Task

LEMMA RevisedWrite ==
  ASSUME NEW k \in Task
  PROVE  LET new == Revised(k) IN Sound(k, new) /\ Narrow(k, new)
  BY DEF Revised, Sound, Keeps, Idles, Narrow, Working, Terminal, Task

LEMMA EditedWrite ==
  ASSUME NEW k \in Task, NEW s, NEW paths \in BOOLEAN
  PROVE  LET new == Edited(k, s, paths) IN Sound(k, new) /\ Keeps(k, new)
  BY DEF Edited, Sound, Keeps, Idles, Narrow, Working, Terminal, Task

OwnRowFacts(p, k, new) ==
  /\ Sound(k, new)
  /\ Keeps(k, new) \/ proc[p].at \in BlindSteps
       \/ (At(p, "requeue") /\ MayRequeue(k, proc[p].flag))
  /\ Idles(k, new) \/ proc[p].at \in {"claim", "sendback", "bind", "note"}
  /\ Narrow(k, new) \/ At(p, "note")

LEMMA OwnRow ==
  ASSUME TypeInv, NEW p \in Procs, On(p) \in Tasks, WritesOwnRow(p, On(p))
  PROVE  /\ OwnRowFacts(p, task[On(p)], task'[On(p)])
         /\ \A u \in Tasks \ {On(p)} : task'[u] = task[u]
  <1> DEFINE k == task[On(p)]
  <1>1. k \in Task /\ proc[p].flag \in BOOLEAN
    BY DEF TypeInv, TypeOK, Handler
  <1>2. At(p, "complete") => proc[p].outcome \in Terminal
    BY DEF TypeInv, Engaged, At
  <1>3. ASSUME NEW new, Write(On(p), new)
        PROVE  task'[On(p)] = new /\ \A u \in Tasks \ {On(p)} : task'[u] = task[u]
    BY <1>3 DEF Write, TypeInv, TypeOK
  <1>4. CASE At(p, "claim") /\ Write(On(p), Claimed(k))
    <2>1. task'[On(p)] = Claimed(k) /\ \A u \in Tasks \ {On(p)} : task'[u] = task[u]
      BY <1>3, <1>4
    <2>2. OwnRowFacts(p, k, Claimed(k))
      BY <1>1, <1>2, <1>4, GuardedWrites DEF OwnRowFacts, At, BlindSteps
    <2> QED BY <2>1, <2>2
  <1>5. CASE At(p, "hold") /\ Write(On(p), HeldBack(k))
    <2>1. task'[On(p)] = HeldBack(k) /\ \A u \in Tasks \ {On(p)} : task'[u] = task[u]
      BY <1>3, <1>5
    <2>2. OwnRowFacts(p, k, HeldBack(k))
      BY <1>1, <1>2, <1>5, BlindWrites DEF OwnRowFacts, At, BlindSteps
    <2> QED BY <2>1, <2>2
  <1>6. CASE At(p, "handback") /\ Write(On(p), HandedBack(k))
    <2>1. task'[On(p)] = HandedBack(k) /\ \A u \in Tasks \ {On(p)} : task'[u] = task[u]
      BY <1>3, <1>6
    <2>2. OwnRowFacts(p, k, HandedBack(k))
      BY <1>1, <1>2, <1>6, BlindWrites DEF OwnRowFacts, At, BlindSteps
    <2> QED BY <2>1, <2>2
  <1>7. CASE At(p, "release") /\ Write(On(p), Released(k))
    <2>1. task'[On(p)] = Released(k) /\ \A u \in Tasks \ {On(p)} : task'[u] = task[u]
      BY <1>3, <1>7
    <2>2. OwnRowFacts(p, k, Released(k))
      BY <1>1, <1>2, <1>7, BlindWrites DEF OwnRowFacts, At, BlindSteps
    <2> QED BY <2>1, <2>2
  <1>8. CASE At(p, "reset") /\ Write(On(p), [k EXCEPT !.failures = 0])
    <2>1. task'[On(p)] = [k EXCEPT !.failures = 0] /\ \A u \in Tasks \ {On(p)} : task'[u] = task[u]
      BY <1>3, <1>8
    <2>2. OwnRowFacts(p, k, [k EXCEPT !.failures = 0])
      BY <1>1, <1>2, <1>8, GuardedWrites DEF OwnRowFacts, At, BlindSteps
    <2> QED BY <2>1, <2>2
  <1>9. CASE At(p, "unblock") /\ Write(On(p), Unblocked(k))
    <2>1. task'[On(p)] = Unblocked(k) /\ \A u \in Tasks \ {On(p)} : task'[u] = task[u]
      BY <1>3, <1>9
    <2>2. OwnRowFacts(p, k, Unblocked(k))
      BY <1>1, <1>2, <1>9, GuardedWrites DEF OwnRowFacts, At, BlindSteps
    <2> QED BY <2>1, <2>2
  <1>10. CASE At(p, "block") /\ Write(On(p), ReportedBlocked(k))
    <2>1. task'[On(p)] = ReportedBlocked(k) /\ \A u \in Tasks \ {On(p)} : task'[u] = task[u]
      BY <1>3, <1>10
    <2>2. OwnRowFacts(p, k, ReportedBlocked(k))
      BY <1>1, <1>2, <1>10, BlindWrites DEF OwnRowFacts, At, BlindSteps
    <2> QED BY <2>1, <2>2
  <1>11. CASE At(p, "inreview") /\ Write(On(p), Submitted(k))
    <2>1. task'[On(p)] = Submitted(k) /\ \A u \in Tasks \ {On(p)} : task'[u] = task[u]
      BY <1>3, <1>11
    <2>2. OwnRowFacts(p, k, Submitted(k))
      BY <1>1, <1>2, <1>11, BlindWrites DEF OwnRowFacts, At, BlindSteps
    <2> QED BY <2>1, <2>2
  <1>12. CASE At(p, "complete") /\ Write(On(p), Completed(k, proc[p].outcome))
    <2>1. task'[On(p)] = Completed(k, proc[p].outcome) /\ \A u \in Tasks \ {On(p)} : task'[u] = task[u]
      BY <1>3, <1>12
    <2>2. OwnRowFacts(p, k, Completed(k, proc[p].outcome))
      BY <1>1, <1>2, <1>12, CompletedWrite DEF OwnRowFacts, At, BlindSteps
    <2> QED BY <2>1, <2>2
  <1>13. CASE At(p, "sendback") /\ Write(On(p), SentBack(k, proc[p].session))
    <2>1. task'[On(p)] = SentBack(k, proc[p].session) /\ \A u \in Tasks \ {On(p)} : task'[u] = task[u]
      BY <1>3, <1>13
    <2>2. OwnRowFacts(p, k, SentBack(k, proc[p].session))
      BY <1>1, <1>2, <1>13, BlindWrites DEF OwnRowFacts, At, BlindSteps
    <2> QED BY <2>1, <2>2
  <1>14. CASE At(p, "rebind") /\ Write(On(p), [k EXCEPT !.reporting = proc[p].session])
    <2>1. task'[On(p)] = [k EXCEPT !.reporting = proc[p].session] /\ \A u \in Tasks \ {On(p)} : task'[u] = task[u]
      BY <1>3, <1>14
    <2>2. OwnRowFacts(p, k, [k EXCEPT !.reporting = proc[p].session])
      BY <1>1, <1>2, <1>14, GuardedWrites DEF OwnRowFacts, At, BlindSteps
    <2> QED BY <2>1, <2>2
  <1>15. CASE At(p, "requeue") /\ Write(On(p), Requeued(k, proc[p].flag))
    <2>1. task'[On(p)] = Requeued(k, proc[p].flag) /\ \A u \in Tasks \ {On(p)} : task'[u] = task[u]
      BY <1>3, <1>15
    <2>2. OwnRowFacts(p, k, Requeued(k, proc[p].flag))
      BY <1>1, <1>2, <1>15, RequeuedWrite DEF OwnRowFacts, At, BlindSteps
    <2> QED BY <2>1, <2>2
  <1>16. CASE At(p, "park") /\ Write(On(p), MovedToBlocked(k))
    <2>1. task'[On(p)] = MovedToBlocked(k) /\ \A u \in Tasks \ {On(p)} : task'[u] = task[u]
      BY <1>3, <1>16
    <2>2. OwnRowFacts(p, k, MovedToBlocked(k))
      BY <1>1, <1>2, <1>16, GuardedWrites DEF OwnRowFacts, At, BlindSteps
    <2> QED BY <2>1, <2>2
  <1>17. CASE At(p, "bind") /\ Write(On(p), Bound(k, proc[p].session))
    <2>1. task'[On(p)] = Bound(k, proc[p].session) /\ \A u \in Tasks \ {On(p)} : task'[u] = task[u]
      BY <1>3, <1>17
    <2>2. OwnRowFacts(p, k, Bound(k, proc[p].session))
      BY <1>1, <1>2, <1>17, BlindWrites DEF OwnRowFacts, At, BlindSteps
    <2> QED BY <2>1, <2>2
  <1>18. CASE At(p, "note") /\ Write(On(p), Widened(k))
    <2>1. task'[On(p)] = Widened(k) /\ \A u \in Tasks \ {On(p)} : task'[u] = task[u]
      BY <1>3, <1>18
    <2>2. OwnRowFacts(p, k, Widened(k))
      BY <1>1, <1>2, <1>18, GuardedWrites DEF OwnRowFacts, At, BlindSteps
    <2> QED BY <2>1, <2>2
  <1>19. CASE At(p, "fail") /\ Write(On(p), Parked(k))
    <2>1. task'[On(p)] = Parked(k) /\ \A u \in Tasks \ {On(p)} : task'[u] = task[u]
      BY <1>3, <1>19
    <2>2. OwnRowFacts(p, k, Parked(k))
      BY <1>1, <1>2, <1>19, GuardedWrites DEF OwnRowFacts, At, BlindSteps
    <2> QED BY <2>1, <2>2
  <1> QED BY <1>4, <1>5, <1>6, <1>7, <1>8, <1>9, <1>10, <1>11, <1>12, <1>13, <1>14, <1>15, <1>16, <1>17, <1>18, <1>19 DEF WritesOwnRow

AtOnceFacts(p, t, k, new) ==
  /\ Sound(k, new)
  /\ Keeps(k, new) \/ (At(p, "idle") /\ proc'[p].at = "rebind" /\ proc'[p].task = t)
  /\ Idles(k, new) \/ "edit" \in Ops \/ (k.status = "done" /\ k.owns)
  /\ Narrow(k, new) \/ "edit" \in Ops

LEMMA AtOnceRow ==
  ASSUME TypeInv, NEW p \in Procs, NEW t \in Tasks, WritesAtOnce(p, t)
  PROVE  /\ AtOnceFacts(p, t, task[t], task'[t])
         /\ \A u \in Tasks \ {t} : task'[u] = task[u]
  <1> DEFINE k == task[t]
  <1>1. k \in Task
    BY DEF TypeInv, TypeOK
  <1>2. ASSUME NEW new, Write(t, new)
        PROVE  task'[t] = new /\ \A u \in Tasks \ {t} : task'[u] = task[u]
    BY <1>2 DEF Write, TypeInv, TypeOK
  <1>3. CASE /\ k.status = "done" /\ Write(t, Revised(k))
             /\ At(p, "idle") /\ proc'[p].at = "rebind" /\ proc'[p].task = t
    <2>1. Idles(k, Revised(k)) \/ k.owns
      BY <1>1, RevisedWrite DEF Idles, Narrow, Working
    <2> QED BY <1>1, <1>2, <1>3, <2>1, RevisedWrite DEF AtOnceFacts
  <1>4. CASE Write(t, MovedToBlocked(k))
    BY <1>1, <1>2, <1>4, GuardedWrites DEF AtOnceFacts, Terminal
  <1>5. ASSUME "edit" \in Ops, NEW s \in Sessions, NEW paths \in BOOLEAN,
               Write(t, Edited(k, s, paths))
        PROVE  /\ AtOnceFacts(p, t, task[t], task'[t])
               /\ \A u \in Tasks \ {t} : task'[u] = task[u]
    BY <1>1, <1>2, <1>5, EditedWrite DEF AtOnceFacts
  <1> QED BY <1>3, <1>4, <1>5 DEF WritesAtOnce

LEMMA EveryRow ==
  ASSUME TypeInv, RowsChange, NEW t \in Tasks
  PROVE  /\ Sound(task[t], task'[t])
         /\ Finished(t) /\ ~Finished(t)' =>
              \/ ReopenedOnPurpose(t)
              \/ \E p \in Procs : proc[p].at \in BlindSteps /\ On(p) = t
  <1>1. CASE task'[t] = task[t]
    BY <1>1 DEF Sound, Finished
  <1>2. ASSUME NEW p \in Procs, On(p) = t, WritesOwnRow(p, t)
        PROVE  /\ Sound(task[t], task'[t])
               /\ Finished(t) /\ ~Finished(t)' =>
                    \/ ReopenedOnPurpose(t)
                    \/ proc[p].at \in BlindSteps
    BY <1>2, OwnRow DEF OwnRowFacts, Keeps, Finished, ReopenedOnPurpose
  <1>3. ASSUME NEW p \in Procs, WritesAtOnce(p, t)
        PROVE  /\ Sound(task[t], task'[t])
               /\ Finished(t) /\ ~Finished(t)' => ReopenedOnPurpose(t)
    BY <1>3, AtOnceRow DEF AtOnceFacts, Keeps, Finished, ReopenedOnPurpose
  <1>4. \/ task'[t] = task[t]
        \/ \E p \in Procs : On(p) = t /\ WritesOwnRow(p, t)
        \/ \E p \in Procs : WritesAtOnce(p, t)
    BY OwnRow, AtOnceRow DEF RowsChange, RowsChangeBy
  <1> QED BY <1>1, <1>2, <1>3, <1>4

\* A finished task carries a result however handlers overlap: the writes that
\* finish a task record it, and those that drop it reopen the task.
THEOREM ResultsAreKept == Spec => []FinishedHasResult
  <1>1. Init => FinishedHasResult
    BY DEF Init, FinishedHasResult, Finished, Filed, Terminal
  <1>2. ASSUME TypeInv, FinishedHasResult, [Next]_vars PROVE FinishedHasResult'
    <2>1. RowsChange
      BY <1>2, StepWrites
    <2> SUFFICES ASSUME NEW t \in Tasks, Finished(t)' PROVE task'[t].result
      BY DEF FinishedHasResult, Finished
    <2> QED BY <1>2, <2>1, EveryRow DEF FinishedHasResult, Finished, Sound
  <1> QED BY <1>1, <1>2, Typing, PTL DEF Spec

\* No interleaving turns one outcome into another in place.
THEOREM OutcomesStand == Spec => OutcomeStands
  <1>1. ASSUME TypeInv, [Next]_vars
        PROVE  [\A t \in Tasks : Finished(t) /\ Finished(t)' =>
                  task'[t].status = task[t].status]_vars
    BY <1>1, StepWrites, EveryRow DEF Sound, Finished
  <1> QED BY <1>1, Typing, PTL DEF Spec, OutcomeStands

\* A finished task is reopened by a requeue that may, a revision, or one of the
\* seven blind writes in flight on it; by no guarded operation.
THEOREM ReopenedByBlindWritesOnly == Spec => OnlyBlindWritesReopen
  <1>1. ASSUME TypeInv, [Next]_vars
        PROVE  [\A t \in Tasks : Finished(t) /\ ~Finished(t)' =>
                  \/ ReopenedOnPurpose(t)
                  \/ \E p \in Procs : proc[p].at \in BlindSteps /\ On(p) = t]_vars
    BY <1>1, StepWrites, EveryRow
  <1> QED BY <1>1, Typing, PTL DEF Spec, OnlyBlindWritesReopen

-----------------------------------------------------------------------------
(***************************************************************************)
(* Paths.  For as many dispatchers as there are, as long as work is only   *)
(* started by a dispatch claim and no handler is abandoned halfway:        *)
(* Interfering names the operations that start work, or widen what it      *)
(* owns, without looking at the paths.                                     *)
(***************************************************************************)
Interfering == {"review", "deliver", "edit", "write"}

\* No handler of an interfering operation is ever in flight.
Quiet ==
  \A p \in Procs :
    proc[p].at \notin {"findings", "sendback", "bind", "seat", "brief", "note"}

\* A finished task gave up its paths: what a revision starts again owns none.
Disowned == \A t \in Tasks : Finished(t) => ~task[t].owns

PathsInv == TypeInv /\ Quiet /\ Disowned /\ PathsContested

Live(t) == Working(task[t])

LEMMA ContinueFrame ==
  ASSUME TypeInv, NEW p \in Procs, Continue(p)
  PROVE  /\ ~At(p, "idle")
         /\ \A q \in Procs \ {p} : proc'[q] = proc[q]
  <1> USE DEF At, Return, Goto, TypeInv, TypeOK
  <1>1. CASE DispatchStep(p)
    BY <1>1 DEF DispatchStep, AwaitClaim, Offer, CheckPaths, WorkerNotReady, WorkerReady, Claim, CheckBlockers, HoldBack, ResolveTarget, RecheckPaths, HandBack, ReleaseFailedClaim, Deliver, ResetFailures
  <1>2. CASE ReportStep(p)
    BY <1>2 DEF ReportStep, ReportBlocked, SubmitReport, HoldForReview, Complete, SettleOffer, ClearPending
  <1>3. CASE ReviewStep(p)
    BY <1>3 DEF ReviewStep, RecordFindings, SendBack, Rebind
  <1>4. CASE ManageStep(p)
    BY <1>4 DEF ManageStep, Requeue, Relink, TakeSeat, LeaveSeat, ParkDeclined, Assign, BindDirect, SeatWorker, SendBrief, NoteWrite, ParkFailed, Link
  <1>5. CASE Unblock(p)
    BY <1>5 DEF Unblock
  <1> QED BY <1>1, <1>2, <1>3, <1>4, <1>5 DEF Continue

LEMMA BeginFrame ==
  ASSUME TypeInv, NEW p \in Procs, NEW t \in Tasks, Begin(p, t),
         Ops \cap Interfering = {}
  PROVE  /\ At(p, "idle")
         /\ \A q \in Procs \ {p} : proc'[q] = proc[q]
         /\ proc'[p].at \notin {"findings", "sendback", "bind", "seat", "brief", "note"}
  <1> USE DEF Free, Start, At, TypeInv, TypeOK, Idle, Interfering
  <1>1. CASE BeginDispatch(p, t)
    BY <1>1 DEF BeginDispatch
  <1>2. CASE BeginUnblock(p, t)
    BY <1>2 DEF BeginUnblock
  <1>3. CASE BeginReport(p, t)
    BY <1>3 DEF BeginReport
  <1>4. CASE BeginReview(p, t)
    BY <1>4 DEF BeginReview
  <1>5. CASE Revise(p, t)
    BY <1>5 DEF Revise
  <1>6. CASE BeginFinish(p, t)
    BY <1>6 DEF BeginFinish
  <1>7. CASE MoveToBlocked(p, t)
    BY <1>7 DEF MoveToBlocked
  <1>8. CASE BeginRequeue(p, t)
    BY <1>8 DEF BeginRequeue
  <1>9. CASE BeginTake(p, t)
    BY <1>9 DEF BeginTake
  <1>10. CASE BeginDecline(p, t)
    BY <1>10 DEF BeginDecline
  <1>11. CASE BeginAssign(p, t)
    BY <1>11 DEF BeginAssign
  <1>12. CASE BeginDirect(p, t)
    BY <1>12 DEF BeginDirect
  <1>13. CASE Edit(p, t)
    BY <1>13 DEF Edit
  <1>14. CASE BeginWrite(p, t)
    BY <1>14 DEF BeginWrite
  <1>15. CASE BeginFailure(p, t)
    BY <1>15 DEF BeginFailure
  <1>16. CASE BeginLink(p, t)
    BY <1>16 DEF BeginLink
  <1>17. CASE Unlink(p, t)
    BY <1>17 DEF Unlink
  <1> QED BY <1>1, <1>2, <1>3, <1>4, <1>5, <1>6, <1>7, <1>8, <1>9, <1>10, <1>11, <1>12, <1>13, <1>14, <1>15, <1>16, <1>17 DEF Begin

LEMMA ContinueQuiet ==
  ASSUME TypeInv, Quiet, NEW p \in Procs, Continue(p)
  PROVE  proc'[p].at \notin {"findings", "sendback", "bind", "seat", "brief", "note"}
  <1>1. proc[p].at \notin {"findings", "sendback", "bind", "seat", "brief", "note"}
    BY DEF Quiet
  <1> USE <1>1 DEF At, Return, Goto, Idle, TypeInv, TypeOK, Handler
  <1>2. CASE DispatchStep(p)
    BY <1>2 DEF DispatchStep, AwaitClaim, Offer, CheckPaths, WorkerNotReady, WorkerReady, Claim, CheckBlockers, HoldBack, ResolveTarget, RecheckPaths, HandBack, ReleaseFailedClaim, Deliver, ResetFailures
  <1>3. CASE ReportStep(p)
    BY <1>3 DEF ReportStep, ReportBlocked, SubmitReport, HoldForReview, Complete, SettleOffer, ClearPending
  <1>4. CASE ReviewStep(p)
    BY <1>4 DEF ReviewStep, RecordFindings, SendBack, Rebind
  <1>5. CASE ManageStep(p)
    BY <1>5 DEF ManageStep, Requeue, Relink, TakeSeat, LeaveSeat, ParkDeclined, Assign, BindDirect, SeatWorker, SendBrief, NoteWrite, ParkFailed, Link
  <1>6. CASE Unblock(p)
    BY <1>6 DEF Unblock
  <1> QED BY <1>2, <1>3, <1>4, <1>5, <1>6 DEF Continue

\* A step of one handler, seen from the paths.
PathStep(p) ==
  /\ TypeInv /\ Quiet /\ Disowned /\ RowsChangeBy(p)
  /\ "edit" \notin Ops
  /\ \A q \in Procs \ {p} : proc'[q] = proc[q]
  /\ proc'[p].at \notin {"findings", "sendback", "bind", "seat", "brief", "note"}

LEMMA NewlyLive ==
  ASSUME NEW p \in Procs, PathStep(p), NEW u \in Tasks
  PROVE  /\ Live(u)' => Live(u) \/ (At(p, "claim") /\ On(p) = u)
         /\ Finished(u)' => ~task'[u].owns
  <1>1. CASE task'[u] = task[u]
    BY <1>1 DEF PathStep, Live, Disowned, Finished
  <1>2. CASE On(p) = u /\ WritesOwnRow(p, u)
    <2>1. OwnRowFacts(p, task[u], task'[u])
      BY <1>2, OwnRow DEF PathStep
    <2>2. proc[p].at \notin {"sendback", "bind", "note"}
      BY DEF PathStep, Quiet
    <2> QED BY <1>2, <2>1, <2>2
        DEF OwnRowFacts, Idles, Sound, Narrow, Live, At, PathStep, Disowned, Finished
  <1>3. CASE WritesAtOnce(p, u)
    <2>1. AtOnceFacts(p, u, task[u], task'[u])
      BY <1>3, AtOnceRow DEF PathStep
    <2>2. ~(task[u].status = "done" /\ task[u].owns)
      BY DEF PathStep, Disowned, Finished, Terminal
    <2> QED BY <2>1, <2>2
        DEF AtOnceFacts, Idles, Sound, Narrow, Live, PathStep, Disowned, Finished
  <1> QED BY <1>1, <1>2, <1>3, OwnRow, AtOnceRow DEF PathStep, RowsChangeBy

LEMMA DisownedKept ==
  ASSUME NEW p \in Procs, PathStep(p) PROVE (Quiet /\ Disowned)'
  BY NewlyLive DEF PathStep, Quiet, Disowned, Finished

LEMMA SharingLive ==
  ASSUME NEW t \in Tasks, NEW u \in Tasks
  PROVE  /\ Sharing(t, u) = (t # u /\ <<t, u>> \in Overlaps /\ Live(t) /\ Live(u))
         /\ Sharing(t, u)' = (t # u /\ <<t, u>> \in Overlaps /\ Live(t)' /\ Live(u)')
  BY DEF Sharing, Live, Working

\* A handler that contests nothing starts nothing unless it claims.
LEMMA BystanderStep ==
  ASSUME NEW p \in Procs, PathStep(p), PathsContested,
         proc[p].at \notin Contesting \cup {"claim"}
  PROVE  PathsContested'
  <1> SUFFICES ASSUME NEW t \in Tasks, NEW u \in Tasks, Sharing(t, u)'
               PROVE  \E q \in Procs : proc'[q].at \in Contesting /\ proc'[q].task \in {t, u}
    BY DEF PathsContested, On
  <1>1. Sharing(t, u)
    BY SharingLive, NewlyLive DEF At
  <1>2. PICK q \in Procs : proc[q].at \in Contesting /\ proc[q].task \in {t, u}
    BY <1>1 DEF PathsContested, On
  <1> QED BY <1>2 DEF PathStep

\* A contesting handler may stop contesting once its task shares with nobody.
LEMMA ContestingStep ==
  ASSUME NEW p \in Procs, PathStep(p), PathsContested, proc[p].at \in Contesting,
         \/ proc'[p].at \in Contesting /\ proc'[p].task = proc[p].task
         \/ \A v, w \in Tasks : On(p) = v => ~Sharing(v, w)'
  PROVE  PathsContested'
  <1> SUFFICES ASSUME NEW t \in Tasks, NEW u \in Tasks, Sharing(t, u)'
               PROVE  \E q \in Procs : proc'[q].at \in Contesting /\ proc'[q].task \in {t, u}
    BY DEF PathsContested, On
  <1>1. Sharing(t, u)
    BY SharingLive, NewlyLive DEF At, Contesting
  <1>2. PICK q \in Procs : proc[q].at \in Contesting /\ proc[q].task \in {t, u}
    BY <1>1 DEF PathsContested, On
  <1>3. Sharing(u, t)'
    BY OverlapAssumption, SharingLive
  <1>4. CASE q # p
    BY <1>2, <1>4 DEF PathStep
  <1>5. CASE q = p /\ proc'[p].at \in Contesting /\ proc'[p].task = proc[p].task
    BY <1>2, <1>5
  <1>6. CASE q = p /\ \A v, w \in Tasks : On(p) = v => ~Sharing(v, w)'
    <2>1. On(p) = t \/ On(p) = u
      BY <1>2, <1>6 DEF On
    <2> QED BY <1>3, <1>6, <2>1
  <1> QED BY <1>4, <1>5, <1>6

\* A claim puts its handler among those that contest.
LEMMA ClaimStep ==
  ASSUME NEW p \in Procs, PathStep(p), PathsContested, Claim(p)
  PROVE  PathsContested'
  <1> SUFFICES ASSUME NEW t \in Tasks, NEW u \in Tasks, Sharing(t, u)'
               PROVE  \E q \in Procs : proc'[q].at \in Contesting /\ proc'[q].task \in {t, u}
    BY DEF PathsContested, On
  <1>1. CASE Sharing(t, u)
    <2>1. PICK q \in Procs : proc[q].at \in Contesting /\ proc[q].task \in {t, u}
      BY <1>1 DEF PathsContested, On
    <2>2. q # p
      BY <2>1 DEF Claim, At, Contesting
    <2> QED BY <2>1, <2>2 DEF PathStep
  <1>2. CASE ~Sharing(t, u)
    <2>1. PICK v \in {t, u} : ~Live(v) /\ Live(v)'
      BY <1>2, SharingLive
    <2>2. On(p) = v
      BY <2>1, NewlyLive
    <2>3. Row(p) \in Task /\ Row(p).status = "todo"
      <3>1. Row(p) \in Task /\ task'[v] = Claimed(Row(p))
        BY <2>2 DEF PathStep, Claim, Write, Row, TypeInv, TypeOK
      <3> SUFFICES ASSUME Row(p).status # "todo" PROVE FALSE
        BY <3>1
      <3>2. task'[v] = task[v]
        BY <2>2, <3>1 DEF Claimed, Row
      <3> QED BY <2>1, <3>2 DEF Live
    <2>4. Claimed(Row(p)).status = "in_progress" /\ Claimed(Row(p)).reporting # NoSession
      BY <2>3, SessionAssumption DEF Claimed, Task
    <2>5. Goto(p, "blockers")
      BY <2>4 DEF Claim
    <2> QED BY <2>2, <2>5 DEF Goto, On, Contesting, PathStep, TypeInv, TypeOK, Handler
  <1> QED BY <1>1, <1>2

\* A write that leaves its task off the paths ends the contest.
LEMMA OffThePaths ==
  ASSUME NEW p \in Procs, PathStep(p), PathsContested, proc[p].at \in Contesting,
         NEW row, Write(On(p), row), row.status # "in_progress"
  PROVE  PathsContested'
  <1>1. ASSUME NEW v \in Tasks, NEW w \in Tasks, On(p) = v PROVE ~Sharing(v, w)'
    <2>1. task'[v] = row
      BY <1>1 DEF Write, PathStep, TypeInv, TypeOK
    <2> QED BY <2>1, SharingLive DEF Live, Working
  <1> QED BY <1>1, ContestingStep

\* One that keeps contesting the same task goes on.
LEMMA StillContesting ==
  ASSUME NEW p \in Procs, PathStep(p), PathsContested, proc[p].at \in Contesting,
         NEW step \in Contesting, Goto(p, step)
  PROVE  PathsContested'
  <1>1. proc'[p].at \in Contesting /\ proc'[p].task = proc[p].task
    BY DEF Goto, PathStep, TypeInv, TypeOK, Handler
  <1> QED BY <1>1, ContestingStep

LEMMA ContestingActions ==
  ASSUME NEW p \in Procs, PathStep(p), PathsContested,
         proc[p].at \in Contesting, Continue(p)
  PROVE  PathsContested'
  <1>1. CASE CheckBlockers(p)
    <2>1. \E step \in Contesting : Goto(p, step)
      BY <1>1 DEF CheckBlockers, Contesting
    <2> QED BY <2>1, StillContesting
  <1>2. CASE HoldBack(p)
    <2>1. Row(p) \in Task
      BY <1>2, RowType DEF PathStep, HoldBack, At
    <2>2. HeldBack(Row(p)).status = "blocked"
      BY <2>1 DEF HeldBack, Task
    <2> QED BY <1>2, <2>2, OffThePaths DEF HoldBack
  <1>3. CASE ResolveTarget(p)
    <2>1. \E step \in Contesting : Goto(p, step)
      BY <1>3 DEF ResolveTarget, Contesting
    <2> QED BY <2>1, StillContesting
  <1>4. CASE RecheckPaths(p)
    <2>1. CASE Row(p).status = "in_progress" /\ Conflicts(On(p)) # {}
      <3>1. Goto(p, "handback") /\ "handback" \in Contesting
        BY <1>4, <2>1 DEF RecheckPaths, Contesting
      <3> QED BY <3>1, StillContesting
    <2>2. CASE ~(Row(p).status = "in_progress" /\ Conflicts(On(p)) # {})
      <3>1. ASSUME NEW v \in Tasks, NEW w \in Tasks, On(p) = v PROVE ~Sharing(v, w)
        BY <2>2, <3>1 DEF Sharing, Conflicts, Row
      <3>2. UNCHANGED task
        BY <1>4 DEF RecheckPaths
      <3>3. ASSUME NEW v \in Tasks, NEW w \in Tasks, On(p) = v PROVE ~Sharing(v, w)'
        BY <3>1, <3>2, <3>3 DEF Sharing
      <3> QED BY <3>3, ContestingStep
    <2> QED BY <2>1, <2>2
  <1>5. CASE HandBack(p)
    <2>1. Row(p) \in Task
      BY <1>5, RowType DEF PathStep, HandBack, At
    <2>2. HandedBack(Row(p)).status = "todo"
      BY <2>1 DEF HandedBack, Task
    <2> QED BY <1>5, <2>2, OffThePaths DEF HandBack
  <1>6. CASE ReleaseFailedClaim(p)
    <2>1. Row(p) \in Task
      BY <1>6, RowType DEF PathStep, ReleaseFailedClaim, At
    <2>2. Released(Row(p)).status \in {"todo", "blocked"}
      BY <2>1 DEF Released, Task
    <2> QED BY <1>6, <2>2, OffThePaths DEF ReleaseFailedClaim
  <1>7. \/ CheckBlockers(p) \/ HoldBack(p) \/ ResolveTarget(p)
        \/ RecheckPaths(p) \/ HandBack(p) \/ ReleaseFailedClaim(p)
    BY DEF Continue, DispatchStep, ReportStep, ReviewStep, ManageStep, At,
         Contesting, AwaitClaim, Offer, CheckPaths, WorkerNotReady,
         WorkerReady, Claim, Deliver, ResetFailures, Unblock,
         ReportBlocked, SubmitReport, HoldForReview, Complete, SettleOffer,
         ClearPending, RecordFindings, SendBack, Rebind, Requeue, Relink,
         TakeSeat, LeaveSeat, ParkDeclined, Assign, BindDirect, SeatWorker,
         SendBrief, NoteWrite, ParkFailed, Link
  <1> QED BY <1>1, <1>2, <1>3, <1>4, <1>5, <1>6, <1>7

LEMMA PathsInductive ==
  ASSUME PathsInv, [Next]_vars, Ops \cap Interfering = {}, "crash" \notin Ops
  PROVE  PathsInv'
  <1> USE DEF PathsInv
  <1>1. TypeInv'
    BY TypeInvInductive
  <1>2. CASE UNCHANGED vars
    BY <1>1, <1>2 DEF vars, Quiet, Disowned, Finished, PathsContested, Sharing, On
  <1>3. "edit" \notin Ops /\ "crash" \notin Ops
    BY DEF Interfering
  <1>4. ASSUME NEW p \in Procs, Continue(p) PROVE PathsInv'
    <2>1. PathStep(p)
      BY <1>3, <1>4, ContinueWrites, ContinueFrame, ContinueQuiet DEF PathStep
    <2>2. CASE proc[p].at \in Contesting
      BY <1>1, <1>4, <2>1, <2>2, DisownedKept, ContestingActions
    <2>3. CASE proc[p].at = "claim"
      <3>1. Claim(p)
        BY <1>4, <2>3
        DEF CheckBlockers, HoldBack, ResolveTarget, RecheckPaths, HandBack,
         ReleaseFailedClaim, Continue, DispatchStep, ReportStep, ReviewStep, ManageStep, At,
         AwaitClaim, Offer, CheckPaths, WorkerNotReady,
         WorkerReady, Deliver, ResetFailures, Unblock,
         ReportBlocked, SubmitReport, HoldForReview, Complete, SettleOffer,
         ClearPending, RecordFindings, SendBack, Rebind, Requeue, Relink,
         TakeSeat, LeaveSeat, ParkDeclined, Assign, BindDirect, SeatWorker,
         SendBrief, NoteWrite, ParkFailed, Link
      <3> QED BY <1>1, <2>1, <3>1, DisownedKept, ClaimStep
    <2>4. CASE proc[p].at \notin Contesting \cup {"claim"}
      BY <1>1, <2>1, <2>4, DisownedKept, BystanderStep
    <2> QED BY <2>2, <2>3, <2>4
  <1>5. ASSUME NEW p \in Procs, NEW t \in Tasks, Begin(p, t) PROVE PathsInv'
    <2>1. PathStep(p) /\ proc[p].at \notin Contesting \cup {"claim"}
      BY <1>3, <1>5, BeginWrites, BeginFrame DEF PathStep, At, Contesting
    <2> QED BY <1>1, <2>1, DisownedKept, BystanderStep
  <1> QED BY <1>2, <1>3, <1>4, <1>5 DEF Next, Abandon

\* Check, claim, check again works for any number of dispatchers, tasks and
\* sessions: while work starts through dispatch claims only and none is cut
\* off, two tasks in progress on overlapping paths are seen only while the
\* dispatcher of one of them has yet to look again.
THEOREM PathsAreContested ==
  ASSUME Ops \cap Interfering = {}, "crash" \notin Ops
  PROVE  Spec => []PathsContested
  <1>1. Init => PathsInv
    <2> SUFFICES ASSUME Init PROVE PathsInv
      OBVIOUS
    <2>1. TypeInv
      BY InitTypes
    <2>2. \A p \in Procs : proc[p] = Idle
      BY DEF Init
    <2>3. \A t \in Tasks : task[t].status = "todo"
      BY DEF Init, Filed
    <2> QED BY <2>1, <2>2, <2>3
        DEF PathsInv, Quiet, Idle, Disowned, Finished, Terminal, PathsContested, Sharing
  <1>2. PathsInv /\ [Next]_vars => PathsInv'
    BY PathsInductive
  <1>3. PathsInv => PathsContested
    BY DEF PathsInv
  <1> QED BY <1>1, <1>2, <1>3, PTL DEF Spec

-----------------------------------------------------------------------------
(***************************************************************************)
(* One handler at a time.  What a handler read of its task, and of the     *)
(* tasks that block it, still holds when it uses it: no blind write finds  *)
(* anything but what its handler saw.                                      *)
(***************************************************************************)
OneHandler == \A p, q \in Procs : p = q

Queued == {"await", "offer", "paths", "worker", "claim"}
Ready == {"target", "repath", "deliver"}
Delivering == Ready \cup {"blockers", "hold", "handback", "release"}

Believes(h) ==
  /\ h.at \in Queued => task[h.task].status = "todo"
  /\ h.at \in Delivering => /\ task[h.task].status = "in_progress"
                            /\ task[h.task].failures < MaxDispatchFailures
  /\ h.at \in Ready => ReleasedByAll(h.task)
  /\ h.at = "unblock" => task[h.task].failures = 0
  /\ h.at \in {"block", "submit", "inreview", "bind"} => ~Finished(h.task)
  /\ h.at \in {"findings", "sendback"} => task[h.task].status = "in_review"
  /\ h.at = "inreview" => pending[h.task]
  /\ h.at \in {"settle", "rebind", "unpend"} => task[h.task].status # "in_review"
  /\ h.at = "link" => ~WaitsOn(h.other, h.task)

Believing == Queued \cup Delivering
  \cup {"unblock", "block", "submit", "inreview", "bind", "findings", "sendback",
        "settle", "rebind", "unpend", "link"}

Beliefs == \A p \in Procs : Believes(proc[p])

LEMMA BeliefsBy ==
  ASSUME TypeInv, OneHandler, NEW p \in Procs, NEW h, proc' = [proc EXCEPT ![p] = h],
         h.at \in Believing => Believes(h)'
  PROVE  Beliefs'
  <1>1. \A q \in Procs : proc'[q] = h
    BY DEF TypeInv, TypeOK, OneHandler
  <1>2. h.at \notin Believing => Believes(h)'
    BY DEF Believes, Believing, Queued, Delivering, Ready
  <1>3. Believes(h)'
    BY <1>2
  <1> QED BY <1>1, <1>3 DEF Beliefs, Believes

LEMMA BeliefsReturn ==
  ASSUME TypeInv, OneHandler, NEW p \in Procs, Return(p) PROVE Beliefs'
  <1>1. PICK h : h = Idle
    OBVIOUS
  <1>2. h.at = "idle" BY <1>1 DEF Idle
  <1> QED BY <1>1, <1>2, BeliefsBy DEF Return, Believing, Queued, Delivering, Ready

LEMMA BeliefsGoto ==
  ASSUME TypeInv, OneHandler, NEW p \in Procs, NEW step \in Steps, Goto(p, step),
         \A h : (h.at = step /\ h.task = On(p)) => (step \in Believing => Believes(h)')
  PROVE  Beliefs'
  <1>1. PICK h : h = [proc[p] EXCEPT !.at = step]
    OBVIOUS
  <1>2. h.at = step /\ h.task = On(p)
    BY <1>1 DEF On, TypeInv, TypeOK, Handler
  <1> QED BY <1>1, <1>2, BeliefsBy DEF Goto

-----------------------------------------------------------------------------
(* The ceiling.                                                            *)

BelowCeiling(k) == k.status = "todo" => k.failures < MaxDispatchFailures

LEMMA CeilingWrites ==
  ASSUME NEW k \in Task, BelowCeiling(k), NEW s, NEW outcome \in Terminal, NEW b \in BOOLEAN
  PROVE  /\ BelowCeiling(Claimed(k)) /\ BelowCeiling(HeldBack(k)) /\ BelowCeiling(Released(k))
         /\ BelowCeiling([k EXCEPT !.failures = 0]) /\ BelowCeiling(ReportedBlocked(k))
         /\ BelowCeiling(Submitted(k)) /\ BelowCeiling(Completed(k, outcome))
         /\ BelowCeiling(SentBack(k, s)) /\ BelowCeiling([k EXCEPT !.reporting = s])
         /\ BelowCeiling(Requeued(k, b)) /\ BelowCeiling(MovedToBlocked(k))
         /\ BelowCeiling(Bound(k, s)) /\ BelowCeiling(Widened(k)) /\ BelowCeiling(Parked(k))
         /\ BelowCeiling(Revised(k)) /\ BelowCeiling(Edited(k, s, b))
         /\ k.failures < MaxDispatchFailures =>
              BelowCeiling(HandedBack(k)) /\ BelowCeiling(Unblocked(k))
  <1> USE FailureAssumption DEF BelowCeiling, Task, Terminal
  <1>1. BelowCeiling(Claimed(k)) /\ BelowCeiling(HeldBack(k))
    BY DEF Claimed, HeldBack
  <1>2. BelowCeiling(Released(k))
    BY DEF Released
  <1>3. BelowCeiling([k EXCEPT !.failures = 0]) /\ BelowCeiling(ReportedBlocked(k))
    BY DEF ReportedBlocked
  <1>4. BelowCeiling(Submitted(k)) /\ BelowCeiling(Completed(k, outcome))
    BY DEF Submitted, Completed
  <1>5. BelowCeiling(SentBack(k, s)) /\ BelowCeiling([k EXCEPT !.reporting = s])
    BY DEF SentBack
  <1>6. BelowCeiling(Requeued(k, b)) /\ BelowCeiling(MovedToBlocked(k))
    BY DEF Requeued, MovedToBlocked
  <1>7. BelowCeiling(Bound(k, s)) /\ BelowCeiling(Widened(k)) /\ BelowCeiling(Parked(k))
    BY DEF Bound, Widened, Parked
  <1>8. BelowCeiling(Revised(k)) /\ BelowCeiling(Edited(k, s, b))
    BY DEF Revised, Edited
  <1>9. k.failures < MaxDispatchFailures => BelowCeiling(HandedBack(k)) /\ BelowCeiling(Unblocked(k))
    BY DEF HandedBack, Unblocked
  <1> QED BY ONLY <1>1, <1>2, <1>3, <1>4, <1>5, <1>6, <1>7, <1>8, <1>9

LEMMA CeilingKept ==
  ASSUME TypeInv, ParkedAtCeiling, NEW p \in Procs, RowsChangeBy(p),
         proc[p].at \in {"handback", "unblock"} => task[On(p)].failures < MaxDispatchFailures
  PROVE  ParkedAtCeiling'
  <1>1. ASSUME NEW t \in Tasks, NEW row, Write(t, row), BelowCeiling(row)
        PROVE  ParkedAtCeiling'
    <2>1. task'[t] = row /\ \A u \in Tasks \ {t} : task'[u] = task[u]
      BY <1>1 DEF Write, TypeInv, TypeOK
    <2> QED BY <1>1, <2>1 DEF ParkedAtCeiling, BelowCeiling
  <1>2. CASE UNCHANGED task
    BY <1>2 DEF ParkedAtCeiling
  <1>3. ASSUME NEW t \in Tasks, WritesAtOnce(p, t) PROVE ParkedAtCeiling'
    <2>1. task[t] \in Task /\ BelowCeiling(task[t])
      BY DEF TypeInv, TypeOK, ParkedAtCeiling, BelowCeiling
    <2>2. "done" \in Terminal BY DEF Terminal
    <2>3. BelowCeiling(Revised(task[t])) /\ BelowCeiling(MovedToBlocked(task[t]))
      BY <2>1, <2>2, CeilingWrites
    <2>4. \A s \in Sessions, b \in BOOLEAN : BelowCeiling(Edited(task[t], s, b))
      BY <2>1, <2>2, CeilingWrites
    <2> QED BY <1>1, <1>3, <2>3, <2>4 DEF WritesAtOnce
  <1>4. CASE On(p) \in Tasks /\ WritesOwnRow(p, On(p))
    <2>1. PICK t \in Tasks : t = On(p) /\ WritesOwnRow(p, t)
      BY <1>4
    <2>2. PICK k : k = task[t]
      OBVIOUS
    <2>3. k \in Task /\ BelowCeiling(k) /\ proc[p].flag \in BOOLEAN
      BY <2>2 DEF TypeInv, TypeOK, ParkedAtCeiling, BelowCeiling, Handler
    <2>4. PICK outcome \in Terminal : At(p, "complete") => outcome = proc[p].outcome
      BY DEF TypeInv, Engaged, At, Terminal
    <2>5. PICK s : s = proc[p].session
      OBVIOUS
    <2>6. PICK b \in BOOLEAN : b = proc[p].flag
      BY <2>3
    <2>7. /\ At(p, "handback") => k.failures < MaxDispatchFailures
          /\ At(p, "unblock") => k.failures < MaxDispatchFailures
      BY <2>1, <2>2 DEF At
    <2>8. /\ BelowCeiling(Claimed(k)) /\ BelowCeiling(HeldBack(k)) /\ BelowCeiling(Released(k))
          /\ BelowCeiling([k EXCEPT !.failures = 0]) /\ BelowCeiling(ReportedBlocked(k))
          /\ BelowCeiling(Submitted(k)) /\ BelowCeiling(Completed(k, outcome))
          /\ BelowCeiling(SentBack(k, s)) /\ BelowCeiling([k EXCEPT !.reporting = s])
          /\ BelowCeiling(Requeued(k, b)) /\ BelowCeiling(MovedToBlocked(k))
          /\ BelowCeiling(Bound(k, s)) /\ BelowCeiling(Widened(k)) /\ BelowCeiling(Parked(k))
          /\ k.failures < MaxDispatchFailures =>
               BelowCeiling(HandedBack(k)) /\ BelowCeiling(Unblocked(k))
      BY <2>3, CeilingWrites
    <2>9. \E row : Write(t, row) /\ BelowCeiling(row)
      BY <2>1, <2>2, <2>4, <2>5, <2>6, <2>7, <2>8 DEF WritesOwnRow
    <2> QED BY <1>1, <2>9
  <1> QED BY <1>2, <1>3, <1>4 DEF RowsChangeBy

-----------------------------------------------------------------------------
(* Waiting.  WaitsOn is a reachability: reflexive, transitive and growing   *)
(* with the links.                                                         *)

LEMMA WaitsOnSelf == \A t : WaitsOn(t, t)
  BY DEF WaitsOn

LEMMA WaitsOnLink ==
  ASSUME NEW t, NEW u, WaitsOn(t, u), u \in Tasks, NEW b \in blockers[u] PROVE WaitsOn(t, b)
  BY DEF WaitsOn

LEMMA WaitsOnOn ==
  ASSUME NEW t, NEW u, NEW v, WaitsOn(t, u), WaitsOn(u, v) PROVE WaitsOn(t, v)
  BY DEF WaitsOn

\* What a task waits on, itself included.
Awaited(t) == {u \in Tasks : WaitsOn(t, u)}

LEMMA AwaitedClosed ==
  ASSUME TypeInv, NEW t \in Tasks
  PROVE  /\ t \in Awaited(t)
         /\ \A u \in Awaited(t) : blockers[u] \subseteq Awaited(t)
  <1>1. \A u \in Tasks : blockers[u] \subseteq Tasks
    BY DEF TypeInv, TypeOK
  <1> QED BY <1>1, WaitsOnSelf, WaitsOnLink DEF Awaited

LEMMA FewerLinks ==
  ASSUME NoWaitCycle, \A t \in Tasks : blockers'[t] \subseteq blockers[t]
  PROVE  NoWaitCycle'
  <1> SUFFICES ASSUME NEW t \in Tasks, NEW b \in blockers'[t], WaitsOn(b, t)'
               PROVE  FALSE
    BY DEF NoWaitCycle
  <1>1. WaitsOn(b, t)
    <2> SUFFICES ASSUME NEW S \in SUBSET Tasks, b \in S,
                        \A v \in S : blockers[v] \subseteq S
                 PROVE  t \in S
      BY DEF WaitsOn
    <2>1. \A v \in S : blockers'[v] \subseteq S
      OBVIOUS
    <2> QED BY <2>1 DEF WaitsOn
  <1> QED BY <1>1 DEF NoWaitCycle

\* A link to a task that does not come to wait on this one closes no cycle.
LEMMA SafeLink ==
  ASSUME TypeInv, NoWaitCycle, NEW t \in Tasks, NEW b \in Tasks, ~WaitsOn(b, t),
         blockers' = [blockers EXCEPT ![t] = @ \cup {b}]
  PROVE  NoWaitCycle'
  <1>1. blockers'[t] = blockers[t] \cup {b} /\ \A u \in Tasks \ {t} : blockers'[u] = blockers[u]
    BY DEF TypeInv, TypeOK
  <1>2. \A u \in Tasks : blockers[u] \subseteq Tasks
    BY DEF TypeInv, TypeOK
  <1> SUFFICES ASSUME NEW u \in Tasks, NEW c \in blockers'[u], WaitsOn(c, u)'
               PROVE  FALSE
    BY DEF NoWaitCycle
  <1>3. c \in Tasks /\ (c \in blockers[u] \/ (u = t /\ c = b))
    BY <1>1, <1>2
  <1>4. \A S \in SUBSET Tasks : c \in S /\ (\A v \in S : blockers'[v] \subseteq S) => u \in S
    BY DEF WaitsOn
  <1>5. c \in blockers[u] => ~WaitsOn(c, u) /\ WaitsOn(u, c)
    BY WaitsOnSelf, WaitsOnLink DEF NoWaitCycle
  <1>6. u \notin Awaited(c)
    BY <1>3, <1>5 DEF Awaited
  <1>7. CASE t \notin Awaited(c)
    <2>1. \A v \in Awaited(c) : v \in Tasks \ {t} /\ blockers[v] \subseteq Awaited(c)
      BY <1>3, <1>7, AwaitedClosed DEF Awaited
    <2>2. \A v \in Awaited(c) : blockers'[v] \subseteq Awaited(c)
      BY <1>1, <2>1
    <2>3. c \in Awaited(c) /\ Awaited(c) \in SUBSET Tasks
      BY <1>3, AwaitedClosed DEF Awaited
    <2> QED BY <1>4, <1>6, <2>2, <2>3
  <1>8. CASE t \in Awaited(c)
    <2> DEFINE S == Awaited(c) \cup Awaited(b)
    <2>1. \A v \in S : blockers[v] \subseteq S
      BY <1>3, AwaitedClosed
    <2>2. c \in S /\ b \in S /\ S \in SUBSET Tasks
      BY <1>3, AwaitedClosed DEF Awaited
    <2>3. \A v \in S : blockers'[v] \subseteq S
      <3> HIDE DEF S
      <3> QED BY <1>1, <2>1, <2>2
    <2>4. u \in S
      BY <1>4, <2>2, <2>3
    <2>5. WaitsOn(b, u) /\ u # t
      BY <1>6, <2>4 DEF Awaited
    <2>6. WaitsOn(u, c) /\ WaitsOn(c, t)
      BY <1>3, <1>5, <1>8, <2>5 DEF Awaited
    <2> QED BY <2>5, <2>6, WaitsOnOn
  <1> QED BY <1>7, <1>8

-----------------------------------------------------------------------------
(* Beliefs, step by step.                                                  *)

LEMMA WaitsOnKept == ASSUME UNCHANGED blockers PROVE \A t, u : WaitsOn(t, u)' <=> WaitsOn(t, u)
  BY DEF WaitsOn

LEMMA ReleasedKept ==
  ASSUME UNCHANGED <<task, blockers>> PROVE \A t : ReleasedByAll(t)' <=> ReleasedByAll(t)
  BY DEF ReleasedByAll

\* Steps that read, or write what no belief is about, hand their beliefs on.
LEMMA BeliefsRead ==
  ASSUME TypeInv, OneHandler, NEW p \in Procs, NEW step \in Steps, Goto(p, step),
         UNCHANGED <<task, blockers>>,
         step \in Queued => task[On(p)].status = "todo",
         step \in Delivering => /\ task[On(p)].status = "in_progress"
                                /\ task[On(p)].failures < MaxDispatchFailures,
         step \in Ready => ReleasedByAll(On(p)),
         step = "inreview" => pending'[On(p)] /\ ~Finished(On(p)),
         step = "sendback" => task[On(p)].status = "in_review",
         step = "unpend" => task[On(p)].status # "in_review",
         step \notin {"unblock", "block", "submit", "bind", "findings", "settle", "rebind", "link"}
  PROVE  Beliefs'
  <1> SUFFICES ASSUME NEW h, h.at = step, h.task = On(p) PROVE Believes(h)'
    BY BeliefsGoto
  <1> QED BY ReleasedKept DEF Believes, Finished

LEMMA DispatchBeliefs ==
  ASSUME TypeInv, OneHandler, Beliefs, ParkedAtCeiling, NEW p \in Procs, DispatchStep(p)
  PROVE  Beliefs'
  <1> DEFINE t == On(p)
  <1>1. Believes(proc[p])
    BY DEF Beliefs
  <1> USE DEF At, Row, Steps, Queued, Delivering, Ready, On
  <1>2. CASE AwaitClaim(p)
    <2>1. Row(p).status = "todo"
      BY <1>1, <1>2 DEF Believes, AwaitClaim
    <2>2. Return(p) \/ \E step \in {"paths", "offer"} : Goto(p, step)
      BY <1>2 DEF AwaitClaim
    <2> QED BY <1>2, <2>1, <2>2, BeliefsReturn, BeliefsRead DEF AwaitClaim
  <1>3. CASE Offer(p) \/ WorkerNotReady(p) \/ HoldBack(p) \/ HandBack(p)
             \/ ReleaseFailedClaim(p) \/ ResetFailures(p)
    BY <1>3, BeliefsReturn
    DEF Offer, WorkerNotReady, HoldBack, HandBack, ReleaseFailedClaim, ResetFailures
  <1>4. CASE CheckPaths(p)
    <2>1. Row(p).status = "todo"
      BY <1>1, <1>4 DEF Believes, CheckPaths
    <2> QED BY <1>4, <2>1, BeliefsReturn, BeliefsRead DEF CheckPaths
  <1>5. CASE WorkerReady(p)
    <2>1. Row(p).status = "todo"
      BY <1>1, <1>5 DEF Believes, WorkerReady
    <2> QED BY <1>5, <2>1, BeliefsRead DEF WorkerReady
  <1>6. CASE Claim(p)
    <2>1. CASE Return(p)
      BY <2>1, BeliefsReturn
    <2>2. CASE Goto(p, "blockers")
      <3>1. t \in Tasks /\ task[t] \in Task
        BY <1>6, RowType DEF Claim
      <3>2. task[t].status = "todo"
        BY <1>1, <1>6 DEF Believes, Claim
      <3>3. task[t].failures < MaxDispatchFailures
        BY <3>1, <3>2 DEF ParkedAtCeiling
      <3>4. task'[t] = Claimed(task[t])
        BY <1>6, <3>1 DEF Claim, Write, TypeInv, TypeOK
      <3>5. task'[t].status = "in_progress" /\ task'[t].failures < MaxDispatchFailures
        BY <3>1, <3>2, <3>3, <3>4 DEF Claimed, Task
      <3> SUFFICES ASSUME NEW h, h.at = "blockers", h.task = t PROVE Believes(h)'
        BY <2>2, BeliefsGoto
      <3> QED BY <3>5 DEF Believes
    <2> QED BY <1>6, <2>1, <2>2 DEF Claim
  <1>7. CASE CheckBlockers(p)
    <2>1. task[t].status = "in_progress" /\ task[t].failures < MaxDispatchFailures
      BY <1>1, <1>7 DEF Believes, CheckBlockers
    <2>2. PICK step \in {"target", "hold", "release"} :
            Goto(p, step) /\ (step = "target" => ReleasedByAll(t))
      BY <1>7 DEF CheckBlockers
    <2>3. UNCHANGED <<task, blockers>>
      BY <1>7 DEF CheckBlockers
    <2> QED BY <2>1, <2>2, <2>3, BeliefsRead
  <1>8. CASE ResolveTarget(p) \/ RecheckPaths(p)
    <2>1. task[t].status = "in_progress" /\ task[t].failures < MaxDispatchFailures
          /\ ReleasedByAll(t)
      BY <1>1, <1>8 DEF Believes, ResolveTarget, RecheckPaths
    <2>2. PICK step \in {"repath", "release", "handback", "deliver"} : Goto(p, step)
      BY <1>8 DEF ResolveTarget, RecheckPaths
    <2>3. UNCHANGED <<task, blockers>>
      BY <1>8 DEF ResolveTarget, RecheckPaths
    <2> QED BY <2>1, <2>2, <2>3, BeliefsRead
  <1>9. CASE Deliver(p)
    <2>1. task[t].status = "in_progress" /\ task[t].failures < MaxDispatchFailures
      BY <1>1, <1>9 DEF Believes, Deliver
    <2>2. \E step \in {"reset", "release"} : Goto(p, step)
      BY <1>9 DEF Deliver
    <2> QED BY <1>9, <2>1, <2>2, BeliefsRead DEF Deliver
  <1> QED BY <1>2, <1>3, <1>4, <1>5, <1>6, <1>7, <1>8, <1>9 DEF DispatchStep

LEMMA ReportBeliefs ==
  ASSUME TypeInv, OneHandler, Beliefs, NEW p \in Procs,
         ReportStep(p) \/ ReviewStep(p) \/ Unblock(p) \/ ManageStep(p)
  PROVE  Beliefs'
  <1> DEFINE t == On(p)
  <1>1. Believes(proc[p])
    BY DEF Beliefs
  <1> USE DEF At, Row, Steps, Queued, Delivering, Ready, On
  <1>2. CASE SubmitReport(p)
    <2>1. t \in Tasks /\ ~Finished(t)
      BY <1>1, <1>2, RowType DEF Believes, SubmitReport
    <2>2. pending'[t]
      BY <1>2, <2>1 DEF SubmitReport, TypeInv, TypeOK
    <2> QED BY <1>2, <2>1, <2>2, BeliefsRead DEF SubmitReport
  <1>3. CASE Complete(p)
    <2>1. CASE Return(p)
      BY <2>1, BeliefsReturn
    <2>2. CASE ~Return(p)
      <3>1. Goto(p, "settle") /\ task[t].status \notin Terminal
        BY <1>3, <2>2 DEF Complete
      <3>2. t \in Tasks /\ task[t] \in Task /\ proc[p].outcome \in Terminal
        BY <1>3, RowType DEF Complete, TypeInv, Engaged
      <3>3. task'[t] = Completed(task[t], proc[p].outcome)
        BY <1>3, <3>2 DEF Complete, Write, TypeInv, TypeOK
      <3>4. task'[t].status # "in_review"
        BY <3>1, <3>2, <3>3 DEF Completed, Task, Terminal
      <3> SUFFICES ASSUME NEW h, h.at = "settle", h.task = t PROVE Believes(h)'
        BY <3>1, BeliefsGoto
      <3> QED BY <3>4 DEF Believes
    <2> QED BY <2>1, <2>2
  <1>4. CASE SettleOffer(p)
    <2>1. task[t].status # "in_review"
      BY <1>1, <1>4 DEF Believes, SettleOffer
    <2> QED BY <1>4, <2>1, BeliefsReturn, BeliefsRead DEF SettleOffer
  <1>5. CASE RecordFindings(p)
    <2>1. task[t].status = "in_review"
      BY <1>1, <1>5 DEF Believes, RecordFindings
    <2> QED BY <1>5, <2>1, BeliefsRead DEF RecordFindings
  <1>6. CASE Rebind(p)
    <2>1. t \in Tasks /\ task[t] \in Task /\ task[t].status # "in_review"
      BY <1>1, <1>6, RowType DEF Believes, Rebind
    <2>2. task'[t] = [task[t] EXCEPT !.reporting = proc[p].session]
      BY <1>6, <2>1 DEF Rebind, Write, TypeInv, TypeOK
    <2>3. task'[t].status # "in_review"
      BY <2>1, <2>2 DEF Task
    <2> SUFFICES ASSUME NEW h, h.at = "unpend", h.task = t PROVE Believes(h)'
      BY <1>6, BeliefsGoto DEF Rebind
    <2> QED BY <2>3 DEF Believes
  <1>7. CASE Return(p)
    BY <1>7, BeliefsReturn
  <1>8. ASSUME NEW step \in {"relink", "requeue", "park", "seat", "brief"}, Goto(p, step)
        PROVE  Beliefs'
    <2>1. step \in Steps /\ step \notin Believing
      BY <1>8 DEF Believing
    <2> QED BY <1>8, <2>1, BeliefsGoto
  <1>9. \/ SubmitReport(p) \/ Complete(p) \/ SettleOffer(p) \/ RecordFindings(p) \/ Rebind(p)
        \/ Return(p)
        \/ \E step \in {"relink", "requeue", "park", "seat", "brief"} : Goto(p, step)
    BY DEF ReportStep, ReviewStep, ManageStep, Unblock, ReportBlocked, HoldForReview,
           ClearPending, SendBack, Requeue, Relink, TakeSeat, LeaveSeat, ParkDeclined, Assign,
           BindDirect, SeatWorker, SendBrief, NoteWrite, ParkFailed, Link
  <1> QED BY <1>2, <1>3, <1>4, <1>5, <1>6, <1>7, <1>8, <1>9

LEMMA BeginBeliefs ==
  ASSUME TypeInv, OneHandler, NEW p \in Procs, NEW t \in Tasks, Begin(p, t)
  PROVE  Beliefs'
  <1>1. ASSUME NEW h, proc' = [proc EXCEPT ![p] = h], UNCHANGED <<task, blockers>>,
               h.task = t,
               h.at \in Believing \cup {"rebind"} =>
                 \/ h.at = "await" /\ task[t].status = "todo"
                 \/ h.at = "unblock" /\ task[t].failures = 0
                 \/ h.at \in {"block", "submit", "bind"} /\ ~Finished(t)
                 \/ h.at = "findings" /\ task[t].status = "in_review"
                 \/ h.at = "link" /\ ~WaitsOn(h.other, t)
        PROVE  Beliefs'
    <2> SUFFICES ASSUME h.at \in Believing PROVE Believes(h)'
      BY <1>1, BeliefsBy
    <2> QED BY <1>1, WaitsOnKept DEF Believes, Finished, Queued, Delivering, Ready
  <1>2. ASSUME NEW h, proc' = [proc EXCEPT ![p] = h], h.at \notin Believing
        PROVE  Beliefs'
    BY <1>2, BeliefsBy
  <1>3. ASSUME At(p, "idle"), UNCHANGED proc PROVE Beliefs'
    <2>1. proc' = [proc EXCEPT ![p] = proc[p]]
      BY <1>3 DEF TypeInv, TypeOK
    <2>2. proc[p].at \notin Believing
      BY <1>3 DEF At, Believing, Queued, Delivering, Ready
    <2>3. PICK h : h = proc[p]
      OBVIOUS
    <2> QED BY <1>2, <2>1, <2>2, <2>3
  <1>4. CASE BeginDispatch(p, t)
    <2>1. PICK h : h = [Idle EXCEPT !.at = "await", !.task = t]
      OBVIOUS
    <2>2. h.at = "await" /\ h.task = t
      BY <2>1 DEF Idle
    <2> QED BY <1>1, <1>4, <2>1, <2>2 DEF BeginDispatch, Start
  <1>5. CASE BeginUnblock(p, t)
    <2>1. PICK h : h = [Idle EXCEPT !.at = "unblock", !.task = t]
      OBVIOUS
    <2>2. h.at = "unblock" /\ h.task = t
      BY <2>1 DEF Idle
    <2> QED BY <1>1, <1>5, <2>1, <2>2 DEF BeginUnblock, Start
  <1>6. CASE BeginReport(p, t)
    <2>1. PICK outcome \in {"done", "failed", "blocked"}, step \in {"block", "submit", "complete"} :
            proc' = [proc EXCEPT ![p] = [Idle EXCEPT !.at = step, !.task = t,
                       !.outcome = IF outcome = "blocked" THEN "none" ELSE outcome]]
      BY <1>6 DEF BeginReport
    <2>2. PICK h : h = [Idle EXCEPT !.at = step, !.task = t,
                          !.outcome = IF outcome = "blocked" THEN "none" ELSE outcome]
      OBVIOUS
    <2>3. h.at = step /\ h.task = t
      BY <2>2 DEF Idle
    <2>4. ~Finished(t) /\ UNCHANGED <<task, blockers>>
      BY <1>6 DEF BeginReport, Finished
    <2>5. step = "complete" => h.at \notin Believing \cup {"rebind"}
      BY <2>3 DEF Believing, Queued, Delivering, Ready
    <2> QED BY <1>1, <2>1, <2>2, <2>3, <2>4, <2>5
  <1>7. CASE BeginReview(p, t)
    <2>1. CASE proc' = [proc EXCEPT ![p] = [Idle EXCEPT !.at = "complete", !.task = t,
                                              !.outcome = "done", !.flag = TRUE]]
      <3>1. PICK h : h = [Idle EXCEPT !.at = "complete", !.task = t, !.outcome = "done",
                                      !.flag = TRUE]
        OBVIOUS
      <3>2. h.at = "complete"
        BY <3>1 DEF Idle
      <3> QED BY <1>2, <2>1, <3>1, <3>2 DEF Believing, Queued, Delivering, Ready
    <2>2. CASE /\ task[t].status = "in_review"
               /\ proc' = [proc EXCEPT ![p] = [Idle EXCEPT !.at = "findings", !.task = t,
                                                 !.session = task[t].session]]
      <3>1. PICK h : h = [Idle EXCEPT !.at = "findings", !.task = t,
                                      !.session = task[t].session]
        OBVIOUS
      <3>2. h.at = "findings" /\ h.task = t
        BY <3>1 DEF Idle
      <3> QED BY <1>1, <1>7, <2>2, <3>1, <3>2 DEF BeginReview
    <2> QED BY <1>7, <2>1, <2>2 DEF BeginReview
  <1>8. CASE Revise(p, t)
    <2>1. PICK h : h = [Idle EXCEPT !.at = "rebind", !.task = t, !.session = task[t].session]
      OBVIOUS
    <2>2. h.at = "rebind" /\ h.task = t
      BY <2>1 DEF Idle
    <2>3. task[t] \in Task /\ task'[t] = Revised(task[t])
      BY <1>8 DEF Revise, Write, TypeInv, TypeOK
    <2>4. task'[t].status = "in_progress"
      BY <1>8, <2>3 DEF Revise, Revised, Task
    <2>5. Believes(h)'
      BY <2>2, <2>4 DEF Believes, Queued, Delivering, Ready
    <2> QED BY <1>8, <2>1, <2>5, BeliefsBy DEF Revise
  <1>9. CASE BeginDirect(p, t)
    <2>1. PICK s \in Sessions :
            proc' = [proc EXCEPT ![p] = [Idle EXCEPT !.at = "bind", !.task = t, !.session = s]]
      BY <1>9 DEF BeginDirect
    <2>2. PICK h : h = [Idle EXCEPT !.at = "bind", !.task = t, !.session = s]
      OBVIOUS
    <2>3. h.at = "bind" /\ h.task = t
      BY <2>2 DEF Idle
    <2>4. ~Finished(t)
      BY <1>9 DEF BeginDirect, Finished
    <2> QED BY <1>1, <1>9, <2>1, <2>2, <2>3, <2>4 DEF BeginDirect
  <1>10. CASE BeginLink(p, t)
    <2>1. PICK b \in Tasks :
            /\ ~WaitsOn(b, t)
            /\ proc' = [proc EXCEPT ![p] = [Idle EXCEPT !.at = "link", !.task = t, !.other = b]]
      BY <1>10 DEF BeginLink
    <2>2. PICK h : h = [Idle EXCEPT !.at = "link", !.task = t, !.other = b]
      OBVIOUS
    <2>3. h.at = "link" /\ h.task = t /\ h.other = b
      BY <2>2 DEF Idle
    <2> QED BY <1>1, <1>10, <2>1, <2>2, <2>3 DEF BeginLink
  <1>11. CASE MoveToBlocked(p, t) \/ Edit(p, t) \/ Unlink(p, t)
    BY <1>3, <1>11 DEF MoveToBlocked, Edit, Unlink, Free, At
  <1>12. CASE \/ BeginFinish(p, t) \/ BeginRequeue(p, t) \/ BeginTake(p, t)
              \/ BeginDecline(p, t) \/ BeginAssign(p, t) \/ BeginWrite(p, t)
              \/ BeginFailure(p, t)
    <2> DEFINE Steps7 == {"complete", "requeue", "take", "leave", "assign", "note", "fail"}
    <2>1. ASSUME NEW step \in Steps7, Start(p, step, t)
          PROVE  \E h : proc' = [proc EXCEPT ![p] = h] /\ h.at \in Steps7
      <3>1. PICK h : h = [Idle EXCEPT !.at = step, !.task = t]
        OBVIOUS
      <3>2. h.at = step
        BY <3>1 DEF Idle
      <3> QED BY <2>1, <3>1, <3>2 DEF Start
    <2>2. CASE BeginFinish(p, t)
      <3>1. PICK outcome \in Terminal :
              proc' = [proc EXCEPT ![p] = [Idle EXCEPT !.at = "complete", !.task = t,
                                                       !.outcome = outcome]]
        BY <2>2 DEF BeginFinish
      <3>2. [Idle EXCEPT !.at = "complete", !.task = t, !.outcome = outcome].at = "complete"
        BY DEF Idle
      <3> QED BY <1>2, <3>1, <3>2 DEF Believing, Queued, Delivering, Ready
    <2>3. CASE BeginRequeue(p, t)
      <3>1. PICK reopen \in BOOLEAN :
              proc' = [proc EXCEPT ![p] = [Idle EXCEPT !.at = "requeue", !.task = t,
                                                       !.flag = reopen]]
        BY <2>3 DEF BeginRequeue
      <3>2. [Idle EXCEPT !.at = "requeue", !.task = t, !.flag = reopen].at = "requeue"
        BY DEF Idle
      <3> QED BY <1>2, <3>1, <3>2 DEF Believing, Queued, Delivering, Ready
    <2>4. CASE BeginAssign(p, t)
      <3>1. PICK flag : proc' = [proc EXCEPT ![p] = [Idle EXCEPT !.at = "assign", !.task = t,
                                                               !.flag = flag]]
        BY <2>4 DEF BeginAssign
      <3>2. [Idle EXCEPT !.at = "assign", !.task = t, !.flag = flag].at = "assign"
        BY DEF Idle
      <3> QED BY <1>2, <3>1, <3>2 DEF Believing, Queued, Delivering, Ready
    <2>5. CASE \/ BeginTake(p, t) \/ BeginDecline(p, t) \/ BeginWrite(p, t)
               \/ BeginFailure(p, t)
      <3>1. \E step \in Steps7 : Start(p, step, t)
        BY <2>5 DEF BeginTake, BeginDecline, BeginWrite, BeginFailure
      <3>2. PICK h : proc' = [proc EXCEPT ![p] = h] /\ h.at \in Steps7
        BY <2>1, <3>1
      <3> QED BY <1>2, <3>2 DEF Believing, Queued, Delivering, Ready
    <2> QED BY <1>12, <2>2, <2>3, <2>4, <2>5
  <1> QED BY <1>4, <1>5, <1>6, <1>7, <1>8, <1>9, <1>10, <1>11, <1>12 DEF Begin

LEMMA LinksKept ==
  ASSUME TypeInv, NoWaitCycle, NEW p \in Procs, Believes(proc[p]),
         Continue(p) \/ \E t \in Tasks : Begin(p, t)
  PROVE  NoWaitCycle'
  <1>1. CASE Link(p)
    <2>1. PICK t, b : t = On(p) /\ b = proc[p].other
      OBVIOUS
    <2>2. t \in Tasks /\ b \in Tasks /\ ~WaitsOn(b, t)
      BY <1>1, <2>1 DEF Link, At, On, Believes, TypeInv, Engaged
    <2>3. blockers' = [blockers EXCEPT ![t] = @ \cup {b}]
      BY <1>1, <2>1 DEF Link
    <2> QED BY <2>2, <2>3, SafeLink
  <1>2. CASE Relink(p)
    <2>1. On(p) \in Tasks
      BY <1>2, RowType DEF Relink, At
    <2>2. \A t \in Tasks : blockers'[t] \subseteq blockers[t]
      BY <1>2, <2>1 DEF Relink, TypeInv, TypeOK
    <2> QED BY <2>2, FewerLinks
  <1>3. ASSUME NEW t \in Tasks, Unlink(p, t) PROVE NoWaitCycle'
    <2>1. \A u \in Tasks : blockers'[u] \subseteq blockers[u]
      BY <1>3 DEF Unlink, TypeInv, TypeOK
    <2> QED BY <2>1, FewerLinks
  <1>4. CASE UNCHANGED blockers
    BY <1>4, FewerLinks
  <1>5. ASSUME NEW t \in Tasks, Begin(p, t) PROVE Unlink(p, t) \/ UNCHANGED blockers
    BY <1>5 DEF Begin, BeginDispatch, BeginUnblock, BeginReport, BeginReview, Revise,
                BeginFinish, MoveToBlocked, BeginRequeue, BeginTake, BeginDecline, BeginAssign,
                BeginDirect, Edit, BeginWrite, BeginFailure, BeginLink
  <1>6. ASSUME Continue(p) PROVE Link(p) \/ Relink(p) \/ UNCHANGED blockers
    <2>1. CASE DispatchStep(p) \/ Unblock(p)
      BY <2>1 DEF DispatchStep, AwaitClaim, Offer, CheckPaths, WorkerNotReady, WorkerReady,
                  Claim, CheckBlockers, HoldBack, ResolveTarget, RecheckPaths, HandBack,
                  ReleaseFailedClaim, Deliver, ResetFailures, Unblock
    <2>2. CASE ReportStep(p) \/ ReviewStep(p) \/ ManageStep(p)
      BY <2>2 DEF ReportStep, ReportBlocked, SubmitReport, HoldForReview, Complete,
                  SettleOffer, ClearPending, ReviewStep, RecordFindings, SendBack, Rebind,
                  ManageStep, Requeue, TakeSeat, LeaveSeat, ParkDeclined, Assign, BindDirect,
                  SeatWorker, SendBrief, NoteWrite, ParkFailed
    <2> QED BY <1>6, <2>1, <2>2 DEF Continue
  <1> QED BY <1>1, <1>2, <1>3, <1>4, <1>5, <1>6

SerialInv == Beliefs /\ ParkedAtCeiling /\ NoWaitCycle

LEMMA SerialKeeping ==
  ASSUME OneHandler PROVE Spec => []SerialInv
  <1>1. Init => SerialInv
    <2> SUFFICES ASSUME Init PROVE SerialInv
      OBVIOUS
    <2>1. \A p \in Procs : proc[p].at = "idle"
      BY DEF Init, Idle
    <2>2. Beliefs
      BY <2>1 DEF Beliefs, Believes, Queued, Delivering, Ready
    <2>3. \A t \in Tasks : task[t].failures = 0 /\ blockers[t] = {}
      BY DEF Init, Filed
    <2> QED BY <2>2, <2>3, FailureAssumption DEF SerialInv, ParkedAtCeiling, NoWaitCycle
  <1>2. TypeInv /\ SerialInv /\ [Next]_vars => SerialInv'
    <2> SUFFICES ASSUME TypeInv, SerialInv, [Next]_vars PROVE SerialInv'
      OBVIOUS
    <2> USE DEF SerialInv
    <2>1. ASSUME NEW p \in Procs, Continue(p) \/ \E t \in Tasks : Begin(p, t) PROVE SerialInv'
      <3>1. Believes(proc[p])
        BY DEF Beliefs
      <3>2. ParkedAtCeiling'
        <4>1. proc[p].at \in {"handback", "unblock"} => task[On(p)].failures < MaxDispatchFailures
          BY <3>1, FailureAssumption DEF Believes, Delivering, On
        <4> QED BY <2>1, <4>1, ContinueWrites, BeginWrites, CeilingKept
      <3>3. NoWaitCycle'
        BY <2>1, <3>1, LinksKept
      <3>4. Beliefs'
        BY <2>1, DispatchBeliefs, ReportBeliefs, BeginBeliefs DEF Continue
      <3> QED BY <3>2, <3>3, <3>4
    <2>2. CASE UNCHANGED <<task, pending, blockers>>
      <3>1. ParkedAtCeiling'
        BY <2>2 DEF ParkedAtCeiling
      <3>2. NoWaitCycle'
        BY <2>2, FewerLinks
      <3>3. UNCHANGED proc => Beliefs'
        BY <2>2, WaitsOnKept DEF Beliefs, Believes, ReleasedByAll, Finished
      <3>4. (\E p \in Procs : Return(p)) => Beliefs'
        BY BeliefsReturn
      <3> QED BY <2>1, <2>2, <3>1, <3>2, <3>3, <3>4 DEF Next, Abandon, vars
    <2> QED BY <2>1, <2>2 DEF Next, Abandon, vars
  <1> QED BY <1>1, <1>2, Typing, PTL DEF Spec

(***************************************************************************)
(* No task comes to wait on itself, however long the chain of links: the   *)
(* cycle check before the insert is enough while no other link is written  *)
(* between the two.                                                        *)
(***************************************************************************)
THEOREM LinksCloseNoCycle ==
  ASSUME OneHandler PROVE Spec => []NoWaitCycle
  BY SerialKeeping, PTL DEF SerialInv

(***************************************************************************)
(* With one handler at a time a finished task is reopened on purpose only: *)
(* none of the seven writes that look at no status ever finds finished     *)
(* work.                                                                   *)
(***************************************************************************)
THEOREM FinishedReopenedOnPurpose ==
  ASSUME OneHandler PROVE Spec => FinishedStays
  <1>1. ASSUME TypeInv, SerialInv, [Next]_vars
        PROVE  [\A t \in Tasks : Finished(t) /\ ~Finished(t)' => ReopenedOnPurpose(t)]_vars
    <2>1. \A p \in Procs : proc[p].at \in BlindSteps => ~Finished(On(p))
      BY <1>1 DEF SerialInv, Beliefs, Believes, BlindSteps, Finished, Terminal, On, Delivering
    <2> QED BY <1>1, <2>1, StepWrites, EveryRow
  <1> QED BY <1>1, Typing, SerialKeeping, PTL DEF Spec, FinishedStays

(***************************************************************************)
(* With one handler at a time an envelope goes out only when every blocker *)
(* has released the task: what was read after the claim still holds when   *)
(* the envelope leaves.                                                    *)
(***************************************************************************)
THEOREM DeliveredOnceReleased ==
  ASSUME OneHandler PROVE Spec => DeliveredWhenReleased
  <1>1. ASSUME SerialInv
        PROVE  \A p \in Procs : At(p, "deliver") /\ proc'[p].at = "reset" => ReleasedByAll(On(p))
    BY <1>1 DEF SerialInv, Beliefs, Believes, Ready, At, On
  <1>2. SerialInv /\ [Next]_vars
          => [\A p \in Procs : At(p, "deliver") /\ proc'[p].at = "reset"
                => ReleasedByAll(On(p))]_vars
    BY <1>1
  <1> QED BY <1>2, SerialKeeping, PTL DEF Spec, DeliveredWhenReleased

-----------------------------------------------------------------------------
(* Review.  Only a verdict takes the report of a task in review, and it    *)
(* sends the task back next.                                               *)

ReviewInv ==
  \A t \in Tasks : task[t].status = "in_review" =>
    pending[t] \/ \E p \in Procs : On(p) = t /\ At(p, "sendback")

LEMMA ReviewWrites ==
  ASSUME NEW k \in Task, k.status # "in_review", NEW s, NEW outcome \in Terminal,
         NEW b \in BOOLEAN
  PROVE  /\ \A new \in {Claimed(k), HeldBack(k), HandedBack(k), Released(k),
                        [k EXCEPT !.failures = 0], Unblocked(k), ReportedBlocked(k),
                        Completed(k, outcome), SentBack(k, s), [k EXCEPT !.reporting = s],
                        Requeued(k, b), MovedToBlocked(k), Bound(k, s), Widened(k), Parked(k),
                        Revised(k), Edited(k, s, b)} : new.status # "in_review"
  <1> USE DEF Task, Terminal
  <1>1. Claimed(k).status # "in_review" /\ HeldBack(k).status # "in_review"
        /\ HandedBack(k).status # "in_review"
    BY DEF Claimed, HeldBack, HandedBack
  <1>2. Released(k).status # "in_review" /\ [k EXCEPT !.failures = 0].status # "in_review"
    BY DEF Released
  <1>3. Unblocked(k).status # "in_review" /\ ReportedBlocked(k).status # "in_review"
        /\ Completed(k, outcome).status # "in_review"
    BY DEF Unblocked, ReportedBlocked, Completed
  <1>4. SentBack(k, s).status # "in_review" /\ [k EXCEPT !.reporting = s].status # "in_review"
    BY DEF SentBack
  <1>5. Requeued(k, b).status # "in_review" /\ MovedToBlocked(k).status # "in_review"
        /\ Bound(k, s).status # "in_review"
    BY DEF Requeued, MovedToBlocked, Bound
  <1>6. Widened(k).status # "in_review" /\ Parked(k).status # "in_review"
    BY DEF Widened, Parked
  <1>7. Revised(k).status # "in_review" /\ Edited(k, s, b).status # "in_review"
    BY DEF Revised, Edited
  <1> QED BY ONLY <1>1, <1>2, <1>3, <1>4, <1>5, <1>6, <1>7

LEMMA NoNewReview ==
  ASSUME TypeInv, NEW p \in Procs, RowsChangeBy(p), ~At(p, "inreview"),
         NEW t \in Tasks, task'[t].status = "in_review"
  PROVE  task[t].status = "in_review"
  <1> SUFFICES ASSUME task[t].status # "in_review" PROVE FALSE
    OBVIOUS
  <1>1. PICK k : k = task[t]
    OBVIOUS
  <1>2. k \in Task /\ k.status # "in_review"
    BY <1>1 DEF TypeInv, TypeOK
  <1>3. ASSUME NEW u \in Tasks, NEW row, Write(u, row), u = t => row.status # "in_review"
        PROVE  FALSE
    <2>1. task'[u] = row /\ \A v \in Tasks \ {u} : task'[v] = task[v]
      BY <1>3 DEF Write, TypeInv, TypeOK
    <2> QED BY <1>3, <2>1
  <1>4. PICK s : s = proc[p].session
    OBVIOUS
  <1>5. PICK outcome \in Terminal : At(p, "complete") => outcome = proc[p].outcome
    BY DEF TypeInv, Engaged, At, Terminal
  <1>6. PICK b \in BOOLEAN : b = proc[p].flag
    BY DEF TypeInv, TypeOK, Handler
  <1>7. ASSUME NEW r, NEW c \in BOOLEAN
        PROVE  /\ \A new \in {Claimed(k), HeldBack(k), HandedBack(k), Released(k),
                        [k EXCEPT !.failures = 0], Unblocked(k), ReportedBlocked(k),
                        Completed(k, outcome), SentBack(k, r), [k EXCEPT !.reporting = r],
                        Requeued(k, c), MovedToBlocked(k), Bound(k, r), Widened(k), Parked(k),
                        Revised(k), Edited(k, r, c)} : new.status # "in_review"
    BY <1>2, ReviewWrites
  <1>8. ASSUME NEW u \in Tasks, WritesAtOnce(p, u) PROVE FALSE
    <2>1. CASE u = t
      <3>1. Revised(k).status # "in_review" /\ MovedToBlocked(k).status # "in_review"
        BY <1>6, <1>7
      <3>2. \A r \in Sessions, c \in BOOLEAN : Edited(k, r, c).status # "in_review"
        BY <1>7
      <3> QED BY <1>1, <1>3, <1>8, <2>1, <3>1, <3>2 DEF WritesAtOnce
    <2>2. CASE u # t
      BY <1>3, <1>8, <2>2 DEF WritesAtOnce
    <2> QED BY <2>1, <2>2
  <1>9. CASE On(p) \in Tasks /\ WritesOwnRow(p, On(p))
    <2>1. PICK u \in Tasks : u = On(p) /\ WritesOwnRow(p, u)
      BY <1>9
    <2>2. CASE u = t
      <3>1. \E row : Write(t, row) /\ row.status # "in_review"
        <4>1. \A new \in {Claimed(k), HeldBack(k), HandedBack(k), Released(k),
                        [k EXCEPT !.failures = 0], Unblocked(k), ReportedBlocked(k),
                        Completed(k, outcome), SentBack(k, s), [k EXCEPT !.reporting = s],
                        Requeued(k, b), MovedToBlocked(k), Bound(k, s), Widened(k), Parked(k)} :
                new.status # "in_review"
          BY <1>7, ZenonT(60)
        <4> QED BY <1>1, <1>4, <1>5, <1>6, <2>1, <2>2, <4>1 DEF WritesOwnRow
      <3> QED BY <1>3, <3>1
    <2>3. CASE u # t
      BY <1>3, <2>1, <2>3 DEF WritesOwnRow
    <2> QED BY <2>2, <2>3
  <1>10. ~UNCHANGED task
    BY <1>1, <1>2
  <1> QED BY <1>8, <1>9, <1>10 DEF RowsChangeBy

LEMMA ReviewStepKept ==
  ASSUME TypeInv, OneHandler, Beliefs, ReviewInv, NEW p \in Procs,
         Continue(p) \/ \E t \in Tasks : Begin(p, t)
  PROVE  ReviewInv'
  <1>1. RowsChangeBy(p) /\ Believes(proc[p])
    BY ContinueWrites, BeginWrites DEF Beliefs
  <1>2. \A t \in Tasks : task[t].status = "in_review" =>
          pending[t] \/ (On(p) = t /\ At(p, "sendback"))
    BY DEF ReviewInv, OneHandler
  <1>3. CASE HoldForReview(p)
    <2>1. On(p) \in Tasks /\ pending[On(p)] /\ ~At(p, "sendback")
      BY <1>1, <1>3, RowType DEF HoldForReview, At, Believes, On
    <2>2. \A t \in Tasks : t # On(p) => task'[t] = task[t]
      BY <1>3, <2>1 DEF HoldForReview, Write, TypeInv, TypeOK
    <2> QED BY <1>2, <1>3, <2>1, <2>2 DEF ReviewInv, HoldForReview
  <1>4. CASE SendBack(p)
    <2>1. On(p) \in Tasks /\ Row(p) \in Task
      BY <1>4, RowType DEF SendBack, At
    <2>2. task'[On(p)] = SentBack(Row(p), proc[p].session)
          /\ \A t \in Tasks : t # On(p) => task'[t] = task[t]
      BY <1>4, <2>1 DEF SendBack, Write, TypeInv, TypeOK
    <2>3. task'[On(p)].status # "in_review"
      BY <2>1, <2>2 DEF SentBack, Task
    <2> QED BY <1>2, <1>4, <2>2, <2>3 DEF ReviewInv, SendBack
  <1>5. ASSUME ~At(p, "sendback"), ~At(p, "inreview"),
               \A t \in Tasks : pending[t] /\ task[t].status = "in_review" => pending'[t]
        PROVE  ReviewInv'
    BY <1>1, <1>2, <1>5, NoNewReview DEF ReviewInv
  <1>6. CASE SubmitReport(p)
    BY <1>5, <1>6 DEF SubmitReport, At, TypeInv, TypeOK
  <1>7. CASE ClearPending(p)
    <2>1. task[On(p)].status # "in_review"
      BY <1>1, <1>7 DEF Believes, ClearPending, At, On
    <2> QED BY <1>5, <1>7, <2>1 DEF ClearPending, At, TypeInv, TypeOK
  <1>8. CASE RecordFindings(p)
    <2>1. proc'[p].at = "sendback" /\ proc'[p].task = On(p)
      BY <1>8 DEF RecordFindings, Goto, On, TypeInv, TypeOK, Handler
    <2>2. \A t \in Tasks : t # On(p) => pending'[t] = pending[t]
      BY <1>8 DEF RecordFindings, TypeInv, TypeOK
    <2>3. UNCHANGED task /\ ~At(p, "sendback")
      BY <1>8 DEF RecordFindings, At
    <2> QED BY <1>2, <2>1, <2>2, <2>3 DEF ReviewInv, At, On
  <1>9. CASE ~At(p, "sendback") /\ ~At(p, "inreview") /\ UNCHANGED pending
    BY <1>5, <1>9
  <1>10. ASSUME NEW t \in Tasks, Begin(p, t)
         PROVE  ~At(p, "sendback") /\ ~At(p, "inreview") /\ UNCHANGED pending
    BY <1>10 DEF Begin, BeginDispatch, BeginUnblock, BeginReport, BeginReview, Revise,
                 BeginFinish, MoveToBlocked, BeginRequeue, BeginTake, BeginDecline,
                 BeginAssign, BeginDirect, Edit, BeginWrite, BeginFailure, BeginLink, Unlink,
                 Free, At
  <1>11. ASSUME Continue(p)
         PROVE  \/ HoldForReview(p) \/ SendBack(p) \/ SubmitReport(p) \/ ClearPending(p)
                \/ RecordFindings(p)
                \/ ~At(p, "sendback") /\ ~At(p, "inreview") /\ UNCHANGED pending
    <2>1. CASE DispatchStep(p) \/ Unblock(p)
      BY <2>1 DEF DispatchStep, AwaitClaim, Offer, CheckPaths, WorkerNotReady, WorkerReady,
                  Claim, CheckBlockers, HoldBack, ResolveTarget, RecheckPaths, HandBack,
                  ReleaseFailedClaim, Deliver, ResetFailures, Unblock, At
    <2>2. CASE ReportStep(p) \/ ReviewStep(p) \/ ManageStep(p)
      BY <2>2 DEF ReportStep, ReportBlocked, Complete, SettleOffer, ReviewStep, Rebind,
                  ManageStep, Requeue, Relink, TakeSeat, LeaveSeat, ParkDeclined, Assign,
                  BindDirect, SeatWorker, SendBrief, NoteWrite, ParkFailed, Link, At
    <2> QED BY <1>11, <2>1, <2>2 DEF Continue
  <1> QED BY <1>3, <1>4, <1>6, <1>7, <1>8, <1>9, <1>10, <1>11

(***************************************************************************)
(* A task in review has the report its verifier judges, or a handler is    *)
(* about to send it back: of two writes the one that leaves a report       *)
(* without its review comes first.  A verdict cut off between its two      *)
(* leaves a task in review with nothing to judge, and of two handlers one  *)
(* may take the report the other is about to hold the task for: both are   *)
(* excluded here.                                                          *)
(***************************************************************************)
THEOREM ReviewKeepsReport ==
  ASSUME OneHandler, "crash" \notin Ops PROVE Spec => []ReviewHasReport
  <1>1. Init => ReviewInv
    BY DEF Init, ReviewInv, Filed
  <1>2. TypeInv /\ SerialInv /\ ReviewInv /\ [Next]_vars => ReviewInv'
    <2> SUFFICES ASSUME TypeInv, SerialInv, ReviewInv, [Next]_vars PROVE ReviewInv'
      OBVIOUS
    <2>1. CASE UNCHANGED vars
      BY <2>1 DEF vars, ReviewInv, On, At
    <2> QED BY <2>1, ReviewStepKept DEF Next, Abandon, SerialInv
  <1>3. ReviewInv => ReviewHasReport
    BY DEF ReviewInv, ReviewHasReport
  <1> QED BY <1>1, <1>2, <1>3, Typing, SerialKeeping, PTL DEF Spec

-----------------------------------------------------------------------------
(***************************************************************************)
(* One dispatcher among any number of handlers: the loop, whose ticks do   *)
(* not overlap.  Every dispatch in flight is then this one's, and nothing  *)
(* else claims or delivers.                                                *)
(***************************************************************************)
OneDispatcher == \A p, q \in Dispatchers : p = q

Dispatching == Queued \cup Delivering

Dispatched == \A p \in Procs : proc[p].at \in Dispatching => p \in Dispatchers

LEMMA DispatchingContinues ==
  ASSUME TypeInv, NEW p \in Procs, Continue(p)
  PROVE  /\ proc'[p].at \in Dispatching => proc[p].at \in Dispatching /\ proc'[p].task = On(p)
         /\ proc'[p].at \in Queued => UNCHANGED task
  <1> USE DEF At, On, Return, Goto, Idle, TypeInv, TypeOK, Handler, Dispatching, Queued, Delivering, Ready
  <1>1. CASE DispatchStep(p)
    BY <1>1 DEF DispatchStep, AwaitClaim, Offer, CheckPaths, WorkerNotReady, WorkerReady, Claim, CheckBlockers, HoldBack, ResolveTarget, RecheckPaths, HandBack, ReleaseFailedClaim, Deliver, ResetFailures
  <1>2. CASE ReportStep(p)
    BY <1>2 DEF ReportStep, ReportBlocked, SubmitReport, HoldForReview, Complete, SettleOffer, ClearPending
  <1>3. CASE ReviewStep(p)
    BY <1>3 DEF ReviewStep, RecordFindings, SendBack, Rebind
  <1>4. CASE ManageStep(p)
    BY <1>4 DEF ManageStep, Requeue, Relink, TakeSeat, LeaveSeat, ParkDeclined, Assign, BindDirect, SeatWorker, SendBrief, NoteWrite, ParkFailed, Link
  <1>5. CASE Unblock(p)
    BY <1>5 DEF Unblock
  <1> QED BY <1>1, <1>2, <1>3, <1>4, <1>5 DEF Continue

\* A dispatch begins with a dispatcher and a queued task.
LEMMA DispatchingBegins ==
  ASSUME TypeInv, NEW p \in Procs, NEW t \in Tasks, Begin(p, t)
  PROVE  /\ At(p, "idle") /\ UNCHANGED envelopes
         /\ \A q \in Procs \ {p} : proc'[q] = proc[q]
         /\ proc'[p].at \in Dispatching =>
              /\ p \in Dispatchers /\ UNCHANGED task
              /\ proc'[p].at = "await" /\ proc'[p].task = t /\ task[t].status = "todo"
  <1> USE DEF Free, Start, At, TypeInv, TypeOK, Idle, Dispatching, Queued, Delivering, Ready
  <1>1. CASE BeginDispatch(p, t)
    BY <1>1 DEF BeginDispatch
  <1>2. CASE BeginUnblock(p, t)
    BY <1>2 DEF BeginUnblock
  <1>3. CASE BeginReport(p, t)
    BY <1>3 DEF BeginReport
  <1>4. CASE BeginReview(p, t)
    <2>1. At(p, "idle") /\ UNCHANGED envelopes
      BY <1>4 DEF BeginReview
    <2>2. CASE proc' = [proc EXCEPT ![p] = [Idle EXCEPT !.at = "complete", !.task = t,
                                                       !.outcome = "done", !.flag = TRUE]]
      BY <2>1, <2>2
    <2>3. CASE proc' = [proc EXCEPT ![p] = [Idle EXCEPT !.at = "findings", !.task = t,
                                                       !.session = task[t].session]]
      BY <2>1, <2>3
    <2> QED BY <1>4, <2>2, <2>3 DEF BeginReview
  <1>5. CASE Revise(p, t)
    BY <1>5 DEF Revise
  <1>6. CASE BeginFinish(p, t)
    BY <1>6 DEF BeginFinish
  <1>7. CASE MoveToBlocked(p, t)
    BY <1>7 DEF MoveToBlocked
  <1>8. CASE BeginRequeue(p, t)
    BY <1>8 DEF BeginRequeue
  <1>9. CASE BeginTake(p, t)
    BY <1>9 DEF BeginTake
  <1>10. CASE BeginDecline(p, t)
    BY <1>10 DEF BeginDecline
  <1>11. CASE BeginAssign(p, t)
    BY <1>11 DEF BeginAssign
  <1>12. CASE BeginDirect(p, t)
    BY <1>12 DEF BeginDirect
  <1>13. CASE Edit(p, t)
    BY <1>13 DEF Edit
  <1>14. CASE BeginWrite(p, t)
    BY <1>14 DEF BeginWrite
  <1>15. CASE BeginFailure(p, t)
    BY <1>15 DEF BeginFailure
  <1>16. CASE BeginLink(p, t)
    BY <1>16 DEF BeginLink
  <1>17. CASE Unlink(p, t)
    BY <1>17 DEF Unlink
  <1> QED BY <1>1, <1>2, <1>3, <1>4, <1>5, <1>6, <1>7, <1>8, <1>9, <1>10, <1>11, <1>12, <1>13, <1>14, <1>15, <1>16, <1>17 DEF Begin

LEMMA DispatchedKept ==
  ASSUME TypeInv, Dispatched, [Next]_vars
  PROVE  Dispatched'
  <1>1. CASE UNCHANGED vars
    BY <1>1 DEF vars, Dispatched
  <1>2. ASSUME NEW p \in Procs, Continue(p) PROVE Dispatched'
    BY <1>2, ContinueFrame, DispatchingContinues DEF Dispatched
  <1>3. ASSUME NEW p \in Procs, NEW t \in Tasks, Begin(p, t) PROVE Dispatched'
    BY <1>3, DispatchingBegins DEF Dispatched
  <1>4. ASSUME NEW p \in Procs, Abandon(p) PROVE Dispatched'
    BY <1>4 DEF Abandon, Return, Idle, Dispatched, Dispatching, Queued, Delivering, Ready, TypeInv, TypeOK
  <1> QED BY <1>1, <1>2, <1>3, <1>4 DEF Next

\* A handler step counts an envelope only when it delivers, and starts the
\* count again only when it puts the task in progress.
LEMMA ContinueEnvelopes ==
  ASSUME TypeInv, NEW p \in Procs, Continue(p),
         proc[p].at \notin {"bind", "brief"}
  PROVE  \/ UNCHANGED envelopes
         \/ Claim(p) /\ Row(p).status = "todo" /\ envelopes' = [envelopes EXCEPT ![On(p)] = 0]
         \/ At(p, "deliver") /\ envelopes' = Counted(On(p)) /\ Goto(p, "reset")
  <1> USE DEF At
  <1>1. CASE DispatchStep(p)
    BY <1>1 DEF DispatchStep, AwaitClaim, Offer, CheckPaths, WorkerNotReady, WorkerReady, Claim, CheckBlockers, HoldBack, ResolveTarget, RecheckPaths, HandBack, ReleaseFailedClaim, Deliver, ResetFailures
  <1>2. CASE ReportStep(p)
    BY <1>2 DEF ReportStep, ReportBlocked, SubmitReport, HoldForReview, Complete, SettleOffer, ClearPending
  <1>3. CASE ReviewStep(p)
    BY <1>3 DEF ReviewStep, RecordFindings, SendBack, Rebind
  <1>4. CASE ManageStep(p)
    BY <1>4 DEF ManageStep, Requeue, Relink, TakeSeat, LeaveSeat, ParkDeclined, Assign, BindDirect, SeatWorker, SendBrief, NoteWrite, ParkFailed, Link
  <1>5. CASE Unblock(p)
    BY <1>5 DEF Unblock
  <1> QED BY <1>1, <1>2, <1>3, <1>4, <1>5 DEF Continue

(***************************************************************************)
(* One envelope per claim.  A task queued for dispatch is not in progress  *)
(* until this handler claims it, which starts the count again; from there  *)
(* until the envelope goes out nothing has been counted.  Restarting names *)
(* the operations that put a task in progress past the queue.              *)
(***************************************************************************)
Restarting == {"review", "revise", "deliver"}

NoRestart ==
  \A p \in Procs :
    proc[p].at \notin {"findings", "sendback", "rebind", "bind", "seat", "brief"}

Unclaimed == \A p \in Procs : proc[p].at \in Queued => task[On(p)].status # "in_progress"
Unsent == \A p \in Procs : proc[p].at \in Delivering => envelopes[On(p)] = 0

EnvelopeInv ==
  TypeInv /\ NoRestart /\ Dispatched /\ Unclaimed /\ Unsent /\ OneEnvelopePerClaim

\* What a write other than a claim leaves in progress was in progress.
Resumes(k, new) == new.status = "in_progress" => k.status = "in_progress"

LEMMA NothingStarted ==
  ASSUME NEW k \in Task, NEW s, NEW outcome \in Terminal, NEW b \in BOOLEAN
  PROVE  /\ Resumes(k, HeldBack(k)) /\ Resumes(k, HandedBack(k)) /\ Resumes(k, Released(k))
         /\ Resumes(k, [k EXCEPT !.failures = 0]) /\ Resumes(k, Unblocked(k))
         /\ Resumes(k, ReportedBlocked(k)) /\ Resumes(k, Submitted(k))
         /\ Resumes(k, Completed(k, outcome)) /\ Resumes(k, Requeued(k, b))
         /\ Resumes(k, MovedToBlocked(k)) /\ Resumes(k, Widened(k)) /\ Resumes(k, Parked(k))
         /\ Resumes(k, Edited(k, s, b))
  <1> USE DEF Resumes, Task
  <1>1. Resumes(k, HeldBack(k)) /\ Resumes(k, HandedBack(k)) /\ Resumes(k, Released(k))
    BY DEF HeldBack, HandedBack, Released
  <1>2. Resumes(k, [k EXCEPT !.failures = 0]) /\ Resumes(k, Unblocked(k))
    BY DEF Unblocked
  <1>3. Resumes(k, ReportedBlocked(k)) /\ Resumes(k, Submitted(k))
    BY DEF ReportedBlocked, Submitted
  <1>4. Resumes(k, Completed(k, outcome)) /\ Resumes(k, Requeued(k, b))
    BY DEF Completed, Requeued, MayRequeue, Terminal
  <1>5. Resumes(k, MovedToBlocked(k)) /\ Resumes(k, Widened(k)) /\ Resumes(k, Parked(k))
    BY DEF MovedToBlocked, Widened, Parked, Terminal
  <1>6. Resumes(k, Edited(k, s, b))
    BY DEF Edited
  <1> QED BY ONLY <1>1, <1>2, <1>3, <1>4, <1>5, <1>6

LEMMA OwnRowStarts ==
  ASSUME TypeInv, NEW p \in Procs, On(p) \in Tasks, WritesOwnRow(p, On(p)),
         proc[p].at \notin {"claim", "sendback", "rebind", "bind"}
  PROVE  /\ Resumes(task[On(p)], task'[On(p)])
         /\ \A u \in Tasks \ {On(p)} : task'[u] = task[u]
  <1> DEFINE k == task[On(p)]
  <1>1. k \in Task /\ proc[p].flag \in BOOLEAN
    BY DEF TypeInv, TypeOK, Handler
  <1>2. At(p, "complete") => proc[p].outcome \in Terminal
    BY DEF TypeInv, Engaged, At
  <1>3. ASSUME NEW new, Write(On(p), new), Resumes(k, new)
        PROVE  /\ Resumes(task[On(p)], task'[On(p)])
               /\ \A u \in Tasks \ {On(p)} : task'[u] = task[u]
    BY <1>3 DEF Write, TypeInv, TypeOK
  <1>4. CASE At(p, "complete") /\ Write(On(p), Completed(k, proc[p].outcome))
    <2>1. Resumes(k, Completed(k, proc[p].outcome))
      BY <1>1, <1>2, <1>4, NothingStarted
    <2> QED BY <1>3, <1>4, <2>1
  <1>5. CASE At(p, "requeue") /\ Write(On(p), Requeued(k, proc[p].flag))
    <2>1. Resumes(k, Requeued(k, proc[p].flag))
      BY <1>1, NothingStarted DEF Terminal
    <2> QED BY <1>3, <1>5, <2>1
  <1>6. /\ Resumes(k, HeldBack(k)) /\ Resumes(k, HandedBack(k)) /\ Resumes(k, Released(k))
        /\ Resumes(k, [k EXCEPT !.failures = 0]) /\ Resumes(k, Unblocked(k))
        /\ Resumes(k, ReportedBlocked(k)) /\ Resumes(k, Submitted(k))
        /\ Resumes(k, MovedToBlocked(k)) /\ Resumes(k, Widened(k)) /\ Resumes(k, Parked(k))
    BY <1>1, NothingStarted DEF Terminal
  <1>7. CASE Write(On(p), HeldBack(k)) \/ Write(On(p), HandedBack(k)) \/ Write(On(p), Released(k))
             \/ Write(On(p), [k EXCEPT !.failures = 0]) \/ Write(On(p), Unblocked(k))
    BY <1>3, <1>6, <1>7
  <1>8. CASE Write(On(p), ReportedBlocked(k)) \/ Write(On(p), Submitted(k))
             \/ Write(On(p), MovedToBlocked(k)) \/ Write(On(p), Widened(k))
             \/ Write(On(p), Parked(k))
    BY <1>3, <1>6, <1>8
  <1> QED BY <1>4, <1>5, <1>7, <1>8 DEF WritesOwnRow, At

\* While nothing restarts work past the queue, a claim alone starts it.
LEMMA StartedByClaim ==
  ASSUME TypeInv, NoRestart, NoRestart', NEW p \in Procs, RowsChangeBy(p), NEW u \in Tasks
  PROVE  Resumes(task[u], task'[u]) \/ (At(p, "claim") /\ On(p) = u)
  <1>1. CASE task'[u] = task[u]
    BY <1>1 DEF Resumes
  <1>2. CASE On(p) = u /\ WritesOwnRow(p, u) /\ ~At(p, "claim")
    BY <1>2, OwnRowStarts DEF NoRestart, At
  <1>3. CASE WritesAtOnce(p, u)
    <2>1. proc'[p].at # "rebind" /\ task[u] \in Task
      BY DEF NoRestart, TypeInv, TypeOK
    <2>2. ASSUME NEW new, Write(u, new), Resumes(task[u], new) PROVE Resumes(task[u], task'[u])
      BY <2>2 DEF Write, TypeInv, TypeOK
    <2>3. CASE Write(u, MovedToBlocked(task[u]))
      BY <2>1, <2>2, <2>3, NothingStarted DEF Terminal
    <2>4. ASSUME NEW s \in Sessions, NEW paths \in BOOLEAN, Write(u, Edited(task[u], s, paths))
          PROVE  Resumes(task[u], task'[u])
      <3>1. Resumes(task[u], Edited(task[u], s, paths))
        BY <2>1, NothingStarted DEF Terminal
      <3> QED BY <2>2, <2>4, <3>1
    <2> QED BY <1>3, <2>1, <2>3, <2>4 DEF WritesAtOnce
  <1> QED BY <1>1, <1>2, <1>3, OwnRow, AtOnceRow DEF RowsChangeBy

LEMMA NoRestartContinues ==
  ASSUME TypeInv, NoRestart, NEW p \in Procs, Continue(p)
  PROVE  proc'[p].at \notin {"findings", "sendback", "rebind", "bind", "seat", "brief"}
  <1>1. proc[p].at \notin {"findings", "sendback", "rebind", "bind", "seat", "brief"}
    BY DEF NoRestart
  <1> USE <1>1 DEF At, Return, Goto, Idle, TypeInv, TypeOK, Handler
  <1>2. CASE DispatchStep(p)
    BY <1>2 DEF DispatchStep, AwaitClaim, Offer, CheckPaths, WorkerNotReady, WorkerReady, Claim, CheckBlockers, HoldBack, ResolveTarget, RecheckPaths, HandBack, ReleaseFailedClaim, Deliver, ResetFailures
  <1>3. CASE ReportStep(p)
    BY <1>3 DEF ReportStep, ReportBlocked, SubmitReport, HoldForReview, Complete, SettleOffer, ClearPending
  <1>4. CASE ReviewStep(p)
    BY <1>4 DEF ReviewStep, RecordFindings, SendBack, Rebind
  <1>5. CASE ManageStep(p)
    BY <1>5 DEF ManageStep, Requeue, Relink, TakeSeat, LeaveSeat, ParkDeclined, Assign, BindDirect, SeatWorker, SendBrief, NoteWrite, ParkFailed, Link
  <1>6. CASE Unblock(p)
    BY <1>6 DEF Unblock
  <1> QED BY <1>2, <1>3, <1>4, <1>5, <1>6 DEF Continue

LEMMA NoRestartBegins ==
  ASSUME TypeInv, NoRestart, NEW p \in Procs, NEW t \in Tasks, Begin(p, t),
         Ops \cap Restarting = {}
  PROVE  proc'[p].at \notin {"findings", "sendback", "rebind", "bind", "seat", "brief"}
  <1> USE DEF Free, Start, At, TypeInv, TypeOK, Idle, Restarting, NoRestart
  <1>1. CASE BeginDispatch(p, t)
    BY <1>1 DEF BeginDispatch
  <1>2. CASE BeginUnblock(p, t)
    BY <1>2 DEF BeginUnblock
  <1>3. CASE BeginReport(p, t)
    BY <1>3 DEF BeginReport
  <1>4. CASE BeginReview(p, t)
    BY <1>4 DEF BeginReview
  <1>5. CASE Revise(p, t)
    BY <1>5 DEF Revise
  <1>6. CASE BeginFinish(p, t)
    BY <1>6 DEF BeginFinish
  <1>7. CASE MoveToBlocked(p, t)
    BY <1>7 DEF MoveToBlocked
  <1>8. CASE BeginRequeue(p, t)
    BY <1>8 DEF BeginRequeue
  <1>9. CASE BeginTake(p, t)
    BY <1>9 DEF BeginTake
  <1>10. CASE BeginDecline(p, t)
    BY <1>10 DEF BeginDecline
  <1>11. CASE BeginAssign(p, t)
    BY <1>11 DEF BeginAssign
  <1>12. CASE BeginDirect(p, t)
    BY <1>12 DEF BeginDirect
  <1>13. CASE Edit(p, t)
    BY <1>13 DEF Edit
  <1>14. CASE BeginWrite(p, t)
    BY <1>14 DEF BeginWrite
  <1>15. CASE BeginFailure(p, t)
    BY <1>15 DEF BeginFailure
  <1>16. CASE BeginLink(p, t)
    BY <1>16 DEF BeginLink
  <1>17. CASE Unlink(p, t)
    BY <1>17 DEF Unlink
  <1> QED BY <1>1, <1>2, <1>3, <1>4, <1>5, <1>6, <1>7, <1>8, <1>9, <1>10, <1>11, <1>12, <1>13, <1>14, <1>15, <1>16, <1>17 DEF Begin

LEMMA NoRestartKept ==
  ASSUME TypeInv, NoRestart, [Next]_vars, Ops \cap Restarting = {}
  PROVE  NoRestart'
  <1>1. CASE UNCHANGED vars
    BY <1>1 DEF vars, NoRestart
  <1>2. ASSUME NEW p \in Procs, Continue(p) PROVE NoRestart'
    BY <1>2, ContinueFrame, NoRestartContinues DEF NoRestart
  <1>3. ASSUME NEW p \in Procs, NEW t \in Tasks, Begin(p, t) PROVE NoRestart'
    BY <1>3, DispatchingBegins, NoRestartBegins DEF NoRestart
  <1>4. ASSUME NEW p \in Procs, Abandon(p) PROVE NoRestart'
    BY <1>4 DEF Abandon, Return, Idle, NoRestart, TypeInv, TypeOK
  <1> QED BY <1>1, <1>2, <1>3, <1>4 DEF Next

\* Seen by the other handlers, a step that is not the dispatcher's starts
\* nothing and counts nothing; the dispatcher's is the only dispatch.
LEMMA OnlyDispatch ==
  ASSUME Dispatched, OneDispatcher, NEW p \in Procs, NEW q \in Procs,
         proc[p].at \in Dispatching, proc[q].at \in Dispatching
  PROVE  p = q
  BY DEF Dispatched, OneDispatcher

\* The dispatcher's own step.
LEMMA OwnDispatch ==
  ASSUME EnvelopeInv, NEW p \in Procs, Continue(p)
  PROVE  /\ proc'[p].at \in Queued => task'[proc'[p].task].status # "in_progress"
         /\ proc'[p].at \in Delivering => envelopes'[proc'[p].task] = 0
  <1>0. /\ proc'[p].at \in Dispatching => proc[p].at \in Dispatching /\ proc'[p].task = On(p)
        /\ proc'[p].at \in Queued => UNCHANGED task
    BY DispatchingContinues DEF EnvelopeInv
  <1>1. ASSUME proc'[p].at \in Queued PROVE task'[proc'[p].task].status # "in_progress"
    <2>1. proc[p].at \in Queued
      BY <1>1 DEF Queued, Continue, DispatchStep, ReportStep, ReviewStep, ManageStep, At,
         Goto, Return, Idle, AwaitClaim, Offer, CheckPaths, WorkerNotReady, WorkerReady, Claim,
         CheckBlockers, HoldBack, ResolveTarget, RecheckPaths, HandBack, ReleaseFailedClaim,
         Deliver, ResetFailures, Unblock, ReportBlocked, SubmitReport, HoldForReview, Complete,
         SettleOffer, ClearPending, RecordFindings, SendBack, Rebind, Requeue, Relink, TakeSeat,
         LeaveSeat, ParkDeclined, Assign, BindDirect, SeatWorker, SendBrief, NoteWrite,
         ParkFailed, Link, EnvelopeInv, TypeInv, TypeOK, Handler
    <2> QED BY <1>0, <1>1, <2>1 DEF EnvelopeInv, Unclaimed, Dispatching
  <1>2. ASSUME proc'[p].at \in Delivering PROVE envelopes'[proc'[p].task] = 0
    <2>1. proc'[p].task = On(p) /\ On(p) \in Tasks
      BY <1>0, <1>2, RowType DEF Dispatching, At, Queued, Delivering, Ready, EnvelopeInv
    <2>2. proc[p].at \in Delivering \/ Claim(p)
      BY <1>2 DEF Delivering, Ready, Continue, DispatchStep, ReportStep, ReviewStep, ManageStep, At,
         Goto, Return, Idle, AwaitClaim, Offer, CheckPaths, WorkerNotReady, WorkerReady,
         CheckBlockers, HoldBack, ResolveTarget, RecheckPaths, HandBack, ReleaseFailedClaim,
         Deliver, ResetFailures, Unblock, ReportBlocked, SubmitReport, HoldForReview, Complete,
         SettleOffer, ClearPending, RecordFindings, SendBack, Rebind, Requeue, Relink, TakeSeat,
         LeaveSeat, ParkDeclined, Assign, BindDirect, SeatWorker, SendBrief, NoteWrite,
         ParkFailed, Link, EnvelopeInv, TypeInv, TypeOK, Handler
    <2>3. CASE Claim(p)
      <3>1. Row(p) \in Task /\ Row(p).status # "in_progress"
        BY <2>1, <2>3 DEF Claim, At, EnvelopeInv, Unclaimed, Queued, Row, TypeInv, TypeOK
      <3>2. CASE Row(p).status = "todo"
        BY <2>1, <2>3, <3>2 DEF Claim, EnvelopeInv, TypeInv, TypeOK
      <3>3. CASE Row(p).status # "todo"
        <4>1. Return(p)
          BY <2>3, <3>1, <3>3 DEF Claim, Claimed
        <4> QED BY <1>2, <4>1 DEF Return, Idle, Delivering, Ready, EnvelopeInv, TypeInv, TypeOK
      <3> QED BY <3>2, <3>3
    <2>4. CASE proc[p].at \in Delivering
      <3>1. envelopes[On(p)] = 0
        BY <2>4 DEF EnvelopeInv, Unsent
      <3>2. CASE UNCHANGED envelopes
        BY <2>1, <3>1, <3>2
      <3>3. CASE At(p, "deliver") /\ Goto(p, "reset")
        BY <1>2, <3>3 DEF Goto, Delivering, Ready, EnvelopeInv, TypeInv, TypeOK, Handler
      <3> QED BY <2>4, <3>2, <3>3, ContinueEnvelopes
              DEF Claim, At, Delivering, Ready, EnvelopeInv
    <2> QED BY <2>2, <2>3, <2>4
  <1> QED BY <1>1, <1>2

\* What the others believe survives a step that is no claim and no delivery,
\* and the dispatcher's steps disturb nobody.
LEMMA OthersKept ==
  ASSUME EnvelopeInv, OneDispatcher, NoRestart', NEW p \in Procs, RowsChangeBy(p),
         UNCHANGED envelopes \/ proc[p].at \in {"claim", "deliver"},
         NEW q \in Procs \ {p}, proc'[q] = proc[q]
  PROVE  /\ proc'[q].at \in Queued => task'[proc'[q].task].status # "in_progress"
         /\ proc'[q].at \in Delivering => envelopes'[proc'[q].task] = 0
  <1>1. ASSUME proc[q].at \in Queued PROVE task'[On(q)].status # "in_progress"
    <2>1. On(q) \in Tasks
      BY <1>1, RowType DEF At, Queued, EnvelopeInv
    <2>2. ~At(p, "claim")
      BY <1>1, OnlyDispatch DEF At, Dispatching, Queued, EnvelopeInv
    <2>3. Resumes(task[On(q)], task'[On(q)])
      BY <2>1, <2>2, StartedByClaim DEF EnvelopeInv
    <2> QED BY <1>1, <2>3 DEF Resumes, EnvelopeInv, Unclaimed
  <1>2. ASSUME proc[q].at \in Delivering PROVE envelopes'[On(q)] = 0
    <2>1. proc[p].at \notin {"claim", "deliver"}
      BY <1>2, OnlyDispatch DEF Dispatching, Queued, Delivering, Ready, EnvelopeInv
    <2> QED BY <1>2, <2>1 DEF EnvelopeInv, Unsent
  <1> QED BY <1>1, <1>2 DEF On

LEMMA EnvelopeInductive ==
  ASSUME EnvelopeInv, [Next]_vars, OneDispatcher, Ops \cap Restarting = {}
  PROVE  EnvelopeInv'
  <1>1. TypeInv' /\ NoRestart' /\ Dispatched'
    BY TypeInvInductive, NoRestartKept, DispatchedKept DEF EnvelopeInv
  <1>2. CASE UNCHANGED vars
    BY <1>1, <1>2 DEF vars, EnvelopeInv, Unclaimed, Unsent, OneEnvelopePerClaim, On
  <1>3. ASSUME NEW p \in Procs, Continue(p) PROVE EnvelopeInv'
    <2>1. RowsChangeBy(p) /\ \A q \in Procs \ {p} : proc'[q] = proc[q]
      BY <1>3, ContinueWrites, ContinueFrame DEF EnvelopeInv
    <2>2. proc[p].at \notin {"bind", "brief"}
      BY DEF EnvelopeInv, NoRestart
    <2>3. \/ UNCHANGED envelopes
          \/ Claim(p) /\ Row(p).status = "todo" /\ envelopes' = [envelopes EXCEPT ![On(p)] = 0]
          \/ At(p, "deliver") /\ envelopes' = Counted(On(p)) /\ Goto(p, "reset")
      BY <1>3, <2>2, ContinueEnvelopes DEF EnvelopeInv
    <2>4. UNCHANGED envelopes \/ proc[p].at \in {"claim", "deliver"}
      BY <2>3 DEF Claim, At
    <2>5. (Unclaimed /\ Unsent)'
      BY <1>1, <1>3, <2>1, <2>4, OwnDispatch, OthersKept DEF Unclaimed, Unsent, On
    <2>6. OneEnvelopePerClaim'
      <3>1. CASE UNCHANGED envelopes
        BY <3>1 DEF EnvelopeInv, OneEnvelopePerClaim
      <3>2. CASE envelopes' = [envelopes EXCEPT ![On(p)] = 0]
        BY <3>2 DEF EnvelopeInv, OneEnvelopePerClaim, TypeInv, TypeOK
      <3>3. CASE At(p, "deliver") /\ envelopes' = Counted(On(p))
        <4>1. envelopes[On(p)] = 0
          BY <3>3 DEF At, EnvelopeInv, Unsent, Delivering, Ready
        <4>2. envelopes' = [envelopes EXCEPT ![On(p)] = 1]
          BY <3>3, <4>1 DEF Counted, MaxEnvelopes
        <4> QED BY <4>2 DEF EnvelopeInv, OneEnvelopePerClaim, TypeInv, TypeOK
      <3> QED BY <2>3, <3>1, <3>2, <3>3
    <2> QED BY <1>1, <2>5, <2>6 DEF EnvelopeInv
  <1>4. ASSUME NEW p \in Procs, NEW t \in Tasks, Begin(p, t) PROVE EnvelopeInv'
    <2>1. /\ RowsChangeBy(p) /\ UNCHANGED envelopes
          /\ \A q \in Procs \ {p} : proc'[q] = proc[q]
          /\ proc'[p].at \in Dispatching =>
               UNCHANGED task /\ proc'[p].at = "await" /\ proc'[p].task = t /\ task[t].status = "todo"
      BY <1>4, BeginWrites, DispatchingBegins DEF EnvelopeInv
    <2>2. /\ proc'[p].at \in Queued => task'[proc'[p].task].status # "in_progress"
          /\ proc'[p].at \notin Delivering
      BY <2>1 DEF Dispatching, Queued, Delivering, Ready
    <2>3. (Unclaimed /\ Unsent)'
      BY <1>1, <2>1, <2>2, OthersKept DEF Unclaimed, Unsent, On
    <2> QED BY <1>1, <2>1, <2>3 DEF EnvelopeInv, OneEnvelopePerClaim
  <1>5. ASSUME NEW p \in Procs, Abandon(p) PROVE EnvelopeInv'
    <2>1. proc'[p].at \notin Dispatching /\ \A q \in Procs \ {p} : proc'[q] = proc[q]
      BY <1>5 DEF Abandon, Return, Idle, Dispatching, Queued, Delivering, Ready,
                  EnvelopeInv, TypeInv, TypeOK
    <2>2. UNCHANGED <<task, envelopes>>
      BY <1>5 DEF Abandon
    <2> QED BY <1>1, <2>1, <2>2
            DEF EnvelopeInv, Unclaimed, Unsent, OneEnvelopePerClaim, On, Dispatching
  <1> QED BY <1>2, <1>3, <1>4, <1>5 DEF Next

\* Whatever agents, people and the sessions do meanwhile, and wherever
\* handlers are cut off, a claim is delivered once while one dispatcher runs
\* and nothing puts a task in progress past the queue.  A verdict sending work
\* back, a revision or a direct delivery while the dispatcher is between its
\* look at the task and its claim makes it deliver again.
THEOREM OneEnvelopeEach ==
  ASSUME OneDispatcher, Ops \cap Restarting = {}
  PROVE  Spec => []OneEnvelopePerClaim
  <1>1. Init => EnvelopeInv
    <2> SUFFICES ASSUME Init PROVE EnvelopeInv
      OBVIOUS
    <2>1. TypeInv
      BY InitTypes
    <2>2. \A p \in Procs : proc[p] = Idle
      BY DEF Init
    <2>3. OneEnvelopePerClaim
      BY DEF Init, OneEnvelopePerClaim
    <2> QED BY <2>1, <2>2, <2>3
        DEF EnvelopeInv, NoRestart, Dispatched, Unclaimed, Unsent, Idle, Dispatching,
            Queued, Delivering, Ready
  <1>2. EnvelopeInv /\ [Next]_vars => EnvelopeInv'
    BY EnvelopeInductive
  <1>3. EnvelopeInv => OneEnvelopePerClaim
    BY DEF EnvelopeInv
  <1> QED BY <1>1, <1>2, <1>3, PTL DEF Spec

(***************************************************************************)
(* Disjoint workers.  The dispatcher that is about to deliver has seen     *)
(* that its task shares paths with nothing in progress (Clear), and only   *)
(* its own claims put work in progress on owned paths, with the count      *)
(* started again.                                                          *)
(***************************************************************************)
Clear == \A p \in Procs : At(p, "deliver") => \A u \in Tasks : ~Sharing(On(p), u)

DisjointInv == TypeInv /\ Quiet /\ Disowned /\ Dispatched /\ Clear /\ WorkersDisjoint

\* A sharing that a step brings about is the dispatcher's claim of one of the
\* two tasks.
LEMMA NewSharing ==
  ASSUME NEW p \in Procs, PathStep(p), NEW t \in Tasks, NEW u \in Tasks,
         Sharing(t, u)', ~Sharing(t, u)
  PROVE  At(p, "claim") /\ \E v \in {t, u} : On(p) = v /\ ~Live(v) /\ Live(v)'
  <1>1. PICK v \in {t, u} : ~Live(v) /\ Live(v)'
    BY SharingLive
  <1>2. At(p, "claim") /\ On(p) = v
    BY <1>1, NewlyLive
  <1> QED BY <1>1, <1>2

LEMMA ClaimIs ==
  ASSUME NEW p \in Procs, At(p, "claim"), Continue(p)
  PROVE  Claim(p)
  BY DEF CheckBlockers, HoldBack, ResolveTarget, RecheckPaths, HandBack,
         ReleaseFailedClaim, Continue, DispatchStep, ReportStep, ReviewStep, ManageStep, At,
         AwaitClaim, Offer, CheckPaths, WorkerNotReady, WorkerReady, Deliver, ResetFailures,
         Unblock, ReportBlocked, SubmitReport, HoldForReview, Complete, SettleOffer,
         ClearPending, RecordFindings, SendBack, Rebind, Requeue, Relink, TakeSeat, LeaveSeat,
         ParkDeclined, Assign, BindDirect, SeatWorker, SendBrief, NoteWrite, ParkFailed, Link

\* A claim that puts its task in progress starts the count again.
LEMMA ClaimCounts ==
  ASSUME TypeInv, NEW p \in Procs, Claim(p), NEW v \in Tasks, On(p) = v, ~Live(v), Live(v)'
  PROVE  envelopes'[v] = 0
  <1>1. Row(p) \in Task /\ Row(p) = task[v]
    BY DEF TypeInv, TypeOK, Row
  <1>2. task'[v] = Claimed(task[v])
    BY <1>1 DEF Claim, Write, TypeInv, TypeOK
  <1>3. task[v].status = "todo"
    <2> SUFFICES ASSUME task[v].status # "todo" PROVE FALSE
      OBVIOUS
    <2>1. task'[v] = task[v]
      BY <1>2 DEF Claimed
    <2> QED BY <2>1 DEF Live
  <1> QED BY <1>1, <1>3 DEF Claim, TypeInv, TypeOK

\* What the dispatcher saw before its delivery stands while others act.
LEMMA ClearKept ==
  ASSUME DisjointInv, OneDispatcher, NEW p \in Procs, PathStep(p),
         NEW q \in Procs \ {p}, At(q, "deliver"), NEW t \in Tasks, On(q) = t, NEW u \in Tasks
  PROVE  ~Sharing(t, u)'
  <1>1. ~Sharing(t, u)
    BY DEF DisjointInv, Clear
  <1>2. ~At(p, "claim")
    BY OnlyDispatch DEF At, Dispatching, Queued, Delivering, Ready, DisjointInv
  <1> QED BY <1>1, <1>2, NewSharing

\* The dispatcher comes to deliver from its second look at the paths only.
LEMMA ClearSeen ==
  ASSUME TypeInv, NEW p \in Procs, Continue(p), proc'[p].at = "deliver",
         NEW t \in Tasks, proc'[p].task = t, NEW u \in Tasks
  PROVE  ~Sharing(t, u)'
  <1>1. RecheckPaths(p)
    BY DEF CheckBlockers, HoldBack, ResolveTarget, HandBack, Goto, Return, Idle, TypeInv, TypeOK,
         Handler, ReleaseFailedClaim, Continue, DispatchStep, ReportStep, ReviewStep, ManageStep,
         At, Claim, AwaitClaim, Offer, CheckPaths, WorkerNotReady, WorkerReady, Deliver,
         ResetFailures, Unblock, ReportBlocked, SubmitReport, HoldForReview, Complete,
         SettleOffer, ClearPending, RecordFindings, SendBack, Rebind, Requeue, Relink, TakeSeat,
         LeaveSeat, ParkDeclined, Assign, BindDirect, SeatWorker, SendBrief, NoteWrite,
         ParkFailed, Link
  <1>2. On(p) = t
    BY <1>1 DEF RecheckPaths, Goto, On, TypeInv, TypeOK, Handler
  <1>3. ~(Row(p).status = "in_progress" /\ Conflicts(On(p)) # {})
    BY <1>1 DEF RecheckPaths, Goto, TypeInv, TypeOK, Handler
  <1>4. ~Sharing(t, u)
    BY <1>2, <1>3 DEF Sharing, Conflicts, Row
  <1>5. UNCHANGED task
    BY <1>1 DEF RecheckPaths
  <1> QED BY <1>4, <1>5 DEF Sharing

LEMMA ClearAll ==
  ASSUME DisjointInv, TypeInv', OneDispatcher, NEW p \in Procs, PathStep(p),
         \/ proc'[p].at # "deliver"
         \/ Continue(p)
  PROVE  Clear'
  <1> SUFFICES ASSUME NEW q \in Procs, proc'[q].at = "deliver", NEW u \in Tasks
               PROVE  ~Sharing(On(q), u)'
    BY DEF Clear, At
  <1>1. PICK t \in Tasks : proc'[q].task = t
    BY DEF TypeInv, Engaged
  <1>2. ~Sharing(t, u)'
    <2>1. CASE q = p
      BY <1>1, <2>1, ClearSeen DEF DisjointInv
    <2>2. CASE q # p
      <3>1. At(q, "deliver") /\ On(q) = t
        BY <1>1, <2>2 DEF PathStep, At, On
      <3> QED BY <2>2, <3>1, ClearKept
    <2> QED BY <2>1, <2>2
  <1> QED BY <1>1, <1>2 DEF Sharing, On

LEMMA DisjointStep ==
  ASSUME DisjointInv, NEW p \in Procs, PathStep(p),
         \/ UNCHANGED envelopes
         \/ At(p, "deliver") /\ envelopes' = Counted(On(p))
         \/ Claim(p),
         At(p, "claim") => Claim(p)
  PROVE  WorkersDisjoint'
  <1> SUFFICES ASSUME NEW t \in Tasks, NEW u \in Tasks, Sharing(t, u)'
               PROVE  envelopes'[t] = 0 \/ envelopes'[u] = 0
    BY DEF WorkersDisjoint
  <1>1. CASE Sharing(t, u)
    <2>1. envelopes[t] = 0 \/ envelopes[u] = 0
      BY <1>1 DEF DisjointInv, WorkersDisjoint
    <2>2. ASSUME NEW v \in {t, u}, envelopes[v] = 0 PROVE envelopes'[v] = 0
      <3>1. CASE UNCHANGED envelopes
        BY <2>2, <3>1
      <3>2. CASE Claim(p)
        BY <2>2, <3>2 DEF Claim, DisjointInv, TypeInv, TypeOK
      <3>3. CASE At(p, "deliver") /\ envelopes' = Counted(On(p))
        <4>1. Sharing(u, t)
          BY <1>1, OverlapAssumption DEF Sharing
        <4>2. On(p) # v
          BY <1>1, <3>3, <4>1 DEF DisjointInv, Clear
        <4> QED BY <2>2, <3>3, <4>2 DEF Counted, DisjointInv, TypeInv, TypeOK
      <3> QED BY <3>1, <3>2, <3>3
    <2> QED BY <2>1, <2>2
  <1>2. CASE ~Sharing(t, u)
    <2>1. PICK v \in {t, u} : At(p, "claim") /\ On(p) = v /\ ~Live(v) /\ Live(v)'
      BY <1>2, NewSharing
    <2>2. envelopes'[v] = 0
      BY <2>1, ClaimCounts DEF DisjointInv
    <2> QED BY <2>1, <2>2
  <1> QED BY <1>1, <1>2

LEMMA DisjointInductive ==
  ASSUME DisjointInv, [Next]_vars, OneDispatcher, Ops \cap Interfering = {}
  PROVE  DisjointInv'
  <1>1. TypeInv' /\ Dispatched'
    BY TypeInvInductive, DispatchedKept DEF DisjointInv
  <1>2. CASE UNCHANGED vars
    BY <1>1, <1>2 DEF vars, DisjointInv, Quiet, Disowned, Finished, Clear, WorkersDisjoint,
                      Sharing, At, On
  <1>3. "edit" \notin Ops
    BY DEF Interfering
  <1>4. ASSUME NEW p \in Procs, PathStep(p), UNCHANGED envelopes, proc'[p].at # "deliver",
               ~At(p, "claim")
        PROVE  DisjointInv'
    <2>1. Clear'
      BY <1>1, <1>4, ClearAll
    <2> QED BY <1>1, <1>4, <2>1, DisownedKept, DisjointStep DEF DisjointInv
  <1>5. ASSUME NEW p \in Procs, Continue(p) PROVE DisjointInv'
    <2>1. PathStep(p)
      BY <1>3, <1>5, ContinueWrites, ContinueFrame, ContinueQuiet DEF PathStep, DisjointInv
    <2>2. proc[p].at \notin {"bind", "brief"}
      BY DEF DisjointInv, Quiet
    <2>3. \/ UNCHANGED envelopes
          \/ Claim(p)
          \/ At(p, "deliver") /\ envelopes' = Counted(On(p))
      BY <1>5, <2>2, ContinueEnvelopes DEF DisjointInv
    <2>4. Clear'
      BY <1>1, <1>5, <2>1, ClearSeen, ClearAll DEF DisjointInv
    <2> QED BY <1>1, <1>5, <2>1, <2>3, <2>4, ClaimIs, DisownedKept, DisjointStep DEF DisjointInv
  <1>6. ASSUME NEW p \in Procs, NEW t \in Tasks, Begin(p, t) PROVE DisjointInv'
    <2>1. PathStep(p) /\ UNCHANGED envelopes /\ At(p, "idle")
      BY <1>3, <1>6, BeginWrites, BeginFrame, DispatchingBegins DEF PathStep, DisjointInv
    <2>2. proc'[p].at # "deliver"
      BY <1>6, DispatchingBegins DEF Dispatching, Delivering, Ready, DisjointInv
    <2> QED BY <1>4, <2>1, <2>2 DEF At
  <1>7. ASSUME NEW p \in Procs, Abandon(p) PROVE DisjointInv'
    <2>1. /\ UNCHANGED <<task, envelopes>>
          /\ proc'[p].at = "idle" /\ \A q \in Procs \ {p} : proc'[q] = proc[q]
      BY <1>7 DEF Abandon, Return, Idle, DisjointInv, TypeInv, TypeOK
    <2>2. (Quiet /\ Disowned)'
      BY <2>1 DEF DisjointInv, Quiet, Disowned, Finished
    <2>3. WorkersDisjoint'
      BY <2>1 DEF DisjointInv, WorkersDisjoint, Sharing
    <2>4. Clear'
      BY <2>1 DEF DisjointInv, Clear, Sharing, At, On
    <2> QED BY <1>1, <2>2, <2>3, <2>4 DEF DisjointInv
  <1> QED BY <1>2, <1>5, <1>6, <1>7 DEF Next

\* Two tasks whose envelopes were both delivered never work on overlapping
\* paths while one dispatcher runs, whatever is reported, finished, requeued,
\* revised or cut off, for any number of tasks and sessions: what starts or
\* widens work without looking at the paths is left out, and each of those
\* four operations breaks it.
THEOREM DeliveredWorkersDisjoint ==
  ASSUME OneDispatcher, Ops \cap Interfering = {}
  PROVE  Spec => []WorkersDisjoint
  <1>1. Init => DisjointInv
    <2> SUFFICES ASSUME Init PROVE DisjointInv
      OBVIOUS
    <2>1. TypeInv
      BY InitTypes
    <2>2. \A p \in Procs : proc[p] = Idle
      BY DEF Init
    <2>3. \A t \in Tasks : task[t].status = "todo"
      BY DEF Init, Filed
    <2> QED BY <2>1, <2>2, <2>3
        DEF DisjointInv, Quiet, Disowned, Finished, Terminal, Dispatched, Clear,
            WorkersDisjoint, Sharing, At, Idle, Dispatching, Queued, Delivering, Ready
  <1>2. DisjointInv /\ [Next]_vars => DisjointInv'
    BY DisjointInductive
  <1>3. DisjointInv => WorkersDisjoint
    BY DEF DisjointInv
  <1> QED BY <1>1, <1>2, <1>3, PTL DEF Spec

(***************************************************************************)
(* The ceiling with one dispatcher.  Only a release counts a failed        *)
(* dispatch, and it is the dispatcher's: what it saw of the count when it  *)
(* took up a task can only have become less.                               *)
(***************************************************************************)
CeilingInv ==
  /\ TypeInv /\ Dispatched /\ ParkedAtCeiling
  /\ \A p \in Procs : proc[p].at \in Dispatching => task[On(p)].failures < MaxDispatchFailures
  /\ \A p \in Procs : At(p, "unblock") => p \in Dispatchers /\ task[On(p)].failures = 0

\* A write that counts no failed dispatch.
Spares(k, new) == new.failures <= k.failures

LEMMA NothingCounted ==
  ASSUME NEW k \in Task, NEW s, NEW outcome \in Terminal, NEW b \in BOOLEAN
  PROVE  /\ Spares(k, Claimed(k)) /\ Spares(k, HeldBack(k)) /\ Spares(k, HandedBack(k))
         /\ Spares(k, [k EXCEPT !.failures = 0]) /\ Spares(k, Unblocked(k))
         /\ Spares(k, ReportedBlocked(k)) /\ Spares(k, Submitted(k))
         /\ Spares(k, Completed(k, outcome)) /\ Spares(k, SentBack(k, s))
         /\ Spares(k, [k EXCEPT !.reporting = s]) /\ Spares(k, Requeued(k, b))
         /\ Spares(k, MovedToBlocked(k)) /\ Spares(k, Bound(k, s)) /\ Spares(k, Widened(k))
         /\ Spares(k, Parked(k)) /\ Spares(k, Revised(k)) /\ Spares(k, Edited(k, s, b))
  <1> USE FailureAssumption DEF Spares, Task
  <1>1. Spares(k, Claimed(k)) /\ Spares(k, HeldBack(k)) /\ Spares(k, HandedBack(k))
    BY DEF Claimed, HeldBack, HandedBack
  <1>2. Spares(k, [k EXCEPT !.failures = 0]) /\ Spares(k, Unblocked(k))
    BY DEF Unblocked
  <1>3. Spares(k, ReportedBlocked(k)) /\ Spares(k, Submitted(k))
    BY DEF ReportedBlocked, Submitted
  <1>4. Spares(k, Completed(k, outcome)) /\ Spares(k, SentBack(k, s))
    BY DEF Completed, SentBack
  <1>5. Spares(k, [k EXCEPT !.reporting = s]) /\ Spares(k, Requeued(k, b))
    BY DEF Requeued
  <1>6. Spares(k, MovedToBlocked(k)) /\ Spares(k, Bound(k, s)) /\ Spares(k, Widened(k))
    BY DEF MovedToBlocked, Bound, Widened
  <1>7. Spares(k, Parked(k)) /\ Spares(k, Revised(k)) /\ Spares(k, Edited(k, s, b))
    BY DEF Parked, Revised, Edited
  <1> QED BY ONLY <1>1, <1>2, <1>3, <1>4, <1>5, <1>6, <1>7

LEMMA CountedByRelease ==
  ASSUME TypeInv, NEW p \in Procs, RowsChangeBy(p), NEW u \in Tasks
  PROVE  Spares(task[u], task'[u]) \/ At(p, "release")
  <1> DEFINE k == task[u]
  <1>1. k \in Task /\ proc[p].flag \in BOOLEAN
    BY DEF TypeInv, TypeOK, Handler
  <1>2. ASSUME NEW new, Write(u, new), Spares(k, new) PROVE Spares(task[u], task'[u])
    BY <1>2 DEF Write, TypeInv, TypeOK
  <1>3. CASE task'[u] = task[u]
    BY <1>1, <1>3 DEF Spares, Task
  <1>4. CASE On(p) = u /\ WritesOwnRow(p, u) /\ ~At(p, "release")
    <2>1. PICK outcome \in Terminal : At(p, "complete") => outcome = proc[p].outcome
      BY DEF TypeInv, Engaged, At, Terminal
    <2>2. PICK s : s = proc[p].session
      OBVIOUS
    <2>3. PICK b \in BOOLEAN : b = proc[p].flag
      BY <1>1
    <2>4. /\ Spares(k, Claimed(k)) /\ Spares(k, HeldBack(k)) /\ Spares(k, HandedBack(k))
          /\ Spares(k, [k EXCEPT !.failures = 0]) /\ Spares(k, Unblocked(k))
          /\ Spares(k, ReportedBlocked(k)) /\ Spares(k, Submitted(k))
          /\ Spares(k, Completed(k, outcome)) /\ Spares(k, SentBack(k, s))
          /\ Spares(k, [k EXCEPT !.reporting = s]) /\ Spares(k, Requeued(k, b))
          /\ Spares(k, MovedToBlocked(k)) /\ Spares(k, Bound(k, s)) /\ Spares(k, Widened(k))
          /\ Spares(k, Parked(k))
      BY <1>1, NothingCounted
    <2>5. \E row : Write(u, row) /\ Spares(k, row)
      BY <1>4, <2>1, <2>2, <2>3, <2>4 DEF WritesOwnRow
    <2> QED BY <1>2, <2>5
  <1>5. CASE WritesAtOnce(p, u)
    <2>1. "done" \in Terminal BY DEF Terminal
    <2>2. Spares(k, Revised(k)) /\ Spares(k, MovedToBlocked(k))
      BY <1>1, <2>1, NothingCounted
    <2>3. \A s \in Sessions, b \in BOOLEAN : Spares(k, Edited(k, s, b))
      BY <1>1, <2>1, NothingCounted
    <2> QED BY <1>2, <1>5, <2>2, <2>3 DEF WritesAtOnce
  <1> QED BY <1>3, <1>4, <1>5, OwnRow, AtOnceRow DEF RowsChangeBy

LEMMA UnblockBegins ==
  ASSUME TypeInv, NEW p \in Procs, NEW t \in Tasks, Begin(p, t), proc'[p].at = "unblock"
  PROVE  /\ p \in Dispatchers /\ UNCHANGED task
         /\ proc'[p].task = t /\ task[t].failures = 0
  <1> USE DEF Free, Start, At, TypeInv, TypeOK, Idle
  <1>1. CASE BeginDispatch(p, t)
    BY <1>1 DEF BeginDispatch
  <1>2. CASE BeginUnblock(p, t)
    BY <1>2 DEF BeginUnblock
  <1>3. CASE BeginReport(p, t)
    BY <1>3 DEF BeginReport
  <1>4. CASE BeginReview(p, t)
    <2>1. proc'[p].at \in {"complete", "findings"}
      BY <1>4, ZenonT(60) DEF BeginReview
    <2> QED BY <2>1
  <1>5. CASE Revise(p, t)
    BY <1>5 DEF Revise
  <1>6. CASE BeginFinish(p, t)
    BY <1>6 DEF BeginFinish
  <1>7. CASE MoveToBlocked(p, t)
    BY <1>7 DEF MoveToBlocked
  <1>8. CASE BeginRequeue(p, t)
    BY <1>8 DEF BeginRequeue
  <1>9. CASE BeginTake(p, t)
    BY <1>9 DEF BeginTake
  <1>10. CASE BeginDecline(p, t)
    BY <1>10 DEF BeginDecline
  <1>11. CASE BeginAssign(p, t)
    BY <1>11 DEF BeginAssign
  <1>12. CASE BeginDirect(p, t)
    BY <1>12 DEF BeginDirect
  <1>13. CASE Edit(p, t)
    BY <1>13 DEF Edit
  <1>14. CASE BeginWrite(p, t)
    BY <1>14 DEF BeginWrite
  <1>15. CASE BeginFailure(p, t)
    BY <1>15 DEF BeginFailure
  <1>16. CASE BeginLink(p, t)
    BY <1>16 DEF BeginLink
  <1>17. CASE Unlink(p, t)
    BY <1>17 DEF Unlink
  <1> QED BY <1>1, <1>2, <1>3, <1>4, <1>5, <1>6, <1>7, <1>8, <1>9, <1>10, <1>11, <1>12, <1>13, <1>14, <1>15, <1>16, <1>17 DEF Begin

\* No step of a handler in flight leads to an unblock or past a release.
LEMMA UnblockIsBegun ==
  ASSUME TypeInv, NEW p \in Procs, Continue(p)
  PROVE  /\ proc'[p].at # "unblock"
         /\ At(p, "release") => proc'[p].at = "idle"
  <1> USE DEF At, Return, Goto, Idle, TypeInv, TypeOK, Handler
  <1>2. CASE DispatchStep(p)
    BY <1>2 DEF DispatchStep, AwaitClaim, Offer, CheckPaths, WorkerNotReady, WorkerReady, Claim, CheckBlockers, HoldBack, ResolveTarget, RecheckPaths, HandBack, ReleaseFailedClaim, Deliver, ResetFailures
  <1>3. CASE ReportStep(p)
    BY <1>3 DEF ReportStep, ReportBlocked, SubmitReport, HoldForReview, Complete, SettleOffer, ClearPending
  <1>4. CASE ReviewStep(p)
    BY <1>4 DEF ReviewStep, RecordFindings, SendBack, Rebind
  <1>5. CASE ManageStep(p)
    BY <1>5 DEF ManageStep, Requeue, Relink, TakeSeat, LeaveSeat, ParkDeclined, Assign, BindDirect, SeatWorker, SendBrief, NoteWrite, ParkFailed, Link
  <1>6. CASE Unblock(p)
    BY <1>6 DEF Unblock
  <1> QED BY <1>2, <1>3, <1>4, <1>5, <1>6 DEF Continue

\* What the dispatcher saw of a count stands while others act.
LEMMA CountsKept ==
  ASSUME CeilingInv, TypeInv', OneDispatcher, NEW p \in Procs, RowsChangeBy(p),
         NEW q \in Procs \ {p}, proc'[q] = proc[q]
  PROVE  /\ proc[q].at \in Dispatching => task'[On(q)].failures < MaxDispatchFailures
         /\ At(q, "unblock") => task'[On(q)].failures = 0
  <1> SUFFICES ASSUME proc[q].at \in Dispatching \/ At(q, "unblock")
               PROVE  /\ proc[q].at \in Dispatching => task'[On(q)].failures < MaxDispatchFailures
                      /\ At(q, "unblock") => task'[On(q)].failures = 0
    OBVIOUS
  <1>1. On(q) \in Tasks
    BY RowType DEF At, Dispatching, Queued, Delivering, Ready, CeilingInv
  <1>2. ~At(p, "release")
    BY DEF At, Dispatching, Queued, Delivering, Ready, CeilingInv, Dispatched, OneDispatcher
  <1>3. Spares(task[On(q)], task'[On(q)])
    BY <1>1, <1>2, CountedByRelease DEF CeilingInv
  <1>4. task[On(q)].failures \in Nat /\ task'[On(q)].failures \in Nat
    BY <1>1, FailureAssumption DEF CeilingInv, TypeInv, TypeOK, Task
  <1>5. /\ proc[q].at \in Dispatching => task[On(q)].failures < MaxDispatchFailures
        /\ At(q, "unblock") => task[On(q)].failures = 0
    BY DEF CeilingInv
  <1> QED BY <1>3, <1>4, <1>5, FailureAssumption DEF Spares

LEMMA CeilingInductive ==
  ASSUME CeilingInv, [Next]_vars, OneDispatcher
  PROVE  CeilingInv'
  <1>1. TypeInv' /\ Dispatched'
    BY TypeInvInductive, DispatchedKept DEF CeilingInv
  <1>2. CASE UNCHANGED vars
    BY <1>1, <1>2 DEF vars, CeilingInv, ParkedAtCeiling, At, On
  <1>3. ASSUME NEW p \in Procs, RowsChangeBy(p), \A q \in Procs \ {p} : proc'[q] = proc[q],
               proc'[p].at \in Dispatching => task'[proc'[p].task].failures < MaxDispatchFailures,
               proc'[p].at = "unblock" =>
                 p \in Dispatchers /\ task'[proc'[p].task].failures = 0
        PROVE  CeilingInv'
    <2>1. proc[p].at \in {"handback", "unblock"} => task[On(p)].failures < MaxDispatchFailures
      BY FailureAssumption DEF CeilingInv, Dispatching, Delivering, At
    <2>2. ParkedAtCeiling'
      BY <1>3, <2>1, CeilingKept DEF CeilingInv
    <2>3. ASSUME NEW q \in Procs
          PROVE  /\ proc'[q].at \in Dispatching => task'[proc'[q].task].failures < MaxDispatchFailures
                 /\ proc'[q].at = "unblock" =>
                      q \in Dispatchers /\ task'[proc'[q].task].failures = 0
      <3>1. CASE q = p
        BY <1>3, <3>1
      <3>2. CASE q # p
        <4>1. proc'[q] = proc[q]
          BY <1>3, <3>2
        <4>2. /\ proc[q].at \in Dispatching => task'[On(q)].failures < MaxDispatchFailures
              /\ At(q, "unblock") => task'[On(q)].failures = 0
          BY <1>1, <1>3, <3>2, CountsKept
        <4> QED BY <4>1, <4>2 DEF CeilingInv, At, On
      <3> QED BY <3>1, <3>2
    <2> QED BY <1>1, <2>2, <2>3 DEF CeilingInv, At, On
  <1>4. ASSUME NEW p \in Procs, Continue(p) PROVE CeilingInv'
    <2>1. RowsChangeBy(p) /\ \A q \in Procs \ {p} : proc'[q] = proc[q]
      BY <1>4, ContinueWrites, ContinueFrame DEF CeilingInv
    <2>2. proc'[p].at # "unblock" /\ (At(p, "release") => proc'[p].at = "idle")
      BY <1>4, UnblockIsBegun DEF CeilingInv
    <2>3. ASSUME proc'[p].at \in Dispatching
          PROVE  task'[proc'[p].task].failures < MaxDispatchFailures
      <3>1. proc[p].at \in Dispatching /\ proc'[p].task = On(p)
        BY <1>4, <2>3, DispatchingContinues DEF CeilingInv
      <3>2. On(p) \in Tasks /\ ~At(p, "release")
        BY <2>2, <2>3, <3>1, RowType DEF At, Dispatching, Queued, Delivering, Ready, CeilingInv
      <3>3. Spares(task[On(p)], task'[On(p)])
        BY <2>1, <3>2, CountedByRelease DEF CeilingInv
      <3>4. task[On(p)].failures \in Nat /\ task'[On(p)].failures \in Nat
        BY <1>1, <3>2, FailureAssumption DEF CeilingInv, TypeInv, TypeOK, Task
      <3>5. task[On(p)].failures < MaxDispatchFailures
        BY <3>1 DEF CeilingInv
      <3> QED BY <3>1, <3>3, <3>4, <3>5, FailureAssumption DEF Spares
    <2> QED BY <1>3, <2>1, <2>2, <2>3
  <1>5. ASSUME NEW p \in Procs, NEW t \in Tasks, Begin(p, t) PROVE CeilingInv'
    <2>1. /\ RowsChangeBy(p)
          /\ \A q \in Procs \ {p} : proc'[q] = proc[q]
          /\ proc'[p].at \in Dispatching =>
               UNCHANGED task /\ proc'[p].task = t /\ task[t].status = "todo"
      BY <1>5, BeginWrites, DispatchingBegins DEF CeilingInv
    <2>2. proc'[p].at = "unblock" =>
            p \in Dispatchers /\ UNCHANGED task /\ proc'[p].task = t /\ task[t].failures = 0
      BY <1>5, UnblockBegins DEF CeilingInv
    <2>3. proc'[p].at \in Dispatching => task'[proc'[p].task].failures < MaxDispatchFailures
      BY <2>1 DEF CeilingInv, ParkedAtCeiling
    <2> QED BY <1>3, <2>1, <2>2, <2>3
  <1>6. ASSUME NEW p \in Procs, Abandon(p) PROVE CeilingInv'
    <2>1. /\ UNCHANGED task /\ proc'[p].at = "idle"
          /\ \A q \in Procs \ {p} : proc'[q] = proc[q]
      BY <1>6 DEF Abandon, Return, Idle, CeilingInv, TypeInv, TypeOK
    <2>2. proc'[p].at \notin Dispatching /\ proc'[p].at # "unblock"
      BY <2>1 DEF Dispatching, Queued, Delivering, Ready
    <2> QED BY <1>3, <2>1, <2>2 DEF RowsChangeBy
  <1> QED BY <1>2, <1>4, <1>5, <1>6 DEF Next

(***************************************************************************)
(* A queued task is below the dispatch ceiling, with every operation in    *)
(* use and handlers of any number cut off anywhere: unblocking skips what  *)
(* the ceiling parked, a claim released at the ceiling parks, and a        *)
(* requeue starts the count again.  One dispatcher is needed: an unblock   *)
(* that read the count before another dispatcher released its claim puts a *)
(* parked task back into the queue.                                        *)
(***************************************************************************)
THEOREM QueueBelowCeiling ==
  ASSUME OneDispatcher PROVE Spec => []ParkedAtCeiling
  <1>1. Init => CeilingInv
    <2> SUFFICES ASSUME Init PROVE CeilingInv
      OBVIOUS
    <2>1. TypeInv
      BY InitTypes
    <2>2. \A p \in Procs : proc[p].at = "idle"
      BY DEF Init, Idle
    <2>3. \A t \in Tasks : task[t].failures = 0
      BY DEF Init, Filed
    <2> QED BY <2>1, <2>2, <2>3, FailureAssumption
        DEF CeilingInv, Dispatched, ParkedAtCeiling, At, Dispatching, Queued, Delivering, Ready
  <1>2. CeilingInv /\ [Next]_vars => CeilingInv'
    BY CeilingInductive
  <1>3. CeilingInv => ParkedAtCeiling
    BY DEF CeilingInv
  <1> QED BY <1>1, <1>2, <1>3, PTL DEF Spec
=============================================================================

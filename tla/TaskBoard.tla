------------------------------ MODULE TaskBoard ------------------------------
(***************************************************************************)
(* Mission Control's task board: the dispatch loop, the REST handlers and  *)
(* the agents' tools working on the same tasks.                            *)
(*                                                                         *)
(* Each store call is atomic; an operation that makes several is a handler *)
(* whose steps interleave with those of every other handler.  proc[p] says *)
(* which operation handler p is in the middle of, at which step, and what  *)
(* it read earlier and still believes.                                     *)
(*                                                                         *)
(* Abstractions.  One implementer per task: its roster row is seat[t] (the *)
(* whole roster and the lease are TaskLease).  The reads of one check are  *)
(* one step, and the writes that follow are others.  A session's activity, *)
(* an agent's availability and a verifier's choice are nondeterministic.   *)
(***************************************************************************)
EXTENDS TaskRecord

CONSTANTS Tasks,        \* the tasks filed on the board
          NoTask,
          Procs,        \* handlers that may be in flight at once
          Dispatchers,  \* those that dispatch: the loop, a REST handler
          Overlaps,     \* pairs of tasks whose owned paths overlap
          FiledSeats,   \* how tasks start: filed with no agent, with one
                        \* to offer to, or already claimed
          Ops           \* the operations in use

AllOps == {"dispatch", "unblock", "claim", "decline", "assign", "report",
           "review", "revise", "finish", "move", "requeue", "deliver",
           "edit", "write", "fail", "link", "unlink", "crash"}

ASSUME TaskAssumption == NoTask \notin Tasks
ASSUME DispatcherAssumption == Dispatchers \subseteq Procs
ASSUME OverlapAssumption ==
  /\ Overlaps \subseteq Tasks \X Tasks
  /\ \A t, u \in Tasks : <<t, u>> \in Overlaps => <<u, t>> \in Overlaps
ASSUME FiledAssumption == FiledSeats \subseteq {"none", "offered", "active"}
ASSUME OpsAssumption == Ops \subseteq AllOps

VARIABLES task,       \* the rows of the tasks table
          pending,    \* the ledger holds a report that waits for a verdict
          blockers,   \* the blocks links into each task
          seat,       \* the implementer's row on the task's roster
          envelopes,  \* task envelopes delivered since the task was last bound
          proc        \* the handlers

vars == <<task, pending, blockers, seat, envelopes, proc>>

Seats == {"none", "offered", "active", "withdrawn", "done"}
MaxEnvelopes == 2     \* two already say "delivered twice"

Steps == {"idle", "await", "offer", "paths", "worker", "claim", "blockers",
          "hold", "target", "repath", "handback", "release", "deliver",
          "reset", "unblock", "submit", "inreview", "complete", "settle",
          "unpend", "block", "findings", "sendback", "rebind", "requeue",
          "relink", "take", "leave", "park", "assign", "bind", "seat",
          "brief", "note", "fail", "link"}

Handler == [at      : Steps,
            task    : Tasks \cup {NoTask},
            outcome : Terminal \cup {"none"},       \* complete_task's status
            session : Sessions \cup {NoSession},    \* a session read earlier
            other   : Tasks \cup {NoTask},          \* the blocker to link
            flag    : BOOLEAN]    \* requeue: reopen; complete: approved;
                                  \* assign: the task was in progress

Idle == [at |-> "idle", task |-> NoTask, outcome |-> "none",
         session |-> NoSession, other |-> NoTask, flag |-> FALSE]

Init ==
  /\ task \in [Tasks -> {Filed(s, TRUE) : s \in Sessions}]
  /\ pending = [t \in Tasks |-> FALSE]
  /\ blockers = [t \in Tasks |-> {}]
  /\ seat \in [Tasks -> FiledSeats]
  /\ envelopes = [t \in Tasks |-> 0]
  /\ proc = [p \in Procs |-> Idle]

-----------------------------------------------------------------------------
(* Handlers.                                                               *)

Free(p, op) == op \in Ops /\ proc[p].at = "idle"
Start(p, step, t) == proc' = [proc EXCEPT ![p] = [Idle EXCEPT !.at = step, !.task = t]]
At(p, step) == proc[p].at = step
Goto(p, step) == proc' = [proc EXCEPT ![p].at = step]
Return(p) == proc' = [proc EXCEPT ![p] = Idle]
On(p) == proc[p].task
Row(p) == task[On(p)]
Write(t, row) == task' = [task EXCEPT ![t] = row]

\* Mutant: as the write gate does, only another session's task is in the way.
ConflictsOfOthers(t) ==
  {u \in Tasks \ {t} : /\ <<t, u>> \in Overlaps
                       /\ task[t].owns /\ task[u].owns
                       /\ task[u].status = "in_progress"
                       /\ task[u].session # task[t].session}

Conflicts(t) ==
  {u \in Tasks \ {t} : /\ <<t, u>> \in Overlaps
                       /\ task[t].owns /\ task[u].owns
                       /\ task[u].status = "in_progress"}

ReleasedByAll(t) == \A b \in blockers[t] : task[b].status \in Releasing

-----------------------------------------------------------------------------
(* dispatch_mission_task.  The loop lists the queue first and reaches a    *)
(* task later, so nothing read at the start still holds at the next step.  *)

\* Mutant: the queue is a listing taken before other tasks were claimed.
DispatchFromStaleList(p, t) ==
  /\ Free(p, "dispatch") /\ p \in Dispatchers
  /\ task[t].status \in {"todo", "in_progress"}
  /\ Start(p, "await", t)
  /\ UNCHANGED <<task, pending, blockers, seat, envelopes>>

BeginDispatch(p, t) ==
  /\ Free(p, "dispatch") /\ p \in Dispatchers
  /\ task[t].status = "todo"
  /\ Start(p, "await", t)
  /\ UNCHANGED <<task, pending, blockers, seat, envelopes>>

\* Mutant: a claimed seat is not recognised and is offered again.
AwaitForgettingClaim(p) ==
  /\ At(p, "await")
  /\ \/ Row(p).status # "todo" /\ Goto(p, "paths")
     \/ Row(p).status = "todo" /\ seat[On(p)] = "offered" /\ Return(p)
     \/ /\ Row(p).status = "todo" /\ seat[On(p)] # "offered"
        /\ \E known \in BOOLEAN : Goto(p, IF known THEN "offer" ELSE "paths")
  /\ UNCHANGED <<task, pending, blockers, seat, envelopes>>

\* await_claim: unclaimed work is offered and waits for its agent; work of an
\* agent nobody registered needs no claim.
AwaitClaim(p) ==
  /\ At(p, "await")
  /\ \/ (Row(p).status # "todo" \/ seat[On(p)] = "active") /\ Goto(p, "paths")
     \/ Row(p).status = "todo" /\ seat[On(p)] = "offered" /\ Return(p)
     \/ /\ Row(p).status = "todo" /\ seat[On(p)] \notin {"active", "offered"}
        /\ \E known \in BOOLEAN : Goto(p, IF known THEN "offer" ELSE "paths")
  /\ UNCHANGED <<task, pending, blockers, seat, envelopes>>

Offer(p) ==
  /\ At(p, "offer")
  /\ seat' = [seat EXCEPT ![On(p)] = "offered"]
  /\ Return(p)
  /\ UNCHANGED <<task, pending, blockers, envelopes>>

\* wait_for_path_owners with claimed = false.
CheckPaths(p) ==
  /\ At(p, "paths")
  /\ IF Row(p).status = "todo" /\ Conflicts(On(p)) # {}
     THEN Return(p) ELSE Goto(p, "worker")
  /\ UNCHANGED <<task, pending, blockers, seat, envelopes>>

\* wait_for_worker and wait_for_idle_switch: the agent is paused, or its
\* session busy on another profile.
WorkerNotReady(p) ==
  /\ At(p, "worker") /\ Return(p)
  /\ UNCHANGED <<task, pending, blockers, seat, envelopes>>

WorkerReady(p) ==
  /\ At(p, "worker") /\ Goto(p, "claim")
  /\ UNCHANGED <<task, pending, blockers, seat, envelopes>>

\* claim_task_for_dispatch, and the check of the row it returned.
Claim(p) ==
  /\ At(p, "claim")
  /\ Write(On(p), Claimed(Row(p)))
  /\ envelopes' = IF Row(p).status = "todo"
                  THEN [envelopes EXCEPT ![On(p)] = 0] ELSE envelopes
  /\ IF Claimed(Row(p)).status = "in_progress" /\ Claimed(Row(p)).reporting # NoSession
     THEN Goto(p, "blockers") ELSE Return(p)
  /\ UNCHANGED <<pending, blockers, seat>>

\* Mutant: the blockers are read but the answer is not used.
IgnoreBlockers(p) ==
  /\ At(p, "blockers") /\ Goto(p, "target")
  /\ UNCHANGED <<task, pending, blockers, seat, envelopes>>

\* A blocker that cannot be read gives the claim up.
CheckBlockers(p) ==
  /\ At(p, "blockers")
  /\ \/ Goto(p, IF ReleasedByAll(On(p)) THEN "target" ELSE "hold")
     \/ blockers[On(p)] # {} /\ Goto(p, "release")
  /\ UNCHANGED <<task, pending, blockers, seat, envelopes>>

HoldBack(p) ==
  /\ At(p, "hold")
  /\ Write(On(p), HeldBack(Row(p)))
  /\ Return(p)
  /\ UNCHANGED <<pending, blockers, seat, envelopes>>

\* The target session is resolved, or it is gone, archived or not opened.
ResolveTarget(p) ==
  /\ At(p, "target")
  /\ \E found \in BOOLEAN : Goto(p, IF found THEN "repath" ELSE "release")
  /\ UNCHANGED <<task, pending, blockers, seat, envelopes>>

\* Mutant: the first look at the paths is believed.
TrustFirstCheck(p) ==
  /\ At(p, "repath") /\ Goto(p, "deliver")
  /\ UNCHANGED <<task, pending, blockers, seat, envelopes>>

\* wait_for_path_owners with claimed = true: a concurrent dispatch may have
\* taken the paths between the first check and the claim.
RecheckPaths(p) ==
  /\ At(p, "repath")
  /\ IF Row(p).status = "in_progress" /\ Conflicts(On(p)) # {}
     THEN Goto(p, "handback") ELSE Goto(p, "deliver")
  /\ UNCHANGED <<task, pending, blockers, seat, envelopes>>

HandBack(p) ==
  /\ At(p, "handback")
  /\ Write(On(p), HandedBack(Row(p)))
  /\ Return(p)
  /\ UNCHANGED <<pending, blockers, seat, envelopes>>

ReleaseFailedClaim(p) ==
  /\ At(p, "release")
  /\ Write(On(p), Released(Row(p)))
  /\ Return(p)
  /\ UNCHANGED <<pending, blockers, seat, envelopes>>

Counted(t) == [envelopes EXCEPT ![t] = IF @ < MaxEnvelopes THEN @ + 1 ELSE @]

\* The session moves to the task's profile, which may fail, and gets the
\* envelope.
Deliver(p) ==
  /\ At(p, "deliver")
  /\ \/ envelopes' = Counted(On(p)) /\ Goto(p, "reset")
     \/ UNCHANGED envelopes /\ Goto(p, "release")
  /\ UNCHANGED <<task, pending, blockers, seat>>

ResetFailures(p) ==
  /\ At(p, "reset")
  /\ Write(On(p), [Row(p) EXCEPT !.failures = 0])
  /\ Return(p)
  /\ UNCHANGED <<pending, blockers, seat, envelopes>>

DispatchStep(p) ==
  \/ AwaitClaim(p) \/ Offer(p) \/ CheckPaths(p) \/ WorkerNotReady(p)
  \/ WorkerReady(p) \/ Claim(p) \/ CheckBlockers(p) \/ HoldBack(p)
  \/ ResolveTarget(p) \/ RecheckPaths(p) \/ HandBack(p)
  \/ ReleaseFailedClaim(p) \/ Deliver(p) \/ ResetFailures(p)

\* Mutant: tasks parked at the ceiling are unblocked too.
UnblockParked(p, t) ==
  /\ Free(p, "unblock") /\ p \in Dispatchers
  /\ task[t].status = "blocked"
  /\ blockers[t] # {} /\ ReleasedByAll(t)
  /\ Start(p, "unblock", t)
  /\ UNCHANGED <<task, pending, blockers, seat, envelopes>>

\* unblock_ready_tasks, for one blocked task: the reads, then the write.
BeginUnblock(p, t) ==
  /\ Free(p, "unblock") /\ p \in Dispatchers
  /\ task[t].status = "blocked" /\ task[t].failures = 0
  /\ blockers[t] # {} /\ ReleasedByAll(t)
  /\ Start(p, "unblock", t)
  /\ UNCHANGED <<task, pending, blockers, seat, envelopes>>

Unblock(p) ==
  /\ At(p, "unblock")
  /\ Write(On(p), Unblocked(Row(p)))
  /\ Return(p)
  /\ UNCHANGED <<pending, blockers, seat, envelopes>>

-----------------------------------------------------------------------------
(* The worker's report, its verdict, and completion.                       *)

\* report_mission_task from session s; Mission Control reports for anyone.
MayReport(s, t) ==
  \/ task[t].reporting = s
  \/ task[t].reporting = NoSession /\ task[t].session = s

BeginReport(p, t) ==
  /\ Free(p, "report")
  /\ task[t].status \notin Terminal
  /\ \E byMC \in BOOLEAN, s \in Sessions, outcome \in {"done", "failed", "blocked"} :
       /\ byMC \/ (task[t].status # "in_review" /\ MayReport(s, t))
       /\ \E step \in (CASE outcome = "blocked" -> {"block"}
                         [] outcome = "done" /\ ~byMC -> {"submit", "complete"}
                         [] OTHER -> {"complete"}) :
            proc' = [proc EXCEPT ![p] =
                       [Idle EXCEPT !.at = step, !.task = t,
                                    !.outcome = IF outcome = "blocked"
                                                THEN "none" ELSE outcome]]
  /\ UNCHANGED <<task, pending, blockers, seat, envelopes>>

ReportBlocked(p) ==
  /\ At(p, "block")
  /\ Write(On(p), ReportedBlocked(Row(p)))
  /\ Return(p)
  /\ UNCHANGED <<pending, blockers, seat, envelopes>>

\* submit_for_review: the ledger keeps the report, then the task is held.
SubmitReport(p) ==
  /\ At(p, "submit")
  /\ pending' = [pending EXCEPT ![On(p)] = TRUE]
  /\ Goto(p, "inreview")
  /\ UNCHANGED <<task, blockers, seat, envelopes>>

HoldForReview(p) ==
  /\ At(p, "inreview")
  /\ Write(On(p), Submitted(Row(p)))
  /\ Return(p)
  /\ UNCHANGED <<pending, blockers, seat, envelopes>>

\* complete_task, first the row and then the offers nobody claimed.
Complete(p) ==
  /\ At(p, "complete")
  /\ Write(On(p), Completed(Row(p), proc[p].outcome))
  /\ IF Row(p).status \in Terminal THEN Return(p) ELSE Goto(p, "settle")
  /\ UNCHANGED <<pending, blockers, seat, envelopes>>

SettleOffer(p) ==
  /\ At(p, "settle")
  /\ seat' = IF seat[On(p)] # "offered" THEN seat
             ELSE [seat EXCEPT ![On(p)] = IF proc[p].outcome = "done"
                                          THEN "done" ELSE "withdrawn"]
  /\ IF proc[p].flag THEN Goto(p, "unpend") ELSE Return(p)
  /\ UNCHANGED <<task, pending, blockers, envelopes>>

ClearPending(p) ==
  /\ At(p, "unpend")
  /\ pending' = [pending EXCEPT ![On(p)] = FALSE]
  /\ Return(p)
  /\ UNCHANGED <<task, blockers, seat, envelopes>>

\* submit_review: approval completes the task with the report it held (and
\* Mission Control may approve one not in review); changes send it back.
BeginReview(p, t) ==
  /\ Free(p, "review")
  /\ task[t].status \notin Terminal
  /\ \/ /\ pending[t]
        /\ proc' = [proc EXCEPT ![p] =
                      [Idle EXCEPT !.at = "complete", !.task = t,
                                   !.outcome = "done", !.flag = TRUE]]
     \/ /\ task[t].status = "in_review"
        /\ proc' = [proc EXCEPT ![p] =
                      [Idle EXCEPT !.at = "findings", !.task = t,
                                   !.session = task[t].session]]
  /\ UNCHANGED <<task, pending, blockers, seat, envelopes>>

RecordFindings(p) ==
  /\ At(p, "findings")
  /\ pending' = [pending EXCEPT ![On(p)] = FALSE]
  /\ Goto(p, "sendback")
  /\ UNCHANGED <<task, blockers, seat, envelopes>>

SendBack(p) ==
  /\ At(p, "sendback")
  /\ Write(On(p), SentBack(Row(p), proc[p].session))
  /\ Return(p)
  /\ UNCHANGED <<pending, blockers, seat, envelopes>>

\* revise_task: reopen, bind the session again, clear the ledger's report.
Revise(p, t) ==
  /\ Free(p, "revise")
  /\ task[t].status = "done"
  /\ Write(t, Revised(task[t]))
  /\ proc' = [proc EXCEPT ![p] = [Idle EXCEPT !.at = "rebind", !.task = t,
                                              !.session = task[t].session]]
  /\ UNCHANGED <<pending, blockers, seat, envelopes>>

Rebind(p) ==
  /\ At(p, "rebind")
  /\ Write(On(p), [Row(p) EXCEPT !.reporting = proc[p].session])
  /\ Goto(p, "unpend")
  /\ UNCHANGED <<pending, blockers, seat, envelopes>>

ReportStep(p) ==
  \/ ReportBlocked(p) \/ SubmitReport(p) \/ HoldForReview(p)
  \/ Complete(p) \/ SettleOffer(p) \/ ClearPending(p)

ReviewStep(p) == RecordFindings(p) \/ SendBack(p) \/ Rebind(p)

-----------------------------------------------------------------------------
(* Mission Control, the human and the agents.                              *)

\* A terminal move, cancel_mission_task or archive: complete_task at once.
BeginFinish(p, t) ==
  /\ Free(p, "finish")
  /\ \E outcome \in Terminal :
       proc' = [proc EXCEPT ![p] = [Idle EXCEPT !.at = "complete", !.task = t,
                                                !.outcome = outcome]]
  /\ UNCHANGED <<task, pending, blockers, seat, envelopes>>

MoveToBlocked(p, t) ==
  /\ Free(p, "move")
  /\ Write(t, MovedToBlocked(task[t]))
  /\ UNCHANGED <<pending, blockers, seat, envelopes, proc>>

\* retry_task, or move_task to Todo by a person, once the worker is quiet.
BeginRequeue(p, t) ==
  /\ Free(p, "requeue")
  /\ \E reopen \in BOOLEAN :
       proc' = [proc EXCEPT ![p] = [Idle EXCEPT !.at = "requeue", !.task = t,
                                                !.flag = reopen]]
  /\ UNCHANGED <<task, pending, blockers, seat, envelopes>>

Requeue(p) ==
  /\ At(p, "requeue")
  /\ Write(On(p), Requeued(Row(p), proc[p].flag))
  /\ IF MayRequeue(Row(p), proc[p].flag) THEN Goto(p, "relink") ELSE Return(p)
  /\ UNCHANGED <<pending, blockers, seat, envelopes>>

\* Links from cancelled blockers go, and a withdrawn offer stands again.
Relink(p) ==
  /\ At(p, "relink")
  /\ blockers' = [blockers EXCEPT ![On(p)] = {b \in @ : task[b].status # "cancelled"}]
  /\ seat' = [seat EXCEPT ![On(p)] = IF @ = "withdrawn" THEN "offered" ELSE @]
  /\ Return(p)
  /\ UNCHANGED <<task, pending, envelopes>>

NotStarted(t) == task[t].status \notin Terminal \cup {"in_progress"}

\* claim_and_dispatch_task: take the seat, then retry_task.
BeginTake(p, t) ==
  /\ Free(p, "claim") /\ NotStarted(t)
  /\ Start(p, "take", t)
  /\ UNCHANGED <<task, pending, blockers, seat, envelopes>>

TakeSeat(p) ==
  /\ At(p, "take")
  /\ seat' = [seat EXCEPT ![On(p)] = "active"]
  /\ Goto(p, "requeue")
  /\ UNCHANGED <<task, pending, blockers, envelopes>>

\* decline_task: leave the roster, then the task waits as blocked.
BeginDecline(p, t) ==
  /\ Free(p, "decline") /\ NotStarted(t)
  /\ seat[t] # "none"
  /\ Start(p, "leave", t)
  /\ UNCHANGED <<task, pending, blockers, seat, envelopes>>

LeaveSeat(p) ==
  /\ At(p, "leave")
  /\ seat' = [seat EXCEPT ![On(p)] = "none"]
  /\ Goto(p, "park")
  /\ UNCHANGED <<task, pending, blockers, envelopes>>

ParkDeclined(p) ==
  /\ At(p, "park")
  /\ Write(On(p), MovedToBlocked(Row(p)))
  /\ Return(p)
  /\ UNCHANGED <<pending, blockers, seat, envelopes>>

\* assign_task_agent: active on work in progress, otherwise an offer.
BeginAssign(p, t) ==
  /\ Free(p, "assign")
  /\ proc' = [proc EXCEPT ![p] = [Idle EXCEPT !.at = "assign", !.task = t,
                                  !.flag = (task[t].status = "in_progress")]]
  /\ UNCHANGED <<task, pending, blockers, seat, envelopes>>

Assign(p) ==
  /\ At(p, "assign")
  /\ seat' = [seat EXCEPT ![On(p)] = IF proc[p].flag THEN "active" ELSE "offered"]
  /\ Return(p)
  /\ UNCHANGED <<task, pending, blockers, envelopes>>

\* Mutant: a session may be sent to work on a finished task.
DirectToFinished(p, t) ==
  /\ Free(p, "deliver") /\ ReleasedByAll(t)
  /\ \E s \in Sessions :
       proc' = [proc EXCEPT ![p] = [Idle EXCEPT !.at = "bind", !.task = t, !.session = s]]
  /\ UNCHANGED <<task, pending, blockers, seat, envelopes>>

\* deliver_to_session, through bind_direct_delivery, to a named task.
BeginDirect(p, t) ==
  /\ Free(p, "deliver")
  /\ task[t].status \notin Terminal /\ ReleasedByAll(t)
  /\ \E s \in Sessions :
       proc' = [proc EXCEPT ![p] = [Idle EXCEPT !.at = "bind", !.task = t, !.session = s]]
  /\ UNCHANGED <<task, pending, blockers, seat, envelopes>>

BindDirect(p) ==
  /\ At(p, "bind")
  /\ Write(On(p), Bound(Row(p), proc[p].session))
  /\ envelopes' = [envelopes EXCEPT ![On(p)] = 0]
  /\ Goto(p, "seat")
  /\ UNCHANGED <<pending, blockers, seat>>

SeatWorker(p) ==
  /\ At(p, "seat")
  /\ seat' = [seat EXCEPT ![On(p)] = "active"]
  /\ Goto(p, "brief")
  /\ UNCHANGED <<task, pending, blockers, envelopes>>

SendBrief(p) ==
  /\ At(p, "brief")
  /\ envelopes' = Counted(On(p))
  /\ Return(p)
  /\ UNCHANGED <<task, pending, blockers, seat>>

\* update_task of the REST surface: another session, other paths, or both.
Edit(p, t) ==
  /\ Free(p, "edit")
  /\ \E s \in Sessions, paths \in BOOLEAN : Write(t, Edited(task[t], s, paths))
  /\ UNCHANGED <<pending, blockers, seat, envelopes, proc>>

\* A write by the bound session: ownership::gate refuses paths a task of
\* another session owns, then note_changed_files records the path as owned.
BeginWrite(p, t) ==
  /\ Free(p, "write")
  /\ task[t].status = "in_progress" /\ task[t].reporting # NoSession
  /\ \A u \in Tasks \ {t} :
       (<<t, u>> \in Overlaps /\ task[u].owns /\ task[u].status = "in_progress")
          => task[u].session = task[t].session
  /\ Start(p, "note", t)
  /\ UNCHANGED <<task, pending, blockers, seat, envelopes>>

NoteWrite(p) ==
  /\ At(p, "note")
  /\ Write(On(p), Widened(Row(p)))
  /\ Return(p)
  /\ UNCHANGED <<pending, blockers, seat, envelopes>>

\* block_tasks_for_failed_session, for one task the session reports for.
BeginFailure(p, t) ==
  /\ Free(p, "fail")
  /\ task[t].status = "in_progress" /\ task[t].reporting = task[t].session
  /\ Start(p, "fail", t)
  /\ UNCHANGED <<task, pending, blockers, seat, envelopes>>

ParkFailed(p) ==
  /\ At(p, "fail")
  /\ Write(On(p), Parked(Row(p)))
  /\ Return(p)
  /\ UNCHANGED <<pending, blockers, seat, envelopes>>

\* blocks_path, as the closure of the blocks edges: t comes to wait on u.
WaitsOn(t, u) ==
  \A S \in SUBSET Tasks :
    t \in S /\ (\A v \in S : blockers[v] \subseteq S) => u \in S

\* Mutant: the path is looked for in the direction of the new link.
LinkCheckedBackwards(p, t) ==
  /\ Free(p, "link")
  /\ \E b \in Tasks :
       /\ ~WaitsOn(t, b)
       /\ proc' = [proc EXCEPT ![p] = [Idle EXCEPT !.at = "link", !.task = t, !.other = b]]
  /\ UNCHANGED <<task, pending, blockers, seat, envelopes>>

\* link_tasks: the cycle check, then the insert.
BeginLink(p, t) ==
  /\ Free(p, "link")
  /\ \E b \in Tasks :
       /\ ~WaitsOn(b, t)
       /\ proc' = [proc EXCEPT ![p] = [Idle EXCEPT !.at = "link", !.task = t, !.other = b]]
  /\ UNCHANGED <<task, pending, blockers, seat, envelopes>>

Link(p) ==
  /\ At(p, "link")
  /\ blockers' = [blockers EXCEPT ![On(p)] = @ \cup {proc[p].other}]
  /\ Return(p)
  /\ UNCHANGED <<task, pending, seat, envelopes>>

Unlink(p, t) ==
  /\ Free(p, "unlink")
  /\ \E b \in blockers[t] : blockers' = [blockers EXCEPT ![t] = @ \ {b}]
  /\ UNCHANGED <<task, pending, seat, envelopes, proc>>

\* A handler stops halfway and the store keeps what it wrote: a store call
\* failed, the client hung up on the request, or the daemon exited (which stops
\* all of them, one after the other).
Abandon(p) ==
  /\ "crash" \in Ops
  /\ proc[p].at # "idle" /\ Return(p)
  /\ UNCHANGED <<task, pending, blockers, seat, envelopes>>

ManageStep(p) ==
  \/ Requeue(p) \/ Relink(p) \/ TakeSeat(p) \/ LeaveSeat(p) \/ ParkDeclined(p)
  \/ Assign(p) \/ BindDirect(p) \/ SeatWorker(p) \/ SendBrief(p)
  \/ NoteWrite(p) \/ ParkFailed(p) \/ Link(p)

Begin(p, t) ==
  \/ BeginDispatch(p, t) \/ BeginUnblock(p, t) \/ BeginReport(p, t)
  \/ BeginReview(p, t) \/ Revise(p, t) \/ BeginFinish(p, t)
  \/ MoveToBlocked(p, t) \/ BeginRequeue(p, t) \/ BeginTake(p, t)
  \/ BeginDecline(p, t) \/ BeginAssign(p, t) \/ BeginDirect(p, t)
  \/ Edit(p, t) \/ BeginWrite(p, t) \/ BeginFailure(p, t)
  \/ BeginLink(p, t) \/ Unlink(p, t)

Continue(p) == DispatchStep(p) \/ Unblock(p) \/ ReportStep(p) \/ ReviewStep(p) \/ ManageStep(p)

Next ==
  \E p \in Procs : Continue(p) \/ (\E t \in Tasks : Begin(p, t)) \/ Abandon(p)

Spec == Init /\ [][Next]_vars

-----------------------------------------------------------------------------
(* What must hold.                                                         *)

TypeOK ==
  /\ task \in [Tasks -> Task]
  /\ pending \in [Tasks -> BOOLEAN]
  /\ blockers \in [Tasks -> SUBSET Tasks]
  /\ seat \in [Tasks -> Seats]
  /\ envelopes \in [Tasks -> 0..MaxEnvelopes]
  /\ proc \in [Procs -> Handler]

Finished(t) == task[t].status \in Terminal

\* A finished task always carries the result that finished it, whatever
\* handlers overlap: requeueing and reopening drop both together.
FinishedHasResult == \A t \in Tasks : Finished(t) => task[t].result

\* An outcome stands: no interleaving of completions, cancellations and
\* reports turns one terminal status into another in place ("a second
\* completion cannot flip a Done task to Failed", tasks.rs:817).
OutcomeStands ==
  [][\A t \in Tasks : Finished(t) /\ Finished(t)' => task'[t].status = task[t].status]_vars

\* What reopens a finished task by intent: a requeue that may, or a revision.
ReopenedOnPurpose(t) ==
  \E p \in Procs :
    \/ At(p, "requeue") /\ On(p) = t /\ MayRequeue(task[t], proc[p].flag)
    \/ At(p, "idle") /\ proc'[p].at = "rebind" /\ proc'[p].task = t

\* A finished task is reopened on purpose only (tasks.rs:27, "nothing reopens
\* them implicitly").
FinishedStays ==
  [][\A t \in Tasks : Finished(t) /\ ~Finished(t)' => ReopenedOnPurpose(t)]_vars

\* The steps whose write does not look at the status it finds.
BlindSteps == {"hold", "handback", "release", "block", "inreview", "sendback", "bind"}

\* With handlers overlapping, what else can take a finished task back is one
\* of seven named blind writes on that task, already in flight; no guarded
\* operation ever does.
OnlyBlindWritesReopen ==
  [][\A t \in Tasks : Finished(t) /\ ~Finished(t)' =>
       \/ ReopenedOnPurpose(t)
       \/ \E p \in Procs : proc[p].at \in BlindSteps /\ On(p) = t]_vars

\* A claim is delivered once: the loser of a claim race does not deliver a
\* second envelope (tasks.rs:797-800).
OneEnvelopePerClaim == \A t \in Tasks : envelopes[t] <= 1

\* Between its claim and its second look at the paths a dispatcher may still
\* hand the claim back.
Contesting == {"blockers", "hold", "target", "repath", "handback", "release"}

Sharing(t, u) ==
  /\ t # u /\ <<t, u>> \in Overlaps
  /\ task[t].owns /\ task[u].owns
  /\ task[t].status = "in_progress" /\ task[u].status = "in_progress"

\* Check, claim, check again: two tasks in progress on overlapping paths are
\* seen only while the dispatcher of one of them has yet to look again.
PathsContested ==
  \A t, u \in Tasks : Sharing(t, u) =>
    \E p \in Procs : proc[p].at \in Contesting /\ On(p) \in {t, u}

\* Two tasks whose envelopes were both delivered never work on overlapping
\* paths, the daemon's crashes included, while one dispatcher runs.
WorkersDisjoint ==
  \A t, u \in Tasks : Sharing(t, u) => envelopes[t] = 0 \/ envelopes[u] = 0

\* A task parked at the dispatch ceiling leaves the queue until somebody
\* requeues it: unblocking skips it and no claim is released past the ceiling.
ParkedAtCeiling ==
  \A t \in Tasks : task[t].status = "todo" => task[t].failures < MaxDispatchFailures

\* A task in review has the report its verifier judges, unless a handler is
\* between the two writes.
ReviewHasReport ==
  \A t \in Tasks : task[t].status = "in_review" =>
    pending[t] \/ \E p \in Procs : On(p) = t

\* No task comes to wait on itself through blocks links (tasks.rs:1219-1221).
NoWaitCycle ==
  \A t \in Tasks : \A b \in blockers[t] : ~WaitsOn(b, t)

\* An envelope goes out only when every blocker has released the task.
DeliveredWhenReleased ==
  [][\A p \in Procs : At(p, "deliver") /\ proc'[p].at = "reset"
       => ReleasedByAll(On(p))]_vars

-----------------------------------------------------------------------------
(* Liveness.  A handler once begun runs to its end (tokio polls it, the    *)
(* store's lock is released after every call).  The loop scans the whole   *)
(* queue and every blocked task each tick, so a task that keeps being      *)
(* eligible is reached; a worker that keeps being asked is found ready     *)
(* sometimes, and a bound worker eventually reports.                       *)

HandlersRun == \A p \in Procs : WF_vars(Continue(p))

QueueFairness ==
  \A p \in Dispatchers :
    /\ \A t \in Tasks : SF_vars(BeginDispatch(p, t))
    /\ SF_vars(WorkerReady(p))

ReportFairness ==
  \A t \in Tasks :
    SF_vars(task[t].status = "in_progress" /\ \E p \in Procs : BeginReport(p, t))

QueueSpec == Spec /\ HandlersRun /\ QueueFairness /\ ReportFairness

\* A queued task its agent has claimed is dispatched, also when it first has to
\* wait for another task to give up the paths they share ("the daemon
\* dispatches the task to its session within seconds",
\* coordination_tools.rs:1570).
ClaimedIsServed ==
  \A t \in Tasks : (task[t].status = "todo" /\ seat[t] = "active")
                    ~> task[t].status # "todo"
=============================================================================

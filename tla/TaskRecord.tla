----------------------------- MODULE TaskRecord -----------------------------
(***************************************************************************)
(* One row of the `tasks` table and every write the program makes to it.   *)
(*                                                                         *)
(* The store is one SQLite connection behind a mutex, and                  *)
(* `update_task_in` reads, changes and writes one row in a single          *)
(* transaction (src/src/coordination/tasks.rs).  A write is therefore a    *)
(* function from the row it finds to the row it leaves; the operators here *)
(* are those functions.  Which of them look at the status they find, and   *)
(* which overwrite it, is what the properties of TaskBoard are about.      *)
(***************************************************************************)
EXTENDS Naturals

CONSTANTS Sessions,             \* durable work sessions
          NoSession,            \* `None` for reporting_session
          MaxDispatchFailures   \* MAX_DISPATCH_FAILURES of release_failed_claim

ASSUME SessionAssumption == NoSession \notin Sessions
ASSUME FailureAssumption == MaxDispatchFailures \in Nat \ {0}

Terminal == {"done", "failed", "cancelled"}
Status == {"todo", "in_progress", "blocked", "in_review"} \cup Terminal

\* A failed blocker may be retried, so it still holds its dependants.
Releasing == {"done", "cancelled"}

(***************************************************************************)
(* `failures` saturates at the ceiling: the code only asks whether it is   *)
(* zero and whether it has reached the ceiling.  `owns` says that          *)
(* owned_paths is not empty, `result` that a result and completion time    *)
(* are recorded.                                                           *)
(***************************************************************************)
Task == [status    : Status,
         session   : Sessions,
         reporting : Sessions \cup {NoSession},
         failures  : 0..MaxDispatchFailures,
         owns      : BOOLEAN,
         result    : BOOLEAN]

\* A task as it is filed for a session (Task::dispatched_to).
Filed(s, owns) == [status |-> "todo", session |-> s, reporting |-> NoSession,
                   failures |-> 0, owns |-> owns, result |-> FALSE]

-----------------------------------------------------------------------------
(* Writes that look at the status inside their transaction.                *)

\* claim_task_for_dispatch: an already claimed task comes back unchanged.
Claimed(k) ==
  IF k.status = "todo"
  THEN [k EXCEPT !.status = "in_progress", !.reporting = k.session]
  ELSE k

\* Mutant: a completion does not look at the outcome already there.
CompletedOverOutcome(k, outcome) ==
  [k EXCEPT !.status = outcome, !.result = TRUE, !.owns = FALSE,
            !.reporting = NoSession]

\* complete_task: a finished task keeps its outcome.
Completed(k, outcome) ==
  IF k.status \in Terminal
  THEN k
  ELSE [k EXCEPT !.status = outcome, !.result = TRUE, !.owns = FALSE,
                 !.reporting = NoSession]

\* reopen_for_revision
Revised(k) ==
  IF k.status = "done"
  THEN [k EXCEPT !.status = "in_progress", !.result = FALSE,
                 !.reporting = k.session]
  ELSE k

\* The transaction of `requeue`; only a person reopens done and cancelled work.
MayRequeue(k, reopen) == reopen \/ k.status \notin {"done", "cancelled"}

\* Mutant: the result is cleared before the requeue is refused.
RequeuedAfterClearing(k, reopen) ==
  IF MayRequeue(k, reopen)
  THEN [k EXCEPT !.status = "todo", !.failures = 0, !.result = FALSE,
                 !.reporting = NoSession]
  ELSE [k EXCEPT !.result = FALSE]

Requeued(k, reopen) ==
  IF MayRequeue(k, reopen)
  THEN [k EXCEPT !.status = "todo", !.failures = 0, !.result = FALSE,
                 !.reporting = NoSession]
  ELSE k

\* Mutant: the move forgets that finished work is not moved.
MovedFromAnywhere(k) == [k EXCEPT !.status = "blocked", !.reporting = NoSession]

\* move_task to Blocked.
MovedToBlocked(k) ==
  IF k.status \in Terminal
  THEN k
  ELSE [k EXCEPT !.status = "blocked", !.reporting = NoSession]

\* The write of unblock_ready_tasks.
Unblocked(k) ==
  IF k.status = "blocked" THEN [k EXCEPT !.status = "todo"] ELSE k

\* The write of block_tasks_for_failed_session.
Parked(k) ==
  IF k.status = "in_progress"
  THEN [k EXCEPT !.status = "blocked", !.reporting = NoSession]
  ELSE k

\* add_owned_paths, after the bound session wrote a path.
Widened(k) ==
  IF k.status = "in_progress" THEN [k EXCEPT !.owns = TRUE] ELSE k

-----------------------------------------------------------------------------
(* Writes that overwrite whatever status they find.                        *)

\* dispatch_mission_task, when a blocker has not released the task.
HeldBack(k) == [k EXCEPT !.status = "blocked", !.reporting = NoSession]

\* wait_for_path_owners with claimed = true.
HandedBack(k) == [k EXCEPT !.status = "todo", !.reporting = NoSession]

\* Mutant: the failure is counted past the ceiling.
ReleasedPastCeiling(k) ==
  [k EXCEPT !.failures = @ + 1, !.reporting = NoSession,
            !.status = IF k.failures >= MaxDispatchFailures
                       THEN "blocked" ELSE "todo"]

\* release_failed_claim
Released(k) ==
  LET failures == IF k.failures < MaxDispatchFailures
                  THEN k.failures + 1 ELSE MaxDispatchFailures
  IN [k EXCEPT !.failures = failures,
               !.reporting = NoSession,
               !.status = IF failures >= MaxDispatchFailures
                          THEN "blocked" ELSE "todo"]

\* report_mission_task with status blocked: the session stays bound.
ReportedBlocked(k) == [k EXCEPT !.status = "blocked"]

\* submit_for_review
Submitted(k) == [k EXCEPT !.status = "in_review"]

\* Mutant: the session is bound again but the task stays in review.
SentBackStillHeld(k, s) == [k EXCEPT !.reporting = s]

\* submit_review with verdict changes, back to session s.
SentBack(k, s) == [k EXCEPT !.status = "in_progress", !.reporting = s]

\* bind_direct_delivery to session s.
Bound(k, s) == [k EXCEPT !.status = "in_progress", !.session = s,
                         !.reporting = s, !.failures = 0]

\* update_task of the REST surface: session s (the row's own when the request
\* names none), and new owned paths or the old ones.
Edited(k, s, paths) ==
  [k EXCEPT !.session = s,
            !.reporting = IF s = k.session THEN @ ELSE NoSession,
            !.owns = @ \/ paths]
=============================================================================

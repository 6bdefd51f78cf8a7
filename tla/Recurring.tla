------------------------------ MODULE Recurring ------------------------------
(***************************************************************************)
(* The scheduled jobs of one session.  A tick loop lists the jobs that are *)
(* due, sets the session a goal for each it finds free, marks the job and  *)
(* puts a run on record, which a watcher of its own closes.  People,       *)
(* agents and watchers change a job's row meanwhile, each by reading it    *)
(* and writing it back; only a read or a write is atomic.                  *)
(*                                                                         *)
(* Abstractions.  Time goes in periods, the same for every job that        *)
(* repeats, and stands still while a pass is under way, which keeps to the *)
(* time it began with.  Quiet hours and the daily cap are open: a wake may *)
(* be put off whenever it is looked at.  A pass takes the due jobs in any  *)
(* order, and a one-off job is not given another time; a row turned on in  *)
(* the period it is due for counts as past due.  A user's turn,            *)
(* running lanes and a user's goal are one occupant, "theirs"; a goal of   *)
(* theirs may be left paused.  Beside the loop's own one update of a row   *)
(* is under way at a time.  A run that is closed is left out.              *)
(***************************************************************************)
EXTENDS Naturals, Sequences, FiniteSets

CONSTANTS Jobs, Wakes, Once,
          MaxTime,    \* bound: periods
          MaxEvents   \* bound: requests about jobs, user turns, stops, failed
                      \* calls, stale writes and broken session loops, together

ASSUME KindsOfJob == Wakes \subseteq Jobs /\ Once \subseteq Jobs
ASSUME JobsAreNotWords == Jobs \cap {"none", "theirs", "paused"} = {}
ASSUME RecurringBounds == {MaxTime, MaxEvents} \subseteq Nat /\ MaxTime > 0

VARIABLES there, row,     \* the jobs on record, and their rows
          now,            \* the period
          edit,           \* an update under way that is not the loop's
          up,             \* whether the daemon runs
          todo, date,     \* the pass: jobs to look at, and the time each is due for
          mark,           \* what the loop is about to write, or put on record
          inbox, goal,    \* goals on their way to the session, and its goal
          live,           \* whether the session's loop runs
          met, runs,      \* whether the session has ended a goal since the last
                          \* was sent; the runs on record that are open
          fired, again,   \* history: goals sent for a time; reasons to send more
          used            \* how much of the bound is used

jobs == <<there, row, now, edit>>
loop == <<up, todo, date, mark, met>>
session == <<inbox, goal, live>>
history == <<fired, again, used>>
vars == <<jobs, loop, session, runs, history>>

Rows == [on : BOOLEAN, next : Nat, queued : BOOLEAN]
Edits == {"off", "on", "move", "arm", "touch"}
Marks == {"fired", "queued", "error", "defer"}

Occupants == Jobs \cup {"none", "theirs", "paused"}

Times == 0 .. MaxTime
Blank == [on |-> FALSE, next |-> 0, queued |-> FALSE]
NoEdit == [kind |-> "none", job |-> "none", row |-> Blank]
NoMark == [kind |-> "none", job |-> "none", date |-> 0, row |-> Blank]

\* A run is known by its goal: the nth for a time of its job.
Runs == [job : Jobs, date : Times, nth : Nat, met : BOOLEAN, watched : BOOLEAN,
         st : {"running", "told"}]

TypeOK ==
  /\ there \subseteq Jobs /\ row \in [Jobs -> Rows]
  /\ now \in Times
  /\ edit \in [kind : Edits \cup {"none"}, job : Jobs \cup {"none"}, row : Rows]
  /\ edit # NoEdit => edit.kind \in Edits /\ edit.job \in Jobs
  /\ up \in BOOLEAN /\ live \in BOOLEAN
  /\ todo \subseteq Jobs
  /\ date \in [Jobs -> Times]
  /\ mark \in [kind : Marks \cup {"none", "record"}, job : Jobs \cup {"none"},
             date : Times, row : Rows]
  /\ mark # NoMark => mark.kind \in Marks \cup {"record"} /\ mark.job \in Jobs
  /\ inbox \in Seq(Jobs) /\ goal \in Occupants
  /\ met \in BOOLEAN /\ runs \subseteq Runs
  /\ fired \in [Jobs -> [Times -> Nat]] /\ again \in [Jobs -> Nat]
  /\ used \in Nat

Init ==
  /\ there = {} /\ row = [j \in Jobs |-> Blank]
  /\ now = 1 /\ edit = NoEdit
  /\ up = TRUE /\ todo = {} /\ date = [j \in Jobs |-> 0] /\ mark = NoMark
  /\ inbox = <<>> /\ goal = "none" /\ live = FALSE
  /\ met = FALSE /\ runs = {}
  /\ fired = [j \in Jobs |-> [d \in Times |-> 0]] /\ again = date
  /\ used = 0

Counted == used < MaxEvents /\ used' = used + 1

-----------------------------------------------------------------------------
(* Rows, and the updates of them. *)

\* next_after: a one-off job has one time of its own, whenever it is asked.
OwnTime == 2
NextAfter(j) == IF j \in Once THEN OwnTime ELSE now + 1

\* Mutant: a job that is queued is not listed again.
DueUnqueued(j) == row[j].on /\ ~row[j].queued /\ row[j].next <= now

Due(j) == row[j].on /\ (row[j].queued \/ row[j].next <= now)

\* Mutant: a job that fired stays due.
FiredStays(j, r) == [r EXCEPT !.queued = FALSE]

Fired(j, r) == IF j \in Once THEN [r EXCEPT !.queued = FALSE, !.on = FALSE]
               ELSE [r EXCEPT !.queued = FALSE, !.next = now + 1]

\* What each kind of update makes of the row it read.
Changed(kind, j, r) ==
  CASE kind = "fired"  -> Fired(j, r)
    [] kind = "queued" -> [r EXCEPT !.queued = TRUE]
    [] kind = "error"  -> [r EXCEPT !.queued = FALSE, !.next = NextAfter(j)]
    [] kind = "defer"  -> [r EXCEPT !.queued = FALSE, !.next = now + 1]
    [] kind = "off"    -> [r EXCEPT !.on = FALSE, !.queued = FALSE]
    [] kind = "on"     -> [r EXCEPT !.on = TRUE,
                             !.next = IF @ <= now THEN NextAfter(j) ELSE @]
    [] kind = "move"   -> [r EXCEPT !.queued = FALSE, !.next = NextAfter(j)]
    [] kind = "arm"    -> [r EXCEPT !.next = NextAfter(j)]
    [] OTHER           -> r

Upsert(j, r) == row' = [row EXCEPT ![j] = r] /\ there' = there \cup {j}
Read(j, kind, r) == edit = NoEdit /\ edit' = [kind |-> kind, job |-> j, row |-> r]

\* create_job: due at once, a one-off before its own time.  A wake is armed by an
\* update that follows.
Create(j) ==
  /\ row[j] = Blank
  /\ j \in Once => now < OwnTime
  /\ LET r == [on |-> TRUE, next |-> now, queued |-> FALSE]
     IN  /\ Upsert(j, r)
         /\ IF j \in Wakes THEN Read(j, "arm", r) ELSE UNCHANGED edit
  /\ UNCHANGED <<now, loop, session, runs, history>>

Ask(j, kind) ==
  /\ Counted /\ j \in there /\ kind \in {"off", "on", "move"}
  /\ kind = "move" => j \notin Once
  /\ Read(j, kind, row[j])
  /\ again' = [again EXCEPT ![j] = IF kind = "on" THEN @ + 1 ELSE @]
  /\ UNCHANGED <<there, row, now, loop, session, runs, fired>>

\* The row is written as it was read, even when it has been written or deleted
\* in between.
Stale == row[edit.job] # edit.row \/ edit.job \notin there

Write ==
  /\ edit # NoEdit /\ edit' = NoEdit
  /\ Upsert(edit.job, Changed(edit.kind, edit.job, edit.row))
  /\ IF Stale THEN Counted /\ again' = [again EXCEPT ![edit.job] = @ + 1]
     ELSE UNCHANGED <<used, again>>
  /\ UNCHANGED <<now, loop, session, runs, fired>>

WriteFails ==
  /\ edit # NoEdit /\ edit' = NoEdit
  /\ UNCHANGED <<there, row, now, loop, session, runs, history>>

Delete(j) ==
  /\ Counted /\ j \in there /\ there' = there \ {j}
  /\ UNCHANGED <<row, now, edit, loop, session, runs, fired, again>>

Elapse ==
  /\ todo = {} /\ mark = NoMark
  /\ now < MaxTime /\ now' = now + 1
  /\ UNCHANGED <<there, row, edit, loop, session, runs, history>>

-----------------------------------------------------------------------------
(* The tick loop. *)

\* session_busy_for_recurring, of the saved state: a goal that is under way,
\* or that the user left paused.  A goal still in the inbox is not seen.
Busy == goal # "none"

Pass ==
  /\ up /\ todo = {} /\ mark = NoMark
  /\ todo' = {j \in there : Due(j)} /\ todo' # {}
  /\ date' = [j \in Jobs |-> IF j \notin todo' THEN 0
                             ELSE IF row[j].next <= now THEN row[j].next ELSE now]
  /\ UNCHANGED <<jobs, up, mark, met, session, runs, history>>

Looks(j) ==
  /\ up /\ j \in todo /\ mark = NoMark
  /\ todo' = todo \ {j}
  /\ date' = [date EXCEPT ![j] = 0]

\* The row an update will write, from the one it reads; of a job that is gone
\* nothing is written.
Marking(kind, j) ==
  mark' = [kind |-> kind, job |-> j, date |-> date[j], row |-> Changed(kind, j, row[j])]
Updates(kind, j) == IF j \in there THEN Marking(kind, j) ELSE mark' = mark

Defer(j) ==
  /\ Looks(j) /\ j \in Wakes /\ Updates("defer", j)
  /\ UNCHANGED <<jobs, up, met, session, runs, history>>

Wait(j) ==
  /\ Looks(j) /\ Busy /\ Updates("queued", j)
  /\ UNCHANGED <<jobs, up, met, session, runs, history>>

\* The owner's session cannot be opened, or the plan cannot be read.
Err(j) ==
  /\ Looks(j) /\ ~Busy /\ Counted /\ Updates("error", j)
  /\ UNCHANGED <<jobs, up, met, session, runs, fired, again>>

\* The goal is lost when the session's folder is gone; the job is none the wiser.
Fire(j) ==
  /\ Looks(j) /\ ~Busy
  /\ met' = FALSE
  /\ \/ inbox' = Append(inbox, j) /\ live' = TRUE /\ used' = used
     \/ Counted /\ UNCHANGED <<inbox, live>>
  /\ fired' = [fired EXCEPT ![j][date[j]] = @ + 1]
  /\ Marking(IF j \in there THEN "fired" ELSE "record", j)
  /\ UNCHANGED <<jobs, up, goal, runs, again>>

Then(kind) == mark' = IF kind = "fired" THEN [mark EXCEPT !.kind = "record", !.row = Blank] ELSE NoMark

Mark ==
  /\ up /\ mark.kind \in Marks
  /\ Upsert(mark.job, mark.row)
  /\ Then(mark.kind)
  /\ UNCHANGED <<now, edit, up, todo, date, met, session, runs, history>>

\* The loop goes on when the write fails.
MarkFails ==
  /\ up /\ mark.kind \in Marks /\ Counted
  /\ Then(mark.kind)
  /\ again' = [again EXCEPT ![mark.job] = IF mark.kind = "fired" THEN @ + 1 ELSE @]
  /\ UNCHANGED <<jobs, up, todo, date, met, session, runs, fired>>

Record ==
  /\ up /\ mark.kind = "record" /\ mark' = NoMark
  /\ runs' = runs \cup {[job |-> mark.job, date |-> mark.date, met |-> met, st |-> "running",
                        nth |-> fired[mark.job][mark.date], watched |-> TRUE]}
  /\ met' = FALSE
  /\ UNCHANGED <<jobs, up, todo, date, session, history>>

-----------------------------------------------------------------------------
(* The watchers: whatever goal the session ends next is taken for the run's. *)

Watch(r) ==
  /\ up /\ r.watched /\ r.met /\ r.st = "running"
  /\ runs' = (runs \ {r}) \cup {[r EXCEPT !.st = "told"]}
  /\ IF r.job \in there THEN Read(r.job, "touch", row[r.job]) ELSE UNCHANGED edit
  /\ UNCHANGED <<there, row, now, loop, session, history>>

Finish(r) ==
  /\ up /\ r.watched /\ r.st = "told" /\ ~(edit.kind = "touch" /\ edit.job = r.job)
  /\ runs' = runs \ {r}
  /\ UNCHANGED <<jobs, loop, session, history>>

TimeOut(r) ==
  /\ up /\ r.watched /\ r.st = "running" /\ ~r.met
  /\ runs' = runs \ {r}
  /\ UNCHANGED <<jobs, loop, session, history>>

-----------------------------------------------------------------------------
(* The daemon stops and starts; the session takes goals and ends them. *)

Stop ==
  /\ up /\ Counted /\ up' = FALSE
  /\ todo' = {} /\ date' = [j \in Jobs |-> 0] /\ mark' = NoMark /\ met' = FALSE
  /\ inbox' = <<>> /\ live' = FALSE
  /\ runs' = {[r EXCEPT !.watched = FALSE] : r \in runs}
  /\ again' = [j \in Jobs |-> IF mark.kind = "fired" /\ mark.job = j THEN again[j] + 1 ELSE again[j]]
  /\ UNCHANGED <<jobs, goal, fired>>

\* Mutant: the runs of before are left as they are.
StartAgain ==
  /\ ~up /\ up' = TRUE
  /\ UNCHANGED <<jobs, todo, date, mark, met, session, runs, history>>

\* interrupt_running_recurring_runs comes before the first pass.
Start ==
  /\ ~up /\ up' = TRUE
  /\ runs' = {}
  /\ UNCHANGED <<jobs, todo, date, mark, met, session, history>>

\* begin_goal: whatever goal there is gives way.
Accept ==
  /\ live /\ inbox # <<>>
  /\ goal' = Head(inbox) /\ inbox' = Tail(inbox)
  /\ UNCHANGED <<jobs, loop, live, runs, history>>

\* What a goal's end tells the watchers of the goals sent before.
Tell == /\ met' = (mark.kind \in {"fired", "record"})
        /\ runs' = {[r EXCEPT !.met = TRUE] : r \in runs}

\* A job's goal is completed, cancelled, or paused; paused it holds nothing up.
Over ==
  /\ live /\ goal \in Jobs /\ goal' = "none" /\ Tell
  /\ UNCHANGED <<jobs, up, todo, date, mark, inbox, live, history>>

\* A turn of the user's ends without telling anything, a goal of theirs does not.
TheirsOver ==
  /\ live /\ goal = "theirs"
  /\ \/ goal' = "none" /\ (Tell \/ UNCHANGED <<met, runs>>)
     \/ goal' = "paused" /\ Tell
  /\ UNCHANGED <<jobs, up, todo, date, mark, inbox, live, history>>

\* A message leaves a job's goal as it is, a goal of theirs replaces it.
UserTurn ==
  /\ up /\ Counted
  /\ goal' \in {"theirs"} \cup ({goal} \cap Jobs) /\ live' = TRUE
  /\ UNCHANGED <<jobs, loop, inbox, runs, fired, again>>

\* A loop that breaks leaves its goal as it is.
Breaks ==
  /\ live /\ goal # "none" /\ Counted
  /\ live' = FALSE /\ inbox' = <<>>
  /\ UNCHANGED <<jobs, loop, goal, runs, fired, again>>

-----------------------------------------------------------------------------
OfSession == Accept \/ Over \/ TheirsOver
OfRuns == \E r \in runs : Watch(r) \/ Finish(r) \/ TimeOut(r)
Look(j) == Defer(j) \/ Wait(j) \/ Err(j) \/ Fire(j)
Loop == Pass \/ Mark \/ MarkFails \/ Record \/ \E j \in Jobs : Look(j)

Next ==
  \/ Pass \/ Mark \/ MarkFails \/ Record \/ Stop \/ Start
  \/ Accept \/ Over \/ TheirsOver \/ UserTurn \/ Breaks \/ Elapse \/ Write \/ WriteFails
  \/ \E j \in Jobs : \/ Create(j) \/ Delete(j)
                    \/ Defer(j) \/ Wait(j) \/ Err(j) \/ Fire(j)
                    \/ \E kind \in Edits : Ask(j, kind)
  \/ \E r \in runs : Watch(r) \/ Finish(r) \/ TimeOut(r)

Spec == Init /\ [][Next]_vars

\* The loop ticks, watchers wait four hours at most, and what occupies the
\* session ends.  Nobody has to start the daemon, or open the session, again.
LiveSpec ==
  /\ Spec
  /\ WF_vars(Loop) /\ WF_vars(OfSession) /\ WF_vars(OfRuns)
  /\ WF_vars(Write \/ WriteFails)

-----------------------------------------------------------------------------
(* Properties. *)

\* A job sets its session one goal for each of its times, and another only when
\* the daemon stopped or the store failed between sending the goal and writing it
\* down, an update wrote an older row back, or somebody turned the job on again.
OncePerTime == \A j \in Jobs, d \in Times : fired[j][d] <= 1 + again[j]

\* A run on record is closed: by its watcher, or at the daemon's next start.
RunsSettle == runs # {} /\ up ~> (runs = {} \/ ~up)

\* A due job is not left waiting: it fires, is put off, turned off or deleted,
\* unless the daemon is down or its session stands occupied, by a goal that the
\* user left paused or by one whose loop has stopped.
Stands == goal = "paused" \/ (goal # "none" /\ ~live)
Waiting(j) == j \in there /\ row[j].on /\ (row[j].queued \/ row[j].next <= now)
DueFires == \A j \in Jobs : Waiting(j) /\ up ~> (~Waiting(j) \/ ~up \/ Stands)
=============================================================================

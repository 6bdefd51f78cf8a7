-------------------------------- MODULE Lanes --------------------------------
(***************************************************************************)
(* The lanes of one conversation: sub-agents its agent starts, asks again, *)
(* cancels and hears from.  Each lane works in a task of its own and sends *)
(* one result over a channel; the conversation's loop keeps the records of *)
(* the lanes and their reports in its state, which a save puts into the    *)
(* store in two calls.  When the loop or the daemon stops the tasks go     *)
(* with it, and the next loop starts every lane again that the store has   *)
(* as running.                                                             *)
(*                                                                         *)
(* Abstractions.  A lane is its number.  What it does, how long it takes   *)
(* and how old a finished record is, is open, but no record is dropped     *)
(* while its lane is still at work: work is limited to a day, a record     *)
(* lives for seven, or until 32 others have finished after it.  A lane's   *)
(* own paths, by which a spawn may be refused, and the messages to a       *)
(* running lane are left out.                                              *)
(***************************************************************************)
EXTENDS Naturals, FiniteSets

CONSTANTS MaxActive,   \* MAX_ACTIVE_LANES
          MaxLanes,    \* bound: lanes numbered
          MaxBriefs,   \* bound: briefs given to one lane
          MaxStops     \* bound: stops of the loop or the daemon

ASSUME LanesBounds == {MaxActive, MaxLanes, MaxBriefs, MaxStops} \subseteq Nat

VARIABLES rec,      \* the lanes' records
          counter,  \* the number of the last lane
          run,      \* the tasks: the n-th that was started for a lane
          told,     \* how many reports of a lane the conversation has
          saved,    \* the records in the store
          kept,     \* the reports in the store
          save,     \* how far the state is saved, or that there is no loop
          briefs,   \* history: briefs given to a lane
          stops     \* how much of the bound is used

vars == <<rec, counter, run, told, saved, kept, save, briefs, stops>>

Ids == 1 .. MaxLanes
Nth == 1 .. MaxBriefs + 1
Finished == {"paused", "cancelled", "completed", "failed"}
Statuses == Finished \cup {"running"}
Reported == {"paused", "completed", "failed"}

TypeOK == /\ rec \in [Ids -> Statuses \cup {"none"}]
          /\ counter \in 0 .. MaxLanes
          /\ run \in [Ids \X Nth -> {"none", "going", "stopping", "sent", "over"}]
          /\ told \in [Ids -> Nat]
          /\ saved \in [Ids -> Statuses \cup {"none"}]
          /\ kept \in [Ids -> Nat]
          /\ save \in {"clean", "dirty", "half", "down"}
          /\ briefs \in [Ids -> Nat]
          /\ stops \in Nat

NoRuns == [r \in Ids \X Nth |-> "none"]

Init == /\ rec = [l \in Ids |-> "none"] /\ counter = 0
        /\ run = NoRuns
        /\ told = [l \in Ids |-> 0]
        /\ saved = rec /\ kept = told /\ save = "clean"
        /\ briefs = [l \in Ids |-> 0] /\ stops = 0

-----------------------------------------------------------------------------
(* The agent's calls.  The state is saved after each, unless a save fails. *)

Active == {l \in Ids : rec[l] = "running"}
Started(l) == {n \in Nth : run[<<l, n>>] # "none"}
AtWork(l) == {n \in Nth : run[<<l, n>>] \in {"going", "stopping", "sent"}}

Calling == save \in {"clean", "dirty"}
Change == save' = "dirty"
store == <<saved, kept, stops>>

Launch(l) == LET n == Cardinality(Started(l)) + 1
             IN  n \in Nth /\ run' = [run EXCEPT ![<<l, n>>] = "going"]

\* A brief is new work: what the lane was asked before no longer counts.
Brief(l) == /\ briefs[l] < MaxBriefs /\ briefs' = [briefs EXCEPT ![l] = @ + 1]
            /\ Cardinality(Active) < MaxActive
            /\ rec' = [rec EXCEPT ![l] = "running"]
            /\ Launch(l)

Spawn ==
  /\ Calling /\ counter < MaxLanes
  /\ counter' = counter + 1
  /\ Brief(counter')
  /\ Change /\ UNCHANGED <<told, store>>

FollowUp(l) ==
  /\ Calling /\ rec[l] \in Finished
  /\ Brief(l)
  /\ Change /\ UNCHANGED <<counter, told, store>>

\* cancel: of the lane's tasks the first one is aborted, whichever is working.
\* An aborted task ends where it next waits, or is already past that.
Cancel(l) ==
  /\ Calling /\ rec[l] \in {"running", "paused"}
  /\ rec' = [rec EXCEPT ![l] = "cancelled"]
  /\ run' = [run EXCEPT ![<<l, 1>>] = IF @ = "going" THEN "stopping" ELSE @]
  /\ Change /\ UNCHANGED <<counter, told, briefs, store>>

-----------------------------------------------------------------------------
(* The tasks and their results. *)

Ends(l, n) ==
  /\ run[<<l, n>>] \in {"going", "stopping"}
  /\ run' = [run EXCEPT ![<<l, n>>] = "sent"]
  /\ UNCHANGED <<rec, counter, told, save, briefs, store>>

Aborted(l, n) ==
  /\ run[<<l, n>>] = "stopping"
  /\ run' = [run EXCEPT ![<<l, n>>] = "over"]
  /\ UNCHANGED <<rec, counter, told, save, briefs, store>>

\* housekeep, with the records that are old or many enough.
Old(r) == SUBSET {l \in Ids : r[l] \in Finished /\ AtWork(l)' = {}}
Without(r, old) == [l \in Ids |-> IF l \in old THEN "none" ELSE r[l]]

\* Mutant: a late result is taken for a lane that was cancelled.
ReportLate(l, n) ==
  /\ Calling /\ run[<<l, n>>] = "sent"
  /\ run' = [run EXCEPT ![<<l, n>>] = "over"]
  /\ told' = [told EXCEPT ![l] = @ + 1]
  /\ \E st \in Reported : LET r == [rec EXCEPT ![l] = st]
                          IN  \E old \in Old(r) : rec' = Without(r, old)
  /\ Change /\ UNCHANGED <<counter, briefs, store>>

\* inject_lane_result: what a cancelled lane still sends is dropped.
Report(l, n) ==
  /\ Calling /\ run[<<l, n>>] = "sent"
  /\ run' = [run EXCEPT ![<<l, n>>] = "over"]
  /\ IF rec[l] = "cancelled" THEN UNCHANGED <<rec, told>>
     ELSE /\ told' = [told EXCEPT ![l] = @ + 1]
          /\ \E st \in Reported : LET r == [rec EXCEPT ![l] = st]
                                  IN  \E old \in Old(r) : rec' = Without(r, old)
  /\ Change /\ UNCHANGED <<counter, briefs, store>>

-----------------------------------------------------------------------------
(* Saving, stopping and starting again. *)

\* persist: the records go with the scalar state, the reports with the messages.
SaveScalar ==
  /\ save = "dirty" /\ save' = "half"
  /\ saved' = rec
  /\ UNCHANGED <<rec, counter, run, told, kept, briefs, stops>>

SaveMessages ==
  /\ save = "half" /\ save' = "clean"
  /\ kept' = told
  /\ UNCHANGED <<rec, counter, run, told, saved, briefs, stops>>

\* Dropping the manager aborts the tasks and closes their channel.
Stop ==
  /\ save # "down" /\ stops < MaxStops /\ stops' = stops + 1
  /\ save' = "down" /\ run' = NoRuns
  /\ UNCHANGED <<rec, counter, told, saved, kept, briefs>>

\* Mutant: every lane with something saved is taken up again.
InterruptedAll(l) == rec'[l] \in {"running", "completed"}

\* resume_interrupted.
Interrupted(l) == rec'[l] = "running"

\* Mutant: the records are restored, and nobody works on them.
Nobody == run' = NoRuns /\ save' = "clean"

Resume ==
  /\ run' = [r \in Ids \X Nth |->
               IF Interrupted(r[1]) /\ r[2] = 1 THEN "going" ELSE "none"]
  /\ save' = IF \E l \in Ids : Interrupted(l) THEN "dirty" ELSE "clean"

\* The number goes on from the highest record there is.
Start ==
  /\ save = "down"
  /\ \E old \in SUBSET {l \in Ids : saved[l] \in Finished} : rec' = Without(saved, old)
  /\ counter' \in {0} \cup {l \in Ids : saved[l] # "none"}
  /\ \A l \in Ids : saved[l] # "none" => l <= counter'
  /\ told' = kept
  /\ Resume
  /\ UNCHANGED <<briefs, store>>

Next ==
  \/ Spawn \/ SaveScalar \/ SaveMessages \/ Stop \/ Start
  \/ \E l \in Ids : FollowUp(l) \/ Cancel(l)
  \/ \E l \in Ids, n \in Nth : Ends(l, n) \/ Aborted(l, n) \/ Report(l, n)

Spec == Init /\ [][Next]_vars

\* A lane's work has a time limit, the loop reads the channel between its steps
\* and saves what changed.  Nobody has to open a conversation that has stopped.
LiveSpec ==
  /\ Spec /\ WF_vars(SaveScalar) /\ WF_vars(SaveMessages)
  /\ \A l \in Ids, n \in Nth :
       WF_vars(Ends(l, n) \/ Aborted(l, n)) /\ WF_vars(Report(l, n))

-----------------------------------------------------------------------------
(* Properties. *)

\* The conversation hears at most once of each brief, however results, saves,
\* stops, cancellations and further briefs fall together.
OneReportPerBrief == \A l \in Ids : told[l] <= briefs[l]

\* A lane once cancelled is not heard of again, and keeps its record until it is
\* dropped, given a new brief, or the loop stops before that was saved.
CancelledStays ==
  [][\A l \in Ids : rec[l] = "cancelled" /\ save # "down" =>
       /\ told'[l] = told[l]
       /\ rec'[l] \in {"cancelled", "none"} \/ briefs'[l] > briefs[l]]_vars

\* A lane at work reports, is cancelled, or stops with its loop: the conversation
\* does not wait for a lane nobody is working on.
Settles ==
  \A l \in Ids : rec[l] = "running" /\ save # "down" ~> (rec[l] # "running" \/ save = "down")
=============================================================================

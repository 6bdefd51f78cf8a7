---------------------------- MODULE MCTaskLease ----------------------------
(***************************************************************************)
(* Instances of TaskLease for TLC: which operations a run lets happen.     *)
(***************************************************************************)
EXTENDS TaskLease, TLC

\* Every way a lease may be moved or lost, on a task that stays in the session
\* it was filed for.  The REST route hands over like "pass", and moves the lease
\* of waiting work ("transfer").
MovesOps == {"assign", "seat", "leave", "transfer", "pass", "dispatch",
             "requeue", "lane", "stop"}

\* What moves the turn from holder to holder, one operation at a time.
TurnOps == {"claim", "dispatch", "pass", "finish", "revise", "deliver", "edit"}

LeaseSymmetry == Permutations(Agents) \cup Permutations(Sessions)
                 \cup Permutations(Procs) \cup Permutations(Lanes)
============================================================================

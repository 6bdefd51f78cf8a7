---------------------------- MODULE MCTaskBoard ----------------------------
(***************************************************************************)
(* Instances of TaskBoard for TLC: how tasks overlap, and which operations *)
(* a run lets happen.                                                      *)
(***************************************************************************)
EXTENDS TaskBoard, TLC

\* Every two tasks write to overlapping paths.
AllOverlap == Tasks \X Tasks
NoneOverlap == {}

\* One task, everything that can happen to it short of links.
OneTaskOps == AllOps \ {"link", "unlink", "unblock"}

\* One handler over two tasks: what no overlap can explain.
SerialOps == AllOps \ {"crash", "assign", "decline", "edit", "write"}

\* What starts work through a dispatch claim, and what takes it away again.
DispatchOps == {"dispatch", "claim", "finish", "requeue", "fail"}
LoopOps == {"dispatch", "claim", "requeue", "fail", "crash"}
QueueOps == {"dispatch", "report"}

\* Handlers of one kind, sessions and tasks are interchangeable in the runs
\* that check safety only.
HandlerSymmetry == Permutations(Procs) \cup Permutations(Sessions)
BoardSymmetry == HandlerSymmetry \cup Permutations(Tasks)
LoopSymmetry == Permutations(Tasks) \cup Permutations(Sessions)
============================================================================

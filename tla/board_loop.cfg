SPECIFICATION Spec
CONSTANTS
  Sessions = {s1}
  NoSession = NoSession
  MaxDispatchFailures = 1
  Tasks = {t1, t2}
  NoTask = NoTask
  Procs = {loop, h}
  Dispatchers = {loop}
  Overlaps <- AllOverlap
  FiledSeats = {"offered"}
  Ops <- LoopOps
SYMMETRY LoopSymmetry
INVARIANTS
  
  WorkersDisjoint
CHECK_DEADLOCK FALSE

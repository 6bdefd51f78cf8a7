SPECIFICATION Spec
CONSTANTS
  Sessions = {s1}
  NoSession = NoSession
  MaxDispatchFailures = 1
  Tasks = {t1, t2}
  NoTask = NoTask
  Procs = {p1, p2}
  Dispatchers = {p1, p2}
  Overlaps <- AllOverlap
  FiledSeats = {"active"}
  Ops <- DispatchOps
SYMMETRY BoardSymmetry
INVARIANTS
  PathsContested
CHECK_DEADLOCK FALSE

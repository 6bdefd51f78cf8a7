SPECIFICATION Spec
CONSTANTS
  Sessions = {s1}
  NoSession = NoSession
  MaxDispatchFailures = 1
  Tasks = {t1, t2}
  NoTask = NoTask
  Procs = {p1}
  Dispatchers = {p1}
  Overlaps <- NoneOverlap
  FiledSeats = {"active"}
  Ops <- SerialOps
SYMMETRY LoopSymmetry
INVARIANTS
  ParkedAtCeiling
  ReviewHasReport
  NoWaitCycle
PROPERTIES
  FinishedStays
  DeliveredWhenReleased

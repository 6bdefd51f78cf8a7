SPECIFICATION Spec
CONSTANTS
  Sessions = {s1, s2}
  NoSession = NoSession
  MaxDispatchFailures = 1
  Tasks = {t1}
  NoTask = NoTask
  Procs = {p1, p2}
  Dispatchers = {p1, p2}
  Overlaps <- NoneOverlap
  FiledSeats = {"none"}
  Ops <- OneTaskOps
SYMMETRY HandlerSymmetry
INVARIANTS
  TypeOK
  FinishedHasResult
PROPERTIES
  OutcomeStands
  OnlyBlindWritesReopen

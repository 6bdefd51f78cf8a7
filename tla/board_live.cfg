SPECIFICATION QueueSpec
CONSTANTS
  Sessions = {s1}
  NoSession = NoSession
  MaxDispatchFailures = 1
  Tasks = {t1, t2}
  NoTask = NoTask
  Procs = {loop, h}
  Dispatchers = {loop}
  Overlaps <- AllOverlap
  FiledSeats = {"active"}
  Ops <- QueueOps
PROPERTIES
  ClaimedIsServed
CHECK_DEADLOCK FALSE

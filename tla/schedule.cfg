SPECIFICATION LiveSpec
CONSTANTS
  Jobs = {o, w}
  Wakes = {w}
  Once = {o}
  MaxTime = 2
  MaxEvents = 1
INVARIANTS
  OncePerTime
PROPERTIES
  RunsSettle
  
CHECK_DEADLOCK FALSE

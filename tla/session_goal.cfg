SPECIFICATION LiveSpec
CONSTANTS
  Msgs = {m1, m2}
  NoMsg = NoMsg
  Held = {m1}
  Notices = {m2}
  Ops <- GoalOps
  MaxSteps = 1
  MaxReports = 1
  MaxInputs = 3
  MaxRecovery = 1
INVARIANTS
  RecordedOnce
  InterruptStopsGoal
PROPERTIES
  
  ComesToRest
CHECK_DEADLOCK FALSE

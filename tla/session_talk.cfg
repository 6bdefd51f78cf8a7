SPECIFICATION Spec
CONSTANTS
  Msgs = {m1, m2}
  NoMsg = NoMsg
  Held = {m1}
  Notices = {}
  Ops <- TalkOps
  MaxSteps = 1
  MaxReports = 1
  MaxInputs = 3
  MaxRecovery = 1
INVARIANTS
  TypeOK
  PairedCalls
  StoreFollows
  NothingDropped
PROPERTIES
  QuestionStands
  Promised
CHECK_DEADLOCK FALSE

SPECIFICATION LiveSpec
CONSTANTS
  Mails = {m1, m2}
  NoMail = NoMail
  Agents = {m1}
  Batch = 2
  MaxAttempts = 2
  MaxFaults = 1
  MaxSends = 3
  MaxPauses = 1
INVARIANTS
  TypeOK
  MarkedWasHanded
  AgainOnlyAfterFault
  OneEventPerKey
PROPERTIES
  Arrives
CHECK_DEADLOCK FALSE

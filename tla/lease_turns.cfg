SPECIFICATION Spec
CONSTANTS
  Tasks = {t1}
  NoTask = NoTask
  Agents = {a1, a2, a3}
  NoAgent = NoAgent
  Sessions = {s1, s2, s3}
  NoSession = NoSession
  Procs = {p1}
  Lanes = {}
  Ops <- TurnOps
  MaxToken = 3
SYMMETRY LeaseSymmetry
INVARIANTS
  OneHolder
  LeaseIsHolders
  
CHECK_DEADLOCK FALSE

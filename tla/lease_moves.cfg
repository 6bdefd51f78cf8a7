SPECIFICATION Spec
CONSTANTS
  Tasks = {t1}
  NoTask = NoTask
  Agents = {a1, a2}
  NoAgent = NoAgent
  Sessions = {s1, s2}
  NoSession = NoSession
  Procs = {p1}
  Lanes = {l1}
  Ops <- MovesOps
  MaxToken = 2
SYMMETRY LeaseSymmetry
INVARIANTS
  TypeOK
  OldTokensAreStale
PROPERTIES
  Fenced
CHECK_DEADLOCK FALSE

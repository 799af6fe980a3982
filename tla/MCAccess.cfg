SPECIFICATION Spec
CONSTANTS
  Calls = {k1, k2}
  Requests = {q1}
  Groups = {g1, g2}
  Clusters = {c1, c2}
  g1 = g1
  g2 = g2
  c1 = c1
  c2 = c2
  Types = {"admin", "custom"}
  Start <- MCStart
SYMMETRY SameCalls
CHECK_DEADLOCK FALSE
INVARIANTS
  AnswerWasRight
  NothingOverlooked
  GoneHoldNothing
  DeletedUserIsRefused

CONSTANTS
  n1 = n1
  n2 = n2
  n3 = n3
  d1 = d1
  d2 = d2
  Node = {n1, n2, n3, n4}
  Doc = {d1, d2}
  Wrapper = {w1, w2, w3}
  SetId = {s1, s2}
  Copy = {c1, c2}
  NULL = NULL
  SiblingsMerge = FALSE
  NewKinds = {}
  MaxHeld = 3
  MaxMembers = 2
SPECIFICATION MCSpec
SYMMETRY NewObjects
CONSTRAINTS FewObjects FewCalls NoneLost ShortSets
INVARIANTS
  SetsTypeOK
  MembersAlive
  NamespacesFreedOnce
  SetAlgebra
CHECK_DEADLOCK FALSE

CONSTANTS
  n1 = n1
  n2 = n2
  d1 = d1
  d2 = d2
  Node = {n1, n2, n3, n4}
  Doc = {d1, d2}
  Wrapper = {w1, w2}
  NULL = NULL
  SiblingsMerge = FALSE
  NewKinds = {}
  MaxHeld = 3
SPECIFICATION MCSpec
SYMMETRY NewObjects
CONSTRAINTS FewHeld NoneLost
INVARIANTS
  NoDanglingWrapper
  WrapReturnsLiveObject
  NothingLeaks
CHECK_DEADLOCK FALSE

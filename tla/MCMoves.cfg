CONSTANTS
  n1 = n1
  n2 = n2
  n3 = n3
  n4 = n4
  d1 = d1
  Node = {n1, n2, n3, n4, n5}
  Doc = {d1}
  Wrapper = {w1, w2, w3, w4}
  NULL = NULL
  SiblingsMerge = TRUE
  NewKinds = {"elem", "frag"}
  MaxHeld = 4
SPECIFICATION MCSpecMoves
SYMMETRY NewObjects
CONSTRAINT FewHeld
INVARIANTS
  NoDanglingWrapper
  DeallocFreesOnce
  NothingLeaks
CHECK_DEADLOCK FALSE

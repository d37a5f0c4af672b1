CONSTANTS
  n1 = n1
  n2 = n2
  n3 = n3
  d1 = d1
  n4 = n4
  Node = {n1, n2, n3, n4, n5}
  Doc = {d1}
  Wrapper = {w1, w2, w3, w4}
  NULL = NULL
  SiblingsMerge = FALSE
  NewKinds = {"text", "ref"}
  MaxHeld = 2
SPECIFICATION MCSpecContents
SYMMETRY NewObjects
CONSTRAINTS FewHeld NoneLost FewWrapped
INVARIANTS
  TypeOK
  NoDanglingWrapper
  DeallocFreesOnce
  TextWrapperAgrees
CHECK_DEADLOCK FALSE

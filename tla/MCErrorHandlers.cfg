CONSTANTS
  Op = {o1, o2, o3}
  NULL = NULL
  Foreign = Foreign
SPECIFICATION Spec
SYMMETRY Calls3
INVARIANTS
  TypeOK
  ForeignIsNeverCalled
CHECK_DEADLOCK FALSE

CONSTANTS
  Op = {o1, o2, o3}
  NULL = NULL
  Foreign = Foreign
SPECIFICATION SpecRestoring
SYMMETRY Calls3
INVARIANT HandlerIsUnderWay
PROPERTY ReportingSpec
CHECK_DEADLOCK FALSE

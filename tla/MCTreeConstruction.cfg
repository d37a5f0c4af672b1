CONSTANTS
  Suites <- MCSuites
  Scale = 4
SPECIFICATION Spec
INVARIANTS
  TypeOK
  AssertionsHold
  TreeAgrees
  ReferencesLive
  FormattingAgrees
  ResultShape
  AllFreed
  TurnsBounded
  BindingAgrees
PROPERTIES
  NothingLost

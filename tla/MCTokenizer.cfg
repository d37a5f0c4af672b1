CONSTANTS
  MaxAttributes = 3
  LookupMinSize = 1
SPECIFICATION MCSpec
INVARIANTS
  TypeOK
  AssertionsHold
  OwnsWhatItBuilds
  EveryCharacterOnce
  CommentsAgree
  ContentIsText
  ReadsWhatWasWritten
PROPERTIES
  ReadsToTheEnd
CHECK_DEADLOCK FALSE


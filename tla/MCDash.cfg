CONSTANTS
  t1 = t1
  t2 = t2
  Thread = {t1, t2}
  NULL = NULL
  Error = Error
  Selector <- MCSelector
  Visitor <- MCVisitor
  Translation <- MCTranslation
  config <- MCconfig
  Program <- DashProgram
SPECIFICATION Spec
INVARIANTS SelectsWhatMatches
CHECK_DEADLOCK FALSE

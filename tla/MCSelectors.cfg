CONSTANTS
  t1 = t1
  t2 = t2
  Thread = {t1, t2}
  NULL = NULL
  Error = Error
  Selector <- MCSelector
  Visitor <- MCVisitor
  Translation <- MCTranslation
  config <- MCconfig
  Program <- MCProgram
SPECIFICATION Spec
INVARIANTS CacheAgrees SelectsWhatMatches
PROPERTIES AnswersAsUncached CallsReturn
CHECK_DEADLOCK FALSE

SPECIFICATION LiveSpec
CONSTANTS
  c1 = c1
  LiveCases = {c1}
  LiveAttempts = {1, 2, 3}
  CapByMethod <- MCCapByMethod
  Inputs <- MCInputs
  ModelAnswers <- MCModelAnswers
INVARIANTS
  LiveTypeOK
  GivingUpSpendsNothing
  LinksWithinCap
  LinksWereAuthorized
  RecoveredHasLink
PROPERTIES
  VerdictIsVouchedFor
  KeepsContract
  RoundEnds
CHECK_DEADLOCK FALSE

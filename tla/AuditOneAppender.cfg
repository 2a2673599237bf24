SPECIFICATION MCSpec
CONSTANTS
  c1 = c1
  c2 = c2
  a1 = a1
  Cases = {c1, c2}
  Appenders = {a1}
  Steps <- MCSteps
  MaxEvents = 4
INVARIANTS
  AuditTypeOK
  TamperingShows
  ReplayReadsTheLog
CHECK_DEADLOCK FALSE

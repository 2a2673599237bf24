SPECIFICATION MCSpec
CONSTANTS
  c1 = c1
  c2 = c2
  a1 = a1
  a2 = a2
  Cases = {c1, c2}
  Appenders = {a1, a2}
  Steps <- MCSteps
  MaxEvents = 3
INVARIANTS
  ChainVerifies
CHECK_DEADLOCK FALSE

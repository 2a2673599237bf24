SPECIFICATION MCSpec
CONSTANTS
  c1 = c1
  w1 = w1
  Cases = {c1}
  Writers = {w1}
  CapByMethod <- MCCapByMethod
  MethodOf <- MCMethodOf
  AmountOf <- MCAmountOf
  Proposals <- MCProposals
  StartStates <- MCStartStates
  MaxVersion = 99
  MaxAttempts = 2
  MaxTimeouts = 2
  MaxCrashes = 2
  PortMayRefuse = TRUE
INVARIANTS
  PipelineTypeOK
  
  KeyChargedOnce
  SpendWithinCap
  SpendIsCounted
  ReplayAgrees
  CountsAreBacked
PROPERTIES
  PipelineKeepsContract
CHECK_DEADLOCK FALSE

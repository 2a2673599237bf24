SPECIFICATION MCSpec
CONSTANTS
  c1 = c1
  w1 = w1
  Cases = {c1}
  Writers = {w1}
  CapByMethod <- MCCapByMethod
  MethodOf <- MCMethodOf
  AmountOf <- MCAmountOf
  Proposals <- MCWillingProposals
  StartStates <- MCStartStates
  MaxVersion = 8
  MaxAttempts = 2
  MaxTimeouts = 1
  MaxCrashes = 0
  PortMayRefuse = FALSE
INVARIANTS
  CountersAgree
CHECK_DEADLOCK FALSE

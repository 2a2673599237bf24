SPECIFICATION MCSpec
CONSTANTS
  c1 = c1
  w1 = w1
  w2 = w2
  Cases = {c1}
  Writers = {w1, w2}
  CapByMethod <- MCCapByMethod
  MethodOf <- MCMethodOf
  AmountOf <- MCAmountOf
  Proposals <- MCWillingProposals
  StartStates <- MCStartStates
  MaxVersion = 8
  MaxAttempts = 2
  MaxTimeouts = 0
  MaxCrashes = 0
  PortMayRefuse = FALSE
INVARIANTS
  KeyChargedOnce
CHECK_DEADLOCK FALSE

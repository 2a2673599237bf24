SPECIFICATION FairPipelineSpec
CONSTANTS
  c1 = c1
  w1 = w1
  Cases = {c1}
  Writers = {w1}
  CapByMethod <- MCCapByMethod
  MethodOf <- MCMethodOf
  AmountOf <- MCAmountOf
  Proposals <- MCProposals
  StartStates <- MCStartStates
  MaxVersion = 99
  MaxAttempts = 2
  MaxTimeouts = 2
  MaxCrashes = 0
  PortMayRefuse = FALSE
PROPERTIES
  EveryCallSettles
  EveryCaseSettles
CHECK_DEADLOCK FALSE

SPECIFICATION MCSpec
CONSTANTS
  c1 = c1
  w1 = w1
  w2 = w2
  Cases = {c1}
  Writers = {w1, w2}
  CapByMethod <- MCCapByMethod
  MethodOf <- MCMethodOf
  AmountOf <- MCAmountOf
  Proposals <- MCWillingProposals
  StartStates <- MCStartStates
  MaxVersion = 6
  MaxAttempts = 2
  MaxTimeouts = 1
  MaxCrashes = 1
  PortMayRefuse = TRUE
SYMMETRY WriterSymmetry
INVARIANTS
  HoldoutNeverCharged
  RecoveredMeansCollected
PROPERTIES
  
  StoreSpec
  TerminalRowsFrozen
  OneWinnerPerVersion
CHECK_DEADLOCK FALSE

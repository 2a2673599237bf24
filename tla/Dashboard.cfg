SPECIFICATION DashSpec
CONSTANTS
  c1 = c1
  server = server
  batch = batch
  Cases = {c1}
  Writers = {server, batch}
  Server = server
  CapByMethod <- MCCapByMethod
  MethodOf <- MCMethodOf
  AmountOf <- MCAmountOf
  Proposals <- MCProposals
  StartStates <- MCStartStates
  MaxAttempts = 1
  MaxVersion = 7
  MaxTimeouts = 1
  MaxCrashes = 1
  PortMayRefuse = TRUE
INVARIANTS
  PagesAreCoherent
  UncertainIsShown
  ScenariosEndAsTraced
PROPERTIES
  ScenariosSpendOnce
CONSTRAINT FewWrites
CHECK_DEADLOCK FALSE

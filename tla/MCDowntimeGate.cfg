SPECIFICATION GateSpec
CONSTANTS
  CapByMethod <- MCCapByMethod
  WindowFeed <- MCWindowFeed
  Times <- MCTimes
  Proposals <- MCProposals
  Views <- MCViews
  MaxWindows = 3
INVARIANTS
  ConfidenceOnlyAsksAHuman
  DowntimeOnlyPostpones
  ScheduleIsBounded
PROPERTIES
  OutageHiddenOnlyByCorrection
CHECK_DEADLOCK FALSE

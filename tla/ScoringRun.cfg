SPECIFICATION ScoringSpec
CONSTANTS
  CapByMethod <- MCCapByMethod
  Datasets <- MCDatasets
  GenSeeds = {42, 43}
  RunSeeds = {1, 2}
  Providers = {"stub", "baseline", "groq"}
  ModelAnswers <- MCModelAnswers
  CorpusOf <- MCCorpusOf
  RetryDraw <- MCRetryDraw
  OrganicDraw <- MCOrganicDraw
  MaxScorings = 2
  MaxGenerations = 2
  MaxCrashes = 1
INVARIANTS
  ScoringTypeOK
  SealedScoredOnce
  TimesScoredIsHonest
  ReportsReproduce
  CounterfactualIsFixed
CHECK_DEADLOCK FALSE

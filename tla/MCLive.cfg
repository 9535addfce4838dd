SPECIFICATION FairSpec
CONSTANTS
  NumRows = 3
  Workers = {w1, w2}
  QueueCap = 1
  InvalidRows = {3}
  Responses = {"200", "5xx", "402"}
  MaxItems = 100
  PersistEvery = 25
  SpendEvery = 2
  SpendCap = 2
  Costs = {1}
  BudgetDivisor = 5
  IngestMayFail = TRUE
  SinkMayFail = TRUE
PROPERTIES FollowsPhases KeepsContract JobEnds EveryRowAnswered

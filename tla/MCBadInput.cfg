SPECIFICATION FairSpec
CONSTANTS
  NumRows = 2
  Workers = {w1, w2}
  QueueCap = 2
  InvalidRows = {}
  Responses = {"200"}
  MaxItems = 100
  PersistEvery = 2
  SpendEvery = 50
  SpendCap = 1000
  Costs = {1}
  BudgetDivisor = 5
  IngestMayFail = TRUE
  SinkMayFail = FALSE
PROPERTY ReachesTerminalStatus

SPECIFICATION Spec
CONSTANTS
  NumRows = 5
  Workers = {w1, w2}
  QueueCap = 1
  InvalidRows = {}
  Responses = {"5xx", "200_malformed"}
  MaxItems = 100
  PersistEvery = 25
  SpendEvery = 50
  SpendCap = 1000
  Costs = {0}
  BudgetDivisor = 1
  IngestMayFail = FALSE
  SinkMayFail = FALSE
SYMMETRY Symmetry
INVARIANTS AttemptsCapped RetriesPaidFor

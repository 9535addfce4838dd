SPECIFICATION Spec
CONSTANTS
  NumRows = 8
  Workers = {w1}
  QueueCap = 2
  InvalidRows = {}
  Responses = {"200", "400"}
  MaxItems = 100
  PersistEvery = 2
  SpendEvery = 2
  SpendCap = 2
  Costs = {1}
  BudgetDivisor = 5
  IngestMayFail = FALSE
  SinkMayFail = FALSE
INVARIANT SpendBounded

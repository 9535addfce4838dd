SPECIFICATION Spec
CONSTANTS
  NumRows = 8
  Workers = {w1, w2}
  QueueCap = 1
  InvalidRows = {}
  Responses = {"200"}
  MaxItems = 7
  PersistEvery = 25
  SpendEvery = 3
  SpendCap = 6
  Costs = {1, 2}
  BudgetDivisor = 5
  IngestMayFail = FALSE
  SinkMayFail = FALSE
SYMMETRY Symmetry
INVARIANTS SpendBounded IngestBounded

SPECIFICATION Spec
CONSTANTS
  NumRows = 5
  Workers = {w1, w2, w3}
  QueueCap = 2
  InvalidRows = {2}
  Responses = {"200", "429_reset", "401"}
  MaxItems = 4
  PersistEvery = 2
  SpendEvery = 50
  SpendCap = 1000
  Costs = {1}
  BudgetDivisor = 5
  IngestMayFail = TRUE
  SinkMayFail = TRUE
SYMMETRY Symmetry
INVARIANTS TypeOK FinishedFileComplete ConservationHolds RowsAccounted CountersAgree
PROPERTY StopIsFinal

SPECIFICATION FairSpec
CONSTANTS
  NumResults = 6
  FlushRows = 3
  FlushTime = 2
INVARIANTS TypeOK ClosedMeansSynced  SyncedInTime
PROPERTY CloseEnds

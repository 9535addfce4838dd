SPECIFICATION FairSpec
CONSTANTS
  Jobs = {j1, j2}
  Cap = 2
  MaxCost = 2
  MaxTries = 2
  MaxStops = 2
INVARIANTS TypeOK ToldIsTrue DownloadComplete CancelHonoured 
PROPERTIES RunsFollowPhases RefusalIsDurable EveryJobSettles
CHECK_DEADLOCK FALSE

SPECIFICATION FairSpec
CONSTANTS
  Callers = {c1, c2}
  MaxCalls = 3
  Unit = 2
  Capacity = 3
  StartRate = 2
  MinRate = 1
  MaxRate = 3
  IncreaseStep = 1
  Streak = 2
  Cooldown = 2
  Pauses = {1}
  WindowLength = 3
INVARIANTS TypeOK GrantsBounded RateMovesSlowly
PROPERTY EveryoneServed
CHECK_DEADLOCK FALSE

SPECIFICATION ServerSpec
CONSTANTS
  MaxCalls = 4
  Workers = 2
  QueueLimit = 1
  MaxRestarts = 1
  MaxFailures = 1
  Bodies = {w1, w2}
  Items = 2
  MaxRuns = 3
  MaxEnds = 1
  MaxLost = 1
INVARIANTS
  PoolIsSound OneBody NothingIsSkipped RepeatsAreExplained CancelIsHeeded
PROPERTIES AnswersAreFinal EveryCallAnswered EveryRunEnds
CHECK_DEADLOCK FALSE

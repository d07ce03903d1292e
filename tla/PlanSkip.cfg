SPECIFICATION FairSpec
CONSTANTS
  c1 = c1
  c2 = c2
  w1 = w1
  w2 = w2
  Names = {"a", "b"}
  Ids = {1, 2}
  Definitions <- Skipping
  Workers = {w1, w2}
  Cycles = {c1, c2}
  WorkerOf <- Separate
  ClaimTTL = 1
  BatchSize = 2
  MaxClock = 4
  MaxLag = 0
  MaxCommands = 2
  None = None
PROPERTY DueAccounted
PROPERTY DueIsPlanned

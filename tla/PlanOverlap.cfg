SPECIFICATION Spec
CONSTANTS
  c1 = c1
  c2 = c2
  w1 = w1
  w2 = w2
  Names = {"a"}
  Ids = {1, 2}
  Definitions <- CatchUpAndOnce
  Workers = {w1}
  Cycles = {c1, c2}
  WorkerOf <- Overlapping
  ClaimTTL = 1
  BatchSize = 1
  MaxClock = 4
  MaxLag = 1
  MaxCommands = 3
  None = None
INVARIANT TypeOK
INVARIANT ExhaustedWasRecorded
INVARIANT RecordedBehindDue
PROPERTY DueAccounted
PROPERTY ForbidNeverOverlaps
PROPERTY OnlyActiveFires

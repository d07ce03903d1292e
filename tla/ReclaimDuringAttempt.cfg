SPECIFICATION Spec
CONSTANTS
  o1 = o1
  w1 = w1
  w2 = w2
  c1 = c1
  c2 = c2
  Occurrences = {o1}
  Workers = {w1, w2}
  Cycles = {c1, c2}
  WorkerOf <- Separate
  MaxAttempts <- TwoAttempts
  RetryWindow = 3
  BackoffSeconds = 1
  MaxBackoffSeconds = 2
  ClaimTTL = 3
  DispatchTimeout = 2
  BatchSize = 1
  CoordinationRetryDelay = 1
  UseRedis = FALSE
  MaxClock = 4
  MaxLag = 0
  None = None
PROPERTY NoReclaimDuringAttempt

SPECIFICATION Spec
CONSTANTS
  o1 = o1
  w1 = w1
  w2 = w2
  c1 = c1
  c2 = c2
  Occurrences = {o1}
  Workers = {w1, w2}
  Cycles = {c1, c2}
  WorkerOf <- Separate
  MaxAttempts <- FourAttempts
  RetryWindow = 5
  BackoffSeconds = 1
  MaxBackoffSeconds = 2
  ClaimTTL = 2
  DispatchTimeout = 1
  BatchSize = 1
  CoordinationRetryDelay = 1
  UseRedis = TRUE
  MaxClock = 3
  MaxLag = 1
  None = None
INVARIANT AttemptsMirrored
INVARIANT OpenRowsComeBack

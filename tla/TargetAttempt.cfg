SPECIFICATION Spec
CONSTANTS
  Environments <- SomeEnvironments
  Hosts <- SomeHosts
  Answers <- SomeAnswers
  Statuses <- EdgeStatuses
 
INVARIANT ClaimOutlivesAttempt
INVARIANT PolicyNeverCrosses
CHECK_DEADLOCK FALSE

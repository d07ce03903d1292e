SPECIFICATION Spec
CONSTANTS
  MaxInt = 15
  Values <- EdgeValues
  Steps <- EdgeSteps
  DayFields <- SomeFields
  Starts <- SomeStarts
  SearchYears = 10
  Requests <- SomeRequests
  RunAt <- SomeInstants
  Duration <- SomeDurations
  RuleItems <- SomeItems
INVARIANT FieldIsExact
INVARIANT AcceptedMeansFound
INVARIANT DigestDescribesStored
INVARIANT PrepareRefusesOnlyRules
INVARIANT DigestIsMeaning
 
PROPERTY LoopEnds
CHECK_DEADLOCK FALSE

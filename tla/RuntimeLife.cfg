SPECIFICATION ProcessSpec
CONSTANTS
  c1 = c1
  c2 = c2
  h1 = h1
  i1 = i1
  i2 = i2
  schedule = schedule
  outbox = outbox
  other = other
  Cycles = {c1, c2}
  Handlers = {h1}
  MaxFired = 2
  Installers = {i1, i2}
  Required = {schedule, outbox}
  Foreign = {other}
  Nobody = Nobody
CHECK_DEADLOCK FALSE
INVARIANT ProcessTypeOK
INVARIANT DrainedIsQuiet
INVARIANT WaiterRefuses
INVARIANT ServesOnlyInstalled
INVARIANT ExitReleases
PROPERTY NoAddDuringWait
PROPERTY OnlyIntoEmpty
PROPERTY ShutdownClosesPool
PROPERTY ShutdownEnds

SPECIFICATION Spec
CONSTANTS
  s1 = s1
  s2 = s2
  Names = {"a"}
  Ids = {1}
  Keys = {"k"}
  Definitions <- SomeDefinitions
  Submitted <- SomeRequests
  Sessions = {s1, s2}
  MaxClock = 1
  None = None
SYMMETRY Symmetry
INVARIANT TypeOK
INVARIANT OneEffectPerReceipt
PROPERTY CommandsAreAtomic
PROPERTY ExhaustedStaysExhausted

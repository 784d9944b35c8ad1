SPECIFICATION Spec
CONSTANTS
  t1 = t1
  t2 = t2
  Callers <- MCCallers
  Engines <- MCEngines
  MaxHandles = 2
  MaxOwned = 1
  MaxSinks = 2
CHECK_DEADLOCK TRUE
INVARIANTS
  ReturnedMeansDone
PROPERTIES
  CallsReturn

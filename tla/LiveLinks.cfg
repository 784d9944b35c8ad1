SPECIFICATION Spec
CONSTANTS
  a = a
  b = b
  c = c
  Foreign = Foreign
  Links <- MCLinks
  Exts = {1, 2}
  Layouts <- MCLayouts
  SectorUnits = 2
  MaxPasses = 3
  MaxNames = 3
  MaxChanges = 3
CHECK_DEADLOCK TRUE
INVARIANTS
  AnswerIsFaithful
PROPERTIES
  ReadEnds

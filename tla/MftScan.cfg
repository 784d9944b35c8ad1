SPECIFICATION Spec
CONSTANTS
  n1 = n1
  n2 = n2
  n3 = n3
  Names <- MCNames
  InitialDisks <- MCDisks
  Slots = 3
  Room = 1
  MaxSeq = 2
  MaxIds = 3
  MaxChanges = 3
  Buffers = 2
  ArenaMax = 1
CHECK_DEADLOCK TRUE

  
PROPERTIES
  ScansInOrder
  ScanEnds

SPECIFICATION Spec
CONSTANTS
  Volumes <- MCVolumes
  ROOT_RECORD = 1
  SCAN_CHUNK = 5
  PageExtents = 2
  MaxRecord = 8
  FreeLcns = {1, 8, 10}
  MaxGrowths = 3
CHECK_DEADLOCK TRUE
INVARIANTS
  MapIsFaithful
PROPERTIES
  BootstrapEnds

CONSTANTS
  Flushers = {f1}
  None = None
  MaxVol = 2
  MaxJournals = 2
  MaxFaults = 1
  MaxRestarts = 1
  RemoveMayFail = TRUE
SPECIFICATION FairSpec
INVARIANTS
  TypeOK
  
  CleanMeansSaved
PROPERTIES
  GenerationsMove
  Converges
  StopEndsWorker

SPECIFICATION QuerySpec
CONSTANTS
  Ascii <- MCAscii
  Fold <- MCFold
  CaseClass <- MCCaseClass
  Singleton <- MCSingleton
  Compose <- MCCompose
  Width <- MCWidth
  Rank <- MCRank
  MaxSize = 4
  MaxGroups = 2
  MaxTerms = 3
  MaxRegexTerms = 1
  TicksPerDay = 2
  MaxSecs <- MCMaxSecs
  Zone = 1
  Volumes <- MCVolumes
  InitialRows <- MCRows
  Clients = {c1, c2}
  Settings <- MCSettings
  NewRows <- MCNewRows
  NewNames <- MCNewNames
  NewSizes = {2}
  MaxQueries = 2
  MaxPageRows = 2
INVARIANTS  MergedInOrder PagesShowCaptured
 
SYMMETRY ClientSymmetry
CHECK_DEADLOCK FALSE

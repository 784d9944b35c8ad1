SPECIFICATION FairSpec
CONSTANTS
  Names = {"a", "b"}
  Settings <- MCSettings
CHECK_DEADLOCK FALSE

  
  
PROPERTIES
  EventuallyInSync

SPECIFICATION Spec
CONSTANTS
  Names = {"a", "b"}
  Settings <- DroppedSettings
INVARIANT DroppedRowsReturn
CHECK_DEADLOCK FALSE

SPECIFICATION CollectSpec
CONSTANTS
  Paths = {"b"}
  Script <- MCScript
  Ends <- MCEnds
  Reconciling = {TRUE}
  MaxEvents = 3
  None = None
PROPERTIES
  EverythingRecorded
CHECK_DEADLOCK FALSE

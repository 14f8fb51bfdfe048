SPECIFICATION FairS3Spec
CONSTANTS
  Rows = {1, 2, 3}
  Day <- MCDay
  Dests = {a, b}
  None = None
  Cap = 2
  Stubborn = {1}
  MaxSwitches = 2
  MaxStops = 1
INVARIANTS
  ExportAccounted
  OwnBucketOnly
PROPERTIES
  StagingDrains
CHECK_DEADLOCK FALSE

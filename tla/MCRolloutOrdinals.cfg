SPECIFICATION RolloutSpec
CONSTANTS
  Paths = {"a"}
  Script <- Unnumbered
  Ends <- MCEnds
  Reconciling = {TRUE}
  MaxEvents = 0
  None = None
INVARIANTS
  NeverRefused

SPECIFICATION FairCloudSpec
CONSTANTS
  Ids = {1, 2, 3}
  m1 = m1
  text = text
  none = none
  Metas = {m1}
  Contents = {text, none}
  Redacted = none
  Dests = {d1}
  Scopes = {a, b}
  Archive <- MCArchive
  None = None
  NotShared = NotShared
  MaxPosition = 3
  MaxPage = 1
  Observation <- MCObservation
  OtherEvents <- MCOther
  FirstAccount <- OneAccount
  Limit = 1
  MaxOther = 1
  MaxSwitches = 1
  MaxTroubles = 1
INVARIANTS
  CacheIsPrefix
PROPERTIES
  QueueDrains
  CacheCatchesUp

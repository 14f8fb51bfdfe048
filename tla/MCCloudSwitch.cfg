SPECIFICATION CloudSpec
CONSTANTS
  Ids = {1, 2}
  m1 = m1
  text = text
  none = none
  Metas = {m1}
  Contents = {text, none}
  Redacted = none
  Dests = {d1, d2}
  Scopes = {a}
  Archive <- MCArchive
  None = None
  NotShared = NotShared
  MaxPosition = 2
  MaxPage = 1
  Observation <- MCObservation
  OtherEvents <- MCOther
  FirstAccount <- OneAccount
  Limit = 1
  MaxOther = 0
  MaxSwitches = 2
  MaxTroubles = 1
PROPERTY StoreSpec
INVARIANTS
  CloudTypeOK
  ReceiptsAreStored
  OnlyAuthorised
  ViewVerified

SPECIFICATION CloudSpec
CONSTANTS
  Ids = {2, 3}
  m1 = m1
  text = text
  none = none
  Metas = {m1}
  Contents = {text, none}
  Redacted = none
  Dests = {d1}
  Scopes = {a}
  Archive <- MCArchive
  None = None
  NotShared = NotShared
  MaxPosition = 2
  MaxPage = 1
  Observation <- MCObservation
  OtherEvents <- MCOther
  FirstAccount <- OneAccount
  Limit = 1
  MaxOther = 1
  MaxSwitches = 1
  MaxTroubles = 1
INVARIANT
  HiddenWhenDenied

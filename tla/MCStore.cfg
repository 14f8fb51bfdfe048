SPECIFICATION StoreSpec
CONSTANTS
  Ids = {1, 2}
  m1 = m1
  text = text
  none = none
  Metas = {m1}
  Contents = {text, none}
  Redacted = none
  Dests = {d1, d2}
  Scopes = {a}
  Archive <- MCArchive
  None = None
  NotShared = NotShared
  MaxPosition = 2
  MaxPage = 2
SYMMETRY Symmetry
INVARIANTS
  StoreTypeOK
  QueueMirrorsLedger
  AcknowledgedLeavesQueue
  SharedAsDecided
  DecisionDelivered
  DeletedStaysDeleted
  PageAppliesInOrder
PROPERTIES
  EvidenceImmutable
  SyncOnlyAdvances

SPECIFICATION IntakeSpec
CONSTANTS
  Ids = {1, 2, 3, 4, 5}
  Metas = {"plain", "labelled"}
  Contents = {redacted}
  Redacted = redacted
  Dests = {}
  Scopes = {}
  Archive <- MCArchive
  None = None
  NotShared = NotShared
  MaxPosition = 0
  MaxPage = 0
  Entries = {1}
  Malformed = {}
  Batches = {1}
  NumLines = 2
  NumChunks = 1
  Parts <- MCParts
  Usage = {3}
  Labels = {"unknown", "known"}
  Reading <- Enriched
  FirstLabel = "unknown"
  Signed = NotShared
  HighWater = 1
  Capacity = 2
  MaxStops = 1
  MaxRelabels = 1
INVARIANTS
  ReleasedIsRecorded
PROPERTIES
  DeliveryKept

SPECIFICATION FairIntakeSpec
CONSTANTS
  Ids = {3, 4}
  Metas = {"plain", "labelled"}
  Contents = {redacted}
  Redacted = redacted
  Dests = {}
  Scopes = {}
  Archive <- MCArchive
  None = None
  NotShared = NotShared
  MaxPosition = 0
  MaxPage = 0
  Entries = {}
  Malformed = {}
  Batches = {}
  NumLines = 2
  NumChunks = 0
  Parts <- MCParts
  Usage = {}
  Labels = {"unknown", "known"}
  Reading <- Enriched
  FirstLabel = "unknown"
  Signed = NotShared
  HighWater = 1
  Capacity = 2
  MaxStops = 1
  MaxRelabels = 1
PROPERTIES
  RestartLosesNothing

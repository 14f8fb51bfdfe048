SPECIFICATION FairIntakeSpec
CONSTANTS
  Ids = {3, 5}
  Metas = {"plain", "labelled"}
  Contents = {redacted}
  Redacted = redacted
  Dests = {d}
  Scopes = {}
  Archive <- MCArchive
  None = None
  NotShared = NotShared
  MaxPosition = 0
  MaxPage = 0
  Entries = {2}
  Malformed = {2}
  Batches = {1}
  NumLines = 1
  NumChunks = 1
  Parts <- MCParts
  Usage = {3}
  Labels = {"unknown", "known"}
  Reading <- Stable
  FirstLabel = "unknown"
  Signed = d
  HighWater = 1
  Capacity = 1
  MaxStops = 1
  MaxRelabels = 1
INVARIANTS
  NeverConflicts
PROPERTIES
  SourcesDrained

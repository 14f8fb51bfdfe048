SPECIFICATION CollectorsSpec
CONSTANTS
  Paths = {"a"}
  Script <- MCScript
  Ends <- MCEnds
  Reconciling = {TRUE, FALSE}
  MaxEvents = 3
  None = None
  Imports = {1, 2}
  HeldBefore <- TwoBefore
  HeldLater <- TwoLater
  HeldSince <- TwoSince
  ImportArchive = None
  ImportBegun = 3
  ImportUntil = 4
  ImportTail = 2
  ImportBatch = 2
  ImportFaults = 1
  ImportParts = {"remote", "servers"}
  ImportAltered = 1
  VmPaths = {1, 2}
  VmScripts <- TwoScripts
  VmUnits = 2
  VmReplaced = 1
  VmStopped = 1
  PluginCommands = {"c1", "c2"}
  PluginRequests = {"q1"}
  InboxRows <- SentRows
  PluginBatch = 2
  PluginTokens = 2
  PluginPermits = 2
  InboxEntries = 2
  PluginCuts = 1
  BrowserKeys = {"k1", "k2"}
  BrowserValues = {"v"}
  MaxWritten = 2
  MaxFiles = 5
  ChatOffers <- TwoOffers
  ChatOrgs <- ChatOrg
  MaxVanished = 1
  MaxChatDeaths = 1
  ChatWindow = 1
  Reports <- SentRecords
  ReportHooks = {1, 2}
  HookSays <- TwoHooks
  ReportBatch = 2
  ReportSessions = 1
  MaxReportStarts = 2
  MaxReportsLost = 1
  MaxReportChanges = 1
  LimitAccounts = {"a1", "a2"}
  LimitLabels = {"l1"}
  LimitReaders = {"p1", "p2"}
  MaxHours = 2
  MaxSignIns = 2
  MaxLimitRuns = 2
INVARIANTS
  RolloutHolds
  ImportHolds
  CoworkHolds
  ChatHolds
  ReportsHold
  ReadingsAreTrue
  CredentialsHold
PROPERTIES
  InboxKeeps
CHECK_DEADLOCK FALSE

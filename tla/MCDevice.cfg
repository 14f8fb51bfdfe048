SPECIFICATION DeviceSpec
CONSTANTS
  None = None
  Workspaces = {"o1", "o2"}
  Buckets = {"b1"}
  Repos = {"r1"}
  CommandKinds = {"login", "logout", "pause", "resume", "local", "s3", "cloud",
                  "add s3", "remove s3", "allow", "forget", "init", "revoke"}
  Terminals = {"c1"}
  MaxIssued = 2
  MaxCommands = 3
  MaxLockings = 1
  MaxKills = 1
  HistoryAsks = {"q1", "q2"}
  HistoryAttempts = 2
  MaxServers = 3
  MaxAsks = 2
  MaxGrants = 3
  MaxMoves = 4
  Connections = {"c1", "c2"}
  MaxListing = 3
  Readings = {"q1", "q2"}
  PageSize = 1
  MaxObjects = 2
  MaxWrites = 2
  MaxReadings = 2
  MaxReaders = 1
  Choices = {"v1"}
  MaxKeys = 3
  MaxRoutings = 5
  MaxChoices = 2
  MaxRoutesKilled = 1
  MaxRoutesFailed = 1
  ServiceManagers = {"launchd", "systemd"}
  MaxReleases = 2
  MaxOperations = 2
  MaxByHand = 1
  MaxBreakages = 1
INVARIANTS
  AccountHolds
  RoutesAreUndone
  SetupHolds
  ServiceHolds
  AnswersAreTrue
  FiguresAgree
PROPERTIES
  SwitchAuthorized
CHECK_DEADLOCK FALSE

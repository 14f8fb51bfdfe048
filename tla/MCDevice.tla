------------------------------ MODULE MCDevice ------------------------------
(* What is installed on the device and what reads it: the settings of       *)
(* accounts and of the vendors, the service, the local views and the       *)
(* application. Each has files of its own, so that they run here one at a  *)
(* time: the scene says which. The properties group what is asked of them. *)
EXTENDS Integers, Sequences

CONSTANTS
  None,
  Workspaces, Buckets, Repos, CommandKinds, Terminals, MaxIssued, MaxCommands, MaxLockings, MaxKills, \* Account
  HistoryAsks, HistoryAttempts, MaxServers, MaxAsks, MaxGrants, MaxMoves,  \* DesktopApp
  Connections, Readings, MaxListing, PageSize, MaxObjects, MaxWrites, MaxReadings, MaxReaders, \* S3Reader
  Choices, MaxKeys, MaxRoutings, MaxChoices, MaxRoutesKilled, MaxRoutesFailed,  \* Routers
  ServiceManagers, MaxReleases, MaxOperations, MaxByHand, MaxBreakages  \* Lifecycle

ASSUME DesktopAssumption ==
  /\ None \notin Workspaces /\ "local" \notin Workspaces
  /\ MaxServers \in Nat /\ MaxGrants \in Nat

ASSUME BucketAssumption ==
  /\ None \notin Connections /\ None \notin Readings
  /\ PageSize \in Nat \ {0}
  /\ MaxListing \in Nat

ASSUME AccountAssumption ==
  LET Tokens == Workspaces \X (1..MaxIssued) IN
  /\ None \notin Tokens
  /\ None \notin [org : Workspaces, token : Tokens \cup {None}]
  /\ None \notin [org : Workspaces, token : Tokens \cup {None}, repos : SUBSET (Repos \cup {None})]

ASSUME RoutersAssumption ==
  LET Values == {None} \cup {<<"own", v>> : v \in Choices} IN
  /\ None \notin Nat /\ None # <<"kikimimi", 0>>
  /\ None \notin [key : Nat, model : Values, provider : Values]

ASSUME ServiceAssumption ==
  /\ None \notin {"service", "manual", "viewer", "app", "cli"}
  /\ None \notin [exe : {"app", "cli"}, due : BOOLEAN, leaving : BOOLEAN]
  /\ ServiceManagers \subseteq {"launchd", "systemd"}

VARIABLES
  scene,
  \* Account
  file, keychain, locked, live, tokens, command, agent, outcome,
  commands, lockings, killed,
  \* Setup
  settings, codexFile, config, taken, daemon, doing, secrets, ended, wanted,
  edits, merged, crashed, unwritten, setups,
  \* Routers
  codex, open, keyFile, records, team, keys, minted, stray, task, chosen,
  routerEdits, lost, failures, routerBegun,
  \* Lifecycle
  manager, disk, unit, job, agents, socket, holder, state, marker, viewer,
  proc, running, told, raced, slipped, begun, started, broken,
  \* DesktopApp
  collecting, published, history, runs, ask, asks,
  target, reviewed, grant, listing, switch, grants, moves, spent,
  \* Activity and Patterns
  ingested,
  \* S3Reader
  bucket, saved, reader, lock, reads, writes, begunReads, readerStarts, proven

INSTANCE MCStories

A == INSTANCE Account WITH
  issued <- tokens, begun <- commands,
  Orgs <- Workspaces, Offered <- CommandKinds, Commands <- Terminals,
  MaxTokens <- MaxIssued, MaxBegun <- MaxCommands, MaxLocked <- MaxLockings, MaxKilled <- MaxKills

S == INSTANCE Setup WITH
  issued <- secrets, started <- setups,
  Ports <- {1, 2}, MaxBegun <- 3, MaxEdits <- 2, MaxMerged <- 1, MaxKilled <- 1, MaxFailed <- 1

R == INSTANCE Routers WITH
  MaxBegun <- MaxRoutings, MaxEdits <- MaxChoices, MaxKilled <- MaxRoutesKilled,
  MaxFailed <- MaxRoutesFailed

L == INSTANCE Lifecycle WITH
  saved <- state, open <- running,
  Managers <- ServiceManagers, MaxVersion <- MaxReleases, MaxBegun <- MaxOperations,
  MaxStarts <- MaxByHand, MaxBroken <- MaxBreakages

W == INSTANCE DesktopApp WITH
  viewer <- history, tokens <- grants,
  Orgs <- Workspaces, Asks <- HistoryAsks, Attempts <- HistoryAttempts,
  MaxRuns <- MaxServers, MaxTokens <- MaxGrants

P == INSTANCE Patterns WITH
  ThisHost <- 1, Stories <- Told, Window5 <- 2, Spiral <- 2, Denials <- 2,
  Compacted <- 2, JumpFrom <- 5, JumpBy <- 20, LongCall <- 10

O == INSTANCE S3Reader WITH
  job <- reads, Conns <- Connections, Keys <- 1..MaxListing, Requests <- Readings,
  MaxBegun <- MaxReadings, MaxStarts <- MaxReaders

-----------------------------------------------------------------------------
account == <<file, keychain, locked, live, tokens, command, agent, outcome,
             commands, lockings, killed>>
setup   == <<settings, codexFile, config, taken, daemon, doing, secrets, ended, wanted,
             edits, merged, crashed, unwritten, setups>>
routers == <<codex, open, keyFile, records, team, keys, minted, stray, task, chosen,
             routerEdits, lost, failures, routerBegun>>
service == <<manager, disk, unit, job, agents, socket, holder, state, marker, viewer,
             proc, running, told, raced, slipped, begun, started, broken>>
app     == <<collecting, published, history, runs, ask, asks,
             target, reviewed, grant, listing, switch, grants, moves, spent>>
views   == <<ingested>>
bucketReader == <<bucket, saved, reader, lock, reads, writes, begunReads, readerStarts, proven>>

Scenes == {"account", "setup", "routers", "service", "window", "switch", "views", "bucket"}

(* Where a part may begin in several ways, the others take one.            *)
DeviceInit ==
  /\ scene \in Scenes
  /\ A!AccountInit /\ S!SetupInit /\ R!RoutersInit /\ L!LifeInit
  /\ W!AppInit /\ P!ActivityInit /\ O!ReaderInit
  /\ scene # "setup" => settings.hooks = <<>> /\ codexFile = None /\ taken = {}
  /\ scene # "routers" => codex.provider = None /\ codex.model = None /\ open.model = None
  /\ scene # "service" => manager = "launchd"

DeviceNext ==
  \/ /\ scene = "account" /\ A!AccountNext
     /\ UNCHANGED <<scene, setup, routers, service, app, views, bucketReader>>
  \/ /\ scene = "setup" /\ S!SetupNext
     /\ UNCHANGED <<scene, account, routers, service, app, views, bucketReader>>
  \/ /\ scene = "routers" /\ R!RoutersNext
     /\ UNCHANGED <<scene, account, setup, service, app, views, bucketReader>>
  \/ /\ scene = "service" /\ L!LifeNext
     /\ UNCHANGED <<scene, account, setup, routers, app, views, bucketReader>>
  \/ /\ scene = "window" /\ W!HistoryNext
     /\ UNCHANGED <<scene, account, setup, routers, service, views, bucketReader>>
  \/ /\ scene = "switch" /\ W!SwitchNext
     /\ UNCHANGED <<scene, account, setup, routers, service, views, bucketReader>>
  \/ /\ scene = "views" /\ P!ActivityNext
     /\ UNCHANGED <<scene, account, setup, routers, service, app, bucketReader>>
  \/ /\ scene = "bucket" /\ O!ReaderNext
     /\ UNCHANGED <<scene, account, setup, routers, service, app, views>>

deviceVars == <<scene, account, setup, routers, service, app, views, bucketReader>>

DeviceSpec == DeviceInit /\ [][DeviceNext]_deviceVars

-----------------------------------------------------------------------------
(* With no command under way, config.json and the Keychain name one         *)
(* account, a device that is signed out keeps no token, and a running      *)
(* agent uploads where the file says: although the Keychain may be locked, *)
(* the agent reads in between, and a command killed between two writes may *)
(* have left its half until the user signs in or out again (config.rs).    *)
AccountHolds == scene = "account" => A!AccountIsWhole /\ A!AgentFollows

(* A vendor's program that was pointed at the team router can be pointed    *)
(* back to what the user chose, is when a command is undone or disabled,    *)
(* and has a key that counts: whichever command was killed or could not     *)
(* write, and whatever the user edited in between (codex_router.rs,         *)
(* opencode_router.rs).                                                     *)
RoutesAreUndone ==
  scene = "routers" => R!AlwaysReversible /\ R!ChoiceReturns /\ R!KeysArePointedAt

(* What is installed is whole, and what is removed is gone: the user's own  *)
(* hooks, and the exporters' port and token, which are the receiver's       *)
(* (init_cmd.rs, claude_settings.rs, codex_otel.rs).                         *)
SetupHolds ==
  scene = "setup" => S!UserHooksSurvive /\ S!NothingLeftBehind /\ S!ExportersMeetReceiver

(* The collector that writes the database is the one the control socket     *)
(* reaches; a service that was stopped is started again or its user told;   *)
(* and it runs the new version after an update (agent.rs, service.rs,       *)
(* desktop_cmd.rs, updates.rs).                                             *)
ServiceHolds == scene = "service" => L!Reachable /\ L!StoppedIsRemembered /\ L!Updated

(* What a page is answered from is what it says it is: the snapshot of one   *)
(* bucket, whole; the local history by a process that has the database.    *)
AnswersAreTrue ==
  /\ scene = "bucket" => O!SnapshotIsWhole /\ O!ConnectionIsOfSnapshot
  /\ scene = "window" => W!HistoryOfLedger

(* What two sources reported is one, and every page, query and pattern that *)
(* counts the same thing comes to the same figure (query_cmd.rs,           *)
(* web_query.rs, patterns.rs).                                             *)
FiguresAgree ==
  scene = "views" => P!ReportedOnce /\ P!ViewsAgree /\ P!RunsAreReal /\ P!IncidentsAgree

(* The application switches to the workspace the user confirmed, by an       *)
(* authorization for it that is used once (lib.rs of the application).     *)
SwitchAuthorized == W!SwitchAuthorized
============================================================================

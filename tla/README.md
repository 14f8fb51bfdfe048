# kikimimi: verification project

kikimimi records what coding agents (Claude Code, Codex, OpenCode, Cowork,
Claude Desktop) do on a machine, in one local database, and lets the user share
it: with a team in Cloud, or with a bucket of the user's own. This directory
holds TLA+ models of the program, the TLC configurations that check them on
small instances, and theorems that hold for every value of the constants,
proved with TLAPS.

Everything that is modelled is translated from the code under `src/crates` and
`src/desktop`; `PROJECT.json` maps every definition to the lines it stands for.
Line numbers below are those of the same commit.

## 1. The system

One long-lived process, the agent (`kikimimi agent`, in the models also the
collector), runs a tokio loop that owns the database. Short-lived processes of
the same binary feed it and change its configuration; a desktop application and
a local web page look at it.

| part | state it keeps | operations | talks to | what is hard | what makes it correct |
|---|---|---|---|---|---|
| Local event database `sink/store.rs` | observations by scope, sharing decisions, outbox, receipts, cursors, tombstones, the active view | open, import_history, ingest_with_sharing, enqueue_history, pending, acknowledge, apply_page, activate | the agent's and the web server's threads, under one mutex | replays after a crash, stale pages, deletions, re-sharing | evidence never changes; the queue mirrors the ledger; what is shared is queued or has a receipt; deleted stays deleted |
| Cloud sync `sink/cloud.rs` | the sink, its verified account, retry time | flush (GET, apply, POST, acknowledge), reload | Cloud, Store, web server | the mutex is given up during requests; lost answers; the account changes; 401 | receipts only for what is stored; nobody else's records sent or shown; the queue drains |
| Agent loop and intake `agent.rs` | which arm runs, cursors and channels | tick, hook, payload, batch, flush, stop, last drain | all sources, Store, sinks | death between any two commits; an error of a commit ends it | what a source let go of is recorded; every source is drained |
| Hook shim and spool `hook_cmd.rs`, `spool` | one file per hook | write by rename, list, read, remove, quarantine | vendors' hooks, agent | the shim gives up; malformed entries; replays | an entry leaves the spool after its commits |
| OTLP receiver `otlp` | bounded channel, answers awaited | receive, commit, answer 200 or 503 | exporters, agent | a timeout with the payload queued; retries | 200 only after the commit |
| Codex session tailer `codex_tailer.rs` and Codex rollout translation `rollout.rs` | cursors, the context of each file, files deferred | scan, checkpoint, read the prefix again, defer behind the export | files that grow, are compressed and unpacked; the export | half-written lines, cursor and commits apart, two sources of one call | every line in the context of those before it, recorded once |
| Claude transcript backfill `claude_backfill.rs` and Claude transcript translation `transcript.rs` | plan, progress file, batch, the context of a file | boundary, plan, read and replay, send, record progress | old transcripts, agent | resumed files rebuild their state from a discarded part; files grow or fail | what is imported is what was said; done is recorded; live and imported do not overlap |
| Hook and exporter normalizers, Client registry `adapter-*`, `client_source.rs` | counters by session, pending hooks, client and directory caches | hook, otlp record, evict | spool, receiver, registry | redelivery with another counter, client or directory | an event keeps its identity and its first content; a call counts once |
| Cowork tailer `cowork_tailer.rs` | positions in memory, identities seen | scan, hand over, mark | files a VM replaces and truncates | restart in mid-line, oversize lines | no line twice, none in another context |
| Claude Desktop collector `claude_desktop_tailer.rs`, `chromium_store.rs` | links, inbox, conversations known | read the LevelDB, scan, link, mark | a database Chromium writes meanwhile; the plugin | a reading across two moments; links that become ambiguous | a reading was true once; ambiguity shows nothing |
| Claude plugin receiver `claude_plugin.rs` | credential in Keychain and file, inbox | configure, export, revoke, accept a response | the plugin, Desktop collector | commands that overlap and die | a credential handed out was in force; the inbox keeps what was measured |
| S3 export sink `sink/s3.rs` | rows in memory, staging directories | push, flush, suspend, upload | an uploading command | partial failure, cap, other destination | every row in one place or given up; no row in another's bucket |
| S3 reader `s3_reader.rs` | snapshot, connection | select, list, download, publish, query | a downloading command, web server | objects that change meanwhile, timeouts | a snapshot is whole and of its connection |
| Configuration, secrets and accounts `config.rs`, `secret_store.rs`, `login_cmd.rs`, ...; Collection, repositories and devices commands | `config.json`, Keychain item | load, save, sign in and out, switch, allow, revoke | agent, application | a crash between Keychain and file; a locked Keychain | the token belongs to the account beside it; the agent follows |
| Setup of Claude Code and Codex `init_cmd.rs`, `claude_settings.rs`, `codex_setup.rs` | the vendors' settings | init, uninstall | user's edits | kills, failed writes, moved ports | the user's own part survives; exporters meet the receiver |
| Model routers `*_router.rs` | record, key file, vendor file | connect, enable, disable, fail open | team server | kills between record, file and key | the user's choice returns; keys are known |
| Service, update and status `service.rs`, `self_update_cmd.rs`, `desktop_cmd.rs` | unit, job, socket, marker | enable, disable, start, stop, update | launchd, systemd | stopped for an update that dies | the collector runs again, of the new version |
| Subscription usage snapshots `usage.rs` | a file per provider | ask, save under a lock | Codex server, status line | several writers, a switch of profile | limits under their own account, newest kept |
| Desktop application `desktop/src-tauri` | viewer, target reviewed, grants | history request, switch of destination, update | collector, viewer | the database changes hands; stale confirmation | answers of a process that has the database; the confirmed workspace only |
| Queries over the events, Local web server, Web dashboard | none | pages, named queries, patterns | database, snapshots | one fact reported twice, in several views | all figures of one thing agree |
| Legacy Parquet and Cloud sinks, Repair, Event schema and paths | | | | | see section 6 |

`PROJECT.json` lists every part with its status, and under "hazards" each place
where the code is hard to test, with the properties that watch it.

## 2. Modules

| module | models | composes |
|---|---|---|
| `Store` | the database: one action per method, one method one transaction | |
| `CloudSync` | the two-way synchronisation, the agent's part of it, the web request that queues history, Cloud as its client sees it | EXTENDS `Store`: its steps on the database are Store's actions |
| `Delivery` | the abstract promise to a source: an item is held until every part of it is in the ledger, and only then released | |
| `Intake` | loop, spool, OTLP receiver, Codex tailer, backfill as sources | EXTENDS `Store`; implements `Delivery` through a refinement mapping |
| `Rollout` | the Codex tailer, the translation of a line in its context, and the export that reports the same calls | its `ledger` stands for `Store`, its `Stop` for the end of the process in `Intake` |
| `Transcript` | the translation of a Claude transcript: context and events of a line | used by `Backfill` and `Cowork` |
| `Backfill` | plan, reading, batches, progress of the import | EXTENDS `Transcript` |
| `Cowork` | the tailer of a VM's transcripts | EXTENDS `Transcript` |
| `ChromiumStore` | reading a LevelDB that Chromium (external) writes | |
| `DesktopChat` | the scan of Claude Desktop's chats, links to measured responses | |
| `Receiver` | the plugin's credential and its inbox | |
| `Normalizers` | spool and exporter redelivery, identities, counters, stamps | |
| `Usage` | subscription limits, their file and its writers | |
| `Account` | `config.json`, Keychain, every command that changes them, the agent's reload | |
| `Setup` | hooks, exporters, port and token; init and uninstall | |
| `Routers` | the two model routers | |
| `Lifecycle` | service managers, collectors, control socket, updates | |
| `DesktopApp` | history requests, workspaces, the authorised switch | |
| `S3Sink`, `S3Reader` | the export to a bucket; the reader of one | |
| `Activity`, `Patterns` | the figures of pages and queries; incidents and their ranking | `Patterns` EXTENDS `Activity` |
| `MCStore`, `MCCloudSync`, `MCIntake`, `MCRollout`, `MCS3Sink`, `MCOffers`, `MCStories` | values of the constants for TLC | |
| `MCCollectors`, `MCCollectLive`, `MCDevice` | sums of the components that share nothing but the database (see section 3) | INSTANCE of each |
| `StoreProofs`, `CloudSyncProofs`, `IntakeProofs`, `S3SinkProofs`, `CollectorsProofs`, `LinesProofs`, `ImportProofs`, `DeviceProofs` | theorems (section 4) | EXTENDS the module proved about; `ImportProofs` EXTENDS `LinesProofs` |

**Store.** A variable per table. A method is one action because every method
holds the mutex and commits one transaction; `Open` resets the view and imports
the archive once. An event is its metadata and its content; masking erases the
content. The order of identities is that of `ORDER BY event_id`. A page is applied
as a whole by `Applied` and `Deleted`; `OneByOne` applies its changes one after the
other, as the loop of `apply_page` does, and `PageAppliesInOrder` says that the two
agree. `consent` is a history variable: what the user asked to upload explicitly.

**CloudSync.** A flush is four steps, because the mutex is given up in between:
`Download` (GET and `apply_page`), `ShowAndSend` (activate, pending, POST), the
answer, and `Acknowledged`. Between them the web thread may queue history, the
account behind the token may change, Cloud may accept a request whose answer is
lost, and the process may die. Times are abstracted to whether `retry_at` lies
ahead.

**Intake.** `unit` is what the loop is committing and `todo` what is left of
it, one event per step, so that a crash can fall between any two commits and
between the last commit and the release. `Reading` says what an identity reads
as under each `label`, which stands for what events are enriched from at that
moment. A conflicting identity ends the process, as `?` does in the code.
`Upload` stands for CloudSync as far as the back-pressure of the backfill
depends on it; the same question to the bucket (`agent.rs:1348`) is left out,
because its pending rows are those in memory (`s3.rs:468`), which every flush
empties: it puts a chunk off by one flush. In detail the sources are `Rollout`,
`Backfill`, `Normalizers`.

**Rollout.** A line is a record of what it tells (session, turn, model, total of
tokens) and of what makes its events different. `Translation` gives its events
and their identities in the context of the lines before it. Offsets count
half-lines. A drain reads each file (`DrainPlain`, `DrainPacked`, `Defer`,
`SkipDone`), commits event by event (`Commit`) and saves the cursors
(`Checkpoint`); the process may be killed between any two. What enrichment adds at
the commit (`agent.rs:1443`) is left out: it names a client only where a session
names no recognised originator, and that a line read again may then be refused is
what `intake_reread` shows. A read may fall
short, and reading a prefix again may fail: such a file is `faulted`, a history
variable, and the properties except it, because the code then goes on in an
empty context. `ContextAt` and `EventsOf` say, independently of any state, what
one reading of the whole file would make of each line. `EveryLineRecorded`
allows the same exception.

**Transcript, Backfill, Cowork.** `Transcript` folds a line into the context
(prompt, tools, requests already counted) and gives its events. `Backfill` reads
each planned file, replays what an earlier run handed over without handing it
over again, and records the progress after the acknowledgement; a file may grow,
be torn, or fail to open. `LedgerIsMeant` compares with one uninterrupted reading.
A row is what its line tells and a stamp of the machine the line was read on: the
repository of its directory (`repo_resolve.rs`, kept as long as the thread runs),
the servers configured there at the start of a session (`mcp_config.rs`, kept for
30 seconds: what the cache still holds is here a change that comes later), both when
the line is read (`claude_backfill.rs:661-687`), and the client when it is committed
(`agent.rs:1364`). `Alters` changes each of them wherever the next reading can tell. All
lines of the model are of one directory. So two things are refused, and each ends
the agent. The event that ends a session in a transcript without times is named by
what was read last: a file torn or grown after it was read contradicts that event when
it is read again (`claude_backfill.rs:597`), and a failed reading counts as done. And a
line that is recorded word for word contradicts its row where its stamp was read from
something that has changed since, which is the loop of restarts `intake_reread` shows.
`OnlyEndsRefused`, a part of `ImportHolds`, says that nothing else is; another,
`NothingBeyondBoundary`, that only a file that grew after the plan is imported past
the boundary (`:281`).
A transcript of `Cowork` is a sequence of units: a line, the beginning of one that
is being written, or a piece of an oversize line, which ends after any number of
pieces. A scan takes the files one by one (`todo`) and reads a file in full or in
part; `New` hands on an event only if `seen` has not met its identity, in the
database or earlier in the scan. `Cowork` keeps its positions in memory only; it is
assumed that after a truncation or a replacement one scan comes by before the file
has grown past the old position, which the code cannot notice.

**ChromiumStore, DesktopChat, Receiver.** Chromium appends to a log, compacts it
to a table and removes files while `chromium_store.rs` reads them without a lock;
the decoding of V8 values (`chromium_v8.rs`) is not modelled. `DesktopChat` works
from *offers*, a conversation's items and the responses measured for them, which
arrive in either order and may be withdrawn. The rotation of the key records are
matched by and the unwrapping of records are left out. `Receiver` runs two
commands on one credential, with a cut in the middle of either, beside a
request. A request carries several rows; each is compared with the inbox as it
was before any of them is written, and not with the other rows of the request
(`claude_plugin.rs:578-621`), so that of two rows of one identity in one request
the last written stays and both are answered for. `InboxKeeps` therefore promises the
measure that was written before and, of what was answered for, the rows that were
alone of their identity in their request (`Alone`). Rows are written one by one: a
request whose writes fail half-way leaves some of them, and is not answered for.

**Normalizers.** A record is delivered once or again, in this process or the
next; the loop reads and commits one record per step, so that a crash can fall
between any two; the counter of records without a tool call is evicted with its
session. What is known to be refused is stated by `OnlyRecordsRefused`, a part of
`ReportsHold`: two records of one session in one instant without a tool id share an
identity (`adapter-claude/src/otlp.rs:94-107`), an evicted counter repeats a key
(`adapter-claude/src/lib.rs:96-109`), and a record without a time that comes
again contradicts its row. Each ends the agent. The hook adapter of Codex is not
modelled, because no installed hook reaches it.

**Usage.** Collector, command line and status lines save under a lock in another
order than they read. Two limits of the model's properties are limits of the
code: a profile that changes hands and back during a request whose answer does
not name the account, and an idle status line that stamps old limits as new.

**Account.** Each command loads, changes the Keychain, and writes the file, as
separate steps; it may be killed and the Keychain may be locked at each. One
command runs at a time beside the agent: with two, `AccountHolds` fails, because
the file is written without a lock (`config.rs:241`), and so does the promise of
`init_cmd.rs:183-187` that a saved token is never clobbered. The run has one
terminal, and the theorem names the same hypothesis (`OneAtATime`). A kill between
Keychain and file leaves the new token under the old account (`config.rs:270`,
against the comment at `:12-13`), and the next
change of the repositories saves that pair for good; `AccountHolds` excepts
the states between such a kill and the next sign-in or sign-out, which the model
shows to repair them. Seen besides: a logout with a locked Keychain reports an error after it has cleared the file; an agent that read a
locked Keychain has no token until the next reload; `repos_cmd.rs:4-6` says that
the daemon applies the repository list, while `agent.rs` uses the default one.

**Setup, Routers.** Each command is its writes in order; it may be killed or
fail between them, and the user edits the same files. Of `SetupHolds`,
`UserHooksSurvive` excepts an entry in which the user merged a hook of their own
with kikimimi's, which is removed whole, against `init_cmd.rs:6`. Of
`RoutesAreUndone`, `KeysArePointedAt` excepts kills and failures altogether, and it
names the keys made in an answer that cannot be used (`stray`), which stay in force
though nothing points at them: of either vendor where the answer is lost or does not
parse (`codex_router.rs:318`), of Codex also where it has no URL (`:147-149`), which
returns before the revocation whose comment (`:168`) says "Do not leave a live key
that nothing points at"; OpenCode revokes such a key (`opencode_router.rs:187-217`).
The others do not speak of what was also seen: a kill after the key file of OpenCode
and before the record, after which enabling refuses for ever; a key minted and not
yet saved, which stays live; a disable killed after the revocation, after which a
dead key is used again; `uninstall --purge` while routed, which loses the record.

**Lifecycle.** Two service managers with their own rules for starting, killing
and restarting a job, collectors started by hand, one owner of the database, and
a socket path that outlives its process. `Begun` saves `state.json` (`agent.rs:239`)
and installs the handler of SIGTERM (`:268`) in one step; a SIGTERM in between is a
`Crash` here. `launchctl kickstart` needs a job that is
registered and not being booted out and does nothing to one that runs; `systemctl
restart` goes by the unit file (`Kickable`), and `systemctl enable --now` leaves a
running unit as it is, on its old executable (`Runs`). The properties except, by
name, what the code leaves open: two collectors that probe before either binds
(`raced`, `agent.rs:60-68`), an operation of the user's that failed or was
interrupted before them (`told`), and, in `slipped`, three places an operation slips
past: a service that was just starting when an update looked for it ("starting");
a service registered while its collector, told to end by a command rather than by
the manager, had not ended yet, which then runs as registered and ends cleanly, and
is not started again ("ending", `service.rs:510-517`); and a service the command line
registered while an update had stopped it, for which the application gives its
marker up when it is started again ("taken", `desktop_cmd.rs:64-81`). The command
line may also take the service over while an update is under way, which then
restarts nothing; if the application takes the service back and fails before it
has started it again, the older release runs on and the user has been told, so
`Updated` speaks of the states where no operation is under way and none has failed.
Seen besides: a viewer that holds the
database when the collector restarts makes it fail; an update by the command line
killed between stop and restart is resumed by nothing
(`self_update_cmd.rs:177-186`). Recycled process ids, the notifier of versions and
the check of a bundle are left out.

**DesktopApp, S3Reader.** A request asks the collector, then a viewer it starts;
both want the database. Workspaces are read one at a time. A viewer that holds
the ledger keeps a collector from starting. `S3Reader` lists in pages while
objects change; a connection is saved before its snapshot is published, so a
request given up leaves the file ahead of the reader until a restart; and the
error of another connection's failed selection is answered to queries until the
next refresh.

**Activity, Patterns.** A view is an operator over the set of rows recorded so
far; rows arrive in any order. The parts of `FiguresAgree` relate the dashboard, the
session list, its details, the named queries, the machines, subagents, skills,
servers and patterns to each other and to what happened, under every filter by
device, by repository and without a repository (`FiltersShown`), from every day on
(`Windows`). Not every page counts the same thing. The overview, the session list and
the session's summary add up the tokens and cost of every row
(`web_query.rs:350-352`, `:668-670`, `:1094-1098`); the models price a request once,
whoever reports it (`:795-805`). `TotalsAgree` therefore says that the first never come
to less than the models, and that they come to the same where one source reports each
request (`OneSource`): in the stories `Results` and `Requests`, where OTel and a
transcript report one request, the overview shows more tokens than the models. In the
same way the failures of a subagent count every report (`:1157`) and are at least those
that remain when second reports are removed (`SessionAgrees`). Times that tie are
ordered by identity; shares are whole tokens; the hits of a pattern on the page are
over unresolved rows as in the code; the failures of today alone may differ from the
overview for a result reported on two days, and are not compared. A session's detail
is compared where filter and window leave out none of its rows, because the detail
knows neither.

## 3. What the runs check

| run | instance | question |
|---|---|---|
| `store` | 2 identities, one archived; 2 destinations (symmetric), 1 account, positions to 2, pages of 2 | the ledger, the queue and the cache keep their promises under any order of calls and restarts; a page applied as a whole is its changes applied one by one |
| `cloud_switch` | 2 sign-ins, 2 switches, 1 crash or revocation | `CloudSync` implements `Store`; receipts, authorisation, view |
| `cloud_live` | 3 identities, batches of one, another device that adds and deletes | the cache is the prefix of its account's stream up to the cursor; the queue drains and the cache catches up |
| `cloud_denied` | as `cloud_switch`, smaller | finding: the view after a 401 on upload |
| `intake_safety` | a hook of two events, a batch and a line that report the same usage, a second line, a transcript chunk; 1 stop, 1 change of enrichment, so that replays conflict and end the agent | `Intake` implements `Delivery`; released is recorded |
| `intake_live` | a batch and a line that report the same usage, a malformed spool entry, a chunk that waits for uploads; only what is passed over reads differently | the agent never ends itself over what it holds; every source is drained |
| `intake_reread` | enrichment that changes | finding: the loop of restarts |
| `rollout_ordinals` | an edit and two commands without ordinals | finding: two commands with one identity |
| `collectors` | eight scenes, below | what is recorded is what was said, once, in its context, and never contradicts itself but where section 2 says so |
| `collect_live` | a session of two lines that may never rest; chats of Claude Desktop whose cache may never be readable | every complete line, and every measured response, is recorded |
| `device` | eight scenes, below | accounts, setup, routers, service, application, views and bucket reader under kills, failed writes, edits and processes that come and go |
| `s3` | 3 rows of 2 days, 2 destinations, a cap of 2 rows, 2 switches, 1 stop, one stubborn file | rows accounted for, own bucket only; staged files drain |

`collectors`, `collect_live` and `device` are sums. The components they hold share
only the database, and it names every event by what it is about: no step of one
is enabled or disabled by another, so that their product would only multiply
states. The initial state picks a `scene`, one component runs in it, and a
property is the conjunction of what is asked of each component in its scene. Where
components do share state, in `CloudSync`, `Intake`, `Backfill`, `DesktopChat` with
the receiver's responses, `DesktopApp` with its collector, they are modelled
together. Every scene is explored to its end, and deadlock is not checked there:
an exhausted script is a legal end.

| scene | bounds |
|---|---|
| `rollout` (collectors) | a session of five lines (start, turn context, a call, its count again, end of the turn), 3 of: compressing, unpacking, a report, a reload, a kill, a failed read |
| `backfill` | a transcript and a subagent's, with an unfinished growth; batches of 2; a tail of 2 lines; 1 fault; 1 change of the remote or the servers (a change of the client, between any two commits, is left to the theorem) |
| `cowork` | 2 files, each with an oversize line; 2 units per scan; 1 replacement, 1 stop |
| `browser` | 2 keys, sequence numbers to 2, 5 files |
| `plugin` | 2 commands, 1 request of up to 2 of 4 rows, of which 3 have one identity; 2 tokens, 2 permits, inbox of 2, 1 cut |
| `chat` | 2 offers, 1 disappearance, 1 death, window of 1 |
| `reports` | 6 records, 2 hooks, batches of 2, 1 counter tracked, 2 starts, 1 loss, 1 change |
| `limits` | 2 accounts, 1 label, 2 processes, 2 times, switches and requests |
| `account` (device) | 2 organisations, 1 bucket, 1 repository, all 13 commands, 3 of them in a row, 2 tokens, 1 lock, 1 kill |
| `setup` | 2 ports, 3 commands, 2 edits, 1 each of merge, kill, failed write; 16 initial states of the user's files |
| `routers` | 1 value of the user's own, 3 keys, 5 commands, 2 edits, 1 kill, 1 failure |
| `service` | launchd and systemd, 2 versions, 2 commands, 1 start by hand, 1 crash, kill or reboot |
| `window`, `switch` | 2 requests of 2 attempts, 2 organisations, 3 runs, 3 grants, 4 moves |
| `views` | 4 stories of 7 to 13 rows; the thresholds of the patterns lowered (2 for 5 or 3) so that short stories reach them |
| `bucket` | 2 connections, 3 keys, 2 objects, 2 requests, pages of one, 2 writes, 1 restart |

The bounds are chosen so that each hazard occurs: two identities are enough for
one event to overtake another, two destinations for one to receive what belongs
to the other, one crash or kill for the state it leaves to be read again,
positions one past a page for a stale page, a batch of one for a queue that needs
two uploads, five lines for a context told in parts and a count that repeats, two
accounts for the token of one beside the name of the other, pages of one for an
object that changes between two of them. Every mutant in `PROJECT.json` is found
within them.

### Fairness

* The agent is started again: launchd `KeepAlive` with `SuccessfulExit=false`
  and systemd `Restart=on-failure` after a crash or an error; after a clean exit
  the user or the next boot does.
* The loop's own steps are weakly fair. The arms of `select!` are strongly fair:
  tokio polls them in random order and the ticker is ready after every interval.
* Cloud, the bucket and the disk may fail any number of times, but not every
  time (strong fairness of the successful step). A *stubborn* file in `S3Sink`
  is exempt: the others must get through although it never does.
* `collect_live`: the tailers' timers go on (weak fairness of `Tick`, `Commit`,
  `Checkpoint`, `Defer` or `SkipDone`, and of `DesktopScan`); `read_line` does not
  fail every time (strong fairness of `DrainWhole`); ten minutes pass
  (`LagElapses`); Codex finishes what it unpacks. Nothing makes a session rest,
  so only `max_lag` gets its lines read, and nothing makes the cache of Claude
  Desktop readable.
* An exporter retries until it gives up (`dropped`), which `SourcesDrained` allows.

## 4. What is proved

For every value of the constants that satisfies the named assumptions; no theorem
has a bound of the runs in it. Each safety theorem goes by an inductive invariant,
one lemma per action, and, for a sum of components, a lemma that each step of the
sum is a step of one component and a stutter of the others.

* `StoreProofs` (`StoreAssumption`): type correctness, `QueueMirrorsLedger`,
  `AcknowledgedLeavesQueue`, `SharedAsDecided`, `DecisionDelivered`,
  `DeletedStaysDeleted`, `EvidenceImmutable`, `SyncOnlyAdvances`. The inductive
  invariant `StoreInv` adds `LedgerDecided`: whatever has a local row has a
  decision. Without it a replay could not be told from a first ingest.
  `PageAppliesInOrder` holds of pages of any length: two runs of the loop agree
  (`LoopsAgree`, by a least number of steps after which they would not), and the
  first change of a page followed by the rest is the page (`OneMore`).
* `CloudSyncProofs` (`CloudAssumption`, `NoneIsNoRequest`): every step of CloudSync
  is a step of Store or leaves it alone (`CloudRefinesStore`), `ReceiptsAreStored`,
  `OnlyAuthorised`, `ViewVerified`, from `CloudInv`: what is on its way was
  authorised (`RequestsAuthorised`) and an answer belongs to the upload that is
  waited for (`AgentInStep`). `CacheIsPrefix` from `CacheParts`, which says the same
  of one identity at a time and that a cursor lies in its account's stream, so that
  the part of a page about one identity is the last change between two cursors.
* `IntakeProofs` (`IntakeAssumption`, `NoneIsNoUnit`): `IntakeRefinesStore`,
  `ReleasedIsRecorded` from `IntakeInv`: what the loop works on is still held by its
  source, and what is not recorded of it is still to be committed (`UnitInStep`);
  cursors in memory run ahead of the saved ones only over such items
  (`CursorsInStep`). `OnlyReadAnewConflicts`, from `LedgerRead` (a row reads as some
  enrichment has it): whatever the agent stops over was recorded under another
  enrichment, and is neither of a spool entry nor Codex usage that a batch or a
  session file reports. That is what the code ensures of conflicts everywhere;
  `NeverConflicts` is of the instance of `intake_live`, where nothing else reads
  differently, and `intake_reread` shows an instance where it fails. `IntakeDelivers`,
  the refinement of `Delivery`.
* `S3SinkProofs` (`S3Assumption`): type correctness, `ExportAccounted`,
  `OwnBucketOnly` from `S3Inv`; the order of the groups of a flush needs that a set
  of days has a least one (`WFMin` of WellFoundedInduction).
* `CollectorsProofs`:
  * `CredentialsHold`, `InboxKeeps` from `PluginInv` (`PluginAssumption`): a command
    that has made a token and not written the file yet is the only one to hold it
    (`TokenIsNew`), one that exports holds what was in force when it read the file
    (`HeldWasInForce`). Of a request of any number of rows, those answered for that
    were alone of their identity are in the inbox (`AcceptedHeld`), and what is there
    keeps its measure (`AnswersKeeps`).
  * `ReadingsAreTrue`, of the browser's database from `BrowserInv`: what counts is
    the newest record of each key (`StoredOK`), and a reading is of one moment, or a
    file has come since that its second listing will show (`ReadingOK`). The proof
    needs the second listing only, not the comparison of the manifest's number. Of
    the limits from `LimitsInv` (`LimitsAssumption`): the account before a request
    is the account after it unless the user signed in meanwhile, once into another
    one, or twice (`ReadsAccount`).
  * `ChatHolds` from `ChatInv` and `OnceInv` (`OffersAssumption`): whatever matched
    is linked or taken back (`MatchedSettled`), a link tells its response and its
    message apart (`OneRowEach`), an identity is known only where it is recorded or
    about to be (`KnownOK`).
  * `ReportsHold` from `ReportsInv` (`ReportsAssumption`): the forms of identity are
    apart and tell what they are of (`RowsOK`, `EventsOK`); of a batch, what is not
    to be read any more and not at hand is recorded (`BatchOK`); the event of an
    entry is new until it is recorded (`EntryOK`).
* `LinesProofs`: `RolloutHolds` from `RolloutInv` (`RolloutAssumption`,
  `CallsAssumption`). What a reading line by line arrives at is `ContextAt`: of each
  field, what the last line says that tells it (`ContextsAre`); so what is at hand
  is one reading of the file (`PendingIsReading`), and what the cursor in memory
  counts as read is recorded or at hand (`ReadIsKept`). The theorem has the
  hypothesis `NumbersTell`, that session and ordinal tell two commands apart
  (`OneEach`); the run `rollout_ordinals` shows that it is needed. `NeverRefused`
  excepts a prefix that could not be read again: commands of two files have no
  session then and may share a name (`rollout.rs:650`).

  `CoworkHolds` from `CoworkInv` (`VmAssumption`: an oversize line goes on until its
  end). `TellsLine` says which events a line tells in the context of those before
  it, `MeantIs` that these are the events of the reference reading, and `LineTells`
  that the translation makes exactly these in the context `ContextOf`; so reading on
  from a position that is in step makes what lies between the positions
  (`ReadTold`), whatever oversize line it began in. A file that is still the one
  that was read was read to its position, and what lies before is known
  (`ReadIsSound`); what is known is what `seen` has (`KnownIs`), so that a file
  read again after a truncation hands on nothing twice (`HandedApart`).

  There is no induction over data here, because the library's theorems take an
  operator. A recursive function over the lines is what it says it is because a
  first number of lines for which no such function exists, or for which it has
  another value, would contradict the one before (`LeastNumber`); `FlattenedSteps` is the
  same for `FlattenSeq`, `ReadingSteps` for the units of a scan.
* `ImportProofs`: `ImportHolds` from `ImportInv` (`ImportAssumption`: a line that has
  a time is not older than the ones before it, and Claude Code names what its lines
  tell so that no two contradict each other, whatever times they are written at). A
  file is what it held and a beginning of what is written to it (`TextsOK`); the
  boundary of a run is the saved one, or not later than what the next run would take
  (`LimitDown`). What the lines before the position tell is recorded or in the batch,
  whichever run handed it over, and the context is that of a reading from the
  beginning (`FileOK`; `ContextAfterIs` of a file that is replayed). A file in the
  plan lies before the boundary unless it has grown (`PlanOK`); what the progress
  file counts is recorded, and a file counted as done was read to the size it is
  noted with (`CursorOK`, `IsWhole`). No two lines contradict each other because each
  file is a beginning of what it is in the end (`NoContradiction`), and an end is of
  another type than what a line tells (`EndTypes`); so what is refused is an end, or
  is recorded word for word with another stamp, of which a part was read from what
  the machine said then and says otherwise now (`RefusesStep`). Nothing is assumed of
  when the machine changes, or how often.
* `DeviceProofs`:
  * `SwitchAuthorized`, an action property, from `SwitchInv` (`DesktopAssumption`):
    an authorization that may still be used was not used (`Unspent`), and the one a
    switch holds is for what was chosen (`ForWhatWasChosen`).
  * `AnswersAreTrue`, of the bucket's reader from `ReaderInv` (`BucketAssumption`):
    the listing has all that did not change since the refresh began, as far as it
    has come (`SteadyIsListed`), whatever the size of a page; of the application
    from `HistoryInv`: a request for the local history goes to a viewer with the
    database or to one that is gone.
  * `ServiceHolds` from `ServiceInv` and `KeptInv` (`ServiceAssumption`). Of the
    collectors: one past the opening of the database has it (`HasLedger`), one past
    the binding has the socket and keeps others from it (`HasSocket`, `BindsAlone`),
    and only a process that handles SIGTERM is named in `state.json`
    (`SavedHandles`; `Begun` does both in one step). Of the service: each operation is at a place of its own
    (`InPlace`), the marker stands as long as an update is past it (`MarkerKept`), a
    collector alive has a job (`AliveHasJob`); and a service that does not run has
    someone who answers for it, at every step of every operation: the user who was
    told, the marker, a job that is due or runs, or an operation that will register
    or restart it (`Covered`; `EndingCovered` of a collector that ends,
    `LeavingCovered` of a job being booted out), as has a collector of an older
    release (`StaleCovered`, `StaleIsTold`).
  * `RoutesAreUndone` from `RoutersInv` (`RoutersAssumption`): a file without a
    record has nothing of kikimimi's (`UnrecordedIsFree`), what was left alone says
    what the user chose (`LeftAsChosen`), what a command holds is what the record
    says or will say (`TaskOK`), and the server's keys are those of the records,
    of the command under way, and of answers that could not be used (`KeysHeld`).
  * `AccountHolds` from `AccountInv` (`AccountAssumption`), under `OneAtATime`: at
    each place of a command (`StepOK`) what it is about to write is whole when what
    it has read was, and always when it signs in or out.

The runs check the same formulas on small instances. Left to TLC:

* all liveness (TLAPS does not reason about fairness and ENABLED);
* `NeverConflicts`, which is of one instance (see `OnlyReadAnewConflicts` above);
* `FiguresAgree`, which compares with figures that are folded over the rows;
* `SetupHolds`: the hooks of `Setup` are sequences that are filtered, and what a
  filter keeps of every sequence is again a matter of induction.

## 5. Findings

Three places where the code disagrees with a document or with itself, each shown
by a run that ends in a counterexample; `PROJECT.json` quotes the lines.

* `cloud_denied`: after a 401 or 403 to an *upload* the downloaded records stay
  visible until the next download is refused too.
* `intake_reread`: a session file read again after a crash may read differently,
  is refused as a conflict, and the agent then dies on it at every start.
* `rollout_ordinals`: shell commands of Codex are named by session and ordinal,
  although the schema notes that ordinals can be absent or reused; the second
  such command is refused as a conflict and ends the agent, again at every start.

Without a run of their own, besides what section 2 notes of each module:
`codex_tailer.rs:14-18` says that files found at the first scan are read from
their end (they are read from the beginning); the comment on `RolloutSessionCtx`
(`rollout.rs:62-68`) says that turn and model are lost with the process (the
tailer reads the whole prefix again); an event is committed before it is pushed
into the export's memory (`agent.rs:1089`), so that a crash in between, or before
the next flush, keeps it from the bucket, while `teams.md:100` says that sinks
always receive every event.

## 6. Not modelled, and the plan

* *Legacy Parquet and Cloud sinks*: only explicit exports and tests use them; the
  agent runs on the database.
* *Repair*: a pure rewriting of archived rows, applied once by hand.
* *Web dashboard*: presentation of what the modelled queries return.
* *Event schema and paths*: types and hashes; an identity is a value here.
* Data everywhere: parsing of the vendors' formats, TOML and JSON editing,
  protobuf and V8 decoding, text of titles and of status, exports of queries.

Left to later work, in this order:

1. two commands at once on `config.json`, once the file is written under a lock;
2. liveness of `Lifecycle` (the service runs again) and of `Backfill` (the import
   ends) under the fairness of the service manager.

--------------------------- MODULE MCCollectors ---------------------------
(* The collectors of the device, each with its own files and cursors. They *)
(* share nothing but the database, so that they run here one at a time:    *)
(* the scene says which. The properties group what is asked of each.       *)
EXTENDS MCRollout

CONSTANTS
  Imports, HeldBefore, HeldLater, HeldSince, ImportArchive,        \* Backfill
  ImportBegun, ImportUntil, ImportTail, ImportBatch, ImportFaults,
  ImportParts, ImportAltered,
  VmPaths, VmScripts, VmUnits, VmReplaced, VmStopped,              \* Cowork
  PluginCommands, PluginRequests, InboxRows, PluginBatch,                      \* Receiver
  PluginTokens, PluginPermits, InboxEntries, PluginCuts,
  BrowserKeys, BrowserValues, MaxWritten, MaxFiles,                \* ChromiumStore
  ChatOffers, ChatOrgs, MaxVanished, MaxChatDeaths, ChatWindow,    \* DesktopChat
  Reports, ReportHooks, HookSays, ReportBatch, ReportSessions,     \* Normalizers
  MaxReportStarts, MaxReportsLost, MaxReportChanges,
  LimitAccounts, LimitLabels, LimitReaders, MaxHours, MaxSignIns, MaxLimitRuns \* Usage

ASSUME PluginAssumption ==
  /\ PluginTokens \in Nat
  /\ None \notin Nat
  /\ None \notin [token : Nat, enabled : BOOLEAN]

(* A message and a measured response have an identity of their own.        *)
ASSUME OffersAssumption ==
  \A o \in ChatOffers :
    /\ \A x, y \in o.items : x.item = "message" /\ y.item = "message" /\ x.id = y.id => x = y
    /\ \A x \in o.items : x.item = "message" => x.at \in Nat /\ x.time \in Nat \cup {None}
    /\ \A r, q \in o.rows : r.id = q.id => r = q

(* A report is known by its number; a tool call belongs to one session.    *)
ASSUME ReportsAssumption ==
  /\ \A r \in Reports : r.vendor \in {"claude", "codex"} /\ r.n \notin ReportHooks
  /\ \A r, x \in Reports :
       /\ r.n = x.n => r = x
       /\ r.tool = x.tool /\ r.tool # None => r.session = x.session

ASSUME LimitsAssumption ==
  LimitAccounts \cap LimitLabels = {} /\ None \notin LimitAccounts \cup LimitLabels

VARIABLES
  scene,
  \* Backfill
  text, stamp, clock, kept, cursor, importing, boundary, plan,
  phase, position, context, batch, machine, marked, imported, stamps,
  faults, refusedLines, torn, grown,
  \* Cowork
  disk, inodes, stopped, tailed, seen, todo, handed, recorded,
  \* ChromiumStore
  content, logs, manifests, current, written, held, reader, truths, result,
  \* Receiver
  keychain, config, tokens, cuts, command, exported, withdrawn, request, inbox, accepted,
  \* DesktopChat
  offer, cache, granted, gone, died, arrived, known, sweep, records, shown,
  \* Normalizers
  fresh, outgoing, sent, unfired, spool, up, memory, cached, work, rows,
  world, starts, lost, changes, answered, refusedReports,
  \* Usage
  auth, time, files, run, flocked, switches, asked, newest

-----------------------------------------------------------------------------
(* Transcripts of Claude Code: two files, the second a subagent's; the     *)
(* first goes on with a line that has no time, or with an oversize one.    *)

Said == [kind |-> "other", session |-> "s", at |-> None, side |-> FALSE, agent |-> None,
         prompt |-> None, uuid |-> None, request |-> None, usage |-> FALSE, tools |-> <<>>]

Prompt(p, t)    == [Said EXCEPT !.kind = "prompt", !.prompt = p, !.at = t]
Reply(r, u, t)  == [Said EXCEPT !.kind = "assistant", !.request = r, !.usage = TRUE, !.tools = u, !.at = t]
Result(p, u, t) == [Said EXCEPT !.kind = "result", !.prompt = p, !.tools = <<u>>, !.at = t]
OfLong(kind)    == [Said EXCEPT !.kind = kind, !.session = None]
Sub(line)       == [line EXCEPT !.side = TRUE, !.agent = "sub"]

TwoBefore ==
  << <<Prompt("p", 1), Reply("r1", <<"t1">>, 1), Reply("r1", <<>>, 2), Result("p", "t1", 2)>>,
     <<Sub(Prompt("p", 1)), Sub(Reply("r2", <<"t2">>, 2))>> >>
TwoLater == << <<Reply("r3", <<>>, None)>>, <<>> >>

TwoScripts ==
  << <<Reply("r1", <<"t1">>, 1), OfLong("big"), OfLong("more"), OfLong("bigend"), Result("p", "t1", 2)>>,
     <<Sub(Prompt("p", 1)), OfLong("big"), OfLong("bigend"), Sub(Reply("r2", <<>>, 2))>> >>

TwoSince == <<2, 2>>

B == INSTANCE Backfill WITH
  offset <- position, ledger <- imported, refused <- refusedLines,
  Files <- Imports, Old <- HeldBefore, New <- HeldLater, Stamped <- HeldSince,
  Archive <- ImportArchive, Begun <- ImportBegun, Until <- ImportUntil,
  TailLines <- ImportTail, BatchSize <- ImportBatch, MaxFaults <- ImportFaults,
  Parts <- ImportParts, MaxAltered <- ImportAltered

IsSequence(s) == s \in Seq(ToSet(s))

HeldLines == UNION {ToSet(HeldBefore[f]) \cup ToSet(HeldLater[f]) : f \in Imports}

(* The transcripts as they are in the end, if the lines written meanwhile  *)
(* have these times.                                                       *)
HeldInAll(f, times) ==
  HeldBefore[f] \o [n \in DOMAIN HeldLater[f] |-> [HeldLater[f][n] EXCEPT !.at = times[f][n]]]

(* The lines of a file are in the order of their times, and the client     *)
(* names what they tell so that no two of them contradict each other.      *)
ASSUME ImportAssumption ==
  /\ Imports \subseteq Nat
  /\ ImportArchive \in Nat \cup {None} /\ ImportTail \in Nat
  /\ ImportParts \subseteq {"remote", "servers", "client"}
  /\ None \notin {"overlap", "backfilled"}
  /\ ImportBegun \in Nat /\ ImportUntil \in Nat /\ ImportBegun <= ImportUntil
  /\ HeldBefore \in [Imports -> Seq(HeldLines)] /\ HeldLater \in [Imports -> Seq(HeldLines)]
  /\ HeldSince \in [Imports -> 0..ImportBegun]
  /\ \A line \in HeldLines : {"at", "tools"} \subseteq DOMAIN line /\ IsSequence(line.tools)
  /\ \A f \in Imports : \A m \in B!Timed(HeldBefore[f]) :
       /\ HeldBefore[f][m].at \in 0..HeldSince[f]
       /\ \A n \in B!Timed(HeldBefore[f]) : m <= n => HeldBefore[f][m].at <= HeldBefore[f][n].at
  /\ LET later == UNION {DOMAIN HeldLater[f] : f \in Imports}
     IN  \A times \in [Imports -> [later -> ImportBegun..ImportUntil]] :
           LET told == UNION {B!Meant(HeldInAll(f, times)) : f \in Imports}
           IN  \A e, r \in told : e.type = r.type /\ e.key = r.key => e = r

V == INSTANCE Cowork WITH
  VmFiles <- VmPaths, Scripts <- VmScripts, ScanUnits <- VmUnits, MaxReplaced <- VmReplaced,
  MaxStopped <- VmStopped

(* An oversize line goes on until its end.                                 *)
ASSUME VmAssumption ==
  /\ VmPaths \subseteq Nat /\ \A ps \in SUBSET VmPaths : ps # None
  /\ VmUnits \in Nat
  /\ \A p \in VmPaths :
       /\ IsSequence(VmScripts[p])
       /\ \A n \in DOMAIN VmScripts[p] :
            LET u == VmScripts[p][n]
            IN  /\ V!IsLine(u) => IsSequence(u.tools)
                /\ ~V!IsLine(u) => u \in {V!Piece(k) : k \in {"big", "more", "bigend"}}
                /\ u.kind \in {"big", "more"} /\ n + 1 \in DOMAIN VmScripts[p]
                     => VmScripts[p][n + 1].kind \in {"more", "bigend"}

-----------------------------------------------------------------------------
(* Two keys; two commands and one request of a plugin, four rows, of which *)
(* one contradicts the others of its identity.                             *)

C == INSTANCE ChromiumStore WITH
  Keys <- BrowserKeys, Values <- BrowserValues, MaxSeq <- MaxWritten, MaxFile <- MaxFiles

SentRow(i, m, p) == [id |-> i, measure |-> m, print |-> p]

SentRows == {SentRow(1, 5, None), SentRow(1, 5, "f"), SentRow(1, 6, "g"), SentRow(2, 5, None)}

P == INSTANCE Receiver WITH
  Commands <- PluginCommands, Requests <- PluginRequests, Rows <- InboxRows,
  BatchRows <- PluginBatch,
  MaxToken <- PluginTokens, Permits <- PluginPermits, InboxLimit <- InboxEntries,
  MaxCut <- PluginCuts

-----------------------------------------------------------------------------
INSTANCE MCOffers

TwoOffers == {FolderOffer, LinkOffer}

D == INSTANCE DesktopChat WITH
  Offers <- ChatOffers, OrgOf <- ChatOrgs,
  MaxGone <- MaxVanished, MaxDied <- MaxChatDeaths, LinkWindow <- ChatWindow

-----------------------------------------------------------------------------
(* Six records, two of them of one instant, two without a time and two of  *)
(* one call of Codex; a hook without a tool call and one of it.            *)

Rec(n, v, k, s, t, a, u) ==
  [n |-> n, vendor |-> v, kind |-> k, session |-> s, tool |-> t, at |-> a, tokens |-> u]

SentRecords ==
  {Rec(11, "claude", "api_request", "s1", None, 1, 0), Rec(12, "claude", "api_request", "s1", None, 1, 0),
   Rec(13, "claude", "tool_result", "s2", None, 0, 0), Rec(16, "claude", "tool_result", "s2", None, 0, 0),
   Rec(14, "codex", "completed", "c1", None, 2, 7), Rec(15, "codex", "completed", "c1", None, 0, 7)}

HookOne == [kind |-> "SessionStart", session |-> "s1", tool |-> None]
HookTwo == [kind |-> "PreToolUse", session |-> "s2", tool |-> "t1"]

TwoHooks == <<HookOne, HookTwo>>

N == INSTANCE Normalizers WITH
  ledger <- rows, done <- answered, refused <- refusedReports,
  Records <- Reports, Hooks <- ReportHooks, HookOf <- HookSays, BatchSize <- ReportBatch,
  MaxTracked <- ReportSessions, MaxStarts <- MaxReportStarts, MaxLost <- MaxReportsLost,
  MaxChanges <- MaxReportChanges

U == INSTANCE Usage WITH
  clock <- time, Accounts <- LimitAccounts, Labels <- LimitLabels, Processes <- LimitReaders,
  MaxTime <- MaxHours, MaxSwitches <- MaxSignIns, MaxAsked <- MaxLimitRuns

-----------------------------------------------------------------------------
backfill == <<text, stamp, clock, kept, cursor, importing, boundary, plan,
             phase, position, context, batch, machine, marked, imported, stamps,
             faults, refusedLines, torn, grown>>
cowork   == <<disk, inodes, stopped, tailed, seen, todo, handed, recorded>>
browser  == <<content, logs, manifests, current, written, held, reader, truths, result>>
plugin   == <<keychain, config, tokens, cuts, command, exported, withdrawn, request, inbox, accepted>>
chat     == <<offer, cache, granted, gone, died, arrived, known, sweep, records, shown>>
reports  == <<fresh, outgoing, sent, unfired, spool, up, memory, cached, work, rows,
             world, starts, lost, changes, answered, refusedReports>>
limits   == <<auth, time, files, run, flocked, switches, asked, newest>>

Scenes == {"rollout", "backfill", "cowork", "browser", "plugin", "chat", "reports", "limits"}

(* Where a collector may begin in several ways, the others take one.       *)
CollectorsInit ==
  /\ scene \in Scenes
  /\ RolloutInit /\ B!BackfillInit /\ V!CoworkInit /\ C!ChromiumInit
  /\ P!ReceiverInit /\ D!DesktopInit /\ N!NormInit /\ U!UsageInit
  /\ scene # "rollout" => quiet
  /\ scene # "chat" => offer = CHOOSE o \in ChatOffers : TRUE
  /\ scene # "limits" => auth = CHOOSE a \in LimitAccounts : TRUE

CollectorsNext ==
  \/ /\ scene = "rollout" /\ RolloutNext
     /\ UNCHANGED <<scene, backfill, cowork, browser, plugin, chat, reports, limits>>
  \/ /\ scene = "backfill" /\ B!BackfillNext
     /\ UNCHANGED <<scene, rolloutVars, cowork, browser, plugin, chat, reports, limits>>
  \/ /\ scene = "cowork" /\ V!CoworkNext
     /\ UNCHANGED <<scene, rolloutVars, backfill, browser, plugin, chat, reports, limits>>
  \/ /\ scene = "browser" /\ C!ChromiumNext
     /\ UNCHANGED <<scene, rolloutVars, backfill, cowork, plugin, chat, reports, limits>>
  \/ /\ scene = "plugin" /\ P!ReceiverNext
     /\ UNCHANGED <<scene, rolloutVars, backfill, cowork, browser, chat, reports, limits>>
  \/ /\ scene = "chat" /\ D!DesktopNext
     /\ UNCHANGED <<scene, rolloutVars, backfill, cowork, browser, plugin, reports, limits>>
  \/ /\ scene = "reports" /\ N!NormNext
     /\ UNCHANGED <<scene, rolloutVars, backfill, cowork, browser, plugin, chat, limits>>
  \/ /\ scene = "limits" /\ U!UsageNext
     /\ UNCHANGED <<scene, rolloutVars, backfill, cowork, browser, plugin, chat, reports>>

collectorsVars ==
  <<scene, rolloutVars, backfill, cowork, browser, plugin, chat, reports, limits>>

CollectorsSpec == CollectorsInit /\ [][CollectorsNext]_collectorsVars

-----------------------------------------------------------------------------
(* What is recorded is what the session file says, each line in the        *)
(* context of the lines before it, once and without contradiction, and     *)
(* what a saved cursor lies behind is recorded: whatever is compressed,    *)
(* reported by the export too, or killed in between (codex_tailer.rs).     *)
RolloutHolds ==
  scene = "rollout" =>
    LedgerIsReading /\ ContextIsPrefix /\ SavedIsRecorded /\ CallsCountedOnce /\ NeverRefused

(* What is imported is what the transcripts said before the boundary, as   *)
(* one uninterrupted reading has it; what the progress file counts as done *)
(* is in the database; and only the end of a session may contradict what   *)
(* is recorded, or a line read again after the repository, the servers or  *)
(* the client it is stamped with changed (claude_backfill.rs).             *)
ImportHolds ==
  scene = "backfill" =>
    B!LedgerIsMeant /\ B!DoneIsWhole /\ B!NothingBeyondBoundary /\ B!OnlyEndsRefused

(* What is handed over of a VM's transcripts is what they say, once, and   *)
(* all of it up to the position, which lies at the end of a line, whatever *)
(* is replaced, truncated, removed or too long (cowork_tailer.rs).         *)
CoworkHolds ==
  scene = "cowork" => V!CoworkIsMeant /\ V!HandedOnce /\ V!ReadIsRecorded /\ V!PositionIsSound

(* A measured response is shown at the one message it can belong to; where *)
(* two answers, or two responses, could be meant, it is shown at none. An  *)
(* identity marked as seen is recorded, and with one content, whatever the *)
(* cache showed meanwhile (claude_desktop_tailer.rs; links of              *)
(* claude_plugin.rs).                                                      *)
ChatHolds ==
  scene = "chat" =>
    /\ D!AmbiguityAbstains /\ D!OneResponsePerMessage
    /\ D!MarkedIsRecorded /\ D!RecordedOnce

(* A report that was answered for, or whose spool entry is removed, is     *)
(* recorded, and counted once however often it is delivered; only a report *)
(* without an identity of its own, or of a client known by now, is refused *)
(* (agent.rs, drain_spool and ingest_otlp).                                *)
ReportsHold ==
  scene = "reports" => N!EveryReportKept /\ N!ReportsCountedOnce /\ N!OnlyRecordsRefused

(* A reading of something that others write meanwhile is of one moment:    *)
(* the browser's database between its tables (chromium_store.rs), an       *)
(* account's limits under its own name and in their order (usage.rs).      *)
ReadingsAreTrue ==
  /\ scene = "browser"  => C!SnapshotWasTrue
  /\ scene = "limits"   => U!SnapshotOfAccount /\ U!NewestSnapshotKept

(* A credential handed to the plugin was in force, and one withdrawn never *)
(* comes back, whichever of two commands writes last (claude_plugin.rs).   *)
CredentialsHold == P!CredentialsHold

(* What the receiver's inbox holds stays as it was measured, and what was  *)
(* answered for is there (claude_plugin.rs, receive).                      *)
InboxKeeps == P!InboxKeeps
============================================================================

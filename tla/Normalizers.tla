---------------------------- MODULE Normalizers ----------------------------
(* What the hooks and the two exporters report, the normalizers that turn  *)
(* it into events, and the identity an event is recorded under. A spool    *)
(* entry outlives a process that ends before removing it, and an exporter  *)
(* sends a batch again when its answer is lost: the identity decides what  *)
(* is counted again, and what is taken for something else.                 *)
EXTENDS Integers, FiniteSets, Sequences

CONSTANTS
  Records,     \* what the exporters of Claude Code and Codex may report
  Hooks,       \* the hooks that may run, each a number: the order of the names
  HookOf,      \* [Hooks -> what the hook says]
  BatchSize,   \* records in a batch
  MaxTracked,  \* MAX_TRACKED_SESSIONS
  MaxStarts,   \* processes
  MaxLost,     \* answers lost and removals failed
  MaxChanges,  \* changes of what is read about a session and its directory
  None

VARIABLES
  fresh,       \* records that have not happened yet
  outgoing,    \* records the exporter keeps
  sent,        \* how many of them are in the batch awaiting an answer
  unfired,     \* hooks that have not run yet
  spool,       \* hooks whose entry is in the spool
  up,          \* the collector runs
  memory,      \* a normalizer's nonce, counters and their order
  cached,      \* the remote and the servers it read for a directory
  work,        \* the batch or entry at hand
  ledger,      \* the rows: identity, what they say
  world,       \* the remote, the configured servers, the known clients
  starts, lost, changes,
  done,        \* history: reports answered for or removed
  refused      \* history: events that contradicted a row

reportVars == <<fresh, outgoing, sent, unfired, spool>>
processVars == <<up, memory, cached, work>>
boundVars == <<starts, lost, changes>>
normVars == <<reportVars, processVars, ledger, world, boundVars, done, refused>>

NoWork == [unit |-> "none", rest |-> {}, events |-> <<>>, entry |-> 0]

Memory(nonce) == [nonce |-> nonce, seq |-> [s \in {} |-> 0], order |-> <<>>, forgot |-> {}]
NoCache == [remote |-> None, servers |-> None]

NormInit ==
  /\ fresh = Records /\ outgoing = <<>> /\ sent = 0
  /\ unfired = Hooks /\ spool = {}
  /\ up = FALSE /\ memory = Memory(0) /\ cached = NoCache /\ work = NoWork
  /\ ledger = {}
  /\ world = [remote |-> 1, servers |-> 1, files |-> {}]
  /\ starts = 0 /\ lost = 0 /\ changes = 0
  /\ done = {} /\ refused = {}

-----------------------------------------------------------------------------
(* The keys *)

(* A session not met before makes room: the one met first is forgotten. *)
Tracked(m, s) ==
  IF s \in DOMAIN m.seq THEN m
  ELSE LET order == Append(m.order, s)
           gone == IF Cardinality(DOMAIN m.seq) >= MaxTracked THEN {Head(order)} ELSE {}
       IN [m EXCEPT !.order = IF gone = {} THEN order ELSE Tail(order),
                    !.seq = [x \in (DOMAIN @ \ gone) \cup {s} |-> IF x = s THEN 0 ELSE @[x]],
                    !.forgot = @ \cup gone]

(* next_seq_key *)
Counted(m, s) == LET t == Tracked(m, s) IN [t EXCEPT !.seq[s] = @ + 1]

SeqKey(m, kind, s) == <<"seq", kind, s, m.nonce, Counted(m, s).seq[s]>>

(* primary_key: an empty id is none *)
KeyOf(m, kind, tool, s) == IF tool # None THEN <<"tool", kind, tool>> ELSE SeqKey(m, kind, s)
After(m, tool, s) == IF tool # None THEN m ELSE Counted(m, s)

-----------------------------------------------------------------------------
(* What is known of a session besides the report *)

(* Registry::discover: the Cowork copy is read last, and replaces; the     *)
(* desktop's link only fills in what no transcript says.                   *)
Client(files) ==
  IF "cowork" \in files THEN "claude_desktop_cowork"
  ELSE IF "transcript" \in files THEN "claude_code_cli"
  ELSE IF "link" \in files THEN "claude_desktop_code" ELSE "unknown"

(* RepoResolver, for as long as the process lives *)
Repo == IF cached.remote # None THEN cached.remote ELSE world.remote

(* McpConfigCache, for half a minute *)
Servers == IF cached.servers # None THEN cached.servers ELSE world.servers

(* Time when a report without one is read: later at every attempt *)
Present == 10 + starts + lost

-----------------------------------------------------------------------------
(* The normalizers *)

(* A time of its own identifies a record, together with what it is about; *)
(* without one the counter of the process does.                           *)
RecordKey(m, r) ==
  IF r.at # 0 THEN <<"record", r.kind, r.session, r.at, r.tool>>
              ELSE KeyOf(m, r.kind, r.tool, r.session)

Reported(key, r) ==
  [id |-> key, of |-> r.n, source |-> r.vendor,
   says |-> [of |-> r.n, at |-> IF r.at # 0 THEN r.at ELSE Present,
             client |-> Client(world.files), remote |-> 0, servers |-> 0]]

(* otlp_usage: a completed response with counts, more than the warm-up,    *)
(* and a conversation. Its counts are its identity, the rollout's too.     *)
Usage(r) == r.kind = "completed" /\ r.tokens > 0 /\ r.session # None

UsageKey(r) == <<"usage", r.session, r.tokens>>

IsCodex(r) == r.vendor = "codex"

(* drain_spool replaces the normalizer's key by the name of the entry *)
HookKey(m, h) == <<"spool", h>>

HookEvent(h) ==
  [id |-> HookKey(memory, h), of |-> h, source |-> "hook",
   says |-> [of |-> h, at |-> h, client |-> Client(world.files), remote |-> Repo,
             servers |-> IF HookOf[h].kind = "SessionStart" THEN Servers ELSE 0]]

Committed(id) == \E row \in ledger : row.id = id

-----------------------------------------------------------------------------
(* The vendors *)

(* A record that comes while a batch is under way is in a later one, so it  *)
(* is enough that records, entries and changes come when nothing is at     *)
(* hand.                                                                   *)
Happen(r) ==
  /\ r \in fresh /\ \A x \in fresh : r.n <= x.n
  /\ work.unit = "none" /\ sent = 0 /\ Len(outgoing) < BatchSize
  /\ fresh' = fresh \ {r}
  /\ outgoing' = Append(outgoing, r)
  /\ UNCHANGED <<sent, unfired, spool, processVars, ledger, world, boundVars, done, refused>>

(* The tool's time is in the entry's name. *)
Fire(h) ==
  /\ h \in unfired /\ \A i \in unfired : h <= i
  /\ work.unit = "none" /\ spool = {}
  /\ unfired' = unfired \ {h}
  /\ spool' = spool \cup {h}
  /\ UNCHANGED <<fresh, outgoing, sent, processVars, ledger, world, boundVars, done, refused>>

(* Another remote or server, or a file that names the session's client *)
Change ==
  /\ changes < MaxChanges /\ changes' = changes + 1
  /\ work.unit = "none"
  /\ \/ world' = [world EXCEPT !.remote = @ + 1]
     \/ world' = [world EXCEPT !.servers = @ + 1]
     \/ \E f \in {"transcript", "link", "cowork"} \ world.files :
          world' = [world EXCEPT !.files = @ \cup {f}]
  /\ UNCHANGED <<reportVars, processVars, ledger, starts, lost, done, refused>>

-----------------------------------------------------------------------------
(* The collector *)

Begins ==
  /\ ~up /\ starts < MaxStarts
  /\ up' = TRUE /\ starts' = starts + 1
  /\ memory' = Memory(starts')
  /\ UNCHANGED <<reportVars, cached, work, ledger, world, lost, changes, done, refused>>

Gone ==
  /\ up' = FALSE /\ cached' = NoCache /\ work' = NoWork
  /\ memory' = Memory(0)

Crash ==
  /\ up /\ starts < MaxStarts
  /\ Gone
  /\ UNCHANGED <<reportVars, ledger, world, boundVars, done, refused>>

(* A batch is taken, and sent again whole when its answer was lost.        *)
TakeBatch ==
  /\ up /\ work.unit = "none" /\ outgoing # <<>>
  /\ \E k \in IF sent > 0 THEN {sent} ELSE 1..BatchSize :
       /\ k <= Len(outgoing)
       /\ sent' = k
       /\ work' = [unit |-> "codex", rest |-> 1..k, events |-> <<>>, entry |-> 0]
  /\ UNCHANGED <<fresh, outgoing, unfired, spool, up, memory, cached, ledger, world, boundVars,
                 done, refused>>

(* split_codex_logs: the records of Codex are read first.                  *)
OfCodex(b) == {i \in b : IsCodex(outgoing[i])}
Foremost(b) == {i \in b : \A j \in b : i <= j}

(* otlp_usage passes over what is no usage. What Codex reports needs no    *)
(* memory, so that one is read when the one before it is recorded.         *)
ReadCodex ==
  /\ work.unit = "codex" /\ work.events = <<>>
  /\ \E i \in Foremost(OfCodex(work.rest)) :
       LET r == outgoing[i]
       IN work' = [work EXCEPT !.rest = @ \ {i},
                               !.events = IF Usage(r) THEN <<Reported(UsageKey(r), r)>> ELSE <<>>]
  /\ UNCHANGED <<reportVars, up, memory, cached, ledger, world, boundVars, done, refused>>

(* otlp_logs, then the others, all of them before the first is recorded.   *)
(* map_log_record: what it does not know is counted as skipped.            *)
ReadOther ==
  /\ work.unit = "other" \/ (work.unit = "codex" /\ work.events = <<>>)
  /\ OfCodex(work.rest) = {}
  /\ \E i \in Foremost(work.rest) :
       LET r == outgoing[i]
       IN /\ work' = [work EXCEPT !.unit = "other", !.rest = @ \ {i},
                        !.events = IF r.kind = "other" THEN @
                                   ELSE Append(@, Reported(RecordKey(memory, r), r))]
          /\ memory' = IF r.kind = "other" \/ r.at # 0 THEN memory
                       ELSE After(memory, r.tool, r.session)
  /\ UNCHANGED <<reportVars, up, cached, ledger, world, boundVars, done, refused>>

(* Mutant of PassedOver: what is recorded is passed over. *)
PassedOverAny(e) == Committed(e.id)

(* already_recorded, for the usage of Codex *)
PassedOver(e) == e.source = "codex" /\ Committed(e.id)

(* persist_event: a row that says otherwise ends the process. *)
Persist ==
  /\ work.events # <<>> /\ (work.unit = "other" => work.rest = {})
  /\ LET e == Head(work.events)
         row == [id |-> e.id, says |-> e.says]
     IN \/ /\ PassedOver(e) \/ row \in ledger \/ ~Committed(e.id)
           /\ ledger' = IF PassedOver(e) THEN ledger ELSE ledger \cup {row}
           /\ work' = [work EXCEPT !.events = Tail(@)]
           /\ UNCHANGED <<up, memory, cached, refused>>
        \/ /\ ~PassedOver(e) /\ row \notin ledger /\ Committed(e.id)
           /\ refused' = refused \cup {e}
           /\ Gone
           /\ UNCHANGED ledger
  /\ UNCHANGED <<reportVars, world, boundVars, done>>

(* 200, heard or not *)
Answer ==
  /\ work.unit \in {"codex", "other"} /\ work.events = <<>> /\ work.rest = {}
  /\ work' = NoWork
  /\ \/ /\ done' = done \cup {outgoing[i].n : i \in 1..sent}
        /\ outgoing' = SubSeq(outgoing, sent + 1, Len(outgoing))
        /\ sent' = 0
        /\ UNCHANGED lost
     \/ /\ lost < MaxLost /\ lost' = lost + 1
        /\ UNCHANGED <<done, outgoing, sent>>
  /\ UNCHANGED <<fresh, unfired, spool, up, memory, cached, ledger, world, starts, changes, refused>>

(* What is recorded already is left as it is. *)
HookWork(h) ==
  IF HookOf[h].kind = "other" \/ Committed(HookKey(memory, h)) THEN <<>> ELSE <<HookEvent(h)>>

(* drain_spool, one entry: the normalizer counts, whoever uses the key;    *)
(* the directory is looked up for an event to be recorded.                 *)
OpenEntry ==
  /\ up /\ work.unit = "none"
  /\ \E h \in spool :
       /\ \A i \in spool : h <= i
       /\ LET events == HookWork(h)
          IN /\ work' = [unit |-> "entry", rest |-> {}, events |-> events, entry |-> h]
             /\ cached' = IF events = <<>> THEN cached
                          ELSE [remote |-> Repo,
                                servers |-> IF HookOf[h].kind = "SessionStart" THEN Servers
                                            ELSE cached.servers]
       /\ memory' = IF HookOf[h].kind = "other" THEN memory
                    ELSE After(memory, HookOf[h].tool, HookOf[h].session)
  /\ UNCHANGED <<reportVars, up, ledger, world, boundVars, done, refused>>

(* An error of the removal is ignored. *)
RemoveEntry ==
  /\ work.unit = "entry" /\ work.events = <<>>
  /\ work' = NoWork
  /\ \/ spool' = spool \ {work.entry} /\ done' = done \cup {work.entry} /\ UNCHANGED lost
     \/ lost < MaxLost /\ lost' = lost + 1 /\ UNCHANGED <<spool, done>>
  /\ UNCHANGED <<fresh, outgoing, sent, unfired, up, memory, cached, ledger, world, starts,
                 changes, refused>>

(* CACHE_TTL has passed. *)
Expire ==
  /\ cached.servers # None
  /\ cached' = [cached EXCEPT !.servers = None]
  /\ UNCHANGED <<reportVars, up, memory, work, ledger, world, boundVars, done, refused>>

NormNext ==
  \/ \E r \in Records : Happen(r)
  \/ \E h \in Hooks : Fire(h)
  \/ Change \/ Begins \/ Crash
  \/ TakeBatch \/ ReadCodex \/ ReadOther \/ Persist \/ Answer
  \/ OpenEntry \/ RemoveEntry \/ Expire

NormSpec == NormInit /\ [][NormNext]_normVars

-----------------------------------------------------------------------------
(* Properties *)

Supported(r) == IF IsCodex(r) THEN Usage(r) ELSE r.kind # "other"

RowsOf(n) == {row \in ledger : row.says.of = n}

(* Every report that was answered for, or whose entry was removed, has a   *)
(* row of its own; two usages of Codex share one when they are the same    *)
(* call. Two different reports are never taken for one another.            *)
EveryReportKept ==
  /\ \A r \in Records : r.n \in done /\ Supported(r) =>
       \/ RowsOf(r.n) # {}
       \/ IsCodex(r) /\ \E x \in Records : IsCodex(x) /\ UsageKey(x) = UsageKey(r) /\ RowsOf(x.n) # {}
  /\ \A h \in Hooks : h \in done /\ HookOf[h].kind # "other" => RowsOf(h) # {}

(* A report is counted once however often it arrives and whichever process *)
(* reads it; only a record with neither time nor tool call is counted      *)
(* again.                                                                  *)
ReportsCountedOnce ==
  /\ \A r \in Records : r.at # 0 \/ r.tool # None \/ IsCodex(r) =>
       \A row, copy \in RowsOf(r.n) : row = copy
  /\ \A h \in Hooks : \A row, copy \in RowsOf(h) : row = copy

(* What is read about a hook's directory may change between two processes, *)
(* and a usage of Codex come twice: neither contradicts its row. A record  *)
(* of Claude Code does when its session's client became known, when it has *)
(* no time, when another has the same, or when its counter was forgotten.  *)
OnlyRecordsRefused ==
  \A e \in refused :
    /\ e.source = "claude"
    /\ \/ \E row \in ledger : row.id = e.id /\ row.says.of = e.of /\ row.says # e.says
       \/ \E r, x \in Records :
            r.n = e.of /\ x # r /\ r.at = x.at /\ r.session = x.session /\ r.tool = x.tool
=============================================================================

------------------------------- MODULE Rollout -------------------------------
(***************************************************************************)
(* Codex session files ("rollouts"): what the tailer makes of them         *)
(* (crates/cli/src/codex_tailer.rs), the translation of a line with the    *)
(* context of the lines before it (crates/adapter-codex/src/rollout.rs),   *)
(* and the usage the OTLP export reports of the same calls, enriched from  *)
(* a second reading of the file (crates/cli/src/agent.rs).                 *)
(*                                                                         *)
(* The identity of most events is a hash of their content, so that a line  *)
(* translated in another context is another event: the same turn twice.    *)
(* Only the whole prefix of a file tells the context of a line, and that   *)
(* prefix is read again after every restart, from a file that Codex may    *)
(* have compressed, removed and unpacked meanwhile.                        *)
(*                                                                         *)
(* Files are measured in half-lines: one for the text of a line, one for   *)
(* its newline, so that an odd length ends in a line not yet terminated.   *)
(***************************************************************************)
EXTENDS SequencesExt

CONSTANTS
  Paths,       \* session files by the path of their plain form
  Script,      \* the lines each file will have
  Ends,        \* after how many of them its session may have ended
  Reconciling, \* whether the OTLP export of Codex may be configured: {TRUE}, ...
  MaxEvents,   \* bound on compressing, unpacking, reports, reloads, stops and failed reads
  None

Kinds == {"meta", "context", "turn", "tokens", "item", "command", "tool", "other", "malformed"}

ASSUME RolloutAssumption ==
  /\ \A p \in Paths : Len(Script[p]) \in Nat /\ DOMAIN Script[p] = 1..Len(Script[p])
  /\ \A p \in Paths : \A n \in DOMAIN Script[p] : Script[p][n].kind \in Kinds
  /\ \A p \in Paths : Ends[p] \subseteq DOMAIN Script[p]
  /\ Reconciling \subseteq BOOLEAN /\ Reconciling # {}
  /\ MaxEvents \in Nat

VARIABLES
  plain,    \* whether the plain file exists
  length,   \* half-lines in it
  packed,   \* half-lines in the compressed file; 0: there is none
  busy,     \* plain files written to within the quiet time
  reported, \* calls the OTLP export has reported
  offset,   \* cursors.offsets, in half-lines of the plain form
  done,     \* cursors.compressed_done: the size of what was read to its end
  saved,    \* codex-cursors.json
  ctx,      \* ctx_by_path: the context of each file, or None
  quiet,    \* whether the tailer waits for a file to come to rest
  deferred, \* files that wait: "no", "waiting", "due" after max_lag
  live,     \* the second reading of a session: how far, and its context
  unknown,  \* sessions looked for in vain less than a minute ago
  scanning, left, pending,  \* the drain under way: files to read, events to commit
  ledger,   \* events committed
  faulted,  \* files whose prefix could not be read again (history)
  happened  \* how much of MaxEvents has

codexVars  == <<plain, length, packed, busy, reported>>
cursorVars == <<offset, done>>
memoryVars == <<ctx, quiet, deferred, live, unknown>>
drainVars  == <<scanning, left, pending>>
rolloutVars == <<codexVars, cursorVars, saved, memoryVars, drainVars, ledger, faulted, happened>>

-----------------------------------------------------------------------------
(* Lines and events *)

Fields == {"session", "turn", "model", "total"}

NoContext == [f \in Fields |-> None]

(* What a line tells of the context. session stands for everything        *)
(* session_meta does (client, directory, version, provider, repository),  *)
(* model for the effort too; a turn_context without one keeps the last.   *)
Tells(line, f) ==
  CASE f = "session" -> line.kind = "meta"
    [] f = "turn"    -> line.kind \in {"context", "turn", "item", "command", "tool"} /\ line.turn # None
    [] f = "model"   -> line.kind = "context" /\ line.model # None
    [] f = "total"   -> line.kind = "tokens" /\ line.total # None

Told(c, line) == [f \in Fields |-> IF Tells(line, f) THEN line[f] ELSE c[f]]

(* token_count again without a call: the total of the session stands still. *)
Repeats(c, line) == line.kind = "tokens" /\ line.total # None /\ line.total = c.total

Metadata(body) == [id |-> <<"metadata", body>>, body |-> body]
UsageId(s, usage) == <<"usage", s, usage>>

Body(source, kind, c, turn, model, usage, at) ==
  [source |-> source, kind |-> kind, session |-> c.session, turn |-> turn, model |-> model,
   usage |-> usage, at |-> at]

(* Identities: the hash of the content for session.start, turn and the     *)
(* requests that cannot be paired with the export's; session and counts    *)
(* for the others; session and ordinal for shell commands; the item for    *)
(* MCP calls and edits. Call and result of a tool are one event here.      *)
Translation(c, line) ==
  LET now == Told(c, line)
      E(kind, turn, model, usage) == Body("log", kind, now, turn, model, usage, line.at)
  IN CASE line.kind = "meta"  -> <<Metadata(E("session.start", None, None, None))>>
       [] line.kind = "turn"  -> <<Metadata(E("turn", now.turn, now.model, None))>>
       [] line.kind = "tokens" /\ ~Repeats(c, line) ->
            LET body == E("api.request", now.turn, now.model, line.usage)
            IN IF line.usage # None /\ now.session # None
                 THEN <<[id |-> UsageId(now.session, line.usage), body |-> body]>>
                 ELSE <<Metadata(body)>>
       [] line.kind = "command" ->
            <<[id |-> <<"command", now.session, line.ordinal>>,
               body |-> E("tool", line.turn, None, None)]>>
       [] line.kind = "tool" ->
            <<[id |-> <<"item", now.session, now.turn, line.item>>,
               body |-> E("tool", now.turn, None, None)]>>
       [] OTHER -> <<>>

(* Lines whose text lies in the first h half-lines. *)
LinesIn(h) == (h + 1) \div 2

(* The context before and after each of the lines a+1 to b, from c on.      *)
Contexts(c, p, a, b) ==
  LET context[n \in a..b] == IF n = a THEN c ELSE Told(context[n - 1], Script[p][n])
  IN context

(* The lines between two offsets, read one after the other; the rest of a  *)
(* line whose text was read before is empty.                               *)
Read(c, p, from, to) ==
  LET a == LinesIn(from)
      b == LinesIn(to)
      context == Contexts(c, p, a, b)
  IN [ctx |-> context[b],
      events |-> FlattenSeq([i \in 1..(b - a) |->
                               Translation(context[a + i - 1], Script[p][a + i])])]

-----------------------------------------------------------------------------
(* Codex and its export (external) *)

Happens == happened < MaxEvents /\ happened' = happened + 1

(* Half a line more. *)
Write(p) ==
  /\ plain[p] /\ length[p] < 2 * Len(Script[p])
  /\ length' = [length EXCEPT ![p] = @ + 1]
  /\ busy' = busy \cup {p}
  /\ UNCHANGED <<plain, packed, reported, cursorVars, saved, memoryVars, drainVars, ledger,
                 faulted, happened>>

(* The session rests for a minute. *)
Rest(p) ==
  /\ p \in busy
  /\ busy' = busy \ {p}
  /\ UNCHANGED <<plain, length, packed, reported, cursorVars, saved, memoryVars, drainVars,
                 ledger, faulted, happened>>

(* A finished session is compressed, with or without a last newline; then  *)
(* the plain file goes.                                                    *)
Compress(p) ==
  /\ Happens
  /\ plain[p] /\ length[p] > packed[p] /\ LinesIn(length[p]) \in Ends[p]
  /\ packed' = [packed EXCEPT ![p] = length[p]]
  /\ UNCHANGED <<plain, length, busy, reported, cursorVars, saved, memoryVars, drainVars, ledger,
                 faulted>>

RemovePlain(p) ==
  /\ plain[p] /\ length[p] > 0 /\ length[p] = packed[p]
  /\ plain' = [plain EXCEPT ![p] = FALSE]
  /\ length' = [length EXCEPT ![p] = 0]
  /\ busy' = busy \ {p}
  /\ UNCHANGED <<packed, reported, cursorVars, saved, memoryVars, drainVars, ledger, faulted,
                 happened>>

(* Resumed: the plain file is written again, from its beginning. *)
Unpack(p) ==
  /\ Happens
  /\ ~plain[p] /\ packed[p] > 0
  /\ plain' = [plain EXCEPT ![p] = TRUE]
  /\ busy' = busy \cup {p}
  /\ UNCHANGED <<length, packed, reported, cursorVars, saved, memoryVars, drainVars, ledger,
                 faulted>>

-----------------------------------------------------------------------------
(* The process *)

Cursors == [offset |-> offset, done |-> done]

Forgotten ==
  /\ ctx' = [p \in Paths |-> None]
  /\ deferred' = [p \in Paths |-> "no"]
  /\ live' = [p \in Paths |-> None]
  /\ unknown' = {}
  /\ scanning' = FALSE /\ left' = {} /\ pending' = <<>>

RolloutInit ==
  /\ plain = [p \in Paths |-> TRUE]
  /\ length = [p \in Paths |-> 0] /\ packed = [p \in Paths |-> 0]
  /\ busy = {} /\ reported = {}
  /\ offset = [p \in Paths |-> 0] /\ done = [p \in Paths |-> 0]
  /\ saved = Cursors
  /\ quiet \in Reconciling
  /\ ctx = [p \in Paths |-> None]
  /\ deferred = [p \in Paths |-> "no"]
  /\ live = [p \in Paths |-> None] /\ unknown = {}
  /\ scanning = FALSE /\ left = {} /\ pending = <<>>
  /\ ledger = {} /\ faulted = {}
  /\ happened = 0

Recorded(id) == \E e \in ledger : e.id = id

(* Mutant of PassedOver: only for what the export reports.                 *)
PassedOverExported(e) == e.body.kind = "api.request" /\ e.body.source = "otel" /\ Recorded(e.id)

(* Store refuses an identity seen before with other content. Usage that    *)
(* has been recorded is passed over instead.                               *)
PassedOver(e) == e.body.kind = "api.request" /\ Recorded(e.id)
Contradicts(e) == ~PassedOver(e) /\ \E f \in ledger : f.id = e.id /\ f # e
Refused == scanning /\ left = {} /\ pending # <<>> /\ Contradicts(Head(pending))

(* The process is killed, or a commit fails, which ends it too; the next   *)
(* one loads the cursors that were saved.                                  *)
Stop ==
  /\ IF Refused THEN UNCHANGED happened ELSE Happens
  /\ offset' = saved.offset /\ done' = saved.done
  /\ Forgotten
  /\ quiet' \in Reconciling
  /\ UNCHANGED <<codexVars, saved, ledger, faulted>>

(* init has changed Codex's configuration and asks for a reload. *)
Configure(q) ==
  /\ Happens /\ ~scanning
  /\ quiet' = q
  /\ deferred' = IF q THEN deferred ELSE [p \in Paths |-> "no"]
  /\ UNCHANGED <<codexVars, cursorVars, saved, ctx, live, unknown, drainVars, ledger, faulted>>

(* A file has waited for ten minutes. *)
LagElapses(p) ==
  /\ deferred[p] = "waiting"
  /\ deferred' = [deferred EXCEPT ![p] = "due"]
  /\ UNCHANGED <<codexVars, cursorVars, saved, ctx, quiet, live, unknown, drainVars, ledger,
                 faulted, happened>>

(* A minute has passed since a session was looked for in vain. *)
RetryUnknown(p) ==
  /\ p \in unknown
  /\ unknown' = unknown \ {p}
  /\ UNCHANGED <<codexVars, cursorVars, saved, ctx, quiet, deferred, live, drainVars, ledger,
                 faulted, happened>>

-----------------------------------------------------------------------------
(* The drain: every file, then the commits, then the cursors *)

Tick ==
  /\ ~scanning
  /\ scanning' = TRUE
  /\ left' = {p \in Paths : plain[p] \/ packed[p] > 0}
  /\ UNCHANGED <<codexVars, cursorVars, saved, memoryVars, pending, ledger, faulted, happened>>

(* Nothing of the file is looked at in this drain. *)
PassBy(p) ==
  /\ left' = left \ {p}
  /\ UNCHANGED <<codexVars, cursorVars, saved, ctx, quiet, live, unknown, scanning, pending,
                 ledger, faulted, happened>>

(* Mutant of Defers: without max_lag.                                      *)
DefersForever(p) == quiet /\ p \in busy

(* Written to within the quiet time, and not deferred for too long. *)
Defers(p) == quiet /\ p \in busy /\ deferred[p] # "due"

Held(p, over) == IF over THEN None ELSE ctx[p]

(* rehydrate_prefix *)
Restored(p, from) == Read(NoContext, p, 0, from).ctx

(* The file is read from where the cursor stands, or from its beginning if *)
(* it starts over, to the half-line upTo, which falls short of the end if  *)
(* a read fails. A file met for the first time has its prefix read again   *)
(* for its context; the context stays empty if that fails. Nothing is      *)
(* opened if there is nothing more to read.                                *)
ReadOn(p, opens, over, upTo, fails) ==
  LET from == IF over THEN 0 ELSE offset[p]
      held == Held(p, over)
      start == CASE held # None -> held
                 [] held = None /\ from > 0 /\ ~fails -> Restored(p, from)
                 [] OTHER -> NoContext
      r == Read(start, p, from, upTo)
  IN /\ upTo >= from
     /\ fails => from > 0 /\ held = None /\ opens
     /\ IF fails THEN Happens /\ faulted' = faulted \cup {p} ELSE UNCHANGED <<happened, faulted>>
     /\ ctx' = [ctx EXCEPT ![p] = IF opens \/ held # None \/ from > 0 THEN r.ctx ELSE None]
     /\ offset' = [offset EXCEPT ![p] = upTo]
     /\ pending' = pending \o r.events
     /\ left' = left \ {p}

(* drain_one_file: complete lines only; over if the file became shorter. *)
DrainPlain(p, upTo, fails) ==
  LET over == offset[p] > length[p]
  IN /\ p \in left /\ plain[p] /\ ~Defers(p)
     /\ deferred' = IF quiet THEN [deferred EXCEPT ![p] = "no"] ELSE deferred
     /\ upTo % 2 = 0 \/ upTo = offset[p]
     /\ upTo <= length[p]
     /\ ReadOn(p, over \/ length[p] > offset[p], over, upTo, fails)
     /\ UNCHANGED <<codexVars, done, saved, quiet, live, unknown, scanning, ledger>>

Defer(p) ==
  /\ p \in left /\ plain[p] /\ Defers(p)
  /\ deferred' = [deferred EXCEPT ![p] = "waiting"]
  /\ PassBy(p)

(* drain_compressed_file: not while the plain file exists, and only once;  *)
(* what is read to its end is final, with or without a newline. It starts  *)
(* over if the part to skip is missing, or could not be skipped.           *)
DrainPacked(p, over, upTo, fails) ==
  /\ p \in left /\ ~plain[p] /\ done[p] # packed[p]
  /\ offset[p] > packed[p] => over
  /\ upTo % 2 = 0 \/ upTo \in {offset[p], packed[p]}
  /\ upTo <= packed[p]
  /\ ReadOn(p, TRUE, over, upTo, fails)
  /\ done' = IF upTo = packed[p] THEN [done EXCEPT ![p] = packed[p]] ELSE done
  /\ UNCHANGED <<codexVars, saved, quiet, deferred, live, unknown, scanning, ledger>>

SkipDone(p) ==
  /\ p \in left /\ ~plain[p] /\ done[p] = packed[p]
  /\ UNCHANGED deferred
  /\ PassBy(p)

Commit ==
  /\ scanning /\ left = {} /\ pending # <<>>
  /\ ~Contradicts(Head(pending))
  /\ ledger' = IF PassedOver(Head(pending)) THEN ledger ELSE ledger \cup {Head(pending)}
  /\ pending' = Tail(pending)
  /\ UNCHANGED <<codexVars, cursorVars, saved, memoryVars, scanning, left, faulted, happened>>

Checkpoint ==
  /\ scanning /\ left = {} /\ pending = <<>>
  /\ saved' = Cursors
  /\ scanning' = FALSE
  /\ UNCHANGED <<codexVars, cursorVars, memoryVars, left, pending, ledger, faulted, happened>>

-----------------------------------------------------------------------------
(* Usage the export reports *)

Calls(p) == {line.usage : line \in {l \in ToSet(Script[p]) : l.kind = "tokens"}} \ {None}

(* session_context: a session is found by the name of its plain file, and  *)
(* followed to the end of its last complete line. (The map is emptied at   *)
(* 256 sessions, which only makes it begin again.)                         *)
Found(p) == live[p] # None \/ (p \notin unknown /\ plain[p])

Followed(p) ==
  LET last == IF live[p] # None THEN live[p] ELSE [offset |-> 0, ctx |-> NoContext]
      upTo == 2 * (length[p] \div 2)
  IN [live EXCEPT ![p] =
       IF plain[p] /\ upTo > last.offset
         THEN [offset |-> upTo, ctx |-> Read(last.ctx, p, last.offset, upTo).ctx]
         ELSE last]

(* A record of the export is enriched from there, if the file is there,    *)
(* and committed at once, unless the rollout was first.                    *)
Report(p, usage) ==
  LET c == IF Found(p) /\ plain[p] THEN Followed(p)[p].ctx ELSE NoContext
      e == [id |-> UsageId(p, usage),
            body |-> Body("otel", "api.request", [c EXCEPT !.session = p], c.turn, c.model, usage, None)]
  IN /\ Happens /\ ~scanning
     /\ usage \in Calls(p) /\ <<p, usage>> \notin reported
     /\ reported' = reported \cup {<<p, usage>>}
     /\ live' = IF Found(p) THEN Followed(p) ELSE live
     /\ unknown' = IF Found(p) THEN unknown \ {p} ELSE unknown \cup {p}
     /\ ledger' = IF PassedOver(e) THEN ledger ELSE ledger \cup {e}
     /\ UNCHANGED <<plain, length, packed, busy, cursorVars, saved, ctx, quiet, deferred,
                    drainVars, faulted>>

-----------------------------------------------------------------------------
Offsets(p) == 0..(2 * Len(Script[p]))

Drain(p) ==
  \/ Defer(p) \/ SkipDone(p)
  \/ \E upTo \in Offsets(p), fails \in BOOLEAN : DrainPlain(p, upTo, fails)
  \/ \E upTo \in Offsets(p), over, fails \in BOOLEAN : DrainPacked(p, over, upTo, fails)

Codex(p) == Write(p) \/ Rest(p) \/ Compress(p) \/ RemovePlain(p) \/ Unpack(p)

RolloutNext ==
  \/ \E p \in Paths : \/ Codex(p) \/ LagElapses(p) \/ RetryUnknown(p) \/ Drain(p)
                      \/ \E u \in Calls(p) : Report(p, u)
  \/ \E q \in Reconciling : Configure(q)
  \/ Tick \/ Commit \/ Checkpoint \/ Stop

RolloutSpec == RolloutInit /\ [][RolloutNext]_rolloutVars

(* A drain that meets no error. *)
DrainWhole(p) ==
  \/ \E upTo \in {2 * (length[p] \div 2), offset[p]} :
        /\ offset[p] = upTo => offset[p] >= 2 * (length[p] \div 2)
        /\ DrainPlain(p, upTo, FALSE)
  \/ DrainPacked(p, offset[p] > packed[p], packed[p], FALSE)

(* The loop goes on, a read does not fail every time, time passes, and     *)
(* Codex finishes what it unpacks.                                         *)
FairRolloutSpec ==
  /\ RolloutSpec
  /\ WF_rolloutVars(Tick) /\ WF_rolloutVars(Commit) /\ WF_rolloutVars(Checkpoint)
  /\ \A p \in Paths :
       /\ WF_rolloutVars(Defer(p) \/ SkipDone(p)) /\ SF_rolloutVars(DrainWhole(p))
       /\ WF_rolloutVars(LagElapses(p))
       /\ WF_rolloutVars(length[p] < packed[p] /\ Write(p))

-----------------------------------------------------------------------------
(* What one reading of a file from its beginning would make of it *)

(* The context after n lines: of each field, what the last line says that  *)
(* tells it.                                                               *)
ContextAt ==
  [p \in Paths |-> [n \in 0..Len(Script[p]) |-> [f \in Fields |->
     LET tellers == {m \in 1..n : Tells(Script[p][m], f)}
     IN IF tellers = {} THEN None ELSE Script[p][Max(tellers)][f]]]]

(* A session begins with its name, which is also its file's, before it     *)
(* counts a call; the counts stand for the call they are of.               *)
ASSUME CallsAssumption ==
  /\ None \notin Paths
  /\ \A p \in Paths : \A n \in DOMAIN Script[p] :
       Script[p][n].kind = "tokens" /\ Script[p][n].usage # None => ContextAt[p][n - 1].session = p
  /\ \A p, q \in Paths : p # q => Calls(p) \cap Calls(q) = {}

EventsOf ==
  [p \in Paths |-> [n \in DOMAIN Script[p] |->
     ToSet(Translation(ContextAt[p][n - 1], Script[p][n]))]]

FromRollout(e) == \E p \in Paths : \E n \in DOMAIN Script[p] : e \in EventsOf[p][n]

FromExport(e) ==
  \E p \in Paths : \E n \in 0..Len(Script[p]), u \in Calls(p) :
    LET c == ContextAt[p][n]
    IN e = [id |-> UsageId(p, u),
            body |-> Body("otel", "api.request", [c EXCEPT !.session = p], c.turn, c.model, u, None)]

LineRecorded(p, n) == \A e \in EventsOf[p][n] : Recorded(e.id)

-----------------------------------------------------------------------------
(* The context kept for a file, in memory or read again, is what the lines *)
(* before the cursor say, for both readings and after any number of        *)
(* restarts, compressions and fresh starts (codex_tailer.rs,               *)
(* rehydrate_prefix, session_context).                                     *)
ContextIsPrefix ==
  \A p \in Paths :
    /\ ctx[p] # None /\ p \notin faulted => ctx[p] = ContextAt[p][LinesIn(offset[p])]
    /\ live[p] # None => live[p].ctx = ContextAt[p][LinesIn(live[p].offset)]

(* Every event committed is one that a single reading of its file would    *)
(* make: no line is translated in another context, however the reading was *)
(* cut up (codex_tailer.rs, drain_one_file, drain_compressed_file).        *)
LedgerIsReading ==
  faulted = {} => \A e \in ledger : FromRollout(e) \/ FromExport(e)

(* What the cursor file counts as read is recorded (agent.rs, drain_codex: *)
(* the checkpoint follows the commits).                                    *)
SavedIsRecorded ==
  \A p \in Paths \ faulted : \A n \in 1..LinesIn(saved.offset[p]) : LineRecorded(p, n)

(* A call is counted once, whether the export or the rollout reports it    *)
(* first, and however often its line is read (rollout.rs,                  *)
(* token_count_event; agent.rs, already_recorded).                         *)
CallsCountedOnce ==
  faulted = {} =>
    \A e, f \in ledger :
      /\ e.body.kind = "api.request" /\ f.body.kind = "api.request"
      /\ e.body.usage = f.body.usage /\ e.body.usage # None
      => e = f

(* No event is refused for an identity that another one holds, so that the *)
(* tailer never ends the process (store.rs, ingest_with_sharing); unless a *)
(* prefix could not be read again: commands of two files then have no      *)
(* session, and one name (rollout.rs:650).                                 *)
NeverRefused == faulted = {} => ~Refused

Complete(p, n) == IF plain[p] THEN length[p] >= 2 * n ELSE LinesIn(packed[p]) >= n

(* Every line written to its end is recorded in the end: although the      *)
(* session never rests (max_lag), although it is compressed or unpacked in *)
(* between, although reads fail and the process dies. (The last line of a  *)
(* file unpacked without a last newline waits until Codex goes on.)        *)
EveryLineRecorded ==
  []<>(\A p \in Paths \ faulted : \A n \in DOMAIN Script[p] :
         Complete(p, n) => LineRecorded(p, n))
=============================================================================

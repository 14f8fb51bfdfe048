------------------------------- MODULE Backfill -------------------------------
(***************************************************************************)
(* The import of the transcripts Claude Code wrote before the collection   *)
(* began (crates/cli/src/claude_backfill.rs and its part of agent.rs).     *)
(*                                                                         *)
(* A thread of the agent makes a plan once per start: which files it reads, *)
(* the oldest modification time first. It reads them line by line          *)
(* through a normalizer of their own and hands the events in batches to    *)
(* the main loop, waits until each batch is committed, and then writes how *)
(* far it came to claude-backfill.json. Claude Code goes on writing while  *)
(* this happens, and the agent may die between any two steps.              *)
(*                                                                         *)
(* A file is a sequence of lines, a position in it a number of lines. The  *)
(* thread and the loop meet in one batch at a time, because the thread     *)
(* waits for the acknowledgement.                                          *)
(*                                                                         *)
(* A recorded event is what its line tells and a stamp of the machine it   *)
(* was read on: the repository of the directory, the servers configured    *)
(* there (at the start of a session), and the client. All three are read   *)
(* when the line is, or when it is committed, and may be others when it is  *)
(* read again. The lines here were all written in one directory, and by a   *)
(* client they do not name.                                                *)
(***************************************************************************)
EXTENDS Transcript

CONSTANTS Files,       \* transcripts, numbered as their paths are ordered
          Old,           \* what each of them holds at first
          New,           \* what Claude Code still writes to it, without the time
          Stamped,       \* modification time of each at first
          Archive,       \* earliest day of the local archive, or None
          Begun, Until,  \* first and last instant of the clock
          TailLines,     \* lines of a file that its last TAIL_BYTES hold
          BatchSize,
          MaxFaults,     \* crashes and failed reads
          Parts,         \* what of the machine changes: "remote", "servers" or "client"
          MaxAltered     \* and how often

VARIABLES text, stamp, clock,          \* the files, and the time of day
          kept,                        \* claude_backfill_boundary_ms of state.json
          cursor,                      \* claude-backfill.json
          importing, boundary, plan,          \* the run of the agent, and what is left of its plan
          phase, offset, context, batch, \* the file at the head of the plan
          machine, marked,             \* what the machine says, and what the thread has read of it
          ledger, stamps,              \* what the database holds, and the stamp of each
          faults, refused, torn, grown \* what happened, for bounds and properties

transcripts == <<text, stamp, clock>>
reading == <<phase, offset, context, batch>>
stamping == <<machine, marked, stamps>>
importHistory == <<faults, refused, torn, grown>>
backfillVars ==
  <<transcripts, kept, cursor, importing, boundary, plan, reading, ledger, stamping, importHistory>>

Unread == [remote |-> None, servers |-> None]

NoFile == [size |-> 0, stamp |-> 0, outcome |-> None]

BackfillInit ==
  /\ text = Old /\ stamp = Stamped /\ clock = Begun
  /\ kept = None
  /\ cursor = [files |-> [f \in Files |-> NoFile], progress |-> [f \in Files |-> 0]]
  /\ importing = FALSE /\ boundary = None /\ plan = {}
  /\ phase = "next" /\ offset = 0 /\ context = NewNormalizer /\ batch = <<>>
  /\ machine = [remote |-> 0, servers |-> 0, client |-> 0]
  /\ marked = Unread /\ stamps = [e \in {} |-> machine]
  /\ ledger = {} /\ faults = 0 /\ refused = {} /\ torn = {} /\ grown = {}
------------------------------------------------------------------------------
(***************************************************************************)
(* The plan.                                                               *)
(***************************************************************************)
(* Mutant of BoundaryOf: asked at every start. *)
BoundaryAgain(saved) == IF Archive # None THEN Archive ELSE clock

(* compute_boundary, asked only where state.json has none yet.              *)
BoundaryOf(saved) == IF saved # None THEN saved ELSE IF Archive # None THEN Archive ELSE clock

(* last_record_ts_ms: the last time its last bytes tell of, else its mtime.  *)
LastRecord(f) ==
  LET told == {n \in Timed(text[f]) : n > Len(text[f]) - TailLines}
  IN  IF told = {} THEN stamp[f] ELSE text[f][Latest(told)].at

Outcome(f, from) ==
  LET known == cursor.files[f]
  IN  IF known.outcome = "overlap" THEN "overlap"
      ELSE IF known.outcome # None /\ known.size = Len(text[f]) /\ known.stamp = stamp[f] THEN "done"
      ELSE IF LastRecord(f) >= from THEN "overlap"
      ELSE "backfill"

PlanOf(from) ==
  {[file |-> f, size |-> Len(text[f]), stamp |-> stamp[f], outcome |-> Outcome(f, from)] : f \in Files}

(* The agent starts, decides the boundary and spawns the thread, which makes *)
(* its plan; what was held in memory before is gone.                        *)
StartImport ==
  LET from == BoundaryOf(kept)
  IN  /\ ~importing
      /\ importing' = TRUE /\ boundary' = from /\ plan' = PlanOf(from)
      /\ UNCHANGED <<transcripts, kept, cursor, reading, ledger, stamping, importHistory>>

(* The state of the agent reaches state.json after the thread was spawned.   *)
SaveState ==
  /\ importing /\ kept # boundary
  /\ kept' = boundary
  /\ UNCHANGED <<transcripts, cursor, importing, boundary, plan, reading, ledger, stamping, importHistory>>
------------------------------------------------------------------------------
(***************************************************************************)
(* One file.                                                               *)
(***************************************************************************)
Before(a, b) == a.stamp < b.stamp \/ (a.stamp = b.stamp /\ a.file < b.file)
Turn == CHOOSE a \in plan : \A b \in plan \ {a} : Before(a, b)
Now  == Turn.file

(* record_cursor: the size and the time are those the plan saw.             *)
Recorded(outcome) ==
  [cursor EXCEPT !.files[Now] = [size |-> Turn.size, stamp |-> Turn.stamp, outcome |-> outcome],
                 !.progress[Now] = 0]


Rest == phase' = "next" /\ offset' = 0 /\ context' = NewNormalizer /\ batch' = <<>>

Fail == faults < MaxFaults /\ faults' = faults + 1

Skip ==
  /\ importing /\ phase = "next" /\ plan # {} /\ Turn.outcome # "backfill"
  /\ cursor' = IF Turn.outcome = "overlap" THEN Recorded("overlap") ELSE cursor
  /\ plan' = plan \ {Turn}
  /\ UNCHANGED <<transcripts, kept, importing, boundary, reading, ledger, stamping, importHistory>>

(* What was committed before is read again for the context alone.            *)
(* Mutant of ContextAfter: the lines before are not read again. *)
ContextUnread(f, n) == NewNormalizer

ContextAfter(f, n) ==
  LET after[m \in 0..n] == IF m = 0 THEN NewNormalizer ELSE Line(after[m - 1], text[f][m]).ctx
  IN  after[n]

(* RepoResolver keeps the repository of a directory as long as the thread runs; *)
(* the servers are read again after CACHE_TTL, and what a cache still holds   *)
(* is here a change that comes later.                                        *)
Begins(out) == \E n \in DOMAIN out : out[n].type = "session.start"

Marked(some, starts) ==
  [remote |-> IF some /\ marked.remote = None THEN machine.remote ELSE marked.remote,
   servers |-> IF starts THEN machine.servers ELSE marked.servers]

OpenAt(n) ==
  /\ importing /\ phase = "next" /\ plan # {} /\ Turn.outcome = "backfill"
  /\ phase' = "read" /\ offset' = n /\ context' = ContextAfter(Now, n) /\ batch' = <<>>
  /\ marked' = Marked(n > 0, FALSE)

Open ==
  /\ OpenAt(cursor.progress[Now])
  /\ UNCHANGED <<transcripts, kept, cursor, importing, boundary, plan, ledger, machine, stamps, importHistory>>

(* A read that fails while the context is rebuilt ends the rebuilding, and    *)
(* the file is sent from there.                                             *)
ReplayFails ==
  /\ Fail /\ plan # {}
  /\ \E n \in 0..(cursor.progress[Now] - 1) : OpenAt(n)
  /\ UNCHANGED <<transcripts, kept, cursor, importing, boundary, plan, ledger, machine, stamps, refused, torn, grown>>

OpenFails ==
  /\ Fail
  /\ importing /\ phase = "next" /\ plan # {} /\ Turn.outcome = "backfill"
  /\ cursor' = Recorded("backfilled") /\ plan' = plan \ {Turn}
  /\ torn' = torn \cup {Now}
  /\ UNCHANGED <<transcripts, kept, importing, boundary, reading, ledger, stamping, refused, grown>>

ReadLine ==
  /\ importing /\ phase = "read" /\ offset < Len(text[Now])
  /\ LET read == Line(context, text[Now][offset + 1])
         full == Len(batch) + Len(read.out) >= BatchSize
     IN  /\ context' = read.ctx /\ batch' = batch \o read.out
         /\ marked' = Marked(TRUE, Begins(read.out))
         /\ phase' = IF full THEN "send" ELSE "read"
  /\ offset' = offset + 1
  /\ UNCHANGED <<transcripts, kept, cursor, importing, boundary, plan, ledger, machine, stamps, importHistory>>

EndOfFile ==
  /\ importing /\ phase = "read" /\ offset = Len(text[Now])
  /\ batch' = batch \o Finish(context) /\ phase' = "last"
  /\ UNCHANGED <<transcripts, kept, cursor, importing, boundary, plan, offset, context, ledger, stamping, importHistory>>

(* An error while reading is taken for the end of the file.                  *)
ReadFails ==
  /\ Fail
  /\ importing /\ phase = "read" /\ offset < Len(text[Now])
  /\ batch' = batch \o Finish(context) /\ phase' = "last"
  /\ torn' = torn \cup {Now}
  /\ UNCHANGED <<transcripts, kept, cursor, importing, boundary, plan, offset, context, ledger, stamping, refused, grown>>
------------------------------------------------------------------------------
(***************************************************************************)
(* The batch in the main loop: its events are committed one by one, and     *)
(* then it is acknowledged. An event that contradicts what is recorded under *)
(* its identity, in what it tells or in its stamp, ends the agent.          *)
(***************************************************************************)
EndTypes == {"session.end", "subagent.stop"}

(* process_line; what finish() adds has no repository. client_source::enrich   *)
(* names the client when the event is committed.                            *)
Stamp(e) ==
  [remote  |-> IF e.type \in EndTypes THEN None ELSE marked.remote,
   servers |-> IF e.type = "session.start" THEN marked.servers ELSE None,
   client  |-> machine.client]

Contradicts(e) ==
  \E r \in ledger : r.type = e.type /\ r.key = e.key /\ (r # e \/ stamps[r] # Stamp(e))

Down == importing' = FALSE /\ boundary' = None /\ plan' = {} /\ Rest /\ marked' = Unread

CommitImported ==
  /\ importing /\ phase \in {"send", "last"} /\ batch # <<>>
  /\ IF Contradicts(batch[1])
       THEN /\ refused' = refused \cup {batch[1]}
            /\ Down
            /\ UNCHANGED <<ledger, stamps>>
       ELSE /\ ledger' = ledger \cup {batch[1]}
            /\ stamps' = [e \in ledger' |-> IF e = batch[1] THEN Stamp(e) ELSE stamps[e]]
            /\ batch' = Tail(batch)
            /\ UNCHANGED <<importing, boundary, plan, phase, offset, context, marked, refused>>
  /\ UNCHANGED <<transcripts, kept, cursor, machine, faults, torn, grown>>

(* The thread goes on: record_progress within the file, record_cursor at its  *)
(* end.                                                                     *)
Acknowledge ==
  /\ importing /\ phase = "send" /\ batch = <<>>
  /\ cursor' = [cursor EXCEPT !.progress[Now] = offset]
  /\ phase' = "read"
  /\ UNCHANGED <<transcripts, kept, importing, boundary, plan, offset, context, batch, ledger, stamping, importHistory>>

Finished ==
  /\ importing /\ phase = "last" /\ batch = <<>>
  /\ cursor' = Recorded("backfilled")
  /\ plan' = plan \ {Turn} /\ Rest
  /\ UNCHANGED <<transcripts, kept, importing, boundary, ledger, stamping, importHistory>>

ImportCrash ==
  /\ importing /\ Fail
  /\ Down
  /\ UNCHANGED <<transcripts, kept, cursor, ledger, machine, stamps, refused, torn, grown>>
------------------------------------------------------------------------------
(***************************************************************************)
(* Claude Code, and whatever else touches its files.                        *)
(***************************************************************************)
Tick == clock < Until /\ clock' = clock + 1
        /\ UNCHANGED <<text, stamp, kept, cursor, importing, boundary, plan, reading, ledger, stamping,
                       importHistory>>

WriteLine(f) ==
  /\ Len(text[f]) < Len(Old[f]) + Len(New[f])
  /\ text' = [text EXCEPT ![f] = Append(@, [New[f][Len(@) - Len(Old[f]) + 1] EXCEPT !.at = clock])]
  /\ stamp' = [stamp EXCEPT ![f] = clock]
  /\ grown' = IF \E a \in plan : a.file = f /\ a.outcome = "backfill"
                THEN grown \cup {f} ELSE grown
  /\ UNCHANGED <<clock, kept, cursor, importing, boundary, plan, reading, ledger, stamping, faults, refused, torn>>

(* A copy, a restored backup: another modification time, the same content;    *)
(* only the plan reads it.                                                  *)
Touch(f) ==
  /\ ~importing /\ stamp[f] # clock
  /\ stamp' = [stamp EXCEPT ![f] = clock]
  /\ UNCHANGED <<text, clock, kept, cursor, importing, boundary, plan, reading, ledger, stamping, importHistory>>

(* A remote is renamed, a server configured, a session's files are found that  *)
(* name its client. A change counts from the next reading on, so it is taken  *)
(* there: before a file is opened, or an event committed; and what changes    *)
(* before anything is recorded is as it always was.                         *)
Alters(part) ==
  /\ importing /\ ledger # {}
  /\ IF part = "client" THEN phase \in {"send", "last"} /\ batch # <<>>
                        ELSE phase = "next" /\ plan # {} /\ Turn.outcome = "backfill"
  /\ machine.remote + machine.servers + machine.client < MaxAltered
  /\ machine' = [machine EXCEPT ![part] = @ + 1]
  /\ UNCHANGED <<transcripts, kept, cursor, importing, boundary, plan, reading, ledger, marked, stamps,
                 importHistory>>

BackfillNext ==
  \/ StartImport \/ SaveState \/ Skip \/ Open \/ ReplayFails \/ OpenFails
  \/ ReadLine \/ EndOfFile \/ ReadFails
  \/ CommitImported \/ Acknowledge \/ Finished \/ ImportCrash
  \/ Tick
  \/ \E f \in Files : WriteLine(f) \/ Touch(f)
  \/ \E part \in Parts : Alters(part)

BackfillSpec == BackfillInit /\ [][BackfillNext]_backfillVars
------------------------------------------------------------------------------
(***************************************************************************)
(* Properties.                                                             *)
(***************************************************************************)
Told(f) == Meant(text[f])
PossibleEnds(f) == UNION {MeantEnd(SubSeq(text[f], 1, n)) : n \in 1..Len(text[f])}

(* What is recorded is what the transcripts say, whatever part of a file was  *)
(* read again after a crash, and in whatever batches it was committed: the   *)
(* context rebuilt by replaying is the one the lines were written in.        *)
LedgerIsMeant == ledger \subseteq UNION {Told(f) \cup PossibleEnds(f) : f \in Files}

(* A file recorded as imported, that was read without an error and has not    *)
(* changed since, is in the database from its first line to its end.         *)
DoneIsWhole ==
  \A f \in Files :
    cursor.files[f].outcome = "backfilled" /\ cursor.files[f].size = Len(text[f]) /\ f \notin torn
      => Told(f) \cup MeantEnd(text[f]) \subseteq ledger

(* Nothing is imported that was written once the collection had begun, except *)
(* from a file that grew between the plan and the end of its reading.         *)
NothingBeyondBoundary ==
  kept # None =>
    {e \in ledger : e.at >= kept} \subseteq UNION {Told(f) \cup PossibleEnds(f) : f \in grown}

(* Only two things end the agent: the end of a session or subagent, which is  *)
(* named without its time, while a file read twice (after a failed read, a   *)
(* crash before the record, a change) may end at another line; and a line    *)
(* recorded before, word for word, whose stamp was read from something that   *)
(* has changed since.                                                      *)
Restamped(e) ==
  e \in ledger /\ \E part \in {"remote", "servers", "client"} :
                    stamps[e][part] # None /\ stamps[e][part] < machine[part]

OnlyEndsRefused == \A e \in refused : (\E f \in Files : e \in PossibleEnds(f)) \/ Restamped(e)
==============================================================================

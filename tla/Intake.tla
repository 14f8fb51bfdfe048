------------------------------- MODULE Intake -------------------------------
(***************************************************************************)
(* How observations reach the ledger: the agent's loop and its drains      *)
(* (crates/cli/src/agent.rs), the hook shim and its spool (hook_cmd.rs,    *)
(* crates/spool), the OTLP receiver (crates/otlp), the tailer of Codex     *)
(* session files (codex_tailer.rs) and the backfill of Claude transcripts  *)
(* (claude_backfill.rs).                                                   *)
(*                                                                         *)
(* One thread runs the loop and commits one event at a time; the sources   *)
(* go on meanwhile, and the process may die between any two steps.  Every  *)
(* source keeps an item until the loop has released it: the spool entry is *)
(* removed, the request answered, the cursor saved after the commits.  An  *)
(* error of a commit ends the process.                                     *)
(*                                                                         *)
(* An identity is normalised, and then enriched with what the machine's    *)
(* session files and configuration say at that moment (client_source.rs,   *)
(* enrich; codex_tailer.rs, scan_pending), so that the same identity may   *)
(* read differently later: Reading.                                        *)
(***************************************************************************)
EXTENDS Store

CONSTANTS
  Entries,    \* hook invocations, numbered in the order of their file names
  Malformed,  \* those whose payload is not a hook record
  Batches,    \* batches the OTLP exporters send
  NumLines,   \* lines the session file will have
  NumChunks,  \* chunks of the old transcript
  Parts,      \* the identities each item is normalised to
  Usage,      \* Codex API requests, which OTLP and session file both report
  Labels,     \* states of what events are enriched from
  Reading,    \* the event an identity becomes under each label
  FirstLabel,
  Signed,     \* the sign-in of the running Cloud sink, or NotShared
  HighWater,  \* BACKFILL_SINK_HIGH_WATER: 5000
  Capacity,   \* of the channel from the OTLP receiver: 256
  MaxStops,   \* bound on crashes and SIGTERMs
  MaxRelabels \* bound on changes of the label

Entry(x) == <<"entry", x>>
Batch(b) == <<"batch", b>>
Line(n)  == <<"line", n>>
Chunk(n) == <<"chunk", n>>

Items == {Entry(x) : x \in Entries} \cup {Batch(b) : b \in Batches}
         \cup {Line(n) : n \in 1..NumLines} \cup {Chunk(n) : n \in 1..NumChunks}

ASSUME IntakeAssumption ==
  /\ Entries \subseteq Nat /\ Batches \subseteq Nat
  /\ Malformed \subseteq Entries
  /\ NumLines \in Nat /\ NumChunks \in Nat
  /\ Parts \in [Items -> SUBSET Ids]
  /\ \A x \in Malformed : Parts[Entry(x)] = {}
  /\ Usage \subseteq Ids
  /\ FirstLabel \in Labels
  /\ Reading \in [Ids -> [Labels -> Events]]
  /\ Signed \in Dests \cup {NotShared}
  /\ HighWater \in Nat /\ Capacity \in Nat
  /\ MaxStops \in Nat /\ MaxRelabels \in Nat
  /\ \A i \in Ids : Archive[i] = None

VARIABLES
  fired,     \* hooks that have run
  spool,     \* entries in the spool directory
  missed,    \* hooks whose shim could not write its entry
  export,    \* each batch: "new", "failed", "waiting", "done", "dropped"
  channel,   \* payloads received and not yet taken by the loop
  length,    \* half-lines in the session file: an odd one ends in mid-line
  offset,    \* half-lines the running tailer has read
  saved,     \* and those codex-cursors.json says
  chunk,     \* the backfill thread's batch: "none", "queued", "taken", "acked"
  place,     \* chunks the running backfill thread is done with
  progress,  \* and those its cursor file says
  stage,     \* where the loop is: "select", "spool", "rollout", "exit", "ended"
  stopping,  \* SIGTERM was received
  listing,   \* entries this drain found and has not opened yet
  unit,      \* what is being committed: its kind, its items, who waits
  todo,      \* the identities of it still to commit
  label,     \* what events are enriched from now
  stops, relabels

spoolVars    == <<fired, spool, missed>>
otlpVars     == <<export, channel>>
tailVars     == <<length, offset, saved>>
backfillVars == <<chunk, place, progress>>
loopVars     == <<stage, stopping, listing, unit, todo>>
worldVars    == <<label, stops, relabels>>
intakeVars   == <<storeVars, spoolVars, otlpVars, tailVars, backfillVars, loopVars, worldVars>>

Units == [kind : {"entry", "batch", "rollout", "chunk"}, items : SUBSET Items, waits : BOOLEAN]

ASSUME NoneIsNoUnit == None \notin Units

Payloads == [batch : Batches, waits : BOOLEAN]

IntakeInit ==
  /\ StoreInit
  /\ fired = {} /\ spool = {} /\ missed = {}
  /\ export = [b \in Batches |-> "new"]
  /\ channel = <<>>
  /\ length = 0 /\ offset = 0 /\ saved = 0
  /\ chunk = "none" /\ place = 0 /\ progress = 0
  /\ stage = "select" /\ stopping = FALSE /\ listing = {} /\ unit = None /\ todo = {}
  /\ label = FirstLabel
  /\ stops = 0 /\ relabels = 0

-----------------------------------------------------------------------------
(* The sources *)

(* The shim publishes its entry by a rename, or gives up: the write failed *)
(* or took more than 200 ms. Either way the hook succeeds.                 *)
Hook(x) ==
  /\ x \notin fired
  /\ fired' = fired \cup {x}
  /\ \/ spool' = spool \cup {x} /\ UNCHANGED missed
     \/ missed' = missed \cup {x} /\ UNCHANGED spool
  /\ UNCHANGED <<storeVars, otlpVars, tailVars, backfillVars, loopVars, worldVars>>

(* The receiver queues the payload, or answers 503: the queue is full. *)
Post(b) ==
  /\ export[b] \in {"new", "failed"}
  /\ IF open /\ Len(channel) < Capacity
       THEN /\ channel' = Append(channel, [batch |-> b, waits |-> TRUE])
            /\ export' = [export EXCEPT ![b] = "waiting"]
       ELSE /\ export' = [export EXCEPT ![b] = "failed"]
            /\ UNCHANGED channel
  /\ UNCHANGED <<storeVars, spoolVars, tailVars, backfillVars, loopVars, worldVars>>

(* Ten seconds pass without a commit, or the answer is lost on its way;    *)
(* the payload stays where it is.                                          *)
TimeOut(b) ==
  /\ export[b] = "waiting"
  /\ export' = [export EXCEPT ![b] = "failed"]
  /\ channel' = [n \in DOMAIN channel |->
       IF channel[n].batch = b THEN [channel[n] EXCEPT !.waits = FALSE] ELSE channel[n]]
  /\ unit' = IF unit # None /\ unit.items = {Batch(b)} THEN [unit EXCEPT !.waits = FALSE] ELSE unit
  /\ UNCHANGED <<storeVars, spoolVars, tailVars, backfillVars, stage, stopping, listing,
                 todo, worldVars>>

(* The exporter has retried for too long. *)
GiveUp(b) ==
  /\ export[b] = "failed"
  /\ export' = [export EXCEPT ![b] = "dropped"]
  /\ UNCHANGED <<storeVars, spoolVars, channel, tailVars, backfillVars, loopVars, worldVars>>

(* Codex appends to its session file, a part of a line at a time. *)
Write ==
  /\ length < 2 * NumLines
  /\ length' = length + 1
  /\ UNCHANGED <<storeVars, spoolVars, otlpVars, offset, saved, backfillVars, loopVars, worldVars>>

(* A session file appears, or the configuration changes. *)
Relabel(l) ==
  /\ relabels < MaxRelabels
  /\ relabels' = relabels + 1
  /\ label' = l
  /\ UNCHANGED <<storeVars, spoolVars, otlpVars, tailVars, backfillVars, loopVars, stops>>

-----------------------------------------------------------------------------
(* The agent's loop *)

(* The cursors in memory are those of the files, see Ends. *)
Begin ==
  /\ Open
  /\ UNCHANGED <<spoolVars, otlpVars, tailVars, backfillVars, loopVars, worldVars>>

(* The process ends: what was in memory is gone, so that the next one      *)
(* begins where the saved cursors are, and whoever waited for an answer is *)
(* refused.                                                                *)
Ends ==
  /\ Close
  /\ export' = [b \in Batches |-> IF export[b] = "waiting" THEN "failed" ELSE export[b]]
  /\ channel' = <<>>
  /\ offset' = saved
  /\ chunk' = "none" /\ place' = progress
  /\ stage' = "select" /\ stopping' = FALSE /\ listing' = {} /\ unit' = None /\ todo' = {}
  /\ UNCHANGED <<spoolVars, length, saved, progress, label, relabels>>

Crash ==
  /\ stops < MaxStops
  /\ stops' = stops + 1
  /\ Ends

Selecting == open /\ stage = "select" /\ unit = None

Working(kind) == open /\ unit # None /\ unit.kind = kind /\ todo = {}

(* A tick, a hook's notification or a flush request: the spool is listed. *)
Tick ==
  /\ Selecting
  /\ stage' = "spool" /\ listing' = spool
  /\ UNCHANGED <<storeVars, spoolVars, otlpVars, tailVars, backfillVars, stopping, unit, todo,
                 worldVars>>

(* SIGTERM: one last drain, then the process ends. *)
Sigterm ==
  /\ Selecting
  /\ stops < MaxStops
  /\ stops' = stops + 1
  /\ stage' = "spool" /\ listing' = spool /\ stopping' = TRUE
  /\ UNCHANGED <<storeVars, spoolVars, otlpVars, tailVars, backfillVars, unit, todo, label,
                 relabels>>

(* The next entry in the order of names. One that cannot be read or        *)
(* normalised is moved out of the way, or removed when it cannot be moved. *)
OpenEntry ==
  /\ open /\ stage = "spool" /\ unit = None
  /\ \E x \in listing :
       /\ \A y \in listing : x <= y
       /\ listing' = listing \ {x}
       /\ IF x \in Malformed
            THEN /\ spool' = spool \ {x}
                 /\ UNCHANGED <<unit, todo>>
            ELSE /\ unit' = [kind |-> "entry", items |-> {Entry(x)}, waits |-> FALSE]
                 /\ todo' = Parts[Entry(x)]
                 /\ UNCHANGED spool
  /\ UNCHANGED <<storeVars, fired, missed, otlpVars, tailVars, backfillVars, stage, stopping,
                 worldVars>>

(* An error of the removal is ignored: the entry is found again. *)
RemoveEntry ==
  /\ Working("entry")
  /\ \/ spool' = {x \in spool : unit.items # {Entry(x)}}
     \/ UNCHANGED spool
  /\ unit' = None
  /\ UNCHANGED <<storeVars, fired, missed, otlpVars, tailVars, backfillVars, stage,
                 stopping, listing, todo, worldVars>>

(* What of the file is complete, and the lines the tailer has not read. *)
Complete == 2 * (length \div 2)

LinesBetween(from, to) == {n \in 1..NumLines : from <= 2 * (n - 1) /\ 2 * n <= to}

Identities(items) == UNION {Parts[x] : x \in items}

(* Mutant of ScanRollout: the cursor is saved with the scan. *)
ScanRolloutSaves ==
  /\ open /\ stage = "spool" /\ unit = None /\ listing = {}
  /\ stage' = "rollout"
  /\ \E to \in {offset, Complete} :
       LET lines == {Line(n) : n \in LinesBetween(offset, to)}
       IN /\ offset' = to /\ saved' = to
          /\ unit' = [kind |-> "rollout", items |-> lines, waits |-> FALSE]
          /\ todo' = Identities(lines)
  /\ UNCHANGED <<storeVars, spoolVars, otlpVars, length, backfillVars, stopping, listing,
                 worldVars>>

(* scan_pending: the cursor in memory moves; a file just written to is     *)
(* left for a later scan, up to a limit. A half-written line is not read.  *)
ScanRollout ==
  /\ open /\ stage = "spool" /\ unit = None /\ listing = {}
  /\ stage' = "rollout"
  /\ \E to \in {offset, Complete} :
       LET lines == {Line(n) : n \in LinesBetween(offset, to)}
       IN /\ offset' = to
          /\ unit' = [kind |-> "rollout", items |-> lines, waits |-> FALSE]
          /\ todo' = Identities(lines)
  /\ UNCHANGED <<storeVars, spoolVars, otlpVars, length, saved, backfillVars, stopping, listing,
                 worldVars>>

(* Mutant of Checkpoint: only files with new lines enter the cursor file. *)
CheckpointForgets ==
  /\ Working("rollout")
  /\ saved' = IF unit.items = {} THEN 0 ELSE offset
  /\ unit' = None
  /\ stage' = IF stopping THEN "exit" ELSE "select"
  /\ UNCHANGED <<storeVars, spoolVars, otlpVars, length, offset, backfillVars, stopping, listing,
                 todo, worldVars>>

Checkpoint ==
  /\ Working("rollout")
  /\ saved' = offset
  /\ unit' = None
  /\ stage' = IF stopping THEN "exit" ELSE "select"
  /\ UNCHANGED <<storeVars, spoolVars, otlpVars, length, offset, backfillVars, stopping, listing,
                 todo, worldVars>>

TakeBatch ==
  /\ Selecting
  /\ channel # <<>>
  /\ channel' = Tail(channel)
  /\ unit' = [kind |-> "batch", items |-> {Batch(Head(channel).batch)},
              waits |-> Head(channel).waits]
  /\ todo' = Parts[Batch(Head(channel).batch)]
  /\ UNCHANGED <<storeVars, spoolVars, export, tailVars, backfillVars, stage, stopping, listing,
                 worldVars>>

(* The request is answered 200, if it still waits. *)
AnswerBatch ==
  /\ Working("batch")
  /\ export' = [b \in Batches |->
       IF unit.waits /\ unit.items = {Batch(b)} THEN "done" ELSE export[b]]
  /\ unit' = None
  /\ UNCHANGED <<storeVars, spoolVars, channel, tailVars, backfillVars, stage, stopping, listing,
                 todo, worldVars>>

(* The backfill thread hands over one batch and waits for its commit. *)
SendChunk ==
  /\ open /\ chunk = "none" /\ place < NumChunks
  /\ chunk' = "queued"
  /\ UNCHANGED <<storeVars, spoolVars, otlpVars, tailVars, place, progress, loopVars, worldVars>>

(* Mutant of HasRoom: the batch itself is counted. *)
HasRoomForBatch == Signed # NotShared => Cardinality(Waiting(Signed)) + 1 < HighWater

(* agent.rs:1348 asks the S3 sink too. Its pending rows are those in memory *)
(* (s3.rs:468), which every flush empties whatever becomes of the upload,   *)
(* so they put a chunk off for a flush at the most: left out here.          *)
HasRoom == Signed # NotShared => Cardinality(Waiting(Signed)) < HighWater

(* The loop takes it when the uploads are not too far behind; the last     *)
(* drain takes it in any case.                                             *)
TakeChunk ==
  /\ \/ Selecting /\ HasRoom
     \/ open /\ stage = "exit" /\ unit = None
  /\ chunk = "queued"
  /\ chunk' = "taken"
  /\ unit' = [kind |-> "chunk", items |-> {Chunk(place + 1)}, waits |-> TRUE]
  /\ todo' = Parts[Chunk(place + 1)]
  /\ UNCHANGED <<storeVars, spoolVars, otlpVars, tailVars, place, progress, stage, stopping,
                 listing, worldVars>>

AckChunk ==
  /\ Working("chunk")
  /\ chunk' = "acked"
  /\ unit' = None
  /\ UNCHANGED <<storeVars, spoolVars, otlpVars, tailVars, place, progress, stage, stopping,
                 listing, todo, worldVars>>

(* An error of the save is logged; the next one saves this place as well. *)
RecordProgress ==
  /\ open /\ chunk = "acked"
  /\ chunk' = "none"
  /\ place' = place + 1
  /\ progress' \in {progress, place + 1}
  /\ UNCHANGED <<storeVars, spoolVars, otlpVars, tailVars, loopVars, worldVars>>

(* Nothing more is queued: what the thread queues from now on is dropped.  *)
LastDrain ==
  /\ open /\ stage = "exit" /\ unit = None /\ chunk # "queued"
  /\ stage' = "ended"
  /\ UNCHANGED <<storeVars, spoolVars, otlpVars, tailVars, backfillVars, stopping, listing, unit,
                 todo, worldVars>>

Exit ==
  /\ open /\ stage = "ended"
  /\ Ends
  /\ UNCHANGED stops

(* Mutant of PassedOver: Codex usage is compared like any other event. *)
PassedOverEntriesOnly(i) == local[i] # None /\ unit.kind = "entry"

(* Spool entries are looked up by the identity of their file, Codex usage  *)
(* by the one its two reports share; whatever is held already is passed    *)
(* over before it is compared.                                             *)
PassedOver(i) ==
  /\ local[i] # None
  /\ \/ unit.kind = "entry"
     \/ unit.kind \in {"batch", "rollout"} /\ i \in Usage

NextUp(i) == i \in todo /\ \A j \in todo : i <= j

Conflicting(i) == ~PassedOver(i) /\ Conflicts(i, Reading[i][label])

(* persist_event: one event, one transaction. *)
Persist ==
  /\ open /\ unit # None
  /\ \E i \in todo :
       /\ NextUp(i)
       /\ IF PassedOver(i) THEN UNCHANGED storeVars ELSE Ingest(i, Reading[i][label], Signed)
       /\ todo' = todo \ {i}
  /\ UNCHANGED <<spoolVars, otlpVars, tailVars, backfillVars, stage, stopping, listing, unit,
                 worldVars>>

(* "conflicting event identity": the error ends the process. *)
Conflict ==
  /\ open /\ unit # None
  /\ \E i \in todo : NextUp(i) /\ Conflicting(i)
  /\ Ends
  /\ UNCHANGED stops

(* The Cloud sink's part of the tick, see CloudSync. *)
Upload ==
  /\ Selecting
  /\ Signed # NotShared /\ Waiting(Signed) # {}
  /\ Acknowledge(Signed, Waiting(Signed))
  /\ UNCHANGED <<spoolVars, otlpVars, tailVars, backfillVars, loopVars, worldVars>>

-----------------------------------------------------------------------------

SourceNext ==
  \/ \E x \in Entries : Hook(x)
  \/ \E b \in Batches : Post(b) \/ TimeOut(b) \/ GiveUp(b)
  \/ Write
  \/ \E l \in Labels : Relabel(l)
  \/ SendChunk \/ RecordProgress

LoopNext ==
  \/ OpenEntry \/ RemoveEntry
  \/ ScanRollout \/ Checkpoint
  \/ AnswerBatch \/ AckChunk
  \/ Persist \/ Conflict
  \/ LastDrain \/ Exit

IntakeNext ==
  \/ SourceNext \/ LoopNext
  \/ Tick \/ Sigterm \/ TakeBatch \/ TakeChunk \/ Upload
  \/ Begin \/ Crash

IntakeSpec == IntakeInit /\ [][IntakeNext]_intakeVars

(* The loop goes on; tokio picks among the arms that are ready at random,  *)
(* and the ticker is ready every time its interval has passed. The service *)
(* manager, or the user, starts the agent again. Cloud is reachable at     *)
(* times, and exporters retry.                                             *)
IntakeFairness ==
  /\ WF_intakeVars(LoopNext)
  /\ WF_intakeVars(Begin)
  /\ WF_intakeVars(SendChunk \/ RecordProgress)
  /\ SF_intakeVars(Tick)
  /\ SF_intakeVars(TakeBatch)
  /\ SF_intakeVars(TakeChunk)
  /\ SF_intakeVars(Upload)
  /\ SF_intakeVars(ScanRollout /\ offset' = Complete)
  /\ \A b \in Batches : SF_intakeVars(open /\ Post(b))

FairIntakeSpec == IntakeSpec /\ IntakeFairness
-----------------------------------------------------------------------------
(* Properties *)

IntakeTypeOK ==
  /\ StoreTypeOK
  /\ fired \subseteq Entries /\ spool \subseteq fired
  /\ missed \subseteq fired
  /\ export \in [Batches -> {"new", "failed", "waiting", "done", "dropped"}]
  /\ channel \in Seq(Payloads) /\ Len(channel) <= Capacity
  /\ length \in 0..(2 * NumLines) /\ offset \in 0..length /\ saved \in 0..length
  /\ chunk \in {"none", "queued", "taken", "acked"}
  /\ place \in 0..NumChunks /\ progress \in 0..NumChunks
  /\ stage \in {"select", "spool", "rollout", "exit", "ended"}
  /\ stopping \in BOOLEAN
  /\ listing \subseteq fired
  /\ unit \in Units \cup {None}
  /\ todo \subseteq Ids
  /\ label \in Labels
  /\ stops \in 0..MaxStops /\ relabels \in 0..MaxRelabels

Recorded(x) == \A i \in Parts[x] : local[i] # None

(* Whatever a source was told to let go is in the ledger: a spool entry    *)
(* that was removed, a request that was answered 200, a line before the    *)
(* saved cursor, a chunk before the saved progress. It holds in every      *)
(* state, so that the process may die in any of them.                      *)
ReleasedIsRecorded ==
  /\ \A x \in fired \ (spool \cup missed) : Recorded(Entry(x))
  /\ \A b \in Batches : export[b] = "done" => Recorded(Batch(b))
  /\ \A n \in 1..NumLines : 2 * n <= saved => Recorded(Line(n))
  /\ \A n \in 1..progress : Recorded(Chunk(n))

(* What it rests on: of everything the loop is working on, what is not in  *)
(* the ledger is still to be committed; what is still to be committed      *)
(* comes from the unit; and the item is one its source still holds.        *)
UnitInStep ==
  /\ unit = None => todo = {}
  /\ unit # None =>
       /\ todo \subseteq Identities(unit.items)
       /\ \A x \in unit.items : \A i \in Parts[x] : local[i] # None \/ i \in todo
       /\ unit.kind = "entry" =>
            \E x \in spool \ (missed \cup listing) : unit.items = {Entry(x)}
       /\ unit.kind = "batch" => \E b \in Batches : export[b] # "new" /\ unit.items = {Batch(b)}
       /\ unit.kind = "rollout" =>
            \A x \in unit.items : \E n \in 1..NumLines : x = Line(n) /\ 2 * n <= offset
       /\ unit.kind = "chunk" => chunk = "taken" /\ unit.items = {Chunk(place + 1)}
  /\ listing \subseteq spool
  /\ spool \cap missed = {}
  /\ \A n \in 1..Len(channel) : export[channel[n].batch] # "new"

(* And a cursor in memory is ahead of the saved one only over items that   *)
(* are recorded or being committed; it never stops inside a line.          *)
CursorsInStep ==
  /\ saved <= offset /\ saved % 2 = 0 /\ offset % 2 = 0
  /\ \A n \in 1..NumLines : 2 * n <= offset =>
       Recorded(Line(n)) \/ (unit # None /\ unit.kind = "rollout" /\ Line(n) \in unit.items)
  /\ progress <= place
  /\ \A n \in 1..place : Recorded(Chunk(n))
  /\ chunk # "none" => place < NumChunks
  /\ chunk = "acked" => Recorded(Chunk(place + 1))

IntakeInv == IntakeTypeOK /\ UnitInStep /\ CursorsInStep /\ ReleasedIsRecorded

(* The agent never stops itself over an event it has met before: a spool   *)
(* entry read again after a crash, or Codex usage reported by OTLP and by  *)
(* the session file, may be enriched differently each time.                *)
NeverConflicts == unit # None => \A i \in todo : ~Conflicting(i)

(* Every source is drained: again and again there is nothing left of what  *)
(* a hook published, of the complete lines, the old transcript and the     *)
(* batches whose exporter does not give up that is not recorded, and no    *)
(* malformed entry is left in the spool.                                   *)
SourcesDrained ==
  []<>(/\ \A x \in fired \ missed : IF x \in Malformed THEN x \notin spool
                                    ELSE Recorded(Entry(x))
       /\ \A b \in Batches : export[b] # "new" => Recorded(Batch(b)) \/ export[b] = "dropped"
       /\ \A n \in 1..NumLines : length >= 2 * n => Recorded(Line(n))
       /\ \A n \in 1..NumChunks : Recorded(Chunk(n)))

(* Restarts lose no observation: every complete line is recorded in the    *)
(* end, whenever the process died and whatever has changed since.          *)
RestartLosesNothing ==
  \A n \in 1..NumLines : length >= 2 * n ~> Recorded(Line(n))

(* The loop and its sources keep the promise of Delivery, whose state they *)
(* hold in pieces: what each source still has to hand over, and what it    *)
(* let go.                                                                 *)
RecordedIds == {i \in Ids : local[i] # None}

HeldItems ==
  {Entry(x) : x \in spool}
  \cup {Batch(b) : b \in {c \in Batches : export[c] \in {"failed", "waiting"}}}
  \cup {Line(n) : n \in {m \in 1..NumLines : 2 * m <= length /\ 2 * m > saved}}
  \cup {Chunk(n) : n \in (progress + 1)..NumChunks}

ReleasedItems ==
  {Entry(x) : x \in fired \ (spool \cup missed)}
  \cup {Batch(b) : b \in {c \in Batches : export[c] = "done"}}
  \cup {Line(n) : n \in {m \in 1..NumLines : 2 * m <= saved}}
  \cup {Chunk(n) : n \in 1..progress}

LostItems == {Batch(b) : b \in {c \in Batches : export[c] = "dropped"}}

D == INSTANCE Delivery WITH
  ledger <- RecordedIds,
  held <- HeldItems,
  released <- ReleasedItems,
  lost <- LostItems,
  Old <- {Chunk(n) : n \in 1..NumChunks},
  MayLose <- {Batch(b) : b \in Batches}

DeliveryKept == D!DeliverySpec
============================================================================

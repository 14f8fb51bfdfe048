------------------------------- MODULE S3Sink -------------------------------
(***************************************************************************)
(* The one-way export to a bucket of the user's (crates/sink/src/s3.rs)    *)
(* and the agent's part of it (crates/cli/src/agent.rs: persist_event, the *)
(* tick, reload, shutdown; sink_cmd.rs: the configuration).                *)
(*                                                                         *)
(* Rows are buffered in memory, written to the staging directory of their  *)
(* destination as one file per day, and uploaded from there by a command   *)
(* of the user's; the directory is the retry queue.  The agent's thread    *)
(* does all of it, so that only configuration changes and the death of the *)
(* process come in between.  Whoever writes a bucket names its objects     *)
(* after the staged file, so that a second upload replaces the first.      *)
(***************************************************************************)
EXTENDS Naturals, FiniteSets

CONSTANTS
  Rows,       \* events handed to the sink, each time they are handed over
  Day,        \* the partition each belongs to: its dt
  Dests,      \* destinations: bucket and prefix, endpoint, host
  None,
  Cap,        \* rows the staging directory may hold: 64 MB
  Stubborn,   \* days whose file never gets through
  MaxSwitches,\* bound on configuration changes
  MaxStops    \* bound on crashes and SIGTERMs

ASSUME S3Assumption ==
  /\ Day \in [Rows -> Nat]
  /\ None \notin Dests /\ None \notin Rows
  /\ Cap \in Nat
  /\ Stubborn \subseteq Nat
  /\ MaxSwitches \in Nat /\ MaxStops \in Nat

VARIABLES
  config,     \* the saved destination, None for none
  reload,     \* a reload byte is waiting on the control socket
  open,       \* the agent runs
  sink,       \* the destination of its sink
  committed,  \* a row persist_event has committed and not pushed yet
  buffer,     \* rows in memory
  groups,     \* rows taken from the buffer to be staged
  staged,     \* the staging directory of each destination
  made,       \* files written so far: their age
  stage,      \* "idle", "staging" or "uploading"
  task,       \* what for: "flush", "reload" or "exit"
  todo,       \* files this flush has listed and not tried yet
  bucket,     \* objects of each destination
  recorded,   \* history variable: rows recorded while a destination was in use
  dropped,    \* history variable: rows given up
  switches, stops

diskVars  == <<staged, made, bucket>>
agentVars == <<open, sink, committed, buffer, groups, stage, task, todo>>
s3Vars    == <<config, reload, agentVars, diskVars, recorded, dropped, switches, stops>>

Files == [born : Nat, rows : (SUBSET Rows) \ {{}}]

RowsOf(files) == UNION {f.rows : f \in files}

S3Init ==
  /\ config = None /\ reload = FALSE
  /\ open = FALSE /\ sink = None /\ committed = None
  /\ buffer = {} /\ groups = {}
  /\ staged = [d \in Dests |-> {}] /\ made = 0
  /\ stage = "idle" /\ task = "flush" /\ todo = {}
  /\ bucket = [d \in Dests |-> {}]
  /\ recorded = [d \in Dests |-> {}] /\ dropped = [d \in Dests |-> {}]
  /\ switches = 0 /\ stops = 0

-----------------------------------------------------------------------------

(* build_s3_sink, at the start: what an earlier process staged for the     *)
(* same destination is there.                                              *)
Start ==
  /\ ~open
  /\ open' = TRUE
  /\ sink' = config
  /\ reload' = FALSE
  /\ UNCHANGED <<config, committed, buffer, groups, stage, task, todo, diskVars, recorded,
                 dropped, switches, stops>>

InMemory == (buffer \cup groups \cup {committed}) \ {None}

GiveUp(rows) ==
  dropped' = IF sink = None THEN dropped ELSE [dropped EXCEPT ![sink] = @ \cup rows]

(* What the process held in memory is not exported: restarted, it hands    *)
(* over what it reads again, and that is new rows.                         *)
Ends ==
  /\ open' = FALSE /\ sink' = None /\ committed' = None
  /\ buffer' = {} /\ groups' = {}
  /\ stage' = "idle" /\ task' = "flush" /\ todo' = {}
  /\ reload' = FALSE
  /\ GiveUp(InMemory)

Crash ==
  /\ open
  /\ stops < MaxStops
  /\ stops' = stops + 1
  /\ Ends
  /\ UNCHANGED <<config, diskVars, recorded, switches>>

Idle == open /\ stage = "idle" /\ committed = None

(* persist_event: the row is committed to the local database, *)
Commit(r) ==
  /\ Idle /\ sink # None
  /\ \A d \in Dests : r \notin recorded[d]
  /\ committed' = r
  /\ recorded' = [recorded EXCEPT ![sink] = @ \cup {r}]
  /\ UNCHANGED <<config, reload, open, sink, buffer, groups, stage, task, todo, diskVars, dropped,
                 switches, stops>>

(* and then pushed.                                                        *)
Push ==
  /\ open /\ committed # None
  /\ buffer' = buffer \cup {committed}
  /\ committed' = None
  /\ UNCHANGED <<config, reload, open, sink, groups, stage, task, todo, diskVars, recorded, dropped,
                 switches, stops>>

(* suspend begins: the buffer is taken as a whole. *)
Suspend(for) ==
  /\ stage' = "staging" /\ task' = for
  /\ groups' = buffer /\ buffer' = {}
  /\ UNCHANGED <<open, sink, committed, todo, diskVars, recorded, dropped, config, switches>>

(* Mutant of FlushDue: an empty buffer has nothing to flush. *)
FlushDueForRows == buffer # {}

(* maybe_flush: enough rows, old ones, or files an earlier flush left.     *)
FlushDue == buffer # {} \/ staged[sink] # {}

Flush ==
  /\ Idle /\ sink # None
  /\ FlushDue
  /\ Suspend("flush")
  /\ UNCHANGED <<reload, stops>>

(* SIGTERM: after the last drain everything is flushed once more. *)
Sigterm ==
  /\ Idle /\ sink # None
  /\ stops < MaxStops
  /\ stops' = stops + 1
  /\ Suspend("exit")
  /\ UNCHANGED reload

(* reload_s3_sink: the old destination's buffer is staged, not uploaded.   *)
Reload ==
  /\ Idle /\ reload
  /\ reload' = FALSE
  /\ IF sink = None
       THEN /\ sink' = config
            /\ UNCHANGED <<config, open, committed, buffer, groups, stage, task, todo, diskVars,
                           recorded, dropped, switches>>
       ELSE Suspend("reload")
  /\ UNCHANGED stops

(* The new sink knows nothing of the old one's rows in memory. *)
Rebuild(rows) ==
  /\ sink' = config
  /\ buffer' = {} /\ groups' = {}
  /\ stage' = "idle" /\ task' = "flush" /\ todo' = {}
  /\ GiveUp(rows)
  /\ UNCHANGED <<config, reload, open, committed, recorded, switches, stops>>

(* The partitions are written in the order of their days, *)
FirstGroup == {r \in groups : \A s \in groups : Day[r] <= Day[s]}

StageGroup ==
  /\ stage = "staging" /\ groups # {}
  /\ LET f == [born |-> made + 1, rows |-> FirstGroup]
     IN staged' = [staged EXCEPT ![sink] = @ \cup {f}]
  /\ made' = made + 1
  /\ groups' = groups \ FirstGroup
  /\ UNCHANGED <<config, reload, open, sink, committed, buffer, stage, task, todo, bucket, recorded,
                 dropped, switches, stops>>

Over ==
  /\ stage' = "idle" /\ task' = "flush" /\ todo' = {}
  /\ UNCHANGED <<config, reload, open, sink, committed, recorded, dropped, switches, stops>>

(* Mutant of StageFails: the partition that could not be written returns   *)
(* to the buffer, those after it do not.                                   *)
StageFailsKeepsFirst ==
  /\ stage = "staging" /\ groups # {}
  /\ UNCHANGED diskVars
  /\ \/ task = "flush" /\ buffer' = buffer \cup FirstGroup /\ groups' = {} /\ Over
     \/ task = "reload" /\ Rebuild(InMemory)
     \/ task = "exit" /\ Ends /\ UNCHANGED <<config, recorded, switches, stops>>

(* or one cannot be written: it and those after it return to the buffer,   *)
(* and the flush ends without an upload.                                   *)
StageFails ==
  /\ stage = "staging" /\ groups # {}
  /\ UNCHANGED diskVars
  /\ \/ task = "flush" /\ buffer' = buffer \cup groups /\ groups' = {} /\ Over
     \/ task = "reload" /\ Rebuild(InMemory)
     \/ task = "exit" /\ Ends /\ UNCHANGED <<config, recorded, switches, stops>>

(* paths_to_trim: a file goes when it and the newer ones exceed the cap. *)
Excess(files) ==
  {f \in files : Cardinality(RowsOf({g \in files : g.born >= f.born})) > Cap}

(* Mutant of Listed: the staging directories are not kept apart. *)
ListedAll == UNION {staged'[d] : d \in Dests}

Listed == staged'[sink]

(* enforce_staging_cap, then the next part of the task. An error of a      *)
(* removal is ignored.                                                     *)
Staged ==
  /\ stage = "staging" /\ groups = {}
  /\ \E F \in SUBSET Excess(staged[sink]) :
       /\ staged' = [staged EXCEPT ![sink] = @ \ F]
       /\ IF task = "reload"
            THEN Rebuild(RowsOf(F))
            ELSE /\ GiveUp(RowsOf(F))
                 /\ stage' = "uploading"
                 /\ todo' = Listed
                 /\ UNCHANGED <<config, reload, open, sink, committed, buffer, groups, task,
                                recorded, switches, stops>>
  /\ UNCHANGED <<made, bucket>>

IsNext(f) == f \in todo /\ \A g \in todo : f.born <= g.born

(* One file, oldest first, tried three times. Stored, it is removed; an    *)
(* error of the removal is ignored, and it is stored again.                *)
Upload(f) ==
  /\ stage = "uploading" /\ IsNext(f)
  /\ bucket' = [bucket EXCEPT ![sink] = @ \cup {f}]
  /\ \/ staged' = [staged EXCEPT ![sink] = @ \ {f}]
     \/ UNCHANGED staged
  /\ todo' = todo \ {f}
  /\ UNCHANGED <<config, reload, open, sink, committed, buffer, groups, made, stage, task, recorded,
                 dropped, switches, stops>>

(* A failure, or a timeout after which the object may be there: the next   *)
(* file is tried all the same.                                             *)
UploadFails(f) ==
  /\ stage = "uploading" /\ IsNext(f)
  /\ \/ bucket' = [bucket EXCEPT ![sink] = @ \cup {f}]
     \/ UNCHANGED bucket
  /\ todo' = todo \ {f}
  /\ UNCHANGED <<config, reload, open, sink, committed, buffer, groups, staged, made, stage, task,
                 recorded, dropped, switches, stops>>

Flushed ==
  /\ stage = "uploading" /\ todo = {}
  /\ UNCHANGED diskVars
  /\ \/ task = "flush" /\ Over /\ UNCHANGED <<buffer, groups>>
     \/ task = "exit" /\ Ends /\ UNCHANGED <<config, recorded, switches, stops>>

(* add_s3, remove_s3: saved, then the agent is told, if it listens. *)
Configure(c) ==
  /\ switches < MaxSwitches
  /\ switches' = switches + 1
  /\ config' = c
  /\ reload' \in IF open THEN {TRUE, reload} ELSE {reload}
  /\ UNCHANGED <<agentVars, diskVars, recorded, dropped, stops>>

-----------------------------------------------------------------------------

TaskNext ==
  \/ Push
  \/ StageGroup \/ StageFails \/ Staged
  \/ (\E f \in todo : Upload(f) \/ UploadFails(f))
  \/ Flushed

S3Next ==
  \/ Start \/ Crash \/ Sigterm
  \/ \E r \in Rows : Commit(r)
  \/ Flush \/ Reload \/ TaskNext
  \/ \E c \in Dests \cup {None} : Configure(c)

S3Spec == S3Init /\ [][S3Next]_s3Vars

(* The loop ticks for ever and is started again; the disk takes a file at  *)
(* times, and so does the bucket, the stubborn ones excepted.              *)
UploadOf(r) == \E f \in todo : r \in f.rows /\ Upload(f) /\ staged' # staged

S3Fairness ==
  /\ WF_s3Vars(Start)
  /\ SF_s3Vars(Flush)
  /\ SF_s3Vars(Reload)
  /\ WF_s3Vars(TaskNext)
  /\ SF_s3Vars(StageGroup)
  /\ \A r \in Rows : Day[r] \notin Stubborn => SF_s3Vars(UploadOf(r))

FairS3Spec == S3Spec /\ S3Fairness
-----------------------------------------------------------------------------
(* Properties *)

S3TypeOK ==
  /\ config \in Dests \cup {None} /\ sink \in Dests \cup {None}
  /\ reload \in BOOLEAN /\ open \in BOOLEAN
  /\ committed \in Rows \cup {None}
  /\ buffer \subseteq Rows /\ groups \subseteq Rows
  /\ staged \in [Dests -> SUBSET Files] /\ bucket \in [Dests -> SUBSET Files]
  /\ made \in Nat
  /\ stage \in {"idle", "staging", "uploading"} /\ task \in {"flush", "reload", "exit"}
  /\ todo \subseteq Files
  /\ recorded \in [Dests -> SUBSET Rows] /\ dropped \in [Dests -> SUBSET Rows]
  /\ switches \in 0..MaxSwitches /\ stops \in 0..MaxStops

Filed(d) == staged[d] \cup bucket[d]

Held(d) == IF sink = d THEN InMemory ELSE {}

(* Every row recorded for a destination is in one place: in memory, in one *)
(* file, staged or stored under its name, or it was given up by a crash,   *)
(* the cap or a reload that could not stage it. A partition that cannot be *)
(* written, an upload that fails or only seems to, and a change of         *)
(* destination neither lose a row nor export it twice.                     *)
ExportAccounted ==
  \A d \in Dests :
    /\ recorded[d] = Held(d) \cup RowsOf(Filed(d)) \cup dropped[d]
    /\ Held(d) \cap RowsOf(Filed(d)) = {}
    /\ \A f, g \in Filed(d) : f # g => f.rows \cap g.rows = {}

(* No bucket receives a row recorded for another one. *)
OwnBucketOnly ==
  \A d, e \in Dests : d # e => RowsOf(bucket[e]) \cap recorded[d] = {}

(* What they rest on. *)
S3InStep ==
  /\ sink = None => InMemory = {} /\ stage = "idle"
  /\ ~open => sink = None
  /\ stage # "idle" => committed = None
  /\ stage # "idle" => buffer = {}
  /\ stage # "staging" => groups = {}
  /\ stage # "uploading" => todo = {}
  /\ sink # None => todo \subseteq staged[sink]
  /\ stage = "uploading" => task # "reload"
  /\ \A d, e \in Dests : d # e => recorded[d] \cap recorded[e] = {}

S3Inv == S3TypeOK /\ S3InStep /\ ExportAccounted

(* As long as the destination stays, every row recorded for it reaches it  *)
(* or is given up, though a file before it never gets through and nothing  *)
(* is recorded any more.                                                   *)
StagingDrains ==
  \A d \in Dests : \A r \in {s \in Rows : Day[s] \notin Stubborn} :
    <>[](sink = d) => [](r \in recorded[d] => <>(r \in RowsOf(bucket[d]) \cup dropped[d]))
============================================================================

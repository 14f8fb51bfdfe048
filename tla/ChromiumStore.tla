----------------------------- MODULE ChromiumStore -----------------------------
(***************************************************************************)
(* Reading the LevelDB of another program while that program writes to it  *)
(* (crates/cli/src/chromium_store.rs). Chromium appends to a log, turns a   *)
(* full log into a table, merges tables, says which files count by          *)
(* appending to a manifest that CURRENT names, and removes the others. The  *)
(* reader takes no lock. It reads the manifest, lists the logs, reads every *)
(* file, does the first two again and gives up if anything differs.         *)
(*                                                                         *)
(* Chromium's side is external: it follows the LevelDB format the reader's  *)
(* comments refer to. A record is [key, seq, value], with None for a        *)
(* deletion. File numbers are never used twice.                            *)
(***************************************************************************)
EXTENDS Integers, FiniteSets, FiniteSetsExt, Sequences, SequencesExt

CONSTANTS None, Keys, Values,
          MaxSeq,     \* records written
          MaxFile     \* files made

VARIABLES content,    \* file number -> its records, for the files that exist
          logs,       \* which of them are logs
          manifests,  \* manifest number -> what it says: the first log that counts and the tables
          current,    \* the manifest CURRENT names
          written,    \* sequence number of the last record
          held,       \* what the database holds: key -> value
          reader,     \* phase, and what it has seen
          truths,     \* what the database held at each moment since the reading began
          result      \* what a reading returned, None before

storeFiles == <<content, logs, manifests, current, written, held>>
chromiumVars == <<storeFiles, reader, truths, result>>

Idle == [phase |-> "idle", first |-> None, listed |-> None, named |-> None, seen |-> {}]

(* latest: of each key the newest record, without the deleted ones.          *)
Latest(records) ==
  {r \in records : r.value # None /\ \A s \in records : s.key = r.key => s.seq <= r.seq}

(* The files that count: the tables, and the logs from the named one on.      *)
Counts(m, files, log) == m.tables \cup {f \in log \cap files : f >= m.log}

ChromiumInit ==
  /\ content = [f \in {1} |-> {}] /\ logs = {1}
  /\ manifests = [m \in {0} |-> [log |-> 1, tables |-> {}]] /\ current = 0
  /\ written = 0 /\ held = [k \in Keys |-> None]
  /\ reader = Idle /\ truths = {} /\ result = None
------------------------------------------------------------------------------
(***************************************************************************)
(* Chromium.                                                               *)
(***************************************************************************)
Newest == Max(DOMAIN content \cup DOMAIN manifests)
CurrentLog == Max(logs)

Put(k, v) ==
  /\ written < MaxSeq
  /\ written' = written + 1
  /\ content' = [content EXCEPT ![CurrentLog] = @ \cup {[key |-> k, seq |-> written + 1, value |-> v]}]
  /\ held' = [held EXCEPT ![k] = v]
  /\ truths' = IF reader.phase = "idle" THEN truths ELSE truths \cup {held'}
  /\ UNCHANGED <<logs, manifests, current, reader, result>>

(* A new log, which the manifest does not name yet.                          *)
SwitchLog ==
  /\ Newest < MaxFile /\ logs = {CurrentLog} /\ content[CurrentLog] # {}
  /\ content' = [f \in DOMAIN content \cup {Newest + 1} |-> IF f \in DOMAIN content THEN content[f] ELSE {}]
  /\ logs' = logs \cup {Newest + 1}
  /\ UNCHANGED <<manifests, current, written, held, reader, truths, result>>

(* The full log becomes a table, and the manifest says so.                   *)
FlushLog ==
  /\ Newest < MaxFile /\ logs # {CurrentLog} /\ manifests[current].log # CurrentLog
  /\ content' = [f \in DOMAIN content \cup {Newest + 1} |->
                   IF f \in DOMAIN content THEN content[f] ELSE content[Min(logs)]]
  /\ manifests' = [manifests EXCEPT ![current] =
                     [log |-> CurrentLog, tables |-> manifests[current].tables \cup {Newest + 1}]]
  /\ UNCHANGED <<logs, current, written, held, reader, truths, result>>

(* All tables are merged, and deletions with what they delete are dropped.   *)
MergeTables ==
  LET old == manifests[current].tables
  IN  /\ Newest < MaxFile /\ old # {}
      /\ content' = [f \in DOMAIN content \cup {Newest + 1} |->
                       IF f \in DOMAIN content THEN content[f] ELSE Latest(UNION {content[t] : t \in old})]
      /\ manifests' = [manifests EXCEPT ![current].tables = {Newest + 1}]
      /\ UNCHANGED <<logs, current, written, held, reader, truths, result>>

(* A new manifest repeats what the old one says.                             *)
SwitchManifest ==
  /\ Newest < MaxFile
  /\ manifests' = [m \in {current, Newest + 1} |-> manifests[current]]
  /\ current' = Newest + 1
  /\ UNCHANGED <<content, logs, written, held, reader, truths, result>>

RemoveObsolete ==
  LET live == Counts(manifests[current], DOMAIN content, logs)
  IN  /\ live # DOMAIN content
      /\ \E f \in DOMAIN content \ live :
           /\ content' = [g \in DOMAIN content \ {f} |-> content[g]]
           /\ logs' = logs \ {f}
      /\ UNCHANGED <<manifests, current, written, held, reader, truths, result>>
------------------------------------------------------------------------------
(***************************************************************************)
(* read_live: the steps of the reader between which Chromium may act.       *)
(***************************************************************************)
Give(r) == reader' = r /\ UNCHANGED <<storeFiles, truths, result>>

BeginReading ==
  /\ reader.phase = "idle"
  /\ reader' = [Idle EXCEPT !.phase = "named", !.named = [number |-> current, says |-> manifests[current]]]
  /\ truths' = {held} /\ result' = None
  /\ UNCHANGED storeFiles

(* live_files: the logs are listed after the manifest was read, and CURRENT  *)
(* has to name the same manifest still.                                     *)
Listed == Counts(reader.named.says, DOMAIN content, logs)
SameManifest == reader.named.number = current

ListFiles ==
  /\ reader.phase = "named"
  /\ IF SameManifest
       THEN Give([reader EXCEPT !.phase = "listed", !.first = Listed, !.listed = Listed])
       ELSE Give(Idle)

(* In the order of their names; a file that is gone fails the reading.       *)
ReadFile ==
  /\ reader.phase = "listed" /\ reader.listed # {}
  /\ LET f == Min(reader.listed)
     IN  IF f \in DOMAIN content
           THEN Give([reader EXCEPT !.listed = @ \ {f}, !.seen = @ \cup content[f]])
           ELSE Give(Idle)

NameAgain ==
  /\ reader.phase = "listed" /\ reader.listed = {}
  /\ Give([reader EXCEPT !.phase = "named again",
                         !.named = [number |-> current, says |-> manifests[current]]])

(* Mutant of EndReading: the files are not listed again. *)
EndReadingUnsure ==
  /\ reader.phase = "named again"
  /\ result' = Latest(reader.seen)
  /\ reader' = Idle
  /\ UNCHANGED <<storeFiles, truths>>

EndReading ==
  /\ reader.phase = "named again"
  /\ result' = IF SameManifest /\ Listed = reader.first THEN Latest(reader.seen) ELSE None
  /\ reader' = Idle
  /\ UNCHANGED <<storeFiles, truths>>

(* Nothing is kept from one reading to the next: one is looked at.           *)
ReadOnce == reader.phase = "idle" /\ truths # {}

ChromiumNext ==
  \/ /\ ~ReadOnce
     /\ \/ \E k \in Keys, v \in Values \cup {None} : Put(k, v)
        \/ SwitchLog \/ FlushLog \/ MergeTables \/ SwitchManifest \/ RemoveObsolete
        \/ BeginReading
  \/ ListFiles \/ ReadFile \/ NameAgain \/ EndReading

ChromiumSpec == ChromiumInit /\ [][ChromiumNext]_chromiumVars
------------------------------------------------------------------------------
(* A reading that is not given up returns what the database held at one      *)
(* moment while it was read: nothing deleted comes back, nothing is missed   *)
(* because it moved from a log to a table or from a table to another.        *)
SnapshotWasTrue ==
  result # None =>
    \E moment \in truths :
      {<<r.key, r.value>> : r \in result} = {<<k, moment[k]>> : k \in {x \in Keys : moment[x] # None}}
==============================================================================

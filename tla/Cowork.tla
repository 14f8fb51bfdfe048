-------------------------------- MODULE Cowork --------------------------------
(***************************************************************************)
(* The tailer of the transcripts a Cowork VM writes                        *)
(* (crates/cli/src/cowork_tailer.rs and drain_cowork of agent.rs).         *)
(*                                                                         *)
(* Positions and contexts are held in memory only. After a restart every    *)
(* transcript is read again from its beginning, which rebuilds the context,  *)
(* and an event is handed on only where its identity is neither in the      *)
(* database, read once at the first scan, nor handed on since.             *)
(*                                                                         *)
(* A file is a sequence of units: a finished line; "part", the beginning of  *)
(* a line still being written; and of a line longer than MAX_LINE its       *)
(* pieces: "big" (the first MAX_LINE bytes), "more" (what follows, its end   *)
(* not written yet) and "bigend" (the rest with the newline). What a piece   *)
(* tells is never read, so that it tells nothing here. The VM replaces its   *)
(* files, truncates them and removes them.                                 *)
(***************************************************************************)
EXTENDS Transcript

CONSTANTS VmFiles,     \* paths, numbered in the order they are sorted
          Scripts,     \* the units the VM writes to each, except "part"
          ScanUnits,   \* units one scan reads of a file (SCAN_BYTES)
          MaxReplaced, \* replacements and truncations
          MaxStopped   \* crashes of the agent

(* A unit that is no finished line. A line has a kind of its own.            *)
Piece(kind) ==
  [kind |-> kind, session |-> None, at |-> None, side |-> FALSE, agent |-> None,
   prompt |-> None, uuid |-> None, request |-> None, usage |-> FALSE, tools |-> <<>>]
IsLine(u) == u.kind \notin {"part", "big", "more", "bigend"}

VARIABLES disk,      \* the files: inode, script, units, and whether
                     \* they began anew since the tailer looked
          inodes, stopped, \* counters that bound the faults
          tailed,    \* path -> state of CoworkTailer.files
          seen,      \* identities known, None before the first scan
          todo,      \* paths the scan under way has not reached
          handed,    \* events the scan has made, not persisted yet
          recorded   \* the events of this client in the database

coworkVars == <<disk, inodes, stopped, tailed, seen, todo, handed, recorded>>

Absent == [inode |-> 0, script |-> 0, units |-> <<>>, anew |-> FALSE]
Untailed == [inode |-> 0, offset |-> 0, context |-> NewNormalizer, discarding |-> FALSE]
Identity(e) == <<e.type, e.key>>
Identities(S) == {Identity(e) : e \in S}

CoworkInit ==
  /\ disk = [p \in VmFiles |-> Absent] /\ inodes = 0 /\ stopped = 0
  /\ tailed = [p \in {} |-> Untailed] /\ seen = None /\ todo = None
  /\ handed = <<>> /\ recorded = {}
------------------------------------------------------------------------------
(***************************************************************************)
(* scan_and_drain                                                          *)
(***************************************************************************)
Present == {p \in VmFiles : disk[p].inode # 0}

(* The identities are asked for once; the paths are those of this moment, and *)
(* what was known of others is forgotten.                                   *)
ScanStarts ==
  /\ todo = None /\ handed = <<>>
  /\ seen' = IF seen = None THEN Identities(recorded) ELSE seen
  /\ todo' = Present
  /\ tailed' = [p \in DOMAIN tailed \cap Present |-> tailed[p]]
  /\ UNCHANGED <<disk, inodes, stopped, handed, recorded>>

(* Mutant of StateOf: only a shorter file is begun anew. *)
StateOfLonger(p) ==
  IF p \in DOMAIN tailed /\ Len(disk[p].units) >= tailed[p].offset THEN tailed[p]
  ELSE [Untailed EXCEPT !.inode = disk[p].inode]

(* The state a file is read with: what is known of it, unless it is shorter   *)
(* or another file.                                                         *)
StateOf(p) ==
  LET fresh == [Untailed EXCEPT !.inode = disk[p].inode]
      known == tailed[p]
  IN  IF p \notin DOMAIN tailed THEN fresh
      ELSE IF Len(disk[p].units) < known.offset \/ known.inode # disk[p].inode THEN fresh
      ELSE known

(* One turn of the loop: the unfinished line is left for the next scan, a line *)
(* that is too long is passed over in pieces.                               *)
ReadUnit(read, u) ==
  LET st   == read.state
      told == Line(st.context, u)
  IN  IF read.over \/ (u.kind = "part" /\ ~st.discarding) THEN [read EXCEPT !.over = TRUE]
      ELSE IF ~IsLine(u) \/ st.discarding
        THEN [read EXCEPT !.state = [st EXCEPT !.offset = @ + 1, !.discarding = u.kind # "bigend"]]
      ELSE [read EXCEPT !.state = [st EXCEPT !.offset = @ + 1, !.context = told.ctx],
                        !.said = @ \o told.out]

ReadUnits(st, units) ==
  LET read[n \in 0..Len(units)] ==
        IF n = 0 THEN [state |-> st, said |-> <<>>, over |-> FALSE] ELSE ReadUnit(read[n - 1], units[n])
  IN  read[Len(units)]

ReadFile(p, units) ==
  LET st == StateOf(p)
      to == IF st.offset + units < Len(disk[p].units) THEN st.offset + units ELSE Len(disk[p].units)
  IN  ReadUnits(st, SubSeq(disk[p].units, st.offset + 1, to))

(* seen.insert: of the events of one identity only the first is handed on.    *)
New(said) ==
  LET met(n) == seen \cup {Identity(said[m]) : m \in 1..(n - 1)}
  IN  FlattenSeq([n \in DOMAIN said |-> IF Identity(said[n]) \in met(n) THEN <<>> ELSE <<said[n]>>])

(* The next path of the scan in their order, up to ScanUnits units of it or   *)
(* fewer where a read fails.                                                *)
ScanFile ==
  /\ todo \notin {None, {}}
  /\ LET p == Min(todo)
     IN  /\ IF disk[p].inode = 0
              THEN UNCHANGED <<tailed, seen, handed, disk>>
              ELSE \E units \in {0, ScanUnits} :
                     LET read == ReadFile(p, units)
                     IN  /\ tailed' = [q \in DOMAIN tailed \cup {p} |->
                                          IF q = p THEN read.state ELSE tailed[q]]
                         /\ seen' = seen \cup Identities(ToSet(read.said))
                         /\ handed' = handed \o New(read.said)
                         /\ disk' = [disk EXCEPT ![p].anew = FALSE]
         /\ todo' = todo \ {p}
  /\ UNCHANGED <<inodes, stopped, recorded>>

(* drain_cowork: the events are persisted one after the other.               *)
ScanEnds ==
  /\ todo = {} /\ handed = <<>>
  /\ todo' = None
  /\ UNCHANGED <<disk, inodes, stopped, tailed, seen, handed, recorded>>

Persist ==
  /\ todo = {} /\ handed # <<>>
  /\ recorded' = recorded \cup {handed[1]} /\ handed' = Tail(handed)
  /\ UNCHANGED <<disk, inodes, stopped, tailed, seen, todo>>

(* A crash, or an error of the database, which ends the agent.                *)
Stop ==
  /\ stopped < MaxStopped /\ seen # None
  /\ stopped' = stopped + 1
  /\ tailed' = [p \in {} |-> Untailed] /\ seen' = None /\ todo' = None /\ handed' = <<>>
  /\ UNCHANGED <<disk, inodes, recorded>>
------------------------------------------------------------------------------
(***************************************************************************)
(* The VM.                                                                 *)
(***************************************************************************)
Unfinished(units) == units # <<>> /\ Last(units).kind = "part"
Finished(units)   == IF Unfinished(units) THEN Front(units) ELSE units

(* The next unit of its script, or the beginning of it where that is a line.  *)
VmWrites(p) ==
  LET units == disk[p].units
      done  == Finished(units)
      next  == Scripts[disk[p].script][Len(done) + 1]
  IN  /\ disk[p].inode # 0 /\ ~disk[p].anew /\ Len(done) < Len(Scripts[disk[p].script])
      /\ \E u \in {next, Piece("part")} :
           /\ u.kind = "part" => IsLine(next) /\ ~Unfinished(units)
           /\ disk' = [disk EXCEPT ![p].units = Append(done, u)]
      /\ UNCHANGED <<inodes, stopped, tailed, seen, todo, handed, recorded>>

(* A file appears, or another is renamed over it, with any part of any script; *)
(* a scan comes by before it grows further.                                 *)
VmReplaces(p) ==
  /\ inodes <= MaxReplaced
  /\ inodes' = inodes + 1
  /\ \E s \in VmFiles : \E n \in 0..Len(Scripts[s]) :
       disk' = [disk EXCEPT ![p] = [inode |-> inodes + 1, script |-> s,
                                    units |-> SubSeq(Scripts[s], 1, n), anew |-> TRUE]]
  /\ UNCHANGED <<stopped, tailed, seen, todo, handed, recorded>>

(* Truncated in place and begun again; as above, a scan comes by before it has *)
(* grown to where the tailer was.                                           *)
VmTruncates(p) ==
  /\ disk[p].inode # 0 /\ disk[p].units # <<>> /\ inodes <= MaxReplaced
  /\ inodes' = inodes + 1
  /\ disk' = [disk EXCEPT ![p].units = <<>>, ![p].anew = TRUE]
  /\ UNCHANGED <<stopped, tailed, seen, todo, handed, recorded>>

VmRemoves(p) ==
  /\ disk[p].inode # 0
  /\ disk' = [disk EXCEPT ![p] = Absent]
  /\ UNCHANGED <<inodes, stopped, tailed, seen, todo, handed, recorded>>

CoworkNext ==
  \/ ScanStarts \/ ScanFile \/ ScanEnds \/ Persist \/ Stop
  \/ \E p \in VmFiles : VmWrites(p) \/ VmReplaces(p) \/ VmTruncates(p) \/ VmRemoves(p)

CoworkSpec == CoworkInit /\ [][CoworkNext]_coworkVars
------------------------------------------------------------------------------
(***************************************************************************)
(* Properties.                                                             *)
(***************************************************************************)
(* What is recorded is what the transcripts say, in the context of their own  *)
(* file: nothing of a replaced file, an unfinished line or the pieces of an   *)
(* oversize one gets into it.                                               *)
CoworkIsMeant == recorded \cup ToSet(handed) \subseteq UNION {Meant(Scripts[p]) : p \in VmFiles}

(* No event is handed to the sinks a second time, whatever was read again.    *)
HandedOnce ==
  /\ Identities(ToSet(handed)) \cap Identities(recorded) = {}
  /\ \A m, n \in DOMAIN handed : Identity(handed[m]) = Identity(handed[n]) => m = n

(* Between two scans, what lies before the position in a file that is still   *)
(* the same is recorded, under its identity, line by line.                   *)
ReadIsRecorded ==
  todo = None =>
    \A p \in DOMAIN tailed :
      disk[p].inode # 0 /\ ~disk[p].anew =>
        Identities(Meant(SubSeq(disk[p].units, 1, tailed[p].offset))) \subseteq Identities(recorded)

(* A line is read exactly when it is finished: the position never lies behind *)
(* a line that was still being written, nor inside of an oversize one without *)
(* knowing it.                                                              *)
PositionIsSound ==
  \A p \in DOMAIN tailed :
    LET st == tailed[p]
        at == disk[p].units[st.offset]
    IN  disk[p].inode # 0 /\ ~disk[p].anew /\ st.offset \in DOMAIN disk[p].units
          => at.kind # "part" /\ (st.discarding <=> at.kind \in {"big", "more"})
==============================================================================

------------------------------ MODULE S3Reader ------------------------------
(* The reader of an S3 export: a snapshot of the objects under a           *)
(* connection, downloaded while the collectors go on writing to the bucket,*)
(* and published only when it is whole. Queries, refreshes and a change of *)
(* the connection come from several pages of the dashboard.                *)
EXTENDS Integers, FiniteSets

CONSTANTS
  Conns,       \* connections: a bucket, a prefix, a profile
  Keys,        \* 1..n, the objects in the order of a listing
  Requests,    \* requests under way at most
  PageSize,    \* objects in a page of the listing
  MaxObjects,  \* MAX_OBJECTS
  MaxWrites,   \* changes of the buckets
  MaxBegun,    \* requests
  MaxStarts,   \* processes
  None

VARIABLES
  bucket,   \* [Conns -> [Keys -> version of the object, 0 for none]]
  saved,    \* the connection in config.json
  reader,   \* ReaderState: config, snapshot, error
  lock,     \* who refreshes
  job,      \* [Requests -> what the request does]
  writes, begunReads, readerStarts,
  proven    \* history: connections that were downloaded whole

readerVars == <<bucket, saved, reader, lock, job, writes, begunReads, readerStarts, proven>>

NoJob == [kind |-> "none", stage |-> "none", conn |-> None, listed |-> [k \in {} |-> 0],
          upTo |-> 0, got |-> [k \in {} |-> 0], before |-> [k \in {} |-> 0],
          steady |-> {}, met |-> {}]

Nothing == [conn |-> None, objects |-> [k \in {} |-> 0], got |-> [k \in {} |-> 0],
            steady |-> {}, met |-> {}]

(* Reader::new: the saved connection, without a snapshot *)
Fresh(c) == [config |-> c, snapshot |-> Nothing, error |-> FALSE]

ReaderInit ==
  /\ bucket \in [Conns -> {[k \in Keys |-> IF k = 1 THEN 1 ELSE 0]}]
  /\ saved = None /\ reader = Fresh(None) /\ lock = None
  /\ job = [r \in Requests |-> NoJob]
  /\ writes = 0 /\ begunReads = 0 /\ readerStarts = 0
  /\ proven = {}

-----------------------------------------------------------------------------
(* The bucket *)

Objects(c) == {<<k, bucket[c][k]>> : k \in {x \in Keys : bucket[c][x] # 0}}

Reads(r) == job[r].stage \in {"listing", "downloading"}

(* Another export, an object written again, or one removed. What a refresh *)
(* under way met at some time, and what was there all along, is history.   *)
Write(c, k) ==
  /\ writes < MaxWrites /\ writes' = writes + 1
  /\ \E v \in {0, bucket[c][k] + 1} \ {bucket[c][k]} :
       /\ bucket' = [bucket EXCEPT ![c][k] = v]
       /\ job' = [r \in Requests |->
            IF Reads(r) /\ job[r].conn = c
              THEN [job[r] EXCEPT !.steady = {o \in @ : o[1] # k},
                                  !.met = IF v = 0 THEN @ ELSE @ \cup {<<k, v>>}]
              ELSE job[r]]
  /\ UNCHANGED <<saved, reader, lock, begunReads, readerStarts, proven>>

-----------------------------------------------------------------------------
(* Requests *)

Asked(r, kind, stage, c) ==
  /\ job[r].kind = "none" /\ begunReads < MaxBegun
  /\ begunReads' = begunReads + 1
  /\ job' = [job EXCEPT ![r] = [NoJob EXCEPT !.kind = kind, !.stage = stage, !.conn = c]]
  /\ UNCHANGED <<bucket, saved, reader, lock, writes, readerStarts, proven>>

Select(r, c) == Asked(r, "select", "waiting", c)
Refresh(r) == Asked(r, "refresh", "waiting", None)

(* dispatch: what is published is used as it is. *)
Query(r) == Asked(r, "query", IF reader.snapshot.conn # None THEN "answer" ELSE "waiting", None)

Ended(r) == [job EXCEPT ![r] = NoJob]

Answer(r) ==
  /\ job[r].stage = "answer"
  /\ job' = Ended(r)
  /\ UNCHANGED <<bucket, saved, reader, lock, writes, begunReads, readerStarts, proven>>

(* snapshot: the lock is asked for again by nobody who finds a snapshot or *)
(* an error behind it.                                                     *)
Satisfied(r) == job[r].kind = "query" /\ reader.snapshot.conn # None
Refused(r) == job[r].kind = "query" /\ reader.snapshot.conn = None /\ reader.error

(* update: the connection asked for, or the one there is; the snapshot of  *)
(* the same one serves what has not changed.                               *)
Target(r) == IF job[r].conn # None THEN job[r].conn ELSE reader.config

Reusable(c) ==
  IF reader.config = c /\ reader.snapshot.conn = c THEN reader.snapshot.got ELSE [k \in {} |-> 0]

Enter(r) ==
  /\ job[r].stage = "waiting" /\ lock = None
  /\ IF Satisfied(r) THEN job' = [job EXCEPT ![r].stage = "answer"] /\ UNCHANGED lock
     ELSE IF Refused(r) \/ Target(r) = None THEN job' = Ended(r) /\ UNCHANGED lock
     ELSE LET c == Target(r)
          IN /\ lock' = r
             /\ job' = [job EXCEPT ![r] = [@ EXCEPT !.stage = "listing", !.conn = c,
                          !.before = Reusable(c), !.steady = Objects(c), !.met = Objects(c)]]
  /\ UNCHANGED <<bucket, saved, reader, writes, begunReads, readerStarts, proven>>

(* An error is shown with the old snapshot; a request given up, by its     *)
(* page or a limit of time of its own, leaves nothing.                     *)
Failed(r) ==
  /\ reader' = [reader EXCEPT !.error = TRUE]
  /\ lock' = None /\ job' = Ended(r)
  /\ UNCHANGED <<bucket, saved, writes, begunReads, readerStarts, proven>>

(* download: a page of the listing, from where the last one ended *)
Page(r) ==
  /\ job[r].stage = "listing"
  /\ LET there == {k \in Keys : k > job[r].upTo /\ bucket[job[r].conn][k] # 0}
         page == {k \in there : Cardinality({x \in there : x < k}) < PageSize}
         listed == [k \in DOMAIN job[r].listed \cup page |->
                      IF k \in page THEN bucket[job[r].conn][k] ELSE job[r].listed[k]]
         last == page = there
     IN IF Cardinality(DOMAIN listed) > MaxObjects THEN Failed(r)
        ELSE /\ job' = [job EXCEPT ![r] = [job[r] EXCEPT
                  !.listed = listed,
                  !.upTo = IF last THEN @ ELSE CHOOSE k \in page : \A x \in page : x <= k,
                  !.stage = IF last THEN "downloading" ELSE @]]
             /\ UNCHANGED <<bucket, saved, reader, lock, writes, begunReads, readerStarts, proven>>

(* An object of the same version is copied from the last snapshot. *)
Same(r, k) == k \in DOMAIN job[r].before /\ job[r].before[k] = job[r].listed[k]

(* Mutant of Matches: whatever is there now. *)
MatchesAny(r, k) == bucket[job[r].conn][k] # 0

(* --if-match: the version that was listed, or an error *)
Matches(r, k) == bucket[job[r].conn][k] = job[r].listed[k]

Fetched(r, k) == IF Same(r, k) THEN job[r].before[k] ELSE bucket[job[r].conn][k]

(* Four at a time, in no order that matters *)
Download(r, k) ==
  /\ job[r].stage = "downloading"
  /\ k \in DOMAIN job[r].listed \ DOMAIN job[r].got
  /\ IF ~Same(r, k) /\ ~Matches(r, k) THEN Failed(r)
     ELSE /\ job' = [job EXCEPT ![r].got =
               [x \in DOMAIN @ \cup {k} |-> IF x = k THEN Fetched(r, k) ELSE @[x]]]
          /\ UNCHANGED <<bucket, saved, reader, lock, writes, begunReads, readerStarts, proven>>

(* The rows are put together, each event once; it may fail. *)
Build(r) ==
  /\ job[r].stage = "downloading" /\ DOMAIN job[r].got = DOMAIN job[r].listed
  /\ \/ /\ job' = [job EXCEPT ![r].stage = IF job[r].kind = "select" THEN "saving" ELSE "publishing"]
        /\ proven' = proven \cup {job[r].conn}
        /\ UNCHANGED <<bucket, saved, reader, lock, writes, begunReads, readerStarts>>
     \/ Failed(r)

(* The connection is saved first: the file may be unreadable, which leaves *)
(* the reader as it was.                                                   *)
Save(r) ==
  /\ job[r].stage = "saving"
  /\ \/ /\ saved' = job[r].conn
        /\ job' = [job EXCEPT ![r].stage = "publishing"]
        /\ UNCHANGED lock
     \/ job' = Ended(r) /\ lock' = None /\ UNCHANGED saved
  /\ UNCHANGED <<bucket, reader, writes, begunReads, readerStarts, proven>>

Whole(r) == [conn |-> job[r].conn, objects |-> job[r].listed, got |-> job[r].got,
             steady |-> job[r].steady, met |-> job[r].met]

(* Connection and snapshot are published together. *)
Publish(r) ==
  /\ job[r].stage = "publishing"
  /\ reader' = [config |-> job[r].conn, snapshot |-> Whole(r), error |-> FALSE]
  /\ lock' = None
  /\ job' = IF job[r].kind = "query" THEN [job EXCEPT ![r].stage = "answer"] ELSE Ended(r)
  /\ UNCHANGED <<bucket, saved, writes, begunReads, readerStarts, proven>>

(* 180 seconds, or the AWS command line fails *)
TimedOut(r) == Reads(r) /\ Failed(r)

(* The page is closed: the request is dropped wherever it waits. *)
GivenUp(r) ==
  /\ job[r].kind # "none"
  /\ job' = Ended(r)
  /\ lock' = IF lock = r THEN None ELSE lock
  /\ UNCHANGED <<bucket, saved, reader, writes, begunReads, readerStarts, proven>>

Restart ==
  /\ readerStarts < MaxStarts /\ readerStarts' = readerStarts + 1
  /\ reader' = Fresh(saved) /\ lock' = None /\ job' = [r \in Requests |-> NoJob]
  /\ UNCHANGED <<bucket, saved, writes, begunReads, proven>>

ReaderNext ==
  \/ \E c \in Conns, k \in Keys : Write(c, k)
  \/ \E r \in Requests :
       \/ \E c \in Conns : Select(r, c)
       \/ Refresh(r) \/ Query(r) \/ Answer(r) \/ Enter(r) \/ Page(r) \/ Build(r)
       \/ \E k \in Keys : Download(r, k)
       \/ Save(r) \/ Publish(r) \/ TimedOut(r) \/ GivenUp(r)
  \/ Restart

ReaderSpec == ReaderInit /\ [][ReaderNext]_readerVars

-----------------------------------------------------------------------------
(* Properties *)

AsSet(f) == {<<k, f[k]>> : k \in DOMAIN f}

(* A published snapshot has what was in the bucket all through its         *)
(* refresh, has nothing that was not there at some time of it, and what    *)
(* was downloaded is the version that was listed: a listing in pages and a *)
(* writer next to it lose nothing and mix nothing.                         *)
SnapshotIsWhole ==
  LET s == reader.snapshot
  IN s.conn # None =>
       /\ s.got = s.objects
       /\ s.steady \subseteq AsSet(s.objects)
       /\ AsSet(s.objects) \subseteq s.met

(* The connection shown is the one the snapshot is of, whichever refresh   *)
(* failed, timed out or was given up; the one in config.json was           *)
(* downloaded whole before it was saved.                                   *)
ConnectionIsOfSnapshot ==
  /\ reader.snapshot.conn # None => reader.snapshot.conn = reader.config
  /\ reader.config # None => reader.config \in proven
  /\ saved # None => saved \in proven
=============================================================================

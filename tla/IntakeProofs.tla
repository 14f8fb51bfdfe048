---------------------------- MODULE IntakeProofs ----------------------------
(***************************************************************************)
(* Intake for every number of hooks, batches, lines and chunks: it drives  *)
(* the database only through the steps of Store, and it keeps the promise  *)
(* of Delivery, that nothing is released before it is recorded: every step *)
(* is a step of Delivery, or changes nothing that it speaks of.            *)
(***************************************************************************)
EXTENDS Intake, StoreProofs

(* An item says which source it came from, and which of its items it is.   *)
LEMMA ItemsApart ==
  /\ \A x, y : Entry(x) = Entry(y) => x = y
  /\ \A x, y : Batch(x) = Batch(y) => x = y
  /\ \A x, y : Line(x) = Line(y) => x = y
  /\ \A x, y : Chunk(x) = Chunk(y) => x = y
  /\ \A x, y : Entry(x) # Batch(y) /\ Entry(x) # Line(y) /\ Entry(x) # Chunk(y)
  /\ \A x, y : Batch(x) # Line(y) /\ Batch(x) # Chunk(y) /\ Line(x) # Chunk(y)
BY DEF Entry, Batch, Line, Chunk

LEMMA ItemsType ==
  /\ \A x \in Entries : Entry(x) \in Items
  /\ \A b \in Batches : Batch(b) \in Items
  /\ \A n \in 1..NumLines : Line(n) \in Items
  /\ \A n \in 1..NumChunks : Chunk(n) \in Items
  /\ \A x \in Items : Parts[x] \subseteq Ids
BY IntakeAssumption DEF Items

(* Every step of the loop is a step of the database or leaves it alone.    *)
LEMMA IntakeStoreStep ==
  IntakeTypeOK /\ [IntakeNext]_intakeVars => [StoreNext]_storeVars
<1> SUFFICES ASSUME IntakeTypeOK, IntakeNext
             PROVE  [StoreNext]_storeVars
  BY DEF intakeVars
<1>1. CASE Begin
  BY <1>1 DEF Begin, StoreNext
<1>2. ASSUME Ends
      PROVE  StoreNext
  BY <1>2 DEF Ends, StoreNext
<1>3. CASE Persist
  <2>1. PICK i \in todo : IF PassedOver(i) THEN UNCHANGED storeVars
                          ELSE Ingest(i, Reading[i][label], Signed)
    BY <1>3 DEF Persist
  <2>2. i \in Ids /\ Reading[i][label] \in Events /\ Signed \in Dests \cup {NotShared}
    BY IntakeAssumption DEF IntakeTypeOK
  <2>3. QED
    BY <2>1, <2>2 DEF StoreNext
<1>4. CASE Upload
  <2>1. Signed \in Dests /\ Waiting(Signed) \in SUBSET Ids
    BY <1>4, IntakeAssumption DEF Upload, Waiting
  <2>2. QED
    BY <1>4, <2>1 DEF Upload, StoreNext
<1>5. CASE UNCHANGED storeVars
  BY <1>5
<1>6. CASE SourceNext
  BY <1>5, <1>6 DEF SourceNext, Hook, Post, TimeOut, GiveUp, Write, Relabel, SendChunk,
                    RecordProgress
<1>7. CASE LoopNext
  BY <1>2, <1>3, <1>5, <1>7 DEF LoopNext, OpenEntry, RemoveEntry, ScanRollout, Checkpoint,
     AnswerBatch, AckChunk, Conflict, LastDrain, Exit
<1>8. CASE Tick \/ Sigterm \/ TakeBatch \/ TakeChunk
  BY <1>5, <1>8 DEF Tick, Sigterm, TakeBatch, TakeChunk
<1>9. CASE Crash
  BY <1>2, <1>9 DEF Crash
<1>10. QED
  BY <1>1, <1>4, <1>6, <1>7, <1>8, <1>9 DEF IntakeNext

LEMMA IntakeTypeInit == IntakeInit => IntakeTypeOK
<1> SUFFICES ASSUME IntakeInit
             PROVE  IntakeTypeOK
  OBVIOUS
<1> USE IntakeAssumption
<1>1. StoreTypeOK
  BY StoreTypeInit DEF IntakeInit
<1>2. export \in [Batches -> {"new", "failed", "waiting", "done", "dropped"}]
  BY DEF IntakeInit
<1>3. channel \in Seq(Payloads) /\ Len(channel) <= Capacity
  BY DEF IntakeInit
<1>4. /\ length \in 0..(2 * NumLines) /\ offset \in 0..length /\ saved \in 0..length
      /\ place \in 0..NumChunks /\ progress \in 0..NumChunks
      /\ stops \in 0..MaxStops /\ relabels \in 0..MaxRelabels
  BY DEF IntakeInit
<1>5. QED
  BY <1>1, <1>2, <1>3, <1>4 DEF IntakeInit, IntakeTypeOK

LEMMA PayloadsType ==
  ASSUME NEW s \in Seq(Payloads), NEW f \in [DOMAIN s -> Payloads]
  PROVE  f \in Seq(Payloads) /\ Len(f) = Len(s) /\ DOMAIN f = 1..Len(s)
OBVIOUS

(* The complete part of the file ends between its cursor and its end.      *)
LEMMA CompleteBounds ==
  ASSUME NEW l \in Nat, NEW o \in 0..l, o % 2 = 0
  PROVE  2 * (l \div 2) \in o..l /\ (2 * (l \div 2)) % 2 = 0
<1> DEFINE h == l \div 2
           k == o \div 2
<1>1. h \in Nat /\ 2 * h <= l /\ l <= 2 * h + 1
  OBVIOUS
<1>2. k \in Nat /\ o = 2 * k
  OBVIOUS
<1>3. k <= h
  BY <1>1, <1>2
<1>4. (2 * h) % 2 = 0
  BY <1>1
<1>5. QED
  BY <1>1, <1>2, <1>3, <1>4

LEMMA EndsType ==
  IntakeTypeOK /\ Ends /\ StoreTypeOK' /\ stops' \in 0..MaxStops => IntakeTypeOK'
<1> SUFFICES ASSUME IntakeTypeOK, Ends, StoreTypeOK', stops' \in 0..MaxStops
             PROVE  IntakeTypeOK'
  OBVIOUS
<1> USE IntakeAssumption
<1>1. export' \in [Batches -> {"new", "failed", "waiting", "done", "dropped"}]
  BY DEF Ends, IntakeTypeOK
<1>2. channel' \in Seq(Payloads) /\ Len(channel') <= Capacity
  BY DEF Ends
<1>3. QED
  BY <1>1, <1>2 DEF Ends, IntakeTypeOK, spoolVars

LEMMA IntakeTypeStep == IntakeInv /\ [IntakeNext]_intakeVars => IntakeTypeOK'
<1> SUFFICES ASSUME IntakeInv, [IntakeNext]_intakeVars
             PROVE  IntakeTypeOK'
  OBVIOUS
<1> USE IntakeAssumption
<1>t. IntakeTypeOK
  BY DEF IntakeInv
<1>0. StoreTypeOK'
  BY <1>t, IntakeStoreStep, StoreTypeStep DEF IntakeTypeOK
<1>1. ASSUME NEW x \in Entries, Hook(x)
      PROVE  IntakeTypeOK'
  BY <1>t, <1>0, <1>1 DEF Hook, IntakeTypeOK, otlpVars, tailVars, backfillVars, loopVars, worldVars
<1>2. ASSUME NEW b \in Batches, Post(b)
      PROVE  IntakeTypeOK'
  <2>1. export' \in [Batches -> {"new", "failed", "waiting", "done", "dropped"}]
    BY <1>t, <1>2 DEF Post, IntakeTypeOK
  <2>2. channel' \in Seq(Payloads) /\ Len(channel') <= Capacity
    <3>1. CASE open /\ Len(channel) < Capacity
      <4>1. [batch |-> b, waits |-> TRUE] \in Payloads
        BY DEF Payloads
      <4>2. channel' = Append(channel, [batch |-> b, waits |-> TRUE])
        BY <1>2, <3>1 DEF Post
      <4>3. channel \in Seq(Payloads)
        BY <1>t DEF IntakeTypeOK
      <4>4. channel' \in Seq(Payloads) /\ Len(channel') = Len(channel) + 1
        BY <4>1, <4>2, <4>3
      <4>5. QED
        BY <3>1, <4>3, <4>4
    <3>2. CASE ~(open /\ Len(channel) < Capacity)
      BY <1>t, <1>2, <3>2 DEF Post, IntakeTypeOK
    <3>3. QED
      BY <3>1, <3>2
  <2>3. QED
    BY <1>t, <1>0, <1>2, <2>1, <2>2 DEF Post, IntakeTypeOK, spoolVars, tailVars, backfillVars,
       loopVars, worldVars
<1>3. ASSUME NEW b \in Batches, TimeOut(b)
      PROVE  IntakeTypeOK'
  <2>1. export' \in [Batches -> {"new", "failed", "waiting", "done", "dropped"}]
    BY <1>t, <1>3 DEF TimeOut, IntakeTypeOK
  <2>2. channel \in Seq(Payloads) /\ Len(channel) <= Capacity
    BY <1>t DEF IntakeTypeOK
  <2>3. \A n \in DOMAIN channel : channel[n] \in Payloads
    BY <2>2
  <2>4. \A p \in Payloads : [p EXCEPT !.waits = FALSE] \in Payloads
    BY DEF Payloads
  <2>5. channel' \in [DOMAIN channel -> Payloads]
    BY <1>3, <2>3, <2>4 DEF TimeOut
  <2>6. channel' \in Seq(Payloads) /\ Len(channel') <= Capacity
    BY <2>2, <2>5, PayloadsType
  <2>7. unit' \in Units \cup {None}
    BY <1>t, <1>3 DEF TimeOut, IntakeTypeOK, Units
  <2>8. QED
    BY <1>t, <1>0, <1>3, <2>1, <2>6, <2>7 DEF TimeOut, IntakeTypeOK, spoolVars, tailVars,
       backfillVars, worldVars
<1>4. ASSUME NEW b \in Batches, GiveUp(b)
      PROVE  IntakeTypeOK'
  <2>1. export' \in [Batches -> {"new", "failed", "waiting", "done", "dropped"}]
    BY <1>t, <1>4 DEF GiveUp, IntakeTypeOK
  <2>2. QED
    BY <1>t, <1>0, <1>4, <2>1 DEF GiveUp, IntakeTypeOK, spoolVars, tailVars, backfillVars,
       loopVars, worldVars
<1>5. CASE Write
  <2>1. length' \in 0..(2 * NumLines) /\ offset' \in 0..length' /\ saved' \in 0..length'
    BY <1>t, <1>5 DEF Write, IntakeTypeOK
  <2>2. QED
    BY <1>t, <1>0, <1>5, <2>1 DEF Write, IntakeTypeOK, spoolVars, otlpVars, backfillVars,
       loopVars, worldVars
<1>6. ASSUME NEW l \in Labels, Relabel(l)
      PROVE  IntakeTypeOK'
  <2>1. relabels' \in 0..MaxRelabels
    BY <1>t, <1>6 DEF Relabel, IntakeTypeOK
  <2>2. QED
    BY <1>t, <1>0, <1>6, <2>1 DEF Relabel, IntakeTypeOK, spoolVars, otlpVars, tailVars,
       backfillVars, loopVars
<1>7. CASE Begin \/ SendChunk
  BY <1>t, <1>0, <1>7 DEF Begin, SendChunk, IntakeTypeOK, spoolVars, otlpVars, tailVars,
     backfillVars, loopVars, worldVars
<1>8. CASE RecordProgress
  <2>1. place' \in 0..NumChunks /\ progress' \in 0..NumChunks
    BY <1>t, <1>8 DEF RecordProgress, IntakeTypeOK, IntakeInv, CursorsInStep
  <2>2. QED
    BY <1>t, <1>0, <1>8, <2>1 DEF RecordProgress, IntakeTypeOK, spoolVars, otlpVars, tailVars,
       loopVars, worldVars
<1>9. CASE Crash
  <2>1. Ends /\ stops' \in 0..MaxStops
    BY <1>t, <1>9 DEF Crash, IntakeTypeOK
  <2>2. QED
    BY <1>t, <1>0, <2>1, EndsType
<1>10. CASE Exit \/ Conflict
  <2>1. Ends /\ stops' \in 0..MaxStops
    BY <1>t, <1>10 DEF Exit, Conflict, IntakeTypeOK
  <2>2. QED
    BY <1>t, <1>0, <2>1, EndsType
<1>11. CASE Tick \/ Sigterm
  <2>1. stops' \in 0..MaxStops
    BY <1>t, <1>11 DEF Tick, Sigterm, IntakeTypeOK, worldVars
  <2>2. QED
    BY <1>t, <1>0, <1>11, <2>1 DEF Tick, Sigterm, IntakeTypeOK, spoolVars, otlpVars, tailVars,
       backfillVars, worldVars
<1>12. CASE OpenEntry
  <2>1. PICK x \in listing :
          /\ listing' = listing \ {x}
          /\ IF x \in Malformed
               THEN /\ spool' = spool \ {x}
                    /\ UNCHANGED <<unit, todo>>
               ELSE /\ unit' = [kind |-> "entry", items |-> {Entry(x)}, waits |-> FALSE]
                    /\ todo' = Parts[Entry(x)]
                    /\ UNCHANGED spool
    BY <1>12 DEF OpenEntry
  <2>2. x \in fired /\ Entry(x) \in Items
    BY <1>t, <2>1, ItemsType DEF IntakeTypeOK
  <2>3. unit' \in Units \cup {None} /\ todo' \subseteq Ids
    <3>1. CASE x \in Malformed
      BY <1>t, <2>1, <3>1 DEF IntakeTypeOK
    <3>2. CASE x \notin Malformed
      <4>1. [kind |-> "entry", items |-> {Entry(x)}, waits |-> FALSE] \in Units
        BY <2>2 DEF Units
      <4>2. Parts[Entry(x)] \subseteq Ids
        BY <2>2, ItemsType
      <4>3. QED
        BY <2>1, <3>2, <4>1, <4>2
    <3>3. QED
      BY <3>1, <3>2
  <2>4. QED
    BY <1>t, <1>0, <1>12, <2>1, <2>2, <2>3 DEF OpenEntry, IntakeTypeOK, otlpVars, tailVars,
       backfillVars, worldVars
<1>13. CASE RemoveEntry \/ AckChunk
  BY <1>t, <1>0, <1>13 DEF RemoveEntry, AckChunk, IntakeTypeOK, spoolVars, otlpVars, tailVars,
     backfillVars, worldVars
<1>14. CASE ScanRollout
  <2>1. PICK to \in {offset, Complete} :
          /\ offset' = to
          /\ unit' = [kind |-> "rollout",
                      items |-> {Line(n) : n \in LinesBetween(offset, to)}, waits |-> FALSE]
          /\ todo' = Identities({Line(n) : n \in LinesBetween(offset, to)})
    BY <1>14 DEF ScanRollout
  <2>2. to \in 0..length
    <3>1. length \in Nat /\ offset \in 0..length /\ offset % 2 = 0
      BY <1>t DEF IntakeTypeOK, IntakeInv, CursorsInStep
    <3>2. Complete \in offset..length
      BY <3>1, CompleteBounds DEF Complete
    <3>3. QED
      BY <2>1, <3>1, <3>2
  <2>3. {Line(n) : n \in LinesBetween(offset, to)} \subseteq Items
    BY ItemsType DEF LinesBetween
  <2>4. unit' \in Units /\ todo' \subseteq Ids
    BY <2>1, <2>3, ItemsType DEF Units, Identities
  <2>5. QED
    BY <1>t, <1>0, <1>14, <2>1, <2>2, <2>4 DEF ScanRollout, IntakeTypeOK, spoolVars, otlpVars,
       backfillVars, worldVars
<1>15. CASE Checkpoint
  BY <1>t, <1>0, <1>15 DEF Checkpoint, IntakeTypeOK, spoolVars, otlpVars, backfillVars, worldVars
<1>16. CASE TakeBatch
  <2>1. channel \in Seq(Payloads) /\ channel # <<>> /\ Len(channel) <= Capacity
    BY <1>t, <1>16 DEF TakeBatch, IntakeTypeOK
  <2>2. /\ Head(channel) \in Payloads
        /\ Tail(channel) \in Seq(Payloads) /\ Len(Tail(channel)) <= Capacity
    BY <2>1
  <2>3. Batch(Head(channel).batch) \in Items /\ Head(channel).waits \in BOOLEAN
    BY <2>2, ItemsType DEF Payloads
  <2>4. unit' \in Units /\ todo' \subseteq Ids
    BY <1>16, <2>3, ItemsType DEF TakeBatch, Units
  <2>5. QED
    BY <1>t, <1>0, <1>16, <2>2, <2>4 DEF TakeBatch, IntakeTypeOK, spoolVars, tailVars,
       backfillVars, worldVars
<1>17. CASE AnswerBatch
  <2>1. export' \in [Batches -> {"new", "failed", "waiting", "done", "dropped"}]
    BY <1>t, <1>17 DEF AnswerBatch, IntakeTypeOK
  <2>2. QED
    BY <1>t, <1>0, <1>17, <2>1 DEF AnswerBatch, IntakeTypeOK, spoolVars, tailVars, backfillVars,
       worldVars
<1>18. CASE TakeChunk
  <2>1. Chunk(place + 1) \in Items
    BY <1>t, <1>18, ItemsType DEF TakeChunk, IntakeTypeOK, IntakeInv, CursorsInStep
  <2>2. unit' \in Units /\ todo' \subseteq Ids
    BY <1>18, <2>1, ItemsType DEF TakeChunk, Units
  <2>3. QED
    BY <1>t, <1>0, <1>18, <2>2 DEF TakeChunk, IntakeTypeOK, spoolVars, otlpVars, tailVars,
       worldVars
<1>19. CASE Persist
  BY <1>t, <1>0, <1>19 DEF Persist, IntakeTypeOK, spoolVars, otlpVars, tailVars, backfillVars,
     worldVars
<1>20. CASE Upload
  BY <1>t, <1>0, <1>20 DEF Upload, IntakeTypeOK, spoolVars, otlpVars, tailVars, backfillVars,
     loopVars, worldVars
<1>21. CASE LastDrain
  BY <1>t, <1>0, <1>21 DEF LastDrain, IntakeTypeOK, spoolVars, otlpVars, tailVars, backfillVars,
     worldVars
<1>22. CASE UNCHANGED intakeVars
  BY <1>t, <1>0, <1>22 DEF intakeVars, IntakeTypeOK, spoolVars, otlpVars, tailVars, backfillVars,
     loopVars, worldVars
<1>23. QED
  BY <1>1, <1>2, <1>3, <1>4, <1>5, <1>6, <1>7, <1>8, <1>9, <1>10, <1>11, <1>12, <1>13, <1>14,
     <1>15, <1>16, <1>17, <1>18, <1>19, <1>20, <1>21, <1>22
     DEF IntakeNext, SourceNext, LoopNext
-----------------------------------------------------------------------------

Grows == \A i \in Ids : local[i] # None => local'[i] # None

(* No step takes anything out of the ledger.                               *)
LEMMA LedgerGrows == IntakeTypeOK /\ [IntakeNext]_intakeVars => Grows
<1> SUFFICES ASSUME IntakeTypeOK, [IntakeNext]_intakeVars
             PROVE  Grows
  OBVIOUS
<1>1. [StoreNext]_storeVars /\ StoreTypeOK
  BY IntakeStoreStep DEF IntakeTypeOK
<1>2. CASE Open
  BY <1>1, <1>2 DEF Open, KeepOr, StoreTypeOK, Grows
<1>3. ASSUME NEW i \in Ids, NEW e \in Events, NEW d \in Dests \cup {NotShared}, Ingest(i, e, d)
      PROVE  Grows
  BY <1>1, <1>3, StoreAssumption
     DEF Ingest, IngestNew, IngestReplay, storeVars, ledgerVars, StoreTypeOK, Grows
<1>4. CASE UNCHANGED local
  BY <1>4 DEF Grows
<1>5. QED
  BY <1>1, <1>2, <1>3, <1>4 DEF StoreNext, Close, EnqueueHistory, Acknowledge, ApplyPage,
     Activate, ledgerVars, storeVars

LEMMA RecordedStays ==
  ASSUME Grows, NEW x \in Items, Recorded(x)
  PROVE  Recorded(x)'
BY ItemsType DEF Grows, Recorded

(* What each part of the invariant may be disturbed by.                    *)
LEMMA UnitFrame ==
  ASSUME IntakeInv, Grows,
         unit' = unit, todo' = todo, offset' = offset, chunk' = chunk, place' = place,
         listing' = listing, channel' = channel,
         spool \subseteq spool', spool' \cap missed' = {},
         \A b \in Batches : export[b] # "new" => export'[b] # "new"
  PROVE  UnitInStep'
<1>1. UnitInStep /\ IntakeTypeOK
  BY DEF IntakeInv
<1>2. ASSUME unit # None
      PROVE  \A x \in unit.items : \A i \in Parts[x] : local'[i] # None \/ i \in todo
  BY <1>1, <1>2, ItemsType DEF UnitInStep, Grows, IntakeTypeOK, Units
<1>3. \A n \in 1..Len(channel) : channel[n].batch \in Batches
  <2>1. channel \in Seq(Payloads)
    BY <1>1 DEF IntakeTypeOK
  <2>2. \A n \in 1..Len(channel) : channel[n] \in Payloads
    BY <2>1
  <2>3. QED
    BY <2>2 DEF Payloads
<1>4. \A n \in 1..Len(channel) : export'[channel[n].batch] # "new"
  BY <1>1, <1>3 DEF UnitInStep
<1>5. QED
  BY <1>1, <1>2, <1>4 DEF UnitInStep, Identities

LEMMA NoUnit ==
  ASSUME IntakeInv,
         unit' = None, todo' = {}, listing' \subseteq spool', spool' \cap missed' = {},
         \A n \in 1..Len(channel') : export'[channel'[n].batch] # "new"
  PROVE  UnitInStep'
BY DEF UnitInStep

LEMMA CursorsFrame ==
  ASSUME IntakeInv, Grows,
         offset' = offset, saved' = saved, chunk' = chunk, place' = place, progress' = progress,
         unit' = unit \/ unit = None \/ unit.kind # "rollout"
  PROVE  CursorsInStep'
<1>1. CursorsInStep /\ IntakeTypeOK
  BY DEF IntakeInv
<1>2. \A n \in 1..NumLines : 2 * n <= offset =>
        Recorded(Line(n))' \/ (unit' # None /\ unit'.kind = "rollout" /\ Line(n) \in unit'.items)
  BY <1>1, RecordedStays, ItemsType DEF CursorsInStep
<1>3. place \in 0..NumChunks /\ NumChunks \in Nat
  BY <1>1, IntakeAssumption DEF IntakeTypeOK
<1>4. \A n \in 1..place : Recorded(Chunk(n))'
  BY <1>1, <1>3, RecordedStays, ItemsType DEF CursorsInStep
<1>5. chunk = "acked" => Recorded(Chunk(place + 1))'
  <2> SUFFICES ASSUME chunk = "acked"
               PROVE  Recorded(Chunk(place + 1))'
    OBVIOUS
  <2>1. place + 1 \in 1..NumChunks /\ Recorded(Chunk(place + 1))
    BY <1>1, <1>3 DEF CursorsInStep
  <2>2. QED
    BY <2>1, RecordedStays, ItemsType
<1>6. QED
  BY <1>1, <1>2, <1>4, <1>5 DEF CursorsInStep

LEMMA ReleasedFrame ==
  ASSUME IntakeInv, Grows, saved' = saved, progress' = progress,
         fired' \ (spool' \cup missed') \subseteq fired \ (spool \cup missed),
         \A b \in Batches : export'[b] = "done" => export[b] = "done"
  PROVE  ReleasedIsRecorded'
<1>1. ReleasedIsRecorded /\ IntakeTypeOK
  BY DEF IntakeInv
<1>2. \A x \in fired' \ (spool' \cup missed') : Recorded(Entry(x))'
  BY <1>1, RecordedStays, ItemsType DEF ReleasedIsRecorded, IntakeTypeOK
<1>3. \A b \in Batches : export'[b] = "done" => Recorded(Batch(b))'
  BY <1>1, RecordedStays, ItemsType DEF ReleasedIsRecorded
<1>4. \A n \in 1..NumLines : 2 * n <= saved => Recorded(Line(n))'
  BY <1>1, RecordedStays, ItemsType DEF ReleasedIsRecorded
<1>5. \A n \in 1..progress : n \in 1..NumChunks
  BY <1>1, IntakeAssumption DEF IntakeTypeOK
<1>6. \A n \in 1..progress : Recorded(Chunk(n))'
  BY <1>1, <1>5, RecordedStays, ItemsType DEF ReleasedIsRecorded
<1>7. QED
  BY <1>2, <1>3, <1>4, <1>6 DEF ReleasedIsRecorded

LEMMA IntakeInvInit == IntakeInit => IntakeInv
<1> SUFFICES ASSUME IntakeInit
             PROVE  IntakeInv
  OBVIOUS
<1> USE IntakeAssumption
<1>1. IntakeTypeOK
  BY IntakeTypeInit
<1>2. UnitInStep
  BY DEF IntakeInit, UnitInStep
<1>3. CursorsInStep
  BY DEF IntakeInit, CursorsInStep
<1>4. ReleasedIsRecorded
  BY DEF IntakeInit, ReleasedIsRecorded
<1>5. QED
  BY <1>1, <1>2, <1>3, <1>4 DEF IntakeInv

(* The process ends in whatever it is doing.                               *)
LEMMA EndsInv == IntakeInv /\ Grows /\ Ends => UnitInStep' /\ CursorsInStep' /\ ReleasedIsRecorded'
<1> SUFFICES ASSUME IntakeInv, Grows, Ends
             PROVE  UnitInStep' /\ CursorsInStep' /\ ReleasedIsRecorded'
  OBVIOUS
<1>1. IntakeTypeOK /\ CursorsInStep /\ UnitInStep /\ ReleasedIsRecorded
  BY DEF IntakeInv
<1>2. UnitInStep'
  <2>1. unit' = None /\ todo' = {} /\ listing' = {} /\ channel' = <<>> /\ spool' = spool
        /\ missed' = missed
    BY DEF Ends, spoolVars
  <2>2. QED
    BY <1>1, <2>1 DEF UnitInStep
<1>3. ReleasedIsRecorded'
  <2>1. \A b \in Batches : export'[b] = "done" => export[b] = "done"
    BY <1>1 DEF Ends, IntakeTypeOK
  <2>2. QED
    BY <2>1, ReleasedFrame DEF Ends, spoolVars
<1>4. CursorsInStep'
  <2>1. saved' = saved /\ offset' = saved /\ progress' = progress /\ place' = progress
        /\ chunk' = "none"
    BY DEF Ends
  <2>2. \A n \in 1..NumLines : 2 * n <= saved => Recorded(Line(n))'
    BY <1>3, <2>1 DEF ReleasedIsRecorded
  <2>3. \A n \in 1..progress : Recorded(Chunk(n))'
    BY <1>3, <2>1 DEF ReleasedIsRecorded
  <2>4. saved \in Nat /\ progress \in Nat
    BY <1>1, IntakeAssumption DEF IntakeTypeOK
  <2>5. QED
    BY <1>1, <2>1, <2>2, <2>3, <2>4 DEF CursorsInStep
<1>5. QED
  BY <1>2, <1>3, <1>4

(* The steps of the sources. *)
LEMMA SourceInv ==
  IntakeInv /\ Grows /\ SourceNext => UnitInStep' /\ CursorsInStep' /\ ReleasedIsRecorded'
<1> SUFFICES ASSUME IntakeInv, Grows, SourceNext
             PROVE  UnitInStep' /\ CursorsInStep' /\ ReleasedIsRecorded'
  OBVIOUS
<1> DEFINE Goal == UnitInStep' /\ CursorsInStep' /\ ReleasedIsRecorded'
<1>t. IntakeTypeOK /\ CursorsInStep /\ UnitInStep /\ ReleasedIsRecorded
  BY DEF IntakeInv
<1>1. ASSUME NEW x \in Entries, Hook(x)
      PROVE  Goal
  <2>1. UNCHANGED <<unit, todo, offset, saved, chunk, place, progress, listing, channel, export>>
    BY <1>1 DEF Hook, otlpVars, tailVars, backfillVars, loopVars
  <2>2. /\ spool \subseteq spool' /\ spool' \cap missed' = {}
        /\ fired' \ (spool' \cup missed') \subseteq fired \ (spool \cup missed)
    BY <1>t, <1>1 DEF Hook, UnitInStep, IntakeTypeOK
  <2>3. QED
    BY <2>1, <2>2, UnitFrame, CursorsFrame, ReleasedFrame
<1>2. ASSUME NEW b \in Batches, Post(b)
      PROVE  Goal
  <2>1. UNCHANGED <<unit, todo, offset, saved, chunk, place, progress, listing, fired, spool,
                    missed>>
    BY <1>2 DEF Post, spoolVars, tailVars, backfillVars, loopVars
  <2>2. /\ export'[b] # "new" /\ export'[b] # "done"
        /\ \A c \in Batches : c # b => export'[c] = export[c]
    BY <1>t, <1>2 DEF Post, IntakeTypeOK
  <2>3. channel \in Seq(Payloads) /\ \A n \in 1..Len(channel) : channel[n].batch \in Batches
    <3>1. channel \in Seq(Payloads)
      BY <1>t DEF IntakeTypeOK
    <3>2. \A n \in 1..Len(channel) : channel[n] \in Payloads
      BY <3>1
    <3>3. QED
      BY <3>1, <3>2 DEF Payloads
  <2>4. \A n \in 1..Len(channel') : export'[channel'[n].batch] # "new"
    <3>1. \A n \in 1..Len(channel) : export'[channel[n].batch] # "new"
      BY <1>t, <2>2, <2>3 DEF UnitInStep
    <3>2. CASE channel' = channel
      BY <3>1, <3>2
    <3>3. CASE channel' = Append(channel, [batch |-> b, waits |-> TRUE])
      <4>1. /\ Len(channel') = Len(channel) + 1
            /\ \A n \in 1..Len(channel) : channel'[n] = channel[n]
            /\ channel'[Len(channel) + 1] = [batch |-> b, waits |-> TRUE]
        BY <2>3, <3>3
      <4>2. channel'[Len(channel) + 1].batch = b
        BY <4>1
      <4>3. QED
        BY <2>2, <2>3, <3>1, <4>1, <4>2
    <3>4. QED
      BY <1>2, <3>2, <3>3 DEF Post
  <2>5. UnitInStep'
    <3>1. \A c \in Batches : export[c] # "new" => export'[c] # "new"
      BY <2>2
    <3>2. \A x \in Items : Recorded(x) => Recorded(x)'
      BY RecordedStays
    <3>3. unit # None => \A x \in unit.items : \A i \in Parts[x] : local'[i] # None \/ i \in todo
      BY <1>t, ItemsType DEF UnitInStep, Grows, IntakeTypeOK, Units
    <3>4. QED
      BY <1>t, <2>1, <2>4, <3>1, <3>3 DEF UnitInStep, Identities
  <2>6. QED
    BY <2>1, <2>2, <2>5, CursorsFrame, ReleasedFrame
<1>3. ASSUME NEW b \in Batches, TimeOut(b)
      PROVE  Goal
  <2>1. UNCHANGED <<todo, offset, saved, chunk, place, progress, listing, fired, spool, missed>>
    BY <1>3 DEF TimeOut, spoolVars, tailVars, backfillVars
  <2>2. /\ export'[b] = "failed"
        /\ \A c \in Batches : c # b => export'[c] = export[c]
    BY <1>t, <1>3 DEF TimeOut, IntakeTypeOK
  <2>3. /\ unit = None <=> unit' = None
        /\ unit # None => unit'.kind = unit.kind /\ unit'.items = unit.items
    BY <1>t, <1>3, NoneIsNoUnit DEF TimeOut, IntakeTypeOK, Units
  <2>4. channel \in Seq(Payloads) /\ \A n \in 1..Len(channel) : channel[n].batch \in Batches
    <3>1. channel \in Seq(Payloads)
      BY <1>t DEF IntakeTypeOK
    <3>2. \A n \in 1..Len(channel) : channel[n] \in Payloads
      BY <3>1
    <3>3. QED
      BY <3>1, <3>2 DEF Payloads
  <2>5. \A n \in 1..Len(channel') : export'[channel'[n].batch] # "new"
    <3>1. \A n \in 1..Len(channel) : export'[channel[n].batch] # "new"
      BY <1>t, <2>2, <2>4 DEF UnitInStep
    <3>2. DOMAIN channel = 1..Len(channel) /\ \A n \in 1..Len(channel) : channel[n] \in Payloads
      BY <2>4
    <3>3. channel' = [n \in DOMAIN channel |->
            IF channel[n].batch = b THEN [channel[n] EXCEPT !.waits = FALSE] ELSE channel[n]]
      BY <1>3 DEF TimeOut
    <3>4. \A n \in 1..Len(channel) : channel'[n].batch = channel[n].batch
      BY <3>2, <3>3 DEF Payloads
    <3>5. \A n \in 1..Len(channel) : channel'[n] \in Payloads
      BY <3>2, <3>3 DEF Payloads
    <3>6. channel' \in [DOMAIN channel -> Payloads]
      BY <3>2, <3>3, <3>5
    <3>7. Len(channel') = Len(channel)
      BY <2>4, <3>6, PayloadsType
    <3>8. QED
      BY <3>1, <3>4, <3>7
  <2>6. UnitInStep'
    <3>1. \A c \in Batches : export[c] # "new" => export'[c] # "new"
      BY <2>2
    <3>2. unit # None => \A x \in unit.items : \A i \in Parts[x] : local'[i] # None \/ i \in todo
      BY <1>t, ItemsType DEF UnitInStep, Grows, IntakeTypeOK, Units
    <3>3. QED
      BY <1>t, <2>1, <2>3, <2>5, <3>1, <3>2 DEF UnitInStep, Identities
  <2>7. CursorsInStep'
    <3>1. CASE unit # None /\ unit.kind = "rollout"
      <4>1. unit.items # {Batch(b)}
        BY <1>t, <3>1, ItemsApart DEF UnitInStep
      <4>2. unit' = unit
        BY <1>3, <4>1 DEF TimeOut
      <4>3. QED
        BY <2>1, <4>2, CursorsFrame
    <3>2. CASE ~(unit # None /\ unit.kind = "rollout")
      BY <2>1, <3>2, CursorsFrame
    <3>3. QED
      BY <3>1, <3>2
  <2>8. ReleasedIsRecorded'
    BY <2>1, <2>2, ReleasedFrame
  <2>9. QED
    BY <2>6, <2>7, <2>8
<1>4. ASSUME NEW b \in Batches, GiveUp(b)
      PROVE  Goal
  <2>1. UNCHANGED <<unit, todo, offset, saved, chunk, place, progress, listing, channel, fired,
                    spool, missed>>
    BY <1>4 DEF GiveUp, spoolVars, tailVars, backfillVars, loopVars
  <2>2. /\ export'[b] = "dropped"
        /\ \A c \in Batches : c # b => export'[c] = export[c]
    BY <1>t, <1>4 DEF GiveUp, IntakeTypeOK
  <2>3. spool' \cap missed' = {}
    BY <1>t, <2>1 DEF UnitInStep
  <2>4. QED
    BY <2>1, <2>2, <2>3, UnitFrame, CursorsFrame, ReleasedFrame
<1>5. CASE Write \/ \E l \in Labels : Relabel(l)
  <2>1. UNCHANGED <<unit, todo, offset, saved, chunk, place, progress, listing, channel, fired,
                    spool, missed, export>>
    BY <1>5 DEF Write, Relabel, spoolVars, otlpVars, tailVars, backfillVars, loopVars
  <2>2. spool' \cap missed' = {}
    BY <1>t, <2>1 DEF UnitInStep
  <2>3. QED
    BY <2>1, <2>2, UnitFrame, CursorsFrame, ReleasedFrame
<1>6. CASE SendChunk
  <2>1. UNCHANGED <<unit, todo, offset, saved, place, progress, listing, channel, fired, spool,
                    missed, export>> /\ chunk = "none" /\ chunk' = "queued" /\ place < NumChunks
    BY <1>6 DEF SendChunk, spoolVars, otlpVars, tailVars, loopVars
  <2>2. unit # None => unit.kind # "chunk"
    BY <1>t, <2>1 DEF UnitInStep
  <2>3. UnitInStep'
    <3>1. unit # None => \A x \in unit.items : \A i \in Parts[x] : local'[i] # None \/ i \in todo
      BY <1>t, ItemsType DEF UnitInStep, Grows, IntakeTypeOK, Units
    <3>2. QED
      BY <1>t, <2>1, <2>2, <3>1 DEF UnitInStep, Identities
  <2>4. ReleasedIsRecorded'
    BY <2>1, ReleasedFrame
  <2>5. CursorsInStep'
    <3>1. \A n \in 1..NumLines : 2 * n <= offset =>
            Recorded(Line(n))' \/ (unit' # None /\ unit'.kind = "rollout" /\ Line(n) \in unit'.items)
      BY <1>t, <2>1, RecordedStays, ItemsType DEF CursorsInStep
    <3>2. \A n \in 1..place : n \in 1..NumChunks
      BY <1>t, IntakeAssumption DEF IntakeTypeOK
    <3>3. \A n \in 1..place : Recorded(Chunk(n))'
      BY <1>t, <3>2, RecordedStays, ItemsType DEF CursorsInStep
    <3>4. QED
      BY <1>t, <2>1, <3>1, <3>3 DEF CursorsInStep
  <2>6. QED
    BY <2>3, <2>4, <2>5
<1>7. CASE RecordProgress
  <2>1. /\ UNCHANGED <<unit, todo, offset, saved, listing, channel, fired, spool, missed, export>>
        /\ chunk = "acked" /\ chunk' = "none" /\ place' = place + 1
        /\ progress' \in {progress, place + 1}
    BY <1>7 DEF RecordProgress, spoolVars, otlpVars, tailVars, loopVars
  <2>2. unit # None => unit.kind # "chunk"
    BY <1>t, <2>1 DEF UnitInStep
  <2>3. UnitInStep'
    <3>1. unit # None => \A x \in unit.items : \A i \in Parts[x] : local'[i] # None \/ i \in todo
      BY <1>t, ItemsType DEF UnitInStep, Grows, IntakeTypeOK, Units
    <3>2. QED
      BY <1>t, <2>1, <2>2, <3>1 DEF UnitInStep, Identities
  <2>4. place \in Nat /\ progress \in Nat /\ progress <= place /\ place < NumChunks /\ NumChunks \in Nat
    BY <1>t, <2>1, IntakeAssumption DEF IntakeTypeOK, CursorsInStep
  <2>5. \A n \in 1..(place + 1) : Recorded(Chunk(n))'
    <3>1. \A n \in 1..(place + 1) : n \in 1..NumChunks /\ (n \in 1..place \/ n = place + 1)
      BY <2>4
    <3>2. \A n \in 1..(place + 1) : Recorded(Chunk(n))
      BY <1>t, <2>1, <3>1 DEF CursorsInStep
    <3>3. QED
      BY <3>1, <3>2, RecordedStays, ItemsType
  <2>6. \A n \in 1..NumLines : 2 * n <= offset =>
          Recorded(Line(n))' \/ (unit' # None /\ unit'.kind = "rollout" /\ Line(n) \in unit'.items)
    BY <1>t, <2>1, RecordedStays, ItemsType DEF CursorsInStep
  <2>7. CursorsInStep'
    BY <1>t, <2>1, <2>4, <2>5, <2>6 DEF CursorsInStep
  <2>8. ReleasedIsRecorded'
    <3>1. \A x \in fired' \ (spool' \cup missed') : Recorded(Entry(x))'
      BY <1>t, <2>1, RecordedStays, ItemsType DEF ReleasedIsRecorded, IntakeTypeOK
    <3>2. \A b \in Batches : export'[b] = "done" => Recorded(Batch(b))'
      BY <1>t, <2>1, RecordedStays, ItemsType DEF ReleasedIsRecorded
    <3>3. \A n \in 1..NumLines : 2 * n <= saved' => Recorded(Line(n))'
      BY <1>t, <2>1, RecordedStays, ItemsType DEF ReleasedIsRecorded
    <3>4. \A n \in 1..progress' : n \in 1..(place + 1)
      BY <2>1, <2>4
    <3>5. QED
      BY <2>5, <3>1, <3>2, <3>3, <3>4 DEF ReleasedIsRecorded
  <2>9. QED
    BY <2>3, <2>7, <2>8
<1>8. QED
  BY <1>1, <1>2, <1>3, <1>4, <1>5, <1>6, <1>7 DEF SourceNext

(* What the loop has committed all of may be let go. *)
LEMMA UnitRecorded ==
  ASSUME IntakeInv, unit # None, todo = {}
  PROVE  \A x \in unit.items : Recorded(x) /\ x \in Items
BY DEF IntakeInv, IntakeTypeOK, Units, UnitInStep, Recorded

LEMMA ChannelType ==
  ASSUME IntakeInv
  PROVE  channel \in Seq(Payloads) /\ \A n \in 1..Len(channel) : channel[n].batch \in Batches
<1>1. channel \in Seq(Payloads)
  BY DEF IntakeInv, IntakeTypeOK
<1>2. \A n \in 1..Len(channel) : channel[n] \in Payloads
  BY <1>1
<1>3. QED
  BY <1>1, <1>2 DEF Payloads

(* The steps of the loop over the spool. *)
LEMMA SpoolInv ==
  IntakeInv /\ Grows /\ (Tick \/ Sigterm \/ OpenEntry \/ RemoveEntry) =>
    UnitInStep' /\ CursorsInStep' /\ ReleasedIsRecorded'
<1> SUFFICES ASSUME IntakeInv, Grows, Tick \/ Sigterm \/ OpenEntry \/ RemoveEntry
             PROVE  UnitInStep' /\ CursorsInStep' /\ ReleasedIsRecorded'
  OBVIOUS
<1>t. IntakeTypeOK /\ CursorsInStep /\ UnitInStep /\ ReleasedIsRecorded
  BY DEF IntakeInv
<1>1. CASE Tick \/ Sigterm
  <2>1. UNCHANGED <<unit, todo, offset, saved, chunk, place, progress, channel, fired, spool,
                    missed, export>> /\ unit = None /\ listing' = spool
    BY <1>1 DEF Tick, Sigterm, Selecting, spoolVars, otlpVars, tailVars, backfillVars
  <2>2. UnitInStep'
    BY <1>t, <2>1 DEF UnitInStep
  <2>3. QED
    BY <2>1, <2>2, CursorsFrame, ReleasedFrame
<1>2. CASE OpenEntry
  <2>1. /\ UNCHANGED <<offset, saved, chunk, place, progress, channel, fired, missed, export>>
        /\ unit = None /\ todo = {}
    BY <1>t, <1>2 DEF OpenEntry, UnitInStep, otlpVars, tailVars, backfillVars
  <2>2. PICK x \in listing :
          /\ listing' = listing \ {x}
          /\ IF x \in Malformed
               THEN /\ spool' = spool \ {x}
                    /\ UNCHANGED <<unit, todo>>
               ELSE /\ unit' = [kind |-> "entry", items |-> {Entry(x)}, waits |-> FALSE]
                    /\ todo' = Parts[Entry(x)]
                    /\ UNCHANGED spool
    BY <1>2 DEF OpenEntry
  <2>3. CursorsInStep'
    BY <2>1, CursorsFrame
  <2>4. CASE x \in Malformed
    <3>1. UnitInStep'
      BY <1>t, <2>1, <2>2, <2>4 DEF UnitInStep
    <3>2. Recorded(Entry(x))
      BY <2>4, IntakeAssumption DEF Recorded
    <3>3. \A y \in fired' \ (spool' \cup missed') : Recorded(Entry(y))'
      BY <1>t, <2>1, <2>2, <2>4, <3>2, RecordedStays, ItemsType
         DEF ReleasedIsRecorded, IntakeTypeOK
    <3>4. \A b \in Batches : export'[b] = "done" => Recorded(Batch(b))'
      BY <1>t, <2>1, RecordedStays, ItemsType DEF ReleasedIsRecorded
    <3>5. \A n \in 1..NumLines : 2 * n <= saved' => Recorded(Line(n))'
      BY <1>t, <2>1, RecordedStays, ItemsType DEF ReleasedIsRecorded
    <3>6. \A n \in 1..progress' : n \in 1..NumChunks
      BY <1>t, <2>1, IntakeAssumption DEF IntakeTypeOK
    <3>7. \A n \in 1..progress' : Recorded(Chunk(n))'
      BY <1>t, <2>1, <3>6, RecordedStays, ItemsType DEF ReleasedIsRecorded
    <3>8. QED
      BY <2>3, <3>1, <3>3, <3>4, <3>5, <3>7 DEF ReleasedIsRecorded
  <2>5. CASE x \notin Malformed
    <3>1. /\ unit' = [kind |-> "entry", items |-> {Entry(x)}, waits |-> FALSE]
          /\ todo' = Parts[Entry(x)] /\ UNCHANGED spool
      BY <2>2, <2>5
    <3>2. unit' # None => unit'.kind = "entry" /\ unit'.items = {Entry(x)}
      BY <3>1
    <3>3. unit' # None
      <4>1. Entry(x) \in Items
        BY <1>t, <2>2, ItemsType DEF IntakeTypeOK
      <4>2. [kind |-> "entry", items |-> {Entry(x)}, waits |-> FALSE] \in Units
        BY <4>1 DEF Units
      <4>3. QED
        BY <3>1, <4>2, NoneIsNoUnit
    <3>4. x \in spool' \ (missed' \cup listing')
      BY <1>t, <2>1, <2>2, <3>1 DEF UnitInStep
    <3>5. UnitInStep'
      BY <1>t, <2>1, <2>2, <3>1, <3>2, <3>3, <3>4 DEF UnitInStep, Identities
    <3>6. QED
      BY <2>1, <2>3, <3>1, <3>5, ReleasedFrame
  <2>6. QED
    BY <2>4, <2>5
<1>3. CASE RemoveEntry
  <2>1. /\ UNCHANGED <<offset, saved, chunk, place, progress, listing, todo, channel, fired,
                       missed, export>>
        /\ unit # None /\ unit.kind = "entry" /\ todo = {} /\ unit' = None
        /\ spool' = {x \in spool : unit.items # {Entry(x)}} \/ UNCHANGED spool
    BY <1>3 DEF RemoveEntry, Working, otlpVars, tailVars, backfillVars
  <2>2. PICK x \in spool \ (missed \cup listing) : unit.items = {Entry(x)}
    BY <1>t, <2>1 DEF UnitInStep
  <2>3. spool' = spool \ {x} \/ UNCHANGED spool
    BY <2>1, <2>2, ItemsApart
  <2>4. Recorded(Entry(x))
    BY <2>1, <2>2, UnitRecorded
  <2>5. UnitInStep'
    BY <1>t, <2>1, <2>2, <2>3 DEF UnitInStep
  <2>6. CursorsInStep'
    BY <2>1, CursorsFrame
  <2>7. \A y \in fired' \ (spool' \cup missed') : Recorded(Entry(y))'
    BY <1>t, <2>1, <2>3, <2>4, RecordedStays, ItemsType DEF ReleasedIsRecorded, IntakeTypeOK
  <2>8. \A b \in Batches : export'[b] = "done" => Recorded(Batch(b))'
    BY <1>t, <2>1, RecordedStays, ItemsType DEF ReleasedIsRecorded
  <2>9. \A n \in 1..NumLines : 2 * n <= saved' => Recorded(Line(n))'
    BY <1>t, <2>1, RecordedStays, ItemsType DEF ReleasedIsRecorded
  <2>10. \A n \in 1..progress' : n \in 1..NumChunks
    BY <1>t, <2>1, IntakeAssumption DEF IntakeTypeOK
  <2>11. \A n \in 1..progress' : Recorded(Chunk(n))'
    BY <1>t, <2>1, <2>10, RecordedStays, ItemsType DEF ReleasedIsRecorded
  <2>12. QED
    BY <2>5, <2>6, <2>7, <2>8, <2>9, <2>11 DEF ReleasedIsRecorded
<1>4. QED
  BY <1>1, <1>2, <1>3

(* The steps of the loop over the session file. *)
LEMMA RolloutInv ==
  IntakeInv /\ Grows /\ (ScanRollout \/ Checkpoint) =>
    UnitInStep' /\ CursorsInStep' /\ ReleasedIsRecorded'
<1> SUFFICES ASSUME IntakeInv, Grows, ScanRollout \/ Checkpoint
             PROVE  UnitInStep' /\ CursorsInStep' /\ ReleasedIsRecorded'
  OBVIOUS
<1>t. IntakeTypeOK /\ CursorsInStep /\ UnitInStep /\ ReleasedIsRecorded
  BY DEF IntakeInv
<1>n. /\ NumLines \in Nat /\ length \in Nat /\ offset \in 0..length /\ saved \in 0..length
      /\ saved <= offset /\ saved % 2 = 0 /\ offset % 2 = 0
  BY <1>t, IntakeAssumption DEF IntakeTypeOK, CursorsInStep
<1>p. place' = place
  BY DEF ScanRollout, Checkpoint, backfillVars
<1>c. /\ \A n \in 1..place : n \in 1..NumChunks
      /\ \A n \in 1..place : Recorded(Chunk(n))'
      /\ chunk = "acked" => Recorded(Chunk(place + 1))'
  <2>1. place \in 0..NumChunks /\ NumChunks \in Nat
    BY <1>t, IntakeAssumption DEF IntakeTypeOK
  <2>2. \A n \in 1..place : n \in 1..NumChunks
    BY <2>1
  <2>3. \A n \in 1..place : Recorded(Chunk(n))'
    BY <1>t, <2>2, RecordedStays, ItemsType DEF CursorsInStep
  <2>4. chunk = "acked" => Recorded(Chunk(place + 1))'
    <3> SUFFICES ASSUME chunk = "acked"
                 PROVE  Recorded(Chunk(place + 1))'
      OBVIOUS
    <3>1. place + 1 \in 1..NumChunks /\ Recorded(Chunk(place + 1))
      BY <1>t, <2>1 DEF CursorsInStep
    <3>2. QED
      BY <1>p, <3>1, RecordedStays, ItemsType
  <2>5. QED
    BY <2>2, <2>3, <2>4
<1>1. CASE ScanRollout
  <2>1. /\ UNCHANGED <<saved, chunk, place, progress, listing, channel, fired, spool, missed,
                       export>> /\ unit = None
    BY <1>1 DEF ScanRollout, spoolVars, otlpVars, backfillVars
  <2>2. PICK to \in {offset, Complete} :
          /\ offset' = to
          /\ unit' = [kind |-> "rollout",
                      items |-> {Line(n) : n \in LinesBetween(offset, to)}, waits |-> FALSE]
          /\ todo' = Identities({Line(n) : n \in LinesBetween(offset, to)})
    BY <1>1 DEF ScanRollout
  <2>3. to \in offset..length /\ to % 2 = 0
    <3>1. Complete \in offset..length /\ Complete % 2 = 0
      BY <1>n, CompleteBounds DEF Complete
    <3>2. QED
      BY <1>n, <2>2, <3>1
  <2>4. unit' # None /\ unit'.kind = "rollout" /\ unit'.items = {Line(n) : n \in LinesBetween(offset, to)}
    <3>1. {Line(n) : n \in LinesBetween(offset, to)} \subseteq Items
      BY ItemsType DEF LinesBetween
    <3>2. unit' \in Units
      BY <2>2, <3>1 DEF Units
    <3>3. QED
      BY <2>2, <3>2, NoneIsNoUnit
  <2>5. UnitInStep'
    <3>1. \A x \in unit'.items : \E n \in 1..NumLines : x = Line(n) /\ 2 * n <= offset'
      BY <2>2, <2>4 DEF LinesBetween
    <3>2. todo' \subseteq Identities(unit'.items)
      BY <2>2, <2>4
    <3>3. \A x \in unit'.items : \A i \in Parts[x] : i \in todo'
      BY <2>2, <2>4 DEF Identities
    <3>4. QED
      BY <1>t, <2>1, <2>4, <3>1, <3>2, <3>3 DEF UnitInStep, Identities
  <2>6. \A n \in 1..NumLines : 2 * n <= offset' =>
          Recorded(Line(n))' \/ (unit' # None /\ unit'.kind = "rollout" /\ Line(n) \in unit'.items)
    <3> SUFFICES ASSUME NEW n \in 1..NumLines, 2 * n <= offset'
                 PROVE  Recorded(Line(n))' \/ Line(n) \in unit'.items
      BY <2>4
    <3>1. CASE 2 * n <= offset
      BY <1>t, <2>1, <3>1, RecordedStays, ItemsType DEF CursorsInStep
    <3>2. CASE ~(2 * n <= offset)
      <4>1. offset <= 2 * (n - 1)
        BY <1>n, <3>2
      <4>2. n \in LinesBetween(offset, to)
        BY <2>2, <4>1 DEF LinesBetween
      <4>3. QED
        BY <2>4, <4>2
    <3>3. QED
      BY <3>1, <3>2
  <2>7. saved' <= offset' /\ saved' % 2 = 0 /\ offset' % 2 = 0
    BY <1>n, <2>1, <2>2, <2>3
  <2>8. CursorsInStep'
    BY <1>t, <1>c, <2>1, <2>6, <2>7 DEF CursorsInStep
  <2>9. QED
    BY <2>1, <2>5, <2>8, ReleasedFrame
<1>2. CASE Checkpoint
  <2>1. /\ UNCHANGED <<offset, chunk, place, progress, listing, todo, channel, fired, spool,
                       missed, export>>
        /\ unit # None /\ unit.kind = "rollout" /\ todo = {} /\ unit' = None /\ saved' = offset
    BY <1>2 DEF Checkpoint, Working, spoolVars, otlpVars, backfillVars
  <2>2. \A n \in 1..NumLines : 2 * n <= offset => Recorded(Line(n))'
    BY <1>t, <2>1, UnitRecorded, RecordedStays, ItemsType DEF CursorsInStep
  <2>3. UnitInStep'
    BY <1>t, <2>1 DEF UnitInStep
  <2>4. CursorsInStep'
    BY <1>t, <1>n, <1>c, <2>1, <2>2 DEF CursorsInStep
  <2>5. \A x \in fired' \ (spool' \cup missed') : Recorded(Entry(x))'
    BY <1>t, <2>1, RecordedStays, ItemsType DEF ReleasedIsRecorded, IntakeTypeOK
  <2>6. \A b \in Batches : export'[b] = "done" => Recorded(Batch(b))'
    BY <1>t, <2>1, RecordedStays, ItemsType DEF ReleasedIsRecorded
  <2>7. \A n \in 1..progress' : Recorded(Chunk(n))'
    <3>1. progress \in Nat /\ place \in Nat /\ progress <= place
      BY <1>t, IntakeAssumption DEF CursorsInStep, IntakeTypeOK
    <3>2. QED
      BY <1>c, <2>1, <3>1
  <2>8. QED
    BY <2>1, <2>2, <2>3, <2>4, <2>5, <2>6, <2>7 DEF ReleasedIsRecorded
<1>3. QED
  BY <1>1, <1>2

(* The steps of the loop over requests and chunks, and its other steps. *)
LEMMA BatchInv ==
  IntakeInv /\ Grows /\ (TakeBatch \/ AnswerBatch) =>
    UnitInStep' /\ CursorsInStep' /\ ReleasedIsRecorded'
<1> SUFFICES ASSUME IntakeInv, Grows, TakeBatch \/ AnswerBatch
             PROVE  UnitInStep' /\ CursorsInStep' /\ ReleasedIsRecorded'
  OBVIOUS
<1>t. IntakeTypeOK /\ CursorsInStep /\ UnitInStep /\ ReleasedIsRecorded
  BY DEF IntakeInv
<1>1. CASE TakeBatch
  <2> DEFINE b == Head(channel).batch
  <2>1. /\ UNCHANGED <<offset, saved, chunk, place, progress, listing, fired, spool, missed,
                       export>>
        /\ unit = None /\ channel # <<>> /\ channel' = Tail(channel)
        /\ unit' = [kind |-> "batch", items |-> {Batch(b)}, waits |-> Head(channel).waits]
        /\ todo' = Parts[Batch(b)]
    BY <1>1 DEF TakeBatch, Selecting, spoolVars, tailVars, backfillVars
  <2>2. /\ b = channel[1].batch /\ 1 \in 1..Len(channel)
        /\ Len(channel') = Len(channel) - 1
        /\ \A n \in 1..Len(channel') : channel'[n] = channel[n + 1] /\ n + 1 \in 1..Len(channel)
    BY <2>1, ChannelType
  <2>3. b \in Batches /\ export[b] # "new"
    BY <1>t, <2>2, ChannelType DEF UnitInStep
  <2>4. unit' # None => unit'.kind = "batch" /\ unit'.items = {Batch(b)}
    BY <2>1
  <2>5. unit' # None
    <3>1. Head(channel) \in Payloads
      BY <2>1, ChannelType
    <3>2. unit' \in Units
      BY <2>1, <2>3, <3>1, ItemsType DEF Units, Payloads
    <3>3. QED
      BY <3>2, NoneIsNoUnit
  <2>6. UnitInStep'
    BY <1>t, <2>1, <2>2, <2>3, <2>4, <2>5 DEF UnitInStep, Identities
  <2>7. QED
    BY <2>1, <2>6, CursorsFrame, ReleasedFrame
<1>2. CASE AnswerBatch
  <2>1. /\ UNCHANGED <<offset, saved, chunk, place, progress, listing, todo, channel, fired,
                       spool, missed>>
        /\ unit # None /\ unit.kind = "batch" /\ todo = {} /\ unit' = None
        /\ export' = [b \in Batches |->
              IF unit.waits /\ unit.items = {Batch(b)} THEN "done" ELSE export[b]]
    BY <1>2 DEF AnswerBatch, Working, spoolVars, tailVars, backfillVars
  <2>2. \A b \in Batches : export'[b] = "done" => Recorded(Batch(b))'
    <3> SUFFICES ASSUME NEW b \in Batches, export'[b] = "done"
                 PROVE  Recorded(Batch(b))'
      OBVIOUS
    <3>1. CASE unit.items = {Batch(b)}
      BY <2>1, <3>1, UnitRecorded, RecordedStays
    <3>2. CASE unit.items # {Batch(b)}
      <4>1. export[b] = "done"
        BY <2>1, <3>2
      <4>2. QED
        BY <1>t, <4>1, RecordedStays, ItemsType DEF ReleasedIsRecorded
    <3>3. QED
      BY <3>1, <3>2
  <2>3. \A b \in Batches : export[b] # "new" => export'[b] # "new"
    BY <2>1
  <2>4. UnitInStep'
    BY <1>t, <2>1, <2>3, ChannelType DEF UnitInStep
  <2>5. CursorsInStep'
    BY <2>1, CursorsFrame
  <2>6. \A x \in fired' \ (spool' \cup missed') : Recorded(Entry(x))'
    BY <1>t, <2>1, RecordedStays, ItemsType DEF ReleasedIsRecorded, IntakeTypeOK
  <2>7. \A n \in 1..NumLines : 2 * n <= saved' => Recorded(Line(n))'
    BY <1>t, <2>1, RecordedStays, ItemsType DEF ReleasedIsRecorded
  <2>8. \A n \in 1..progress' : n \in 1..NumChunks
    BY <1>t, <2>1, IntakeAssumption DEF IntakeTypeOK
  <2>9. \A n \in 1..progress' : Recorded(Chunk(n))'
    BY <1>t, <2>1, <2>8, RecordedStays, ItemsType DEF ReleasedIsRecorded
  <2>10. QED
    BY <2>2, <2>4, <2>5, <2>6, <2>7, <2>9 DEF ReleasedIsRecorded
<1>3. QED
  BY <1>1, <1>2

LEMMA ChunkInv ==
  IntakeInv /\ Grows /\ (TakeChunk \/ AckChunk) =>
    UnitInStep' /\ CursorsInStep' /\ ReleasedIsRecorded'
<1> SUFFICES ASSUME IntakeInv, Grows, TakeChunk \/ AckChunk
             PROVE  UnitInStep' /\ CursorsInStep' /\ ReleasedIsRecorded'
  OBVIOUS
<1>t. IntakeTypeOK /\ CursorsInStep /\ UnitInStep /\ ReleasedIsRecorded
  BY DEF IntakeInv
<1>f. UNCHANGED <<offset, saved, place, progress, listing, channel, fired, spool, missed, export>>
  BY DEF TakeChunk, AckChunk, spoolVars, otlpVars, tailVars
<1>1. chunk # "none" /\ place < NumChunks /\ Chunk(place + 1) \in Items
  <2>1. chunk # "none"
    BY <1>t DEF TakeChunk, AckChunk, Working, UnitInStep
  <2>2. place \in 0..NumChunks /\ NumChunks \in Nat /\ place < NumChunks
    BY <1>t, <2>1, IntakeAssumption DEF IntakeTypeOK, CursorsInStep
  <2>3. place + 1 \in 1..NumChunks
    BY <2>2
  <2>4. QED
    BY <2>1, <2>2, <2>3, ItemsType
<1>2. UnitInStep' /\ (chunk' = "acked" => Recorded(Chunk(place + 1))')
  <2>1. CASE TakeChunk
    <3>1. /\ chunk' = "taken"
          /\ unit' = [kind |-> "chunk", items |-> {Chunk(place + 1)}, waits |-> TRUE]
          /\ todo' = Parts[Chunk(place + 1)]
      BY <2>1 DEF TakeChunk
    <3>2. unit' \in Units
      <4>1. {Chunk(place + 1)} \subseteq Items
        BY <1>1
      <4>2. [kind |-> "chunk", items |-> {Chunk(place + 1)}, waits |-> TRUE] \in Units
        BY <4>1 DEF Units
      <4>3. QED
        BY <3>1, <4>2
    <3>3. unit'.kind = "chunk" /\ unit'.items = {Chunk(place + 1)}
      BY <3>1
    <3>4. QED
      BY <1>t, <1>f, <3>1, <3>2, <3>3, NoneIsNoUnit DEF UnitInStep, Identities
  <2>2. CASE AckChunk
    <3>1. /\ unit # None /\ unit.kind = "chunk" /\ todo = {} /\ unit' = None /\ todo' = todo
      BY <2>2 DEF AckChunk, Working
    <3>2. Recorded(Chunk(place + 1))
      BY <1>t, <3>1, UnitRecorded DEF UnitInStep
    <3>3. Recorded(Chunk(place + 1))'
      BY <1>f, <1>1, <3>2, RecordedStays
    <3>4. QED
      BY <1>t, <1>f, <3>1, <3>3 DEF UnitInStep
  <2>3. QED
    BY <2>1, <2>2
<1>3. CursorsInStep'
  <2>1. unit = None \/ unit.kind # "rollout"
    BY DEF TakeChunk, AckChunk, Selecting, Working
  <2>2. \A n \in 1..NumLines : 2 * n <= offset => Recorded(Line(n))'
    BY <1>t, <2>1, RecordedStays, ItemsType DEF CursorsInStep
  <2>3. place \in 0..NumChunks /\ NumChunks \in Nat
    BY <1>t, IntakeAssumption DEF IntakeTypeOK
  <2>4. \A n \in 1..place : Recorded(Chunk(n))'
    BY <1>t, <2>3, RecordedStays, ItemsType DEF CursorsInStep
  <2>5. QED
    BY <1>t, <1>f, <1>1, <1>2, <2>2, <2>4 DEF CursorsInStep
<1>4. QED
  BY <1>f, <1>2, <1>3, ReleasedFrame

(* What Persist takes off the list of identities to commit is recorded. *)
LEMMA PersistInv ==
  IntakeInv /\ Grows /\ Persist => UnitInStep' /\ CursorsInStep' /\ ReleasedIsRecorded'
<1> SUFFICES ASSUME IntakeInv, Grows, Persist
             PROVE  UnitInStep' /\ CursorsInStep' /\ ReleasedIsRecorded'
  OBVIOUS
<1>t. IntakeTypeOK /\ CursorsInStep /\ UnitInStep /\ ReleasedIsRecorded
  BY DEF IntakeInv
<1>1. /\ UNCHANGED <<offset, saved, chunk, place, progress, listing, channel, fired, spool,
                     missed, export, unit>>
      /\ unit # None
  BY DEF Persist, spoolVars, otlpVars, tailVars, backfillVars
<1>2. PICK i \in todo : /\ IF PassedOver(i) THEN UNCHANGED storeVars
                           ELSE Ingest(i, Reading[i][label], Signed)
                        /\ todo' = todo \ {i}
  BY DEF Persist
<1>3. i \in Ids /\ Reading[i][label] \in Events
  BY <1>t, IntakeAssumption DEF IntakeTypeOK
<1>4. local'[i] # None
  <2>1. CASE PassedOver(i)
    BY <1>2, <2>1 DEF PassedOver, storeVars, ledgerVars
  <2>2. CASE ~PassedOver(i)
    <3>1. local'[i] = Reading[i][label]
      BY <1>t, <1>2, <1>3, <2>2
         DEF Ingest, IngestNew, IngestReplay, storeVars, ledgerVars, IntakeTypeOK, StoreTypeOK
    <3>2. QED
      BY <1>3, <3>1, StoreAssumption
  <2>3. QED
    BY <2>1, <2>2
<1>5. \A x \in unit.items : \A j \in Parts[x] : local'[j] # None \/ j \in todo'
  BY <1>t, <1>1, <1>2, <1>4, ItemsType DEF UnitInStep, Grows, IntakeTypeOK, Units
<1>6. UnitInStep'
  BY <1>t, <1>1, <1>2, <1>5 DEF UnitInStep, Identities
<1>7. QED
  BY <1>1, <1>6, CursorsFrame, ReleasedFrame

LEMMA IntakeInvStep == IntakeInv /\ [IntakeNext]_intakeVars => IntakeInv'
<1> SUFFICES ASSUME IntakeInv, [IntakeNext]_intakeVars
             PROVE  IntakeInv'
  OBVIOUS
<1>1. IntakeTypeOK'
  BY IntakeTypeStep
<1>2. Grows
  BY LedgerGrows DEF IntakeInv
<1> SUFFICES UnitInStep' /\ CursorsInStep' /\ ReleasedIsRecorded'
  BY <1>1 DEF IntakeInv
<1>3. CASE SourceNext
  BY <1>2, <1>3, SourceInv
<1>4. CASE Crash \/ Exit \/ Conflict
  BY <1>2, <1>4, EndsInv DEF Crash, Exit, Conflict
<1>5. CASE Begin \/ Upload \/ LastDrain \/ UNCHANGED intakeVars
  <2>1. UNCHANGED <<spoolVars, otlpVars, tailVars, backfillVars, listing, unit, todo>>
    BY <1>5 DEF Begin, Upload, LastDrain, intakeVars, loopVars
  <2>2. UNCHANGED <<unit, todo, offset, saved, chunk, place, progress, listing, channel, fired,
                    spool, missed, export>>
    BY <2>1 DEF spoolVars, otlpVars, tailVars, backfillVars
  <2>3. spool' \cap missed' = {}
    BY <2>2 DEF IntakeInv, UnitInStep
  <2>4. QED
    BY <1>2, <2>2, <2>3, UnitFrame, CursorsFrame, ReleasedFrame
<1>6. QED
  BY <1>2, <1>3, <1>4, <1>5, SpoolInv, RolloutInv, BatchInv, ChunkInv, PersistInv
     DEF IntakeNext, LoopNext
-----------------------------------------------------------------------------

(* Intake drives the database only through the transactions of Store, so   *)
(* that what is proved of those holds of the running collector.            *)
THEOREM IntakeRefinesStore == IntakeSpec => StoreSpec
<1>1. IntakeInit => StoreInit
  BY DEF IntakeInit
<1>2. IntakeInv /\ [IntakeNext]_intakeVars => [StoreNext]_storeVars
  BY IntakeStoreStep DEF IntakeInv
<1>3. QED
  BY <1>1, <1>2, IntakeInvInit, IntakeInvStep, PTL DEF IntakeSpec, StoreSpec

THEOREM IntakeInvariant == IntakeSpec => []IntakeInv
BY IntakeInvInit, IntakeInvStep, PTL DEF IntakeSpec

(* Every variable of the loop and of the sources keeps its range. *)
THEOREM IntakeTyped == IntakeSpec => []IntakeTypeOK
<1>1. IntakeInv => IntakeTypeOK
  BY DEF IntakeInv
<1>2. QED
  BY <1>1, IntakeInvariant, PTL

(* Whatever the number of hooks, batches, lines and chunks, whatever the   *)
(* order of the loop's steps and wherever it dies: what a source was told  *)
(* to let go is in the ledger.                                             *)
THEOREM IntakeReleasedIsRecorded == IntakeSpec => []ReleasedIsRecorded
<1>1. IntakeInv => ReleasedIsRecorded
  BY DEF IntakeInv
<1>2. QED
  BY <1>1, IntakeInvariant, PTL

-----------------------------------------------------------------------------
(* Conflicts.  What enrichment adds may change (Reading), and the code     *)
(* compares a record with the one it holds unless it passes it over: a     *)
(* spool entry always, Codex usage in what OTLP and the session files      *)
(* report.  So the agent can stop (NeverConflicts is of an instance where  *)
(* nothing else reads differently; RestartLosesNothing is refuted where a  *)
(* batch does); what it can stop over is proved here.                      *)

(* One identity, read with what events are enriched from in two states,    *)
(* is recorded in the one and does not read so in the other.               *)
ReadAnew(i) ==
  \E l \in Labels : local[i] = Reading[i][l] /\ Reading[i][l] # Reading[i][label]

(* What would end the agent was recorded in another state of what events   *)
(* are enriched from, and is neither of a spool entry nor Codex usage that *)
(* a batch or a session file reports.                                      *)
OnlyReadAnewConflicts ==
  unit # None =>
    \A i \in todo : Conflicting(i) =>
      /\ unit.kind # "entry"
      /\ i \in Usage => unit.kind = "chunk"
      /\ ReadAnew(i)

(* Whatever is recorded is what its identity read as at some moment.       *)
LedgerRead == \A i \in Ids : local[i] # None => \E l \in Labels : local[i] = Reading[i][l]

LEMMA LedgerReadStep ==
  IntakeTypeOK /\ LedgerRead /\ [IntakeNext]_intakeVars => LedgerRead'
<1> SUFFICES ASSUME IntakeTypeOK, LedgerRead, [IntakeNext]_intakeVars
             PROVE  LedgerRead'
  OBVIOUS
<1>1. CASE Begin
  <2>1. \A i \in Ids : local'[i] = local[i]
    BY <1>1, IntakeAssumption
       DEF Begin, Open, KeepOr, ledgerVars, IntakeTypeOK, StoreTypeOK
  <2>2. QED
    BY <2>1 DEF LedgerRead
<1>2. CASE Persist
  <2>1. PICK i \in todo : IF PassedOver(i) THEN UNCHANGED storeVars
                          ELSE Ingest(i, Reading[i][label], Signed)
    BY <1>2 DEF Persist
  <2>2. i \in Ids /\ label \in Labels
    BY DEF IntakeTypeOK
  <2>3. \A j \in Ids : local'[j] = local[j] \/ (j = i /\ local'[j] = Reading[i][label])
    BY <2>1, <2>2 DEF Ingest, IngestNew, IngestReplay, storeVars, ledgerVars, IntakeTypeOK,
                      StoreTypeOK
  <2>4. QED
    BY <2>2, <2>3 DEF LedgerRead
<1>3. CASE local' = local
  BY <1>3 DEF LedgerRead
<1>4. ASSUME Ends
      PROVE  local' = local
  BY <1>4 DEF Ends, Close, ledgerVars
<1>5. CASE SourceNext
  BY <1>3, <1>5 DEF SourceNext, Hook, Post, TimeOut, GiveUp, Write, Relabel, SendChunk,
     RecordProgress, storeVars, ledgerVars
<1>6. CASE LoopNext
  BY <1>2, <1>3, <1>4, <1>6 DEF LoopNext, OpenEntry, RemoveEntry, ScanRollout, Checkpoint,
     AnswerBatch, AckChunk, Conflict, LastDrain, Exit, storeVars, ledgerVars
<1>7. CASE Tick \/ Sigterm \/ TakeBatch \/ TakeChunk \/ Upload
  BY <1>3, <1>7 DEF Tick, Sigterm, TakeBatch, TakeChunk, Upload, Acknowledge, storeVars,
     ledgerVars
<1>8. CASE Crash
  BY <1>3, <1>4, <1>8 DEF Crash
<1>9. QED
  BY <1>1, <1>3, <1>5, <1>6, <1>7, <1>8 DEF IntakeNext, intakeVars, storeVars, ledgerVars

LEMMA WhatConflicts == IntakeInv /\ LedgerRead => OnlyReadAnewConflicts
<1> SUFFICES ASSUME IntakeInv, LedgerRead, unit # None, NEW i \in todo, Conflicting(i)
             PROVE  /\ unit.kind # "entry"
                    /\ i \in Usage => unit.kind = "chunk"
                    /\ ReadAnew(i)
  BY DEF OnlyReadAnewConflicts
<1>1. i \in Ids /\ unit.kind \in {"entry", "batch", "rollout", "chunk"}
  BY DEF IntakeInv, IntakeTypeOK, Units
<1>2. ~PassedOver(i) /\ local[i] # None /\ local[i] # Reading[i][label]
  BY DEF Conflicting, Conflicts
<1>3. unit.kind # "entry" /\ (i \in Usage => unit.kind = "chunk")
  BY <1>1, <1>2 DEF PassedOver
<1>4. ReadAnew(i)
  BY <1>1, <1>2 DEF LedgerRead, ReadAnew
<1>5. QED
  BY <1>3, <1>4

(* Whatever is read again and however the loop is cut off, the agent stops *)
(* over an identity it holds only where what events are enriched from has  *)
(* changed for it since, and never over a spool entry, or over Codex usage *)
(* that OTLP and a session file report (persist_event, drain_spool,        *)
(* scan_pending).  Nothing is assumed of what reads differently.           *)
THEOREM IntakeConflictsAreReadAnew == IntakeSpec => []OnlyReadAnewConflicts
<1>1. IntakeInit => LedgerRead
  BY DEF IntakeInit, StoreInit, LedgerRead
<1>2. IntakeInv /\ LedgerRead /\ [IntakeNext]_intakeVars => LedgerRead'
  BY LedgerReadStep DEF IntakeInv
<1>3. IntakeInv /\ LedgerRead => OnlyReadAnewConflicts
  BY WhatConflicts
<1>4. QED
  BY <1>1, <1>2, <1>3, IntakeInvariant, PTL DEF IntakeSpec

-----------------------------------------------------------------------------
(* What the answer to a request rests on: only the copy that still waits   *)
(* for one can get it, and no other copy of that batch waits.              *)
WaitsInStep ==
  /\ \A n \in 1..Len(channel) : channel[n].waits => export[channel[n].batch] = "waiting"
  /\ \A m, n \in 1..Len(channel) :
       channel[m].waits /\ channel[n].waits /\ channel[m].batch = channel[n].batch => m = n
  /\ unit # None /\ unit.kind = "batch" /\ unit.waits =>
       \A b \in Batches : unit.items = {Batch(b)} =>
         /\ export[b] = "waiting"
         /\ \A n \in 1..Len(channel) : channel[n].waits => channel[n].batch # b

(* The parts of HeldItems, ReleasedItems and LostItems. *)
Failing == {b \in Batches : export[b] \in {"failed", "waiting"}}
Answered == {b \in Batches : export[b] = "done"}
Dropped == {b \in Batches : export[b] = "dropped"}
Unsaved == {m \in 1..NumLines : 2 * m <= length /\ 2 * m > saved}
Saved == {m \in 1..NumLines : 2 * m <= saved}

DeliveryStep == [D!DeliveryNext]_(D!deliveryVars)

LEMMA Stutters ==
  ASSUME RecordedIds' = RecordedIds, spool' = spool, fired' \ (spool' \cup missed') = fired \ (spool \cup missed),
         Failing' = Failing, Answered' = Answered, Dropped' = Dropped,
         Unsaved' = Unsaved, Saved' = Saved, progress' = progress
  PROVE  DeliveryStep
<1>1. HeldItems' = HeldItems
  BY DEF HeldItems, Failing, Unsaved
<1>2. ReleasedItems' = ReleasedItems
  BY DEF ReleasedItems, Answered, Saved
<1>3. LostItems' = LostItems
  BY DEF LostItems, Dropped
<1>4. QED
  BY <1>1, <1>2, <1>3 DEF DeliveryStep, D!deliveryVars

(* A step that leaves requests alone, or takes up something else. *)
LEMMA WaitsFrame ==
  ASSUME WaitsInStep, channel' = channel, export' = export,
         unit' = unit \/ unit' = None \/ unit'.kind # "batch"
  PROVE  WaitsInStep'
BY DEF WaitsInStep

LEMMA PostWaits ==
  ASSUME IntakeInv, WaitsInStep, NEW b \in Batches, Post(b)
  PROVE  WaitsInStep'
<1>t. IntakeTypeOK
  BY DEF IntakeInv
<1>1. unit' = unit /\ export[b] # "waiting"
  BY DEF Post, loopVars
<1>2. \A c \in Batches : c # b => export'[c] = export[c]
  BY <1>t DEF Post, IntakeTypeOK
<1>3. \A n \in 1..Len(channel) : channel[n].waits => channel[n].batch # b /\ channel[n].batch \in Batches
  BY <1>1, ChannelType DEF WaitsInStep
<1>4. CASE channel' = channel
  BY <1>1, <1>2, <1>3, <1>4 DEF WaitsInStep
<1>5. CASE channel' = Append(channel, [batch |-> b, waits |-> TRUE]) /\ export'[b] = "waiting"
  <2>1. /\ Len(channel') = Len(channel) + 1
        /\ \A n \in 1..Len(channel) : channel'[n] = channel[n]
        /\ channel'[Len(channel) + 1] = [batch |-> b, waits |-> TRUE]
        /\ \A n \in 1..Len(channel') : n \in 1..Len(channel) \/ n = Len(channel) + 1
    BY <1>5, ChannelType
  <2>2. channel'[Len(channel) + 1].batch = b
    BY <2>1
  <2>3. \A n \in 1..Len(channel') : channel'[n].waits => export'[channel'[n].batch] = "waiting"
    BY <1>2, <1>3, <1>5, <2>1, <2>2 DEF WaitsInStep
  <2>4. \A m, n \in 1..Len(channel') :
          channel'[m].waits /\ channel'[n].waits /\ channel'[m].batch = channel'[n].batch => m = n
    BY <1>3, <2>1, <2>2 DEF WaitsInStep
  <2>5. ASSUME unit # None, unit.kind = "batch", unit.waits,
               NEW c \in Batches, unit.items = {Batch(c)}
        PROVE  /\ export'[c] = "waiting"
               /\ \A n \in 1..Len(channel') : channel'[n].waits => channel'[n].batch # c
    <3>1. export[c] = "waiting" /\ c # b
      BY <1>1, <2>5 DEF WaitsInStep
    <3>2. QED
      BY <1>2, <2>1, <2>2, <2>5, <3>1 DEF WaitsInStep
  <2>6. QED
    BY <1>1, <2>3, <2>4, <2>5 DEF WaitsInStep
<1>6. CASE open /\ Len(channel) < Capacity
  <2>1. export'[b] = "waiting" /\ channel' = Append(channel, [batch |-> b, waits |-> TRUE])
    BY <1>t, <1>6 DEF Post, IntakeTypeOK
  <2>2. QED
    BY <1>5, <2>1
<1>7. QED
  BY <1>4, <1>6 DEF Post

LEMMA TimeOutWaits ==
  ASSUME IntakeInv, WaitsInStep, NEW b \in Batches, TimeOut(b)
  PROVE  WaitsInStep'
<1>t. IntakeTypeOK
  BY DEF IntakeInv
<1>1. \A c \in Batches : c # b => export'[c] = export[c]
  BY <1>t DEF TimeOut, IntakeTypeOK
<1>2. DOMAIN channel = 1..Len(channel) /\ \A n \in 1..Len(channel) : channel[n] \in Payloads
  BY ChannelType
<1>3. channel' = [n \in DOMAIN channel |->
        IF channel[n].batch = b THEN [channel[n] EXCEPT !.waits = FALSE] ELSE channel[n]]
  BY DEF TimeOut
<1>4. \A n \in 1..Len(channel) :
        /\ channel'[n] \in Payloads
        /\ channel'[n].batch = channel[n].batch
        /\ channel'[n].waits => channel[n].waits /\ channel[n].batch # b
  BY <1>2, <1>3 DEF Payloads
<1>5. Len(channel') = Len(channel)
  <2>1. channel' \in [DOMAIN channel -> Payloads]
    BY <1>2, <1>3, <1>4
  <2>2. QED
    BY <2>1, ChannelType, PayloadsType
<1>6. unit # None /\ unit.items # {Batch(b)} => unit' = unit
  BY DEF TimeOut
<1>7. unit' # None /\ unit'.waits => unit' = unit /\ unit.items # {Batch(b)}
  BY <1>t, NoneIsNoUnit DEF TimeOut, IntakeTypeOK, Units
<1>8. /\ \A n \in 1..Len(channel') : channel'[n].waits => export'[channel'[n].batch] = "waiting"
      /\ \A m, n \in 1..Len(channel') :
           channel'[m].waits /\ channel'[n].waits /\ channel'[m].batch = channel'[n].batch => m = n
  BY <1>1, <1>4, <1>5, ChannelType DEF WaitsInStep
<1>9. ASSUME unit' # None, unit'.kind = "batch", unit'.waits,
             NEW c \in Batches, unit'.items = {Batch(c)}
      PROVE  /\ export'[c] = "waiting"
             /\ \A n \in 1..Len(channel') : channel'[n].waits => channel'[n].batch # c
  <2>1. unit' = unit /\ c # b
    BY <1>7, <1>9
  <2>2. QED
    BY <1>1, <1>4, <1>5, <1>9, <2>1 DEF WaitsInStep
<1>10. QED
  BY <1>8, <1>9 DEF WaitsInStep

LEMMA BatchWaits ==
  ASSUME IntakeInv, WaitsInStep, TakeBatch \/ AnswerBatch
  PROVE  WaitsInStep'
<1>1. CASE TakeBatch
  <2> DEFINE b == Head(channel).batch
  <2>1. /\ channel # <<>> /\ channel' = Tail(channel) /\ export' = export
        /\ unit' = [kind |-> "batch", items |-> {Batch(b)}, waits |-> Head(channel).waits]
    BY <1>1 DEF TakeBatch
  <2>2. /\ Head(channel) = channel[1] /\ 1 \in 1..Len(channel)
        /\ Len(channel') = Len(channel) - 1
        /\ \A n \in 1..Len(channel') :
             channel'[n] = channel[n + 1] /\ n + 1 \in 1..Len(channel) /\ n + 1 # 1
    BY <2>1, ChannelType
  <2>3. /\ \A n \in 1..Len(channel') : channel'[n].waits => export'[channel'[n].batch] = "waiting"
        /\ \A m, n \in 1..Len(channel') :
             channel'[m].waits /\ channel'[n].waits /\ channel'[m].batch = channel'[n].batch => m = n
    <3>1. \A n \in 1..Len(channel') : channel'[n].waits => export'[channel'[n].batch] = "waiting"
      BY <2>1, <2>2 DEF WaitsInStep
    <3>2. ASSUME NEW m \in 1..Len(channel'), NEW n \in 1..Len(channel'),
                 channel'[m].waits, channel'[n].waits, channel'[m].batch = channel'[n].batch
          PROVE  m = n
      <4>1. /\ m + 1 \in 1..Len(channel) /\ n + 1 \in 1..Len(channel)
            /\ channel[m + 1].waits /\ channel[n + 1].waits
            /\ channel[m + 1].batch = channel[n + 1].batch
        BY <2>2, <3>2
      <4>2. m + 1 = n + 1
        BY <4>1 DEF WaitsInStep
      <4>3. QED
        BY <4>2
    <3>3. QED
      BY <3>1, <3>2
  <2>4. ASSUME unit'.waits, NEW c \in Batches, unit'.items = {Batch(c)}
        PROVE  /\ export'[c] = "waiting"
               /\ \A n \in 1..Len(channel') : channel'[n].waits => channel'[n].batch # c
    <3>1. unit'.items = {Batch(b)} /\ unit'.waits = Head(channel).waits
      BY <2>1
    <3>2. c = b
      <4>1. {Batch(c)} = {Batch(b)}
        BY <2>4, <3>1
      <4>2. Batch(c) = Batch(b)
        BY <4>1
      <4>3. QED
        BY <4>2, ItemsApart
    <3>3. channel[1].waits
      <4>1. Head(channel).waits
        BY <2>4, <3>1
      <4>2. Head(channel) = channel[1]
        BY <2>2
      <4>3. QED
        BY <4>1, <4>2
    <3>4. QED
      BY <2>1, <2>2, <3>2, <3>3 DEF WaitsInStep
  <2>5. QED
    BY <2>3, <2>4 DEF WaitsInStep
<1>2. CASE AnswerBatch
  <2>1. /\ channel' = channel /\ unit' = None /\ unit # None /\ unit.kind = "batch"
        /\ export' = [b \in Batches |->
              IF unit.waits /\ unit.items = {Batch(b)} THEN "done" ELSE export[b]]
    BY <1>2 DEF AnswerBatch, Working
  <2>2. \A n \in 1..Len(channel) : channel[n].waits => export'[channel[n].batch] = export[channel[n].batch]
    BY <2>1, ChannelType DEF WaitsInStep
  <2>3. QED
    BY <2>1, <2>2 DEF WaitsInStep
<1>3. QED
  BY <1>1, <1>2

LEMMA WaitsStep == IntakeInv /\ WaitsInStep /\ [IntakeNext]_intakeVars => WaitsInStep'
<1> SUFFICES ASSUME IntakeInv, WaitsInStep, [IntakeNext]_intakeVars
             PROVE  WaitsInStep'
  OBVIOUS
<1>t. IntakeTypeOK
  BY DEF IntakeInv
<1>1. ASSUME NEW b \in Batches, GiveUp(b)
      PROVE  WaitsInStep'
  <2>1. /\ channel' = channel /\ unit' = unit /\ export[b] = "failed"
        /\ \A c \in Batches : c # b => export'[c] = export[c]
    BY <1>t, <1>1 DEF GiveUp, loopVars, IntakeTypeOK
  <2>2. \A n \in 1..Len(channel) : channel[n].batch \in Batches
    BY ChannelType
  <2>3. QED
    BY <2>1, <2>2 DEF WaitsInStep
<1>2. ASSUME Ends
      PROVE  WaitsInStep'
  BY <1>2 DEF Ends, WaitsInStep
<1>3. CASE OpenEntry
  <2>1. channel' = channel /\ export' = export
    BY <1>3 DEF OpenEntry, otlpVars
  <2>2. unit' = unit \/ unit'.kind # "batch"
    BY <1>3 DEF OpenEntry
  <2>3. QED
    BY <2>1, <2>2, WaitsFrame
<1>4. CASE ScanRollout
  <2>1. channel' = channel /\ export' = export
    BY <1>4 DEF ScanRollout, otlpVars
  <2>2. unit'.kind # "batch"
    BY <1>4 DEF ScanRollout
  <2>3. QED
    BY <2>1, <2>2, WaitsFrame
<1>5. CASE TakeChunk
  <2>1. channel' = channel /\ export' = export /\ unit'.kind # "batch"
    BY <1>5 DEF TakeChunk, otlpVars
  <2>2. QED
    BY <2>1, WaitsFrame
<1>6. ASSUME UNCHANGED <<channel, export>>, unit' = unit \/ unit' = None
      PROVE  WaitsInStep'
  BY <1>6, WaitsFrame
<1>7. CASE SourceNext
  <2>1. ASSUME NEW x \in Entries, Hook(x)
        PROVE  WaitsInStep'
    BY <1>6, <2>1 DEF Hook, otlpVars, loopVars
  <2>2. CASE Write \/ (\E l \in Labels : Relabel(l)) \/ SendChunk \/ RecordProgress
    BY <1>6, <2>2 DEF Write, Relabel, SendChunk, RecordProgress, otlpVars, loopVars
  <2>3. QED
    BY <1>1, <1>7, <2>1, <2>2, PostWaits, TimeOutWaits DEF SourceNext
<1>8. CASE RemoveEntry \/ Checkpoint \/ AckChunk \/ Persist \/ LastDrain
  BY <1>6, <1>8 DEF RemoveEntry, Checkpoint, AckChunk, Persist, LastDrain, otlpVars
<1>9. CASE Tick \/ Sigterm \/ Upload \/ Begin \/ UNCHANGED intakeVars
  BY <1>6, <1>9 DEF Tick, Sigterm, Upload, Begin, intakeVars, otlpVars, loopVars
<1>10. CASE Crash \/ Exit \/ Conflict
  BY <1>2, <1>10 DEF Crash, Exit, Conflict
<1>11. QED
  BY <1>3, <1>4, <1>5, <1>7, <1>8, <1>9, <1>10, BatchWaits DEF IntakeNext, LoopNext
-----------------------------------------------------------------------------

LEMMA LocalStays == local' = local => RecordedIds' = RecordedIds
BY DEF RecordedIds

LEMMA ProduceStep ==
  ASSUME NEW x \in Items, x \notin HeldItems \cup ReleasedItems \cup LostItems,
         HeldItems' = HeldItems \cup {x}, ReleasedItems' = ReleasedItems,
         LostItems' = LostItems, RecordedIds' = RecordedIds
  PROVE  DeliveryStep
<1>1. D!Produce(x)
  BY DEF D!Produce
<1>2. QED
  BY <1>1 DEF DeliveryStep, D!DeliveryNext

LEMMA ReleaseStep ==
  ASSUME NEW X \in SUBSET Items, X \subseteq HeldItems, \A x \in X : Recorded(x),
         HeldItems' = HeldItems \ X, ReleasedItems' = ReleasedItems \cup X,
         LostItems' = LostItems, RecordedIds' = RecordedIds
  PROVE  DeliveryStep
<1>1. \A x \in X : Parts[x] \subseteq RecordedIds
  BY ItemsType DEF Recorded, RecordedIds
<1>2. D!Release(X)
  BY <1>1 DEF D!Release
<1>3. QED
  BY <1>2 DEF DeliveryStep, D!DeliveryNext

LEMMA ReleaseOne ==
  ASSUME NEW x \in HeldItems, x \in Items, Recorded(x),
         HeldItems' = HeldItems \ {x}, ReleasedItems' = ReleasedItems \cup {x},
         LostItems' = LostItems, RecordedIds' = RecordedIds
  PROVE  DeliveryStep
<1>1. {x} \in SUBSET Items /\ {x} \subseteq HeldItems
  OBVIOUS
<1>2. \A y \in {x} : Recorded(y)
  OBVIOUS
<1>3. QED
  BY <1>1, <1>2, ReleaseStep

LEMMA SourceDelivers ==
  ASSUME IntakeInv, SourceNext
  PROVE  DeliveryStep
<1>t. IntakeTypeOK /\ CursorsInStep /\ UnitInStep /\ ReleasedIsRecorded
  BY DEF IntakeInv
<1>1. ASSUME NEW x \in Entries, Hook(x)
      PROVE  DeliveryStep
  <2>1. /\ UNCHANGED <<local, export, length, saved, progress>>
        /\ x \notin fired /\ fired' = fired \cup {x}
        /\ \/ spool' = spool \cup {x} /\ missed' = missed
           \/ missed' = missed \cup {x} /\ spool' = spool
    BY <1>1 DEF Hook, storeVars, ledgerVars, otlpVars, tailVars, backfillVars
  <2>2. /\ fired' \ (spool' \cup missed') = fired \ (spool \cup missed)
        /\ Failing' = Failing /\ Answered' = Answered /\ Dropped' = Dropped
        /\ Unsaved' = Unsaved /\ Saved' = Saved
    BY <1>t, <2>1 DEF Failing, Answered, Dropped, Unsaved, Saved, IntakeTypeOK
  <2>3. CASE spool' = spool \cup {x}
    <3>1. HeldItems' = HeldItems \cup {Entry(x)}
      BY <2>1, <2>2, <2>3 DEF HeldItems, Failing, Unsaved
    <3>2. ReleasedItems' = ReleasedItems /\ LostItems' = LostItems
      BY <2>1, <2>2 DEF ReleasedItems, LostItems, Answered, Dropped, Saved
    <3>3. Entry(x) \notin HeldItems \cup ReleasedItems \cup LostItems
      <4>1. x \notin spool /\ x \notin fired \ (spool \cup missed)
        BY <1>t, <2>1 DEF IntakeTypeOK
      <4>2. Entry(x) \notin HeldItems
        BY <4>1, ItemsApart DEF HeldItems
      <4>3. Entry(x) \notin ReleasedItems
        BY <4>1, ItemsApart DEF ReleasedItems
      <4>4. QED
        BY <4>2, <4>3, ItemsApart DEF LostItems
    <3>4. QED
      BY <2>1, <3>1, <3>2, <3>3, ItemsType, LocalStays, ProduceStep
  <2>4. CASE spool' = spool
    BY <2>1, <2>2, <2>4, LocalStays, Stutters
  <2>5. QED
    BY <2>1, <2>3, <2>4
<1>2. ASSUME NEW b \in Batches, Post(b)
      PROVE  DeliveryStep
  <2>1. /\ UNCHANGED <<local, fired, spool, missed, length, saved, progress>>
        /\ export[b] \in {"new", "failed"} /\ export'[b] \in {"failed", "waiting"}
        /\ \A c \in Batches : c # b => export'[c] = export[c]
    BY <1>t, <1>2 DEF Post, storeVars, ledgerVars, spoolVars, tailVars, backfillVars, IntakeTypeOK
  <2>2. Answered' = Answered /\ Dropped' = Dropped /\ Unsaved' = Unsaved /\ Saved' = Saved
    BY <2>1 DEF Answered, Dropped, Unsaved, Saved
  <2>3. CASE export[b] = "new"
    <3>1. Failing' = Failing \cup {b}
      BY <2>1 DEF Failing
    <3>2. HeldItems' = HeldItems \cup {Batch(b)}
      BY <2>1, <2>2, <3>1 DEF HeldItems, Failing, Unsaved
    <3>3. ReleasedItems' = ReleasedItems /\ LostItems' = LostItems
      BY <2>1, <2>2 DEF ReleasedItems, LostItems, Answered, Dropped, Saved
    <3>4. Batch(b) \notin HeldItems \cup ReleasedItems \cup LostItems
      BY <2>3, ItemsApart DEF HeldItems, ReleasedItems, LostItems
    <3>5. QED
      BY <2>1, <3>2, <3>3, <3>4, ItemsType, LocalStays, ProduceStep
  <2>4. CASE export[b] = "failed"
    <3>1. Failing' = Failing
      BY <2>1, <2>4 DEF Failing
    <3>2. QED
      BY <2>1, <2>2, <3>1, LocalStays, Stutters
  <2>5. QED
    BY <2>1, <2>3, <2>4
<1>3. ASSUME NEW b \in Batches, TimeOut(b)
      PROVE  DeliveryStep
  <2>1. /\ UNCHANGED <<local, fired, spool, missed, length, saved, progress>>
        /\ export[b] = "waiting" /\ export'[b] = "failed"
        /\ \A c \in Batches : c # b => export'[c] = export[c]
    BY <1>t, <1>3 DEF TimeOut, storeVars, ledgerVars, spoolVars, tailVars, backfillVars, IntakeTypeOK
  <2>2. /\ Failing' = Failing /\ Answered' = Answered /\ Dropped' = Dropped
        /\ Unsaved' = Unsaved /\ Saved' = Saved
    BY <2>1 DEF Failing, Answered, Dropped, Unsaved, Saved
  <2>3. QED
    BY <2>1, <2>2, LocalStays, Stutters
<1>4. ASSUME NEW b \in Batches, GiveUp(b)
      PROVE  DeliveryStep
  <2>1. /\ UNCHANGED <<local, fired, spool, missed, length, saved, progress>>
        /\ export[b] = "failed" /\ export'[b] = "dropped"
        /\ \A c \in Batches : c # b => export'[c] = export[c]
    BY <1>t, <1>4 DEF GiveUp, storeVars, ledgerVars, spoolVars, tailVars, backfillVars, IntakeTypeOK
  <2>2. /\ Failing' = Failing \ {b} /\ Dropped' = Dropped \cup {b}
        /\ Answered' = Answered /\ Unsaved' = Unsaved /\ Saved' = Saved
    BY <2>1 DEF Failing, Answered, Dropped, Unsaved, Saved
  <2>3. HeldItems' = HeldItems \ {Batch(b)}
    BY <2>1, <2>2, ItemsApart DEF HeldItems, Failing, Unsaved
  <2>4. ReleasedItems' = ReleasedItems
    BY <2>1, <2>2 DEF ReleasedItems, Answered, Saved
  <2>5. LostItems' = LostItems \cup {Batch(b)}
    BY <2>2 DEF LostItems, Dropped
  <2>6. Batch(b) \in HeldItems \cap {Batch(c) : c \in Batches}
    BY <2>1 DEF HeldItems
  <2>7. D!Lose(Batch(b))
    BY <2>1, <2>3, <2>4, <2>5, <2>6, LocalStays DEF D!Lose
  <2>8. QED
    BY <2>7, ItemsType DEF DeliveryStep, D!DeliveryNext
<1>5. CASE Write
  <2>1. UNCHANGED <<local, fired, spool, missed, export, saved, progress>> /\ length' = length + 1
    BY <1>5 DEF Write, storeVars, ledgerVars, spoolVars, otlpVars, backfillVars
  <2>2. /\ Failing' = Failing /\ Answered' = Answered /\ Dropped' = Dropped /\ Saved' = Saved
    BY <2>1 DEF Failing, Answered, Dropped, Saved
  <2>3. length \in Nat /\ saved \in 0..length
    BY <1>t, IntakeAssumption DEF IntakeTypeOK
  <2>4. ASSUME NEW n \in 1..NumLines, 2 * n = length + 1
        PROVE  DeliveryStep
    <3>1. Unsaved' = Unsaved \cup {n}
      BY <2>1, <2>3, <2>4, IntakeAssumption DEF Unsaved
    <3>2. HeldItems' = HeldItems \cup {Line(n)}
      BY <2>1, <2>2, <3>1 DEF HeldItems, Failing, Unsaved
    <3>3. ReleasedItems' = ReleasedItems /\ LostItems' = LostItems
      BY <2>1, <2>2 DEF ReleasedItems, LostItems, Answered, Dropped, Saved
    <3>4. ~(2 * n <= length) /\ ~(2 * n <= saved)
      BY <2>3, <2>4
    <3>5. Line(n) \notin HeldItems \cup ReleasedItems \cup LostItems
      BY <3>4, ItemsApart DEF HeldItems, ReleasedItems, LostItems
    <3>6. QED
      BY <2>1, <3>2, <3>3, <3>5, ItemsType, LocalStays, ProduceStep
  <2>5. CASE \A n \in 1..NumLines : 2 * n # length + 1
    <3>1. Unsaved' = Unsaved
      BY <2>1, <2>3, <2>5, IntakeAssumption DEF Unsaved
    <3>2. QED
      BY <2>1, <2>2, <3>1, LocalStays, Stutters
  <2>6. QED
    BY <2>4, <2>5
<1>6. CASE (\E l \in Labels : Relabel(l)) \/ SendChunk
  <2>1. UNCHANGED <<local, fired, spool, missed, export, length, saved, progress>>
    BY <1>6 DEF Relabel, SendChunk, storeVars, ledgerVars, spoolVars, otlpVars, tailVars, backfillVars
  <2>2. /\ Failing' = Failing /\ Answered' = Answered /\ Dropped' = Dropped
        /\ Unsaved' = Unsaved /\ Saved' = Saved
    BY <2>1 DEF Failing, Answered, Dropped, Unsaved, Saved
  <2>3. QED
    BY <2>1, <2>2, LocalStays, Stutters
<1>7. CASE RecordProgress
  <2>1. /\ UNCHANGED <<local, fired, spool, missed, export, length, saved>>
        /\ chunk = "acked" /\ progress' \in {progress, place + 1}
    BY <1>7 DEF RecordProgress, storeVars, ledgerVars, spoolVars, otlpVars, tailVars
  <2>2. /\ Failing' = Failing /\ Answered' = Answered /\ Dropped' = Dropped
        /\ Unsaved' = Unsaved /\ Saved' = Saved
    BY <2>1 DEF Failing, Answered, Dropped, Unsaved, Saved
  <2>3. /\ place \in Nat /\ progress \in Nat /\ NumChunks \in Nat
        /\ progress <= place /\ place < NumChunks
    BY <1>t, <2>1, IntakeAssumption DEF IntakeTypeOK, CursorsInStep
  <2>4. CASE progress' = progress
    BY <2>1, <2>2, <2>4, LocalStays, Stutters
  <2>5. CASE progress' = place + 1
    <3> DEFINE new == (progress + 1)..(place + 1)
               X == {Chunk(n) : n \in new}
    <3>1. /\ (progress' + 1)..NumChunks = ((progress + 1)..NumChunks) \ new
          /\ 1..progress' = (1..progress) \cup new
          /\ new \subseteq (progress + 1)..NumChunks /\ new \subseteq 1..NumChunks
      BY <2>3, <2>5
    <3>2. HeldItems' = HeldItems \ X
      <4> HIDE DEF new
      <4>1. QED
        BY <2>1, <2>2, <3>1, ItemsApart DEF HeldItems, Failing, Unsaved
    <3>3. ReleasedItems' = ReleasedItems \cup X
      <4> HIDE DEF new
      <4>1. QED
        BY <2>1, <2>2, <3>1 DEF ReleasedItems, Answered, Saved
    <3>4. LostItems' = LostItems
      BY <2>2 DEF LostItems, Dropped
    <3>5. X \subseteq HeldItems /\ X \subseteq Items
      <4> HIDE DEF new
      <4>1. QED
        BY <3>1, ItemsType DEF HeldItems
    <3>6. \A n \in new : Recorded(Chunk(n))
      <4>1. \A n \in new : n \in 1..place \/ n = place + 1
        BY <2>3
      <4>2. QED
        BY <1>t, <2>1, <4>1 DEF CursorsInStep
    <3>7. \A x \in X : Recorded(x)
      BY <3>6
    <3>8. QED
      BY <2>1, <3>2, <3>3, <3>4, <3>5, <3>7, LocalStays, ReleaseStep
  <2>6. QED
    BY <2>1, <2>4, <2>5
<1>8. QED
  BY <1>1, <1>2, <1>3, <1>4, <1>5, <1>6, <1>7 DEF SourceNext

LEMMA SpoolDelivers ==
  ASSUME IntakeInv, OpenEntry \/ RemoveEntry
  PROVE  DeliveryStep
<1>t. IntakeTypeOK /\ UnitInStep
  BY DEF IntakeInv
<1>1. /\ UNCHANGED <<local, fired, missed, export, length, saved, progress>>
      /\ Failing' = Failing /\ Answered' = Answered /\ Dropped' = Dropped
      /\ Unsaved' = Unsaved /\ Saved' = Saved
  <2>1. UNCHANGED <<local, fired, missed, export, length, saved, progress>>
    BY DEF OpenEntry, RemoveEntry, storeVars, ledgerVars, otlpVars, tailVars, backfillVars
  <2>2. QED
    BY <2>1 DEF Failing, Answered, Dropped, Unsaved, Saved
<1>2. ASSUME NEW x \in spool \ missed, spool' = spool \ {x}, Recorded(Entry(x))
      PROVE  DeliveryStep
  <2>1. HeldItems' = HeldItems \ {Entry(x)}
    BY <1>1, <1>2, ItemsApart DEF HeldItems, Failing, Unsaved
  <2>2. fired' \ (spool' \cup missed') = (fired \ (spool \cup missed)) \cup {x}
    BY <1>t, <1>1, <1>2 DEF IntakeTypeOK
  <2>3. ReleasedItems' = ReleasedItems \cup {Entry(x)}
    BY <1>1, <2>2 DEF ReleasedItems, Answered, Saved
  <2>4. LostItems' = LostItems
    BY <1>1 DEF LostItems, Dropped
  <2>5. Entry(x) \in HeldItems /\ Entry(x) \in Items
    BY <1>t, <1>2, ItemsType DEF HeldItems, IntakeTypeOK
  <2>6. QED
    BY <1>1, <1>2, <2>1, <2>3, <2>4, <2>5, LocalStays, ReleaseOne
<1>3. CASE spool' = spool
  BY <1>1, <1>3, LocalStays, Stutters
<1>4. CASE OpenEntry
  <2>1. PICK x \in listing : IF x \in Malformed THEN spool' = spool \ {x} ELSE spool' = spool
    BY <1>4 DEF OpenEntry
  <2>2. x \in spool \ missed
    BY <1>t DEF UnitInStep
  <2>3. CASE x \in Malformed
    BY <1>2, <2>1, <2>2, <2>3, IntakeAssumption DEF Recorded
  <2>4. QED
    BY <1>3, <2>1, <2>3
<1>5. CASE RemoveEntry
  <2>1. unit # None /\ unit.kind = "entry" /\ todo = {}
    BY <1>5 DEF RemoveEntry, Working
  <2>2. PICK x \in spool \ missed : unit.items = {Entry(x)}
    BY <1>t, <2>1 DEF UnitInStep
  <2>3. spool' = spool \/ spool' = spool \ {x}
    BY <1>5, <2>2, ItemsApart DEF RemoveEntry
  <2>4. Recorded(Entry(x))
    BY <2>1, <2>2, UnitRecorded
  <2>5. QED
    BY <1>2, <1>3, <2>2, <2>3, <2>4
<1>6. QED
  BY <1>4, <1>5

LEMMA CheckpointDelivers ==
  ASSUME IntakeInv, Checkpoint
  PROVE  DeliveryStep
<1>t. IntakeTypeOK /\ CursorsInStep
  BY DEF IntakeInv
<1>1. /\ UNCHANGED <<local, fired, spool, missed, export, length, progress>>
      /\ saved' = offset /\ unit # None /\ todo = {}
  BY DEF Checkpoint, Working, storeVars, ledgerVars, spoolVars, otlpVars, backfillVars, tailVars
<1>2. Failing' = Failing /\ Answered' = Answered /\ Dropped' = Dropped
  BY <1>1 DEF Failing, Answered, Dropped
<1> DEFINE new == {m \in 1..NumLines : 2 * m > saved /\ 2 * m <= offset}
           X == {Line(n) : n \in new}
<1>3. length \in Nat /\ offset \in Nat /\ saved \in Nat /\ saved <= offset /\ offset <= length
  BY <1>t, IntakeAssumption DEF IntakeTypeOK, CursorsInStep
<1>4. Unsaved' = Unsaved \ new /\ Saved' = Saved \cup new /\ new \subseteq Unsaved
  BY <1>1, <1>3 DEF Unsaved, Saved
<1>5. HeldItems' = HeldItems \ X
  <2> HIDE DEF new
  <2>1. QED
    BY <1>1, <1>2, <1>4, ItemsApart DEF HeldItems, Failing, Unsaved
<1>6. ReleasedItems' = ReleasedItems \cup X
  <2> HIDE DEF new
  <2>1. QED
    BY <1>1, <1>2, <1>4 DEF ReleasedItems, Answered, Saved
<1>7. LostItems' = LostItems
  BY <1>2 DEF LostItems, Dropped
<1>8. X \subseteq HeldItems /\ X \subseteq Items
  BY <1>4, ItemsType DEF HeldItems, Unsaved
<1>9. \A x \in X : Recorded(x)
  BY <1>t, <1>1, UnitRecorded DEF CursorsInStep
<1>10. QED
  BY <1>1, <1>5, <1>6, <1>7, <1>8, <1>9, LocalStays, ReleaseStep

LEMMA AnswerDelivers ==
  ASSUME IntakeInv, WaitsInStep, AnswerBatch
  PROVE  DeliveryStep
<1>1. /\ UNCHANGED <<local, fired, spool, missed, length, saved, progress>>
      /\ unit # None /\ unit.kind = "batch" /\ todo = {}
      /\ export' = [b \in Batches |->
           IF unit.waits /\ unit.items = {Batch(b)} THEN "done" ELSE export[b]]
  BY DEF AnswerBatch, Working, storeVars, ledgerVars, spoolVars, tailVars, backfillVars
<1>2. Unsaved' = Unsaved /\ Saved' = Saved
  BY <1>1 DEF Unsaved, Saved
<1>3. PICK b \in Batches : unit.items = {Batch(b)}
  BY <1>1 DEF IntakeInv, UnitInStep
<1>4. \A c \in Batches : c # b => export'[c] = export[c]
  BY <1>1, <1>3, ItemsApart
<1>5. CASE unit.waits
  <2>1. export[b] = "waiting" /\ export'[b] = "done"
    BY <1>1, <1>3, <1>5 DEF WaitsInStep
  <2>2. Failing' = Failing \ {b} /\ Answered' = Answered \cup {b} /\ Dropped' = Dropped
    BY <1>4, <2>1 DEF Failing, Answered, Dropped
  <2>3. HeldItems' = HeldItems \ {Batch(b)}
    <3>1. {Batch(c) : c \in Failing'} = {Batch(c) : c \in Failing} \ {Batch(b)}
      BY <2>2, ItemsApart
    <3>2. UNCHANGED <<spool, progress>>
      BY <1>1
    <3>3. QED
      BY <1>2, <3>1, <3>2, ItemsApart DEF HeldItems, Failing, Unsaved
  <2>4. ReleasedItems' = ReleasedItems \cup {Batch(b)}
    BY <1>1, <1>2, <2>2 DEF ReleasedItems, Answered, Saved
  <2>5. LostItems' = LostItems
    BY <2>2 DEF LostItems, Dropped
  <2>6. Batch(b) \in HeldItems /\ Batch(b) \in Items
    BY <2>1, ItemsType DEF HeldItems
  <2>7. Recorded(Batch(b))
    BY <1>1, <1>3, UnitRecorded
  <2>8. QED
    BY <1>1, <2>3, <2>4, <2>5, <2>6, <2>7, LocalStays, ReleaseOne
<1>6. CASE ~unit.waits
  <2>1. Failing' = Failing /\ Answered' = Answered /\ Dropped' = Dropped
    BY <1>1, <1>6 DEF Failing, Answered, Dropped
  <2>2. QED
    BY <1>1, <1>2, <2>1, LocalStays, Stutters
<1>7. QED
  BY <1>5, <1>6

(* Whatever is committed was handed over by a source that still holds it,  *)
(* or has given it up, or is there already.                                *)
LEMMA CommittedIsHeld ==
  ASSUME IntakeInv, unit # None, NEW i \in todo
  PROVE  i \in RecordedIds \/ \E x \in HeldItems \cup LostItems : i \in Parts[x]
<1>t. IntakeTypeOK /\ CursorsInStep /\ UnitInStep /\ ReleasedIsRecorded
  BY DEF IntakeInv
<1>1. PICK x \in unit.items : i \in Parts[x]
  BY <1>t DEF UnitInStep, Identities
<1>2. i \in Ids /\ (Recorded(x) => i \in RecordedIds)
  BY <1>t, <1>1 DEF IntakeTypeOK, Recorded, RecordedIds
<1>3. Recorded(x) \/ x \in HeldItems \cup LostItems
  <2>1. CASE unit.kind = "entry"
    BY <1>t, <1>1, <2>1 DEF UnitInStep, HeldItems
  <2>2. CASE unit.kind = "batch"
    <3>1. PICK b \in Batches : export[b] # "new" /\ x = Batch(b)
      BY <1>t, <1>1, <2>2 DEF UnitInStep
    <3>2. export[b] \in {"failed", "waiting", "done", "dropped"}
      BY <1>t, <3>1 DEF IntakeTypeOK
    <3>3. QED
      BY <1>t, <3>1, <3>2 DEF ReleasedIsRecorded, HeldItems, LostItems
  <2>3. CASE unit.kind = "rollout"
    <3>1. PICK n \in 1..NumLines : x = Line(n) /\ 2 * n <= offset
      BY <1>t, <1>1, <2>3 DEF UnitInStep
    <3>2. 2 * n <= saved \/ (2 * n <= length /\ 2 * n > saved)
      BY <1>t, <3>1, IntakeAssumption DEF IntakeTypeOK
    <3>3. QED
      BY <1>t, <3>1, <3>2 DEF ReleasedIsRecorded, HeldItems
  <2>4. CASE unit.kind = "chunk"
    <3>1. x = Chunk(place + 1) /\ place < NumChunks
      BY <1>t, <1>1, <2>4 DEF UnitInStep, CursorsInStep
    <3>2. place + 1 \in (progress + 1)..NumChunks
      BY <1>t, <3>1, IntakeAssumption DEF IntakeTypeOK, CursorsInStep
    <3>3. QED
      BY <3>1, <3>2 DEF HeldItems
  <2>5. QED
    BY <1>t, <2>1, <2>2, <2>3, <2>4 DEF IntakeTypeOK, Units
<1>4. QED
  BY <1>1, <1>2, <1>3

LEMMA PersistDelivers ==
  ASSUME IntakeInv, Persist
  PROVE  DeliveryStep
<1>t. IntakeTypeOK
  BY DEF IntakeInv
<1>1. UNCHANGED <<fired, spool, missed, export, length, saved, progress>> /\ unit # None
  BY DEF Persist, spoolVars, otlpVars, tailVars, backfillVars
<1>2. /\ Failing' = Failing /\ Answered' = Answered /\ Dropped' = Dropped
      /\ Unsaved' = Unsaved /\ Saved' = Saved
  BY <1>1 DEF Failing, Answered, Dropped, Unsaved, Saved
<1>3. PICK i \in todo : IF PassedOver(i) THEN UNCHANGED storeVars
                        ELSE Ingest(i, Reading[i][label], Signed)
  BY DEF Persist
<1>4. i \in Ids /\ Reading[i][label] \in Events /\ Reading[i][label] # None
  BY <1>t, IntakeAssumption, StoreAssumption DEF IntakeTypeOK
<1>5. CASE local' = local
  BY <1>1, <1>2, <1>5, LocalStays, Stutters
<1>6. CASE local[i] = None /\ local' = [local EXCEPT ![i] = Reading[i][label]]
  <2>1. RecordedIds' = RecordedIds \cup {i} /\ i \notin RecordedIds
    BY <1>t, <1>4, <1>6 DEF RecordedIds, IntakeTypeOK, StoreTypeOK
  <2>2. \E x \in HeldItems \cup LostItems : i \in Parts[x]
    BY <1>1, <2>1, CommittedIsHeld
  <2>3. HeldItems' = HeldItems
    BY <1>1, <1>2 DEF HeldItems, Failing, Unsaved
  <2>4. ReleasedItems' = ReleasedItems
    BY <1>1, <1>2 DEF ReleasedItems, Answered, Saved
  <2>5. LostItems' = LostItems
    BY <1>2 DEF LostItems, Dropped
  <2>6. D!RecordPart(i)
    BY <2>1, <2>2, <2>3, <2>4, <2>5 DEF D!RecordPart
  <2>7. QED
    BY <1>4, <2>6 DEF DeliveryStep, D!DeliveryNext
<1>7. QED
  BY <1>3, <1>5, <1>6 DEF Ingest, IngestNew, IngestReplay, storeVars, ledgerVars

(* Nothing else the loop does is visible to the sources. *)
LEMMA RestDelivers ==
  ASSUME IntakeInv,
         \/ ScanRollout \/ AckChunk \/ Conflict \/ LastDrain \/ Exit
         \/ Tick \/ Sigterm \/ TakeBatch \/ TakeChunk \/ Upload
         \/ Begin \/ Crash \/ UNCHANGED intakeVars
  PROVE  DeliveryStep
<1>t. IntakeTypeOK
  BY DEF IntakeInv
<1>1. ASSUME Ends
      PROVE  DeliveryStep
  <2>1. UNCHANGED <<local, fired, spool, missed, length, saved, progress>>
    BY <1>1 DEF Ends, Close, ledgerVars, spoolVars
  <2>2. \A b \in Batches : export'[b] = IF export[b] = "waiting" THEN "failed" ELSE export[b]
    BY <1>1 DEF Ends
  <2>3. /\ Failing' = Failing /\ Answered' = Answered /\ Dropped' = Dropped
        /\ Unsaved' = Unsaved /\ Saved' = Saved
    BY <2>1, <2>2 DEF Failing, Answered, Dropped, Unsaved, Saved
  <2>4. QED
    BY <2>1, <2>3, LocalStays, Stutters
<1>2. ASSUME UNCHANGED <<RecordedIds, fired, spool, missed, export, length, saved, progress>>
      PROVE  DeliveryStep
  <2>1. /\ Failing' = Failing /\ Answered' = Answered /\ Dropped' = Dropped
        /\ Unsaved' = Unsaved /\ Saved' = Saved
    BY <1>2 DEF Failing, Answered, Dropped, Unsaved, Saved
  <2>2. QED
    BY <1>2, <2>1, Stutters
<1>3. CASE Begin
  <2>1. \A i \in Ids : local'[i] = local[i]
    BY <1>t, <1>3, IntakeAssumption DEF Begin, Open, KeepOr, IntakeTypeOK, StoreTypeOK
  <2>2. UNCHANGED RecordedIds
    BY <2>1 DEF RecordedIds
  <2>3. QED
    BY <1>2, <1>3, <2>2 DEF Begin, spoolVars, otlpVars, tailVars, backfillVars
<1>4. CASE UNCHANGED <<local, spoolVars, export, length, saved, progress>>
  BY <1>2, <1>4, LocalStays DEF spoolVars
<1>5. CASE ScanRollout \/ AckChunk \/ LastDrain \/ Tick \/ Sigterm \/ TakeBatch \/ TakeChunk
  BY <1>4, <1>5 DEF ScanRollout, AckChunk, LastDrain, Tick, Sigterm, TakeBatch, TakeChunk,
     storeVars, ledgerVars, otlpVars, tailVars, backfillVars
<1>6. CASE Upload \/ UNCHANGED intakeVars
  BY <1>4, <1>6 DEF Upload, Acknowledge, intakeVars, storeVars, ledgerVars, otlpVars, tailVars,
     backfillVars
<1>7. QED
  BY <1>1, <1>3, <1>5, <1>6 DEF Crash, Exit, Conflict
-----------------------------------------------------------------------------

(* A source is told to let an item go only when every identity of it is in *)
(* the ledger, and what is recorded was handed over by one: for every      *)
(* number of hooks, requests, lines and chunks, through crashes, retries   *)
(* and answers that get lost.                                              *)
THEOREM IntakeDelivers == IntakeSpec => DeliveryKept
<1>1. IntakeInit => D!DeliveryInit
  <2> SUFFICES ASSUME IntakeInit
               PROVE  D!DeliveryInit
    OBVIOUS
  <2>1. RecordedIds = {}
    BY DEF IntakeInit, StoreInit, RecordedIds
  <2>2. /\ Failing = {} /\ Answered = {} /\ Dropped = {} /\ Unsaved = {} /\ Saved = {}
        /\ 1..progress = {} /\ (progress + 1)..NumChunks = 1..NumChunks
        /\ fired = {} /\ spool = {}
    BY IntakeAssumption DEF IntakeInit, Failing, Answered, Dropped, Unsaved, Saved
  <2>3. HeldItems = {Chunk(n) : n \in 1..NumChunks}
    BY <2>2 DEF HeldItems, Failing, Unsaved
  <2>4. ReleasedItems = {}
    BY <2>2 DEF ReleasedItems, Answered, Saved
  <2>5. LostItems = {}
    BY <2>2 DEF LostItems, Dropped
  <2>6. QED
    BY <2>1, <2>3, <2>4, <2>5 DEF D!DeliveryInit
<1>2. IntakeInit => WaitsInStep
  BY DEF IntakeInit, WaitsInStep
<1>3. IntakeInv /\ WaitsInStep /\ [IntakeNext]_intakeVars => [D!DeliveryNext]_(D!deliveryVars)
  BY SourceDelivers, SpoolDelivers, CheckpointDelivers, AnswerDelivers, PersistDelivers,
     RestDelivers DEF IntakeNext, LoopNext, DeliveryStep
<1>4. QED
  BY <1>1, <1>2, <1>3, IntakeInvInit, IntakeInvStep, WaitsStep, PTL
     DEF IntakeSpec, DeliveryKept, D!DeliverySpec
=============================================================================

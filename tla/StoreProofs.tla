---------------------------- MODULE StoreProofs ----------------------------
(***************************************************************************)
(* The database's guarantees for every set of events, destinations and     *)
(* accounts: its tables are well typed, and the invariants that relate the *)
(* ledger, the queue and the receipts are inductive together.              *)
(***************************************************************************)
EXTENDS Store, WellFoundedInduction, TLAPS

LEMMA MaskType ==
  ASSUME NEW e \in Events
  PROVE  Mask(e) \in Events
BY StoreAssumption DEF Mask, Events

LEMMA QueuedType ==
  ASSUME StoreTypeOK, NEW d \in Dests, NEW rows \in [Ids -> Events \cup {None}]
  PROVE  Queued(d, rows) \in [Dests -> [Ids -> Events \cup {None}]]
BY DEF Queued, StoreTypeOK

(* A page leaves well-typed rows: every payload it writes is one of its    *)
(* own.                                                                    *)
LEMMA AppliedType ==
  ASSUME NEW rows \in [Ids -> Events \cup {None}], NEW gone \in SUBSET Ids,
         NEW page \in Pages
  PROVE  /\ Applied(rows, gone, page) \in [Ids -> Events \cup {None}]
         /\ Deleted(page) \in SUBSET Ids
<1>1. PICK n \in 0..MaxPage : page \in [1..n -> Changes]
  BY DEF Pages
<1>2. Len(page) = n /\ n \in Nat
  BY <1>1, StoreAssumption
<1>3. \A m \in 1..Len(page) : page[m].id \in Ids /\ page[m].event \in Events
  BY <1>1, <1>2 DEF Changes
<1>4. Deleted(page) \in SUBSET Ids
  BY <1>3 DEF Deleted
<1>5. ASSUME NEW i \in Ids, LastUpsert(page, i) # {}
      PROVE  page[CHOOSE m \in LastUpsert(page, i) : TRUE].event \in Events
  BY <1>5, <1>3 DEF LastUpsert, Upserts
<1>6. Applied(rows, gone, page) \in [Ids -> Events \cup {None}]
  BY <1>5 DEF Applied
<1>7. QED
  BY <1>4, <1>6

LEMMA StoreTypeInit == StoreInit => StoreTypeOK
<1> SUFFICES ASSUME StoreInit
             PROVE  StoreTypeOK
  OBVIOUS
<1>1. cursor \in [Scopes -> 0..MaxPosition]
  BY StoreAssumption DEF StoreInit
<1>2. /\ local \in [Ids -> Events \cup {None}]
      /\ decision \in [Ids -> Dests \cup {NotShared, None}]
      /\ remote \in [Scopes -> [Ids -> Events \cup {None}]]
      /\ outbox \in [Dests -> [Ids -> Events \cup {None}]]
  BY DEF StoreInit
<1>3. QED
  BY <1>1, <1>2 DEF StoreInit, StoreTypeOK

LEMMA StoreTypeStep == StoreTypeOK /\ [StoreNext]_storeVars => StoreTypeOK'
<1> SUFFICES ASSUME StoreTypeOK, [StoreNext]_storeVars
             PROVE  StoreTypeOK'
  OBVIOUS
<1> USE StoreAssumption
<1>1. CASE Open
  <2>1. CASE imported
    BY <1>1, <2>1 DEF Open, StoreTypeOK, queueVars, cacheVars
  <2>2. CASE ~imported
    <3>1. local' \in [Ids -> Events \cup {None}]
      BY <1>1, <2>2 DEF Open, StoreTypeOK, KeepOr
    <3>2. [i \in Ids |-> IF local'[i] = None THEN None ELSE NotShared]
            \in [Ids -> Dests \cup {NotShared, None}]
      OBVIOUS
    <3>3. decision' \in [Ids -> Dests \cup {NotShared, None}]
      BY <1>1, <2>2, <3>2 DEF Open, StoreTypeOK, KeepOr
    <3>4. QED
      BY <1>1, <3>1, <3>3 DEF Open, StoreTypeOK, queueVars, cacheVars
  <2>3. QED
    BY <2>1, <2>2
<1>2. CASE Close
  BY <1>2 DEF Close, StoreTypeOK, ledgerVars, queueVars, cacheVars
<1>3. ASSUME NEW i \in Ids, NEW e \in Events, NEW d \in Dests \cup {NotShared}, Ingest(i, e, d)
      PROVE  StoreTypeOK'
  <2>1. CASE IngestNew(i, e, d)
    <3>1. local' \in [Ids -> Events \cup {None}]
      BY <2>1 DEF IngestNew, StoreTypeOK
    <3>2. decision' \in [Ids -> Dests \cup {NotShared, None}]
      BY <2>1 DEF IngestNew, StoreTypeOK
    <3>3. [j \in Ids |-> IF j = i THEN Mask(e) ELSE None] \in [Ids -> Events \cup {None}]
      BY MaskType
    <3>4. outbox' \in [Dests -> [Ids -> Events \cup {None}]]
      BY <2>1, <3>3, QueuedType DEF IngestNew, StoreTypeOK
    <3>5. QED
      BY <2>1, <3>1, <3>2, <3>4 DEF IngestNew, StoreTypeOK, cacheVars
  <2>2. CASE IngestReplay(i, e, d)
    BY <2>2 DEF IngestReplay, StoreTypeOK, storeVars, ledgerVars, queueVars, cacheVars
  <2>3. QED
    BY <1>3, <2>1, <2>2 DEF Ingest
<1>4. ASSUME NEW d \in Dests, EnqueueHistory(d)
      PROVE  StoreTypeOK'
  <2>1. [i \in Ids |-> IF local[i] = None THEN None ELSE Mask(local[i])]
          \in [Ids -> Events \cup {None}]
    BY MaskType DEF StoreTypeOK
  <2>2. outbox' \in [Dests -> [Ids -> Events \cup {None}]]
    BY <1>4, <2>1, QueuedType DEF EnqueueHistory
  <2>3. consent' \in [Dests -> SUBSET Ids]
    BY <1>4 DEF EnqueueHistory, StoreTypeOK
  <2>4. QED
    BY <1>4, <2>2, <2>3 DEF EnqueueHistory, StoreTypeOK, ledgerVars, cacheVars
<1>5. ASSUME NEW d \in Dests, NEW ids \in SUBSET Ids, Acknowledge(d, ids)
      PROVE  StoreTypeOK'
  BY <1>5 DEF Acknowledge, StoreTypeOK, ledgerVars, cacheVars
<1>6. ASSUME NEW s \in Scopes, NEW from \in 0..MaxPosition, NEW through \in 0..MaxPosition,
             NEW page \in Pages, ApplyPage(s, from, through, page)
      PROVE  StoreTypeOK'
  <2>1. Applied(remote[s], tombstones[s], page) \in [Ids -> Events \cup {None}]
        /\ Deleted(page) \in SUBSET Ids
    BY AppliedType DEF StoreTypeOK
  <2>2. remote' \in [Scopes -> [Ids -> Events \cup {None}]]
        /\ tombstones' \in [Scopes -> SUBSET Ids]
    BY <1>6, <2>1 DEF ApplyPage, StoreTypeOK
  <2>3. QED
    BY <1>6, <2>2 DEF ApplyPage, StoreTypeOK, ledgerVars, queueVars
<1>7. ASSUME NEW s \in Scopes \cup {None}, Activate(s)
      PROVE  StoreTypeOK'
  BY <1>7 DEF Activate, StoreTypeOK, ledgerVars, queueVars, cacheVars
<1>8. CASE UNCHANGED storeVars
  BY <1>8 DEF StoreTypeOK, storeVars, ledgerVars, queueVars, cacheVars
<1>9. QED
  BY <1>1, <1>2, <1>3, <1>4, <1>5, <1>6, <1>7, <1>8 DEF StoreNext

(* Every table holds rows of its type, whatever is recorded and shared     *)
(* (crates/sink/src/store.rs).                                             *)
THEOREM StoreTyped == StoreSpec => []StoreTypeOK
BY StoreTypeInit, StoreTypeStep, PTL DEF StoreSpec

-----------------------------------------------------------------------------

LEMMA StoreInvInit == StoreInit => StoreInv
<1> SUFFICES ASSUME StoreInit
             PROVE  StoreInv
  OBVIOUS
<1>1. StoreTypeOK
  BY StoreTypeInit
<1>2. \A d \in Dests : Waiting(d) = {}
  BY DEF StoreInit, Waiting
<1>3. \A i \in Ids : decision[i] \notin Dests
  BY StoreAssumption DEF StoreInit
<1>4. DeletedStaysDeleted
  BY DEF StoreInit, DeletedStaysDeleted
<1>5. QED
  BY <1>1, <1>2, <1>3, <1>4
     DEF StoreInv, StoreInit, LedgerDecided, QueueMirrorsLedger,
         AcknowledgedLeavesQueue, SharedAsDecided, DecisionDelivered

(* What a step does to the queue of one destination: it mirrors the ledger *)
(* when every row it adds is the masked copy of a recorded observation.    *)
LEMMA QueuedRows ==
  ASSUME StoreTypeOK, NEW d \in Dests, NEW rows \in [Ids -> Events \cup {None}],
         outbox' = Queued(d, rows)
  PROVE  \A c \in Dests : \A i \in Ids :
           outbox'[c][i] = IF c = d /\ outbox[d][i] = None /\ i \notin receipts[d]
                           THEN rows[i] ELSE outbox[c][i]
BY DEF Queued, StoreTypeOK

LEMMA StoreInvStep == StoreInv /\ [StoreNext]_storeVars => StoreInv'
<1> SUFFICES ASSUME StoreInv, [StoreNext]_storeVars
             PROVE  StoreInv'
  OBVIOUS
<1> USE StoreAssumption
<1>t. StoreTypeOK /\ StoreTypeOK'
  BY StoreTypeStep DEF StoreInv
<1>1. CASE Open
  <2>1. \A i \in Ids : local[i] # None => local'[i] = local[i] /\ decision'[i] = decision[i]
    BY <1>1, <1>t DEF Open, KeepOr, StoreInv, StoreTypeOK, LedgerDecided
  <2>2. \A i \in Ids : /\ decision'[i] = None <=> local'[i] = None
                       /\ decision'[i] # decision[i] => decision'[i] = NotShared
    BY <1>1, <1>t DEF Open, KeepOr, StoreInv, StoreTypeOK, LedgerDecided
  <2>3. UNCHANGED <<queueVars, cacheVars>>
    BY <1>1 DEF Open
  <2>4. \A d \in Dests : Waiting(d)' = Waiting(d)
    BY <2>3 DEF Waiting, queueVars
  <2>5. LedgerDecided' /\ QueueMirrorsLedger'
    BY <1>t, <2>1, <2>2, <2>3, <2>4
       DEF StoreInv, LedgerDecided, QueueMirrorsLedger, queueVars, StoreTypeOK, Waiting
  <2>6. AcknowledgedLeavesQueue' /\ DeletedStaysDeleted'
    BY <2>3, <2>4 DEF StoreInv, AcknowledgedLeavesQueue, DeletedStaysDeleted, queueVars, cacheVars
  <2>7. SharedAsDecided'
    BY <1>t, <2>1, <2>3, <2>4
       DEF StoreInv, SharedAsDecided, QueueMirrorsLedger, LedgerDecided, queueVars, StoreTypeOK, Waiting
  <2>8. DecisionDelivered'
    BY <1>t, <2>2, <2>3, <2>4 DEF StoreInv, DecisionDelivered, queueVars
  <2>9. QED
    BY <1>t, <2>5, <2>6, <2>7, <2>8 DEF StoreInv
<1>2. CASE Close
  <2>1. UNCHANGED <<ledgerVars, queueVars, cacheVars>>
    BY <1>2 DEF Close
  <2>2. QED
    BY <1>t, <2>1 DEF StoreInv, LedgerDecided, QueueMirrorsLedger, AcknowledgedLeavesQueue,
      SharedAsDecided, DecisionDelivered, DeletedStaysDeleted, Waiting, ledgerVars, queueVars, cacheVars
<1>3. ASSUME NEW i \in Ids, NEW e \in Events, NEW d \in Dests \cup {NotShared}, Ingest(i, e, d)
      PROVE  StoreInv'
  <2>1. CASE IngestNew(i, e, d)
    <3>1. /\ local[i] = None /\ decision[i] = None
          /\ local'[i] = e /\ decision'[i] = d
          /\ \A j \in Ids \ {i} : local'[j] = local[j] /\ decision'[j] = decision[j]
      BY <2>1, <1>t DEF IngestNew, StoreInv, StoreTypeOK, LedgerDecided
    <3>2. \A c \in Dests : outbox[c][i] = None /\ i \notin receipts[c]
      BY <3>1 DEF StoreInv, QueueMirrorsLedger, LedgerDecided, Waiting
    <3>3. [j \in Ids |-> IF j = i THEN Mask(e) ELSE None] \in [Ids -> Events \cup {None}]
      BY MaskType
    <3>4. \A c \in Dests : \A j \in Ids :
            outbox'[c][j] = IF c = d /\ j = i THEN Mask(e) ELSE outbox[c][j]
      <4>1. CASE d = NotShared
        BY <2>1, <4>1 DEF IngestNew
      <4>2. CASE d \in Dests
        BY <2>1, <4>2, <1>t, <3>2, <3>3, QueuedRows DEF IngestNew
      <4>3. QED
        BY <4>1, <4>2
    <3>5. UNCHANGED <<receipts, consent, remote, tombstones>>
      BY <2>1 DEF IngestNew, cacheVars
    <3>6. /\ \A c \in Dests : Waiting(c)' = IF c = d THEN Waiting(c) \cup {i} ELSE Waiting(c)
          /\ Mask(e) # None
      BY <3>4, MaskType DEF Waiting
    <3>7. LedgerDecided'
      BY <3>1, <3>5, <1>t DEF StoreInv, LedgerDecided, StoreTypeOK
    <3>8. QueueMirrorsLedger'
      <4> SUFFICES ASSUME NEW c \in Dests, NEW j \in Waiting(c)'
                   PROVE  local'[j] # None /\ outbox'[c][j] = Mask(local'[j])
        BY DEF QueueMirrorsLedger
      <4>1. j \in Ids
        BY DEF Waiting
      <4>2. CASE c = d /\ j = i
        BY <3>1, <3>4, <4>2
      <4>3. CASE ~(c = d /\ j = i)
        <5>1. j \in Waiting(c) /\ outbox'[c][j] = outbox[c][j]
          BY <3>4, <3>6, <4>1, <4>3
        <5>2. j # i
          BY <5>1, <3>2 DEF Waiting
        <5>3. QED
          BY <5>1, <5>2, <4>1, <3>1 DEF StoreInv, QueueMirrorsLedger
      <4>4. QED
        BY <4>2, <4>3
    <3>9. AcknowledgedLeavesQueue'
      BY <3>2, <3>5, <3>6 DEF StoreInv, AcknowledgedLeavesQueue
    <3>10. SharedAsDecided'
      BY <1>t, <3>1, <3>2, <3>5, <3>6 DEF StoreInv, SharedAsDecided, StoreTypeOK, Waiting
    <3>11. DecisionDelivered'
      BY <3>1, <3>5, <3>6 DEF StoreInv, DecisionDelivered
    <3>12. DeletedStaysDeleted'
      BY <3>5 DEF StoreInv, DeletedStaysDeleted
    <3>13. QED
      BY <1>t, <3>7, <3>8, <3>9, <3>10, <3>11, <3>12 DEF StoreInv
  <2>2. CASE IngestReplay(i, e, d)
    BY <2>2, <1>t DEF IngestReplay, storeVars, StoreInv, LedgerDecided, QueueMirrorsLedger,
      AcknowledgedLeavesQueue, SharedAsDecided, DecisionDelivered, DeletedStaysDeleted, Waiting,
      ledgerVars, queueVars, cacheVars
  <2>3. QED
    BY <1>3, <2>1, <2>2 DEF Ingest
<1>4. ASSUME NEW d \in Dests, EnqueueHistory(d)
      PROVE  StoreInv'
  <2> DEFINE rows == [i \in Ids |-> IF local[i] = None THEN None ELSE Mask(local[i])]
  <2>1. rows \in [Ids -> Events \cup {None}]
    BY <1>t, MaskType DEF StoreTypeOK
  <2>2. outbox' = Queued(d, rows)
    BY <1>4 DEF EnqueueHistory
  <2> HIDE DEF rows
  <2>3. \A c \in Dests : \A i \in Ids :
          outbox'[c][i] = IF c = d /\ outbox[d][i] = None /\ i \notin receipts[d]
                          THEN rows[i] ELSE outbox[c][i]
    BY <1>t, <2>1, <2>2, QueuedRows
  <2>4. \A i \in Ids : rows[i] # None => local[i] # None /\ rows[i] = Mask(local[i])
    BY DEF rows
  <2>5. UNCHANGED <<local, decision, receipts, remote, tombstones>>
    BY <1>4 DEF EnqueueHistory, ledgerVars, cacheVars
  <2>6. LedgerDecided' /\ DeletedStaysDeleted'
    BY <2>5 DEF StoreInv, LedgerDecided, DeletedStaysDeleted
  <2>7. QueueMirrorsLedger'
    BY <2>3, <2>4, <2>5 DEF StoreInv, QueueMirrorsLedger, Waiting
  <2>8. AcknowledgedLeavesQueue'
    BY <2>3, <2>5 DEF StoreInv, AcknowledgedLeavesQueue, Waiting
  <2>9. /\ consent'[d] = consent[d] \cup {i \in Ids : local[i] # None}
        /\ \A c \in Dests : consent[c] \subseteq consent'[c]
    BY <1>4, <1>t DEF EnqueueHistory, StoreTypeOK
  <2>10. SharedAsDecided'
    <3> SUFFICES ASSUME NEW c \in Dests, NEW i \in Waiting(c)' \cup receipts[c]
                 PROVE  decision[i] = c \/ i \in consent'[c]
      BY <2>5 DEF SharedAsDecided
    <3>1. CASE i \in Waiting(c) \cup receipts[c]
      BY <3>1, <2>9 DEF StoreInv, SharedAsDecided
    <3>2. CASE i \notin Waiting(c) \cup receipts[c]
      BY <3>2, <2>3, <2>4, <2>9 DEF Waiting
    <3>3. QED
      BY <3>1, <3>2
  <2>11. DecisionDelivered'
    BY <2>3, <2>5 DEF StoreInv, DecisionDelivered, Waiting
  <2>12. QED
    BY <1>t, <2>6, <2>7, <2>8, <2>10, <2>11 DEF StoreInv
<1>5. ASSUME NEW d \in Dests, NEW ids \in SUBSET Ids, Acknowledge(d, ids)
      PROVE  StoreInv'
  <2>1. /\ UNCHANGED <<local, decision, consent, remote, tombstones>>
        /\ \A c \in Dests : receipts'[c] = IF c = d THEN receipts[c] \cup (ids \cap Waiting(d))
                                            ELSE receipts[c]
    BY <1>5, <1>t DEF Acknowledge, ledgerVars, cacheVars, StoreTypeOK
  <2>2. \A c \in Dests : \A i \in Ids :
          outbox'[c][i] = IF c = d /\ i \in ids THEN None ELSE outbox[c][i]
    BY <1>5, <1>t DEF Acknowledge, StoreTypeOK
  <2>3. LedgerDecided' /\ DeletedStaysDeleted'
    BY <2>1 DEF StoreInv, LedgerDecided, DeletedStaysDeleted, QueueMirrorsLedger
  <2>4. \A c \in Dests : Waiting(c)' = IF c = d THEN Waiting(c) \ ids ELSE Waiting(c)
    BY <2>2 DEF Waiting
  <2>5. QueueMirrorsLedger'
    <3> SUFFICES ASSUME NEW c \in Dests, NEW i \in Waiting(c)'
                 PROVE  local[i] # None /\ outbox'[c][i] = Mask(local[i])
      BY <2>1 DEF QueueMirrorsLedger
    <3>1. i \in Waiting(c) /\ i \in Ids
      BY <2>4 DEF Waiting
    <3>2. outbox'[c][i] = outbox[c][i]
      BY <2>2, <2>4, <3>1
    <3>3. QED
      BY <3>1, <3>2 DEF StoreInv, QueueMirrorsLedger
  <2>6. AcknowledgedLeavesQueue'
    BY <2>1, <2>4 DEF StoreInv, AcknowledgedLeavesQueue
  <2>7. SharedAsDecided'
    BY <2>1, <2>4 DEF StoreInv, SharedAsDecided
  <2>8. DecisionDelivered'
    BY <2>1, <2>4 DEF StoreInv, DecisionDelivered
  <2>9. QED
    BY <1>t, <2>3, <2>5, <2>6, <2>7, <2>8 DEF StoreInv
<1>6. ASSUME NEW s \in Scopes, NEW from \in 0..MaxPosition, NEW through \in 0..MaxPosition,
             NEW page \in Pages, ApplyPage(s, from, through, page)
      PROVE  StoreInv'
  <2>1. UNCHANGED <<local, decision, outbox, receipts, consent>>
    BY <1>6 DEF ApplyPage, ledgerVars, queueVars
  <2>2. ASSUME NEW a \in Scopes, NEW i \in tombstones'[a]
        PROVE  remote'[a][i] = None
    <3>1. CASE a # s
      BY <3>1, <1>6, <1>t DEF ApplyPage, StoreInv, DeletedStaysDeleted, StoreTypeOK
    <3>2. CASE a = s
      <4>1. /\ remote'[s] = Applied(remote[s], tombstones[s], page)
            /\ tombstones'[s] = tombstones[s] \cup Deleted(page)
        BY <1>6, <1>t DEF ApplyPage, StoreTypeOK
      <4>2. i \in Ids
        BY <3>2, <4>1, <1>t DEF StoreTypeOK
      <4>3. CASE i \in Deleted(page)
        BY <3>2, <4>1, <4>2, <4>3 DEF Applied
      <4>4. CASE i \notin Deleted(page) /\ i \in tombstones[s]
        BY <3>2, <4>1, <4>2, <4>4 DEF Applied, StoreInv, DeletedStaysDeleted
      <4>5. QED
        BY <3>2, <4>1, <4>3, <4>4
    <3>3. QED
      BY <3>1, <3>2
  <2>3. QED
    BY <1>t, <2>1, <2>2 DEF StoreInv, LedgerDecided, QueueMirrorsLedger, AcknowledgedLeavesQueue,
      SharedAsDecided, DecisionDelivered, DeletedStaysDeleted, Waiting
<1>7. ASSUME NEW s \in Scopes \cup {None}, Activate(s)
      PROVE  StoreInv'
  BY <1>7, <1>t DEF Activate, StoreInv, LedgerDecided, QueueMirrorsLedger, AcknowledgedLeavesQueue,
    SharedAsDecided, DecisionDelivered, DeletedStaysDeleted, Waiting, ledgerVars, queueVars, cacheVars
<1>8. CASE UNCHANGED storeVars
  BY <1>8, <1>t DEF storeVars, StoreInv, LedgerDecided, QueueMirrorsLedger, AcknowledgedLeavesQueue,
    SharedAsDecided, DecisionDelivered, DeletedStaysDeleted, Waiting, ledgerVars, queueVars, cacheVars
<1>9. QED
  BY <1>1, <1>2, <1>3, <1>4, <1>5, <1>6, <1>7, <1>8 DEF StoreNext

LEMMA StoreInvHolds == StoreSpec => []StoreInv
BY StoreInvInit, StoreInvStep, PTL DEF StoreSpec

(* Nothing but a redacted copy of this machine's own records ever waits to *)
(* be uploaded (enqueue_history, ingest_with_sharing).                     *)
THEOREM StoreQueueMirrorsLedger == StoreSpec => []QueueMirrorsLedger
<1>1. StoreInv => QueueMirrorsLedger
  BY DEF StoreInv
<1>2. QED
  BY <1>1, StoreInvHolds, PTL

(* An acknowledged record never returns to the queue of the destination    *)
(* that acknowledged it.                                                   *)
THEOREM StoreAcknowledgedLeavesQueue == StoreSpec => []AcknowledgedLeavesQueue
<1>1. StoreInv => AcknowledgedLeavesQueue
  BY DEF StoreInv
<1>2. QED
  BY <1>1, StoreInvHolds, PTL

(* A record reaches only the destination decided when it was recorded or   *)
(* one that was given the history on request.                              *)
THEOREM StoreSharedAsDecided == StoreSpec => []SharedAsDecided
<1>1. StoreInv => SharedAsDecided
  BY DEF StoreInv
<1>2. QED
  BY <1>1, StoreInvHolds, PTL

(* A record shared with a destination waits for it until acknowledged.     *)
THEOREM StoreDecisionDelivered == StoreSpec => []DecisionDelivered
<1>1. StoreInv => DecisionDelivered
  BY DEF StoreInv
<1>2. QED
  BY <1>1, StoreInvHolds, PTL

(* No page brings back what its account deleted.                           *)
THEOREM StoreDeletedStaysDeleted == StoreSpec => []DeletedStaysDeleted
<1>1. StoreInv => DeletedStaysDeleted
  BY DEF StoreInv
<1>2. QED
  BY <1>1, StoreInvHolds, PTL

(* What was recorded, and with whom it was shared, is never rewritten.     *)
THEOREM StoreEvidenceImmutable == StoreSpec => EvidenceImmutable
<1> DEFINE Kept == \A i \in Ids : local[i] # None =>
                     local'[i] = local[i] /\ decision'[i] = decision[i]
<1>1. StoreInv /\ [StoreNext]_storeVars => [Kept]_storeVars
  <2> SUFFICES ASSUME StoreInv, StoreNext
               PROVE  Kept
    OBVIOUS
  <2>1. CASE Open
    BY <2>1 DEF Open, KeepOr, StoreInv, StoreTypeOK, LedgerDecided
  <2>2. ASSUME NEW i \in Ids, NEW e \in Events, NEW d \in Dests \cup {NotShared}, Ingest(i, e, d)
        PROVE  Kept
    BY <2>2 DEF Ingest, IngestNew, IngestReplay, storeVars, ledgerVars, StoreInv, StoreTypeOK
  <2>3. CASE UNCHANGED <<local, decision>>
    BY <2>3
  <2>4. QED
    BY <2>1, <2>2, <2>3
       DEF StoreNext, Close, EnqueueHistory, Acknowledge, ApplyPage, Activate, ledgerVars
<1>2. QED
  BY <1>1, StoreInvHolds, PTL DEF StoreSpec, EvidenceImmutable

-----------------------------------------------------------------------------

(* A page that ends where it begins has no changes, and leaves the rows.   *)
LEMMA EmptyPage ==
  ASSUME NEW page \in Pages, NEW from \in Nat, Ordered(from, from, page),
         NEW gone, NEW rows \in [Ids -> Events \cup {None}]
  PROVE  Applied(rows, gone, page) = rows
<1>1. PICK n \in 0..MaxPage : page \in [1..n -> Changes]
  BY DEF Pages
<1>2. Len(page) = n /\ n \in Nat
  BY <1>1, StoreAssumption
<1>3. \A m \in 1..Len(page) : page[m].sequence \in Nat
  BY <1>1, <1>2, StoreAssumption DEF Changes
<1>4. 1..Len(page) = {}
  BY <1>2, <1>3 DEF Ordered
<1>5. Deleted(page) = {} /\ \A i \in Ids : LastUpsert(page, i) = {}
  BY <1>4 DEF Deleted, LastUpsert, Upserts
<1>6. QED
  BY <1>5 DEF Applied

(* What one step may do to what is remembered of other machines.           *)
Advances ==
  /\ \A s \in Scopes : /\ cursor'[s] >= cursor[s]
                       /\ tombstones[s] \subseteq tombstones'[s]
                       /\ remote'[s] # remote[s] => cursor'[s] > cursor[s]
  /\ \A d \in Dests : receipts[d] \subseteq receipts'[d]

LEMMA AdvancesStep == StoreTypeOK /\ StoreNext => Advances
<1> SUFFICES ASSUME StoreTypeOK, StoreNext
             PROVE  Advances
  OBVIOUS
<1>0. \A s \in Scopes : cursor[s] \in Nat
  BY StoreAssumption DEF StoreTypeOK
<1>1. ASSUME NEW s \in Scopes, NEW from \in 0..MaxPosition, NEW through \in 0..MaxPosition,
             NEW page \in Pages, ApplyPage(s, from, through, page)
      PROVE  Advances
  <2>1. cursor[s] = from /\ through >= from /\ from \in Nat /\ through \in Nat
    BY <1>1, StoreAssumption DEF ApplyPage, Ordered
  <2>2. cursor' = [cursor EXCEPT ![s] = through]
    BY <1>1 DEF ApplyPage
  <2>3. \A t \in Scopes : cursor'[t] >= cursor[t]
    BY <1>0, <2>1, <2>2 DEF StoreTypeOK
  <2>4. \A t \in Scopes : tombstones[t] \subseteq tombstones'[t]
    BY <1>1 DEF ApplyPage, StoreTypeOK
  <2>5. ASSUME NEW t \in Scopes, remote'[t] # remote[t]
        PROVE  cursor'[t] > cursor[t]
    <3>1. t = s /\ Applied(remote[s], tombstones[s], page) # remote[s]
      BY <1>1, <2>5 DEF ApplyPage, StoreTypeOK
    <3>2. through # from
      BY <1>1, <2>1, <3>1, EmptyPage DEF ApplyPage, StoreTypeOK
    <3>3. QED
      BY <2>1, <2>2, <3>1, <3>2 DEF StoreTypeOK
  <2>6. receipts' = receipts
    BY <1>1 DEF ApplyPage, queueVars
  <2>7. QED
    BY <2>3, <2>4, <2>5, <2>6 DEF Advances
<1>2. ASSUME NEW d \in Dests, NEW ids \in SUBSET Ids, Acknowledge(d, ids)
      PROVE  Advances
  <2>1. \A c \in Dests : receipts[c] \subseteq receipts'[c]
    BY <1>2 DEF Acknowledge, StoreTypeOK
  <2>2. QED
    BY <1>0, <1>2, <2>1 DEF Acknowledge, cacheVars, Advances
<1>3. CASE UNCHANGED <<cursor, tombstones, remote, receipts>>
  BY <1>0, <1>3 DEF Advances
<1>4. QED
  BY <1>1, <1>2, <1>3
     DEF StoreNext, Open, Close, Ingest, IngestNew, IngestReplay, EnqueueHistory, Activate,
         storeVars, queueVars, cacheVars

(* Cursors, receipts and deletions only grow, and what is cached of an     *)
(* account changes only as its cursor moves on: a page that is applied     *)
(* again, or one of another position, changes nothing (apply_page,         *)
(* acknowledge).                                                           *)
THEOREM StoreSyncOnlyAdvances == StoreSpec => SyncOnlyAdvances
<1>1. StoreTypeOK /\ [StoreNext]_storeVars =>
        [/\ \A s \in Scopes : /\ cursor'[s] >= cursor[s]
                              /\ tombstones[s] \subseteq tombstones'[s]
                              /\ remote'[s] # remote[s] => cursor'[s] > cursor[s]
         /\ \A d \in Dests : receipts[d] \subseteq receipts'[d]]_storeVars
  BY AdvancesStep DEF Advances
<1>2. QED
  BY <1>1, StoreTyped, PTL DEF StoreSpec, SyncOnlyAdvances

-----------------------------------------------------------------------------
(* A page as a whole and its changes one by one.                           *)

LEMMA LeastNumber == ASSUME NEW T \in SUBSET Nat, T # {} PROVE \E x \in T : \A y \in T : x <= y
<1>1. \E x \in T : \A y \in T : ~ (<<y, x>> \in OpToRel(<, Nat))
  BY WFMin, NatLessThanWellFounded
<1>2. \A x, y \in T : <<y, x>> \notin OpToRel(<, Nat) => x <= y
  BY DEF OpToRel
<1>3. QED
  BY <1>1, <1>2

(* Two loops that begin alike and go on alike end alike.                   *)
LEMMA LoopsAgree ==
  ASSUME NEW N \in Nat, NEW f, NEW g, f[0] = g[0],
         \A n \in 1..N : f[n - 1] = g[n - 1] => f[n] = g[n]
  PROVE  f[N] = g[N]
<1> DEFINE T == {n \in 0..N : f[n] # g[n]}
<1> SUFFICES ASSUME T # {} PROVE FALSE
  OBVIOUS
<1>0. T \in SUBSET Nat
  OBVIOUS
<1>1. PICK n \in T : \A m \in T : n <= m
  BY <1>0, LeastNumber
<1>2. n \in 1..N /\ n - 1 \in 0..N /\ n - 1 \notin T
  BY <1>1
<1> QED
  BY <1>1, <1>2

(* The first n changes of a page.                                          *)
First(page, n) == [m \in 1..n |-> page[m]]

LEMMA FirstFields ==
  ASSUME NEW page, NEW n \in Nat
  PROVE  /\ Len(First(page, n)) = n
         /\ Deleted(First(page, n)) = {page[m].id : m \in {k \in 1..n : page[k].deleted}}
         /\ \A i : LastUpsert(First(page, n), i) =
              {m \in 1..n : /\ page[m].id = i /\ ~page[m].deleted
                            /\ \A k \in 1..n : page[k].id = i /\ ~page[k].deleted => k <= m}
<1>1. Len(First(page, n)) = n /\ \A m \in 1..n : First(page, n)[m] = page[m]
  BY DEF First
<1> QED
  BY <1>1 DEF Deleted, LastUpsert, Upserts

(* One more change makes of the closed form what the loop body makes of it. *)
LEMMA OneMore ==
  ASSUME NEW rows \in [Ids -> Events \cup {None}], NEW gone \in SUBSET Ids,
         NEW page, NEW n \in Nat \ {0}, page[n] \in Changes
  PROVE  LET Whole(k) == [rows |-> Applied(rows, gone, First(page, k)),
                          gone |-> gone \cup Deleted(First(page, k))]
         IN Whole(n) = Changed(Whole(n - 1), page[n])
<1>1. PICK c : c = page[n]
  OBVIOUS
<1>2. c.id \in Ids /\ c.deleted \in BOOLEAN /\ n - 1 \in Nat
  BY <1>1 DEF Changes
<1>3. PICK old : old = Deleted(First(page, n - 1))
  OBVIOUS
<1>4. PICK new : new = Deleted(First(page, n))
  OBVIOUS
<1>5. 1..n = (1..(n - 1)) \cup {n} /\ \A m \in 1..(n - 1) : m < n
  OBVIOUS
<1>6. new = IF c.deleted THEN old \cup {c.id} ELSE old
  <2>1. old = {page[m].id : m \in {k \in 1..(n - 1) : page[k].deleted}}
    BY <1>2, <1>3, FirstFields
  <2>2. new = {page[m].id : m \in {k \in 1..n : page[k].deleted}}
    BY <1>4, FirstFields
  <2>3. CASE c.deleted
    <3>1. {k \in 1..n : page[k].deleted} = {k \in 1..(n - 1) : page[k].deleted} \cup {n}
      BY <1>1, <1>5, <2>3
    <3> QED
      BY <1>1, <2>1, <2>2, <2>3, <3>1
  <2>4. CASE ~c.deleted
    <3>1. {k \in 1..n : page[k].deleted} = {k \in 1..(n - 1) : page[k].deleted}
      BY <1>1, <1>5, <2>4
    <3> QED
      BY <2>1, <2>2, <2>4, <3>1
  <2> QED
    BY <2>3, <2>4
<1>7. \A i \in Ids : LastUpsert(First(page, n), i) =
        IF c.id = i /\ ~c.deleted THEN {n} ELSE LastUpsert(First(page, n - 1), i)
  <2> SUFFICES ASSUME NEW i \in Ids
               PROVE  LastUpsert(First(page, n), i) =
                        IF c.id = i /\ ~c.deleted THEN {n} ELSE LastUpsert(First(page, n - 1), i)
    OBVIOUS
  <2> DEFINE Upsert(k) == page[k].id = i /\ ~page[k].deleted
             Last(N) == {m \in 1..N : Upsert(m) /\ \A k \in 1..N : Upsert(k) => k <= m}
  <2>1. LastUpsert(First(page, n), i) = Last(n) /\ LastUpsert(First(page, n - 1), i) = Last(n - 1)
    BY <1>2, FirstFields
  <2>2. Upsert(n) <=> c.id = i /\ ~c.deleted
    BY <1>1
  <2> HIDE DEF Upsert
  <2>3. CASE Upsert(n)
    <3>1. n \in Last(n) /\ \A m \in 1..n : m \in Last(n) => n <= m
      BY <1>5, <2>3
    <3>2. \A m \in 1..n : n <= m => m = n
      OBVIOUS
    <3>3. Last(n) = {n}
      BY <3>1, <3>2
    <3> QED
      BY <2>1, <2>2, <2>3, <3>3
  <2>4. CASE ~Upsert(n)
    <3>1. Last(n) = Last(n - 1)
      BY <1>5, <2>4
    <3> QED
      BY <2>1, <2>2, <2>4, <3>1
  <2> QED
    BY <2>3, <2>4
<1>8. \A m \in 1..(n - 1) : First(page, n)[m] = page[m] /\ First(page, n - 1)[m] = page[m]
  BY <1>5 DEF First
<1>9. First(page, n)[n] = c
  BY <1>1 DEF First
<1>10. \A i \in Ids : LastUpsert(First(page, n - 1), i) \subseteq 1..(n - 1)
  BY <1>2, FirstFields
<1>11. PICK before : before = Applied(rows, gone, First(page, n - 1))
  OBVIOUS
<1>12. before = [i \in Ids |-> before[i]]
  BY <1>11 DEF Applied
<1>13. Applied(rows, gone, First(page, n)) =
         IF c.deleted THEN [before EXCEPT ![c.id] = None]
         ELSE [before EXCEPT ![c.id] = IF c.id \in gone \cup old THEN before[c.id] ELSE c.event]
  <2>1. ASSUME NEW i \in Ids
        PROVE  Applied(rows, gone, First(page, n))[i] =
                 IF i # c.id THEN before[i]
                 ELSE IF c.deleted THEN None
                 ELSE IF c.id \in gone \cup old THEN before[i] ELSE c.event
    <3>1. CASE i # c.id
      <4>1. (i \in new <=> i \in old) /\ LastUpsert(First(page, n), i) = LastUpsert(First(page, n - 1), i)
        BY <1>6, <1>7, <3>1
      <4>2. PICK L : L = LastUpsert(First(page, n - 1), i)
        OBVIOUS
      <4>3. L # {} => First(page, n)[CHOOSE k \in L : TRUE] = First(page, n - 1)[CHOOSE k \in L : TRUE]
        BY <1>8, <1>10, <4>2
      <4> QED
        BY <1>3, <1>4, <1>11, <3>1, <4>1, <4>2, <4>3 DEF Applied
    <3>2. CASE i = c.id /\ c.deleted
      BY <1>4, <1>6, <3>2 DEF Applied
    <3>3. CASE i = c.id /\ ~c.deleted /\ i \in gone \cup old
      <4>1. new = old
        BY <1>6, <3>3
      <4> QED
        BY <1>3, <1>4, <1>11, <3>3, <4>1 DEF Applied
    <3>4. CASE i = c.id /\ ~c.deleted /\ i \notin gone \cup old
      <4>1. new = old /\ LastUpsert(First(page, n), i) = {n} /\ (CHOOSE k \in {n} : TRUE) = n
        BY <1>6, <1>7, <3>4
      <4> QED
        BY <1>4, <1>9, <3>4, <4>1 DEF Applied
    <3> QED
      BY <3>1, <3>2, <3>3, <3>4
  <2>2. Applied(rows, gone, First(page, n)) = [i \in Ids |-> Applied(rows, gone, First(page, n))[i]]
    BY DEF Applied
  <2> QED
    BY <1>2, <1>12, <2>1, <2>2
<1>14. PICK was : was = [rows |-> before, gone |-> gone \cup old]
  OBVIOUS
<1>15. Changed(was, c) = [rows |-> Applied(rows, gone, First(page, n)), gone |-> gone \cup new]
  <2>1. CASE c.deleted
    BY <1>6, <1>13, <1>14, <2>1 DEF Changed
  <2>2. CASE ~c.deleted
    <3>1. was.rows = before /\ was.gone = gone \cup old /\ new = old
      BY <1>6, <1>14, <2>2
    <3>2. Changed(was, c) =
            [was EXCEPT !.rows = [before EXCEPT ![c.id] = IF c.id \in gone \cup old THEN before[c.id] ELSE c.event]]
      BY <2>2, <3>1 DEF Changed
    <3> QED
      BY <1>13, <1>14, <2>2, <3>1, <3>2
  <2> QED
    BY <2>1, <2>2
<1> QED
  BY <1>1, <1>3, <1>4, <1>11, <1>14, <1>15

LEMMA WholeIsOneByOne ==
  ASSUME NEW rows \in [Ids -> Events \cup {None}], NEW gone \in SUBSET Ids, NEW page \in Pages
  PROVE  [rows |-> Applied(rows, gone, page), gone |-> gone \cup Deleted(page)] = OneByOne(rows, gone, page)
<1>1. PICK N \in Nat : page \in [1..N -> Changes] /\ Len(page) = N
  <2>1. PICK n \in 0..MaxPage : page \in [1..n -> Changes]
    BY DEF Pages
  <2> QED
    BY <2>1, StoreAssumption
<1> DEFINE Whole(k) == [rows |-> Applied(rows, gone, First(page, k)), gone |-> gone \cup Deleted(First(page, k))]
           begin == [rows |-> rows, gone |-> gone]
           g == [n \in 0..N |-> Whole(n)]
           Loop(f) == f = [n \in 0..N |-> IF n = 0 THEN begin ELSE Changed(f[n - 1], page[n])]
           after == CHOOSE f : Loop(f)
<1>2. Whole(0) = begin
  <2>1. Deleted(First(page, 0)) = {} /\ \A i : LastUpsert(First(page, 0), i) = {}
    BY FirstFields
  <2>2. Applied(rows, gone, First(page, 0)) = rows
    BY <2>1 DEF Applied
  <2> QED
    BY <2>1, <2>2
<1>3. \A n \in 1..N : Whole(n) = Changed(Whole(n - 1), page[n])
  BY <1>1, OneMore
<1>4. First(page, N) = page
  BY <1>1 DEF First
<1> HIDE DEF Whole, begin
<1>5. Loop(g)
  <2>1. \A n \in 1..N : n - 1 \in 0..N
    BY <1>1
  <2> QED
    BY <1>1, <1>2, <1>3, <2>1
<1>6. Loop(after)
  BY <1>5
<1> HIDE DEF after
<1>7. after[0] = g[0]
  BY <1>1, <1>2, <1>6
<1>8. \A n \in 1..N : after[n - 1] = g[n - 1] => after[n] = g[n]
  BY <1>1, <1>5, <1>6
<1>9. after[N] = g[N]
  BY <1>1, <1>7, <1>8, LoopsAgree
<1>10. OneByOne(rows, gone, page) = after[N]
  BY <1>1 DEF OneByOne, after, begin
<1> QED
  BY <1>1, <1>4, <1>9, <1>10 DEF Whole

(* A page is written as a whole in the model and change by change in the   *)
(* code (store.rs, apply_page): they come to the same cache, whatever the  *)
(* page repeats, deletes and brings again.                                 *)
THEOREM StorePageAppliesInOrder == StoreSpec => []PageAppliesInOrder
<1>1. StoreTypeOK => PageAppliesInOrder
  BY WholeIsOneByOne DEF StoreTypeOK, PageAppliesInOrder
<1> QED
  BY <1>1, StoreTyped, PTL
============================================================================

-------------------------- MODULE CloudSyncProofs --------------------------
(***************************************************************************)
(* Synchronisation with Cloud, for every number of sign-ins, accounts and  *)
(* records: it drives the database only through the steps of Store, so     *)
(* that every theorem of StoreProofs holds of it, and what leaves and      *)
(* reaches this machine is what the user authorised.                       *)
(***************************************************************************)
EXTENDS CloudSync, StoreProofs, FiniteSetTheorems, WellFoundedInduction

(* The answer to a download spans no more than a page. *)
LEMMA ThroughType ==
  ASSUME CloudTypeOK, NEW s \in Scopes
  PROVE  /\ After \in 0..MaxPosition
         /\ Through(s, After) \in 0..MaxPosition
         /\ SubSeq(log[s], After + 1, Through(s, After)) \in Pages
<1> DEFINE through == Through(s, After)
           page == SubSeq(log[s], After + 1, through)
<1> USE StoreAssumption, CloudAssumption
<1>1. After \in 0..MaxPosition /\ After \in Nat
  BY DEF After, CloudTypeOK, StoreTypeOK
<1>2. log[s] \in Seq(Changes) /\ Len(log[s]) \in Nat /\ Len(log[s]) <= MaxPosition
  BY DEF CloudTypeOK
<1>3. /\ through \in 0..MaxPosition
      /\ through >= After
      /\ through - After \in 0..MaxPage
      /\ through <= Len(log[s]) \/ through = After
  BY <1>1, <1>2 DEF Through
<1>4. page \in [1..(through - After) -> Changes]
  <2>1. Len(page) = through - After /\ page = [n \in 1..(through - After) |-> log[s][n + After]]
    BY <1>1, <1>2, <1>3
  <2>2. \A n \in 1..(through - After) : n + After \in 1..Len(log[s])
    BY <1>1, <1>2, <1>3
  <2>3. \A n \in 1..Len(log[s]) : log[s][n] \in Changes
    BY <1>2
  <2>4. QED
    BY <2>1, <2>2, <2>3
<1>5. QED
  BY <1>1, <1>3, <1>4 DEF Pages

(* Every step of the synchronisation is a step of the database or leaves   *)
(* it alone.                                                               *)
LEMMA CloudStoreStep ==
  CloudTypeOK /\ AgentInStep /\ [CloudNext]_cloudVars => [StoreNext]_storeVars
<1> SUFFICES ASSUME CloudTypeOK, AgentInStep, CloudNext
             PROVE  [StoreNext]_storeVars
  BY DEF cloudVars
<1>1. CASE Start
  BY <1>1 DEF Start, StoreNext
<1>2. CASE Crash
  BY <1>2 DEF Crash, StoreNext
<1>3. ASSUME NEW i \in LocalIds, Record(i)
      PROVE  StoreNext
  <2>1. i \in Ids /\ Observation[i] \in Events
    BY CloudAssumption
  <2>2. (IF sink = None THEN NotShared ELSE sink) \in Dests \cup {NotShared}
    BY DEF CloudTypeOK
  <2>3. QED
    BY <1>3, <2>1, <2>2 DEF Record, StoreNext
<1>4. CASE Download
  <2>1. sink \in Dests /\ account[sink] \in Scopes
    BY <1>4 DEF Download, CloudTypeOK
  <2>2. CASE UNCHANGED storeVars
    BY <2>2
  <2>3. CASE ApplyPage(account[sink], After, Through(account[sink], After),
               SubSeq(log[account[sink]], After + 1, Through(account[sink], After)))
    BY <2>1, <2>3, ThroughType DEF StoreNext
  <2>4. QED
    BY <1>4, <2>2, <2>3 DEF Download
<1>5. CASE DownloadRejected
  BY <1>5 DEF DownloadRejected, StoreNext
<1>6. CASE ShowAndSend
  BY <1>6 DEF ShowAndSend, ShowAndSendTo, StoreNext, CloudTypeOK
<1>7. CASE Acknowledged
  <2>1. sink \in Dests /\ Ids_(sent) \in SUBSET Ids
    BY <1>7 DEF Acknowledged, ReceiptFor, AgentInStep, CloudTypeOK, Ids_
  <2>2. QED
    BY <1>7, <2>1 DEF Acknowledged, ReceiptFor, StoreNext
<1>8. CASE Reload
  BY <1>8 DEF Reload, StoreNext
<1>9. CASE QueueHistory
  <2>1. asked \in Dests
    BY <1>9 DEF QueueHistory, CloudTypeOK
  <2>2. QED
    BY <1>9, <2>1 DEF QueueHistory, StoreNext
<1>10. CASE UNCHANGED storeVars
  BY <1>10
<1>11. QED
  BY <1>1, <1>2, <1>3, <1>4, <1>5, <1>6, <1>7, <1>8, <1>9, <1>10
     DEF CloudNext, Accept, Refuse, OtherDevice, Administer, Wake, DownloadFails,
         UploadRejected, UploadFails, Configure, AskHistory, Backoff

LEMMA CloudTypeInit == CloudInit => CloudTypeOK
<1> SUFFICES ASSUME CloudInit
             PROVE  CloudTypeOK
  OBVIOUS
<1> USE StoreAssumption, CloudAssumption
<1>1. StoreTypeOK
  BY StoreTypeInit DEF CloudInit
<1>2. log \in [Scopes -> Seq(Changes)] /\ \A s \in Scopes : Len(log[s]) <= MaxPosition
  BY DEF CloudInit
<1>3. switches \in 0..MaxSwitches /\ troubles \in 0..MaxTroubles
  BY DEF CloudInit
<1>4. /\ uploaded \in [Dests -> [Ids -> Events \cup {None}]]
      /\ account \in [Dests -> Scopes]
      /\ access \in [Dests -> {"member", "revoked", "moved"}]
      /\ requests \subseteq Requests
  BY DEF CloudInit
<1>5. QED
  BY <1>1, <1>2, <1>3, <1>4 DEF CloudInit, CloudTypeOK

LEMMA ChangesType ==
  ASSUME NEW n \in Nat, NEW f \in [1..n -> Changes]
  PROVE  f \in Seq(Changes) /\ Len(f) = n
OBVIOUS

(* A change stream grows by typed changes at the positions that follow. *)
LEMMA LogStep ==
  ASSUME CloudTypeOK, NEW s \in Scopes, NEW more \in Seq(Changes),
         log' = [log EXCEPT ![s] = @ \o more],
         Len(log[s]) + Len(more) <= MaxPosition
  PROVE  /\ log' \in [Scopes -> Seq(Changes)]
         /\ \A t \in Scopes : Len(log'[t]) <= MaxPosition
<1>1. log \in [Scopes -> Seq(Changes)] /\ \A t \in Scopes : Len(log[t]) <= MaxPosition
  BY DEF CloudTypeOK
<1>2. log[s] \o more \in Seq(Changes) /\ Len(log[s] \o more) = Len(log[s]) + Len(more)
  BY <1>1
<1>3. QED
  BY <1>1, <1>2

(* What Cloud accepts, and what another device adds, is appended to the    *)
(* account's change stream.                                                *)
LEMMA AcceptAppends ==
  ASSUME CloudTypeOK, NEW r \in requests, Accept(r)
  PROVE  \E more \in Seq(Changes) :
           /\ Len(log[account[r.to]]) + Len(more) <= MaxPosition
           /\ log' = [log EXCEPT ![account[r.to]] = @ \o more]
<1> USE StoreAssumption, CloudAssumption
<1> DEFINE s == account[r.to]
           new == {i \in Ids_(r) : ~Has(s, i)}
<1>1. r \in Requests /\ s \in Scopes /\ r.rows \in [Ids -> Events \cup {None}]
  BY DEF CloudTypeOK, Requests
<1>2. PICK order \in [1..Cardinality(new) -> new] :
        /\ Len(log[s]) + Cardinality(new) <= MaxPosition
        /\ log' = [log EXCEPT ![s] = @ \o
              [n \in DOMAIN order |->
                 [Change(s, order[n], r.rows[order[n]], FALSE)
                    EXCEPT !.sequence = Len(log[s]) + n]]]
  BY DEF Accept
<1> DEFINE more == [n \in DOMAIN order |->
                      [Change(s, order[n], r.rows[order[n]], FALSE)
                         EXCEPT !.sequence = Len(log[s]) + n]]
<1>3. Len(log[s]) \in Nat
  BY <1>1 DEF CloudTypeOK
<1>4. Cardinality(new) \in Nat
  BY FS_Subset, FS_CardinalityType DEF Ids_
<1>5. \A n \in 1..Cardinality(new) : order[n] \in Ids /\ r.rows[order[n]] \in Events
  BY <1>1, <1>2 DEF Ids_
<1>6. \A n \in 1..Cardinality(new) : more[n] \in Changes
  <2> SUFFICES ASSUME NEW n \in 1..Cardinality(new)
               PROVE  more[n] \in Changes
    OBVIOUS
  <2>1. more[n] = [sequence |-> Len(log[s]) + n, id |-> order[n],
                   event |-> r.rows[order[n]], deleted |-> FALSE]
    BY <1>2, <1>3 DEF Change
  <2>2. Len(log[s]) + n \in 1..MaxPosition
    BY <1>2, <1>3, <1>4
  <2>3. QED
    BY <1>5, <2>1, <2>2 DEF Changes
<1>7. more \in [1..Cardinality(new) -> Changes]
  BY <1>2, <1>6
<1>8. more \in Seq(Changes) /\ Len(more) = Cardinality(new)
  BY <1>4, <1>7, ChangesType
<1>9. QED
  BY <1>2, <1>8

LEMMA OtherAppends ==
  ASSUME CloudTypeOK, NEW s \in Scopes, OtherDevice(s)
  PROVE  \E c \in Changes : Len(log[s]) + 1 <= MaxPosition
                            /\ log' = [log EXCEPT ![s] = Append(@, c)]
<1> USE StoreAssumption, CloudAssumption
<1>1. log[s] \in Seq(Changes) /\ Len(log[s]) \in Nat /\ Len(log[s]) + 1 <= MaxPosition
  BY DEF OtherDevice, CloudTypeOK
<1>2. CASE \E i \in Ids \ LocalIds : \E e \in OtherEvents[i] :
             log' = [log EXCEPT ![s] = Append(@, Change(s, i, e, FALSE))]
  <2>1. PICK i \in Ids \ LocalIds : \E e \in OtherEvents[i] :
          log' = [log EXCEPT ![s] = Append(@, Change(s, i, e, FALSE))]
    BY <1>2
  <2>2. PICK e \in OtherEvents[i] : log' = [log EXCEPT ![s] = Append(@, Change(s, i, e, FALSE))]
    BY <2>1
  <2>3. i \in Ids /\ e \in Events
    BY <2>2
  <2>4. Change(s, i, e, FALSE) \in Changes
    BY <1>1, <2>3 DEF Change, Changes
  <2>5. QED
    BY <1>1, <2>2, <2>4
<1>3. CASE \E n \in 1..Len(log[s]) :
             log' = [log EXCEPT ![s] = Append(@, Change(s, @[n].id, @[n].event, TRUE))]
  <2>1. PICK n \in 1..Len(log[s]) :
          log' = [log EXCEPT ![s] = Append(@, Change(s, @[n].id, @[n].event, TRUE))]
    BY <1>3
  <2>2. log[s][n] \in Changes
    BY <1>1
  <2>3. log[s][n].id \in Ids /\ log[s][n].event \in Events
    BY <2>2 DEF Changes
  <2>4. Change(s, log[s][n].id, log[s][n].event, TRUE) \in Changes
    BY <1>1, <2>3 DEF Change, Changes
  <2>5. QED
    BY <1>1, <2>1, <2>4 DEF CloudTypeOK
<1>4. QED
  BY <1>2, <1>3 DEF OtherDevice

LEMMA CloudTypeStep ==
  CloudTypeOK /\ AgentInStep /\ [CloudNext]_cloudVars => CloudTypeOK'
<1> SUFFICES ASSUME CloudTypeOK, AgentInStep, [CloudNext]_cloudVars
             PROVE  CloudTypeOK'
  OBVIOUS
<1> USE StoreAssumption, CloudAssumption
<1>0. StoreTypeOK'
  BY CloudStoreStep, StoreTypeStep DEF CloudTypeOK
<1>1. ASSUME NEW r \in requests, Accept(r)
      PROVE  CloudTypeOK'
  <2>1. r \in Requests /\ account[r.to] \in Scopes
    BY DEF CloudTypeOK, Requests
  <2>2. PICK more \in Seq(Changes) :
          /\ Len(log[account[r.to]]) + Len(more) <= MaxPosition
          /\ log' = [log EXCEPT ![account[r.to]] = @ \o more]
    BY <1>1, AcceptAppends
  <2>3. log' \in [Scopes -> Seq(Changes)] /\ \A t \in Scopes : Len(log'[t]) <= MaxPosition
    BY <2>1, <2>2, LogStep
  <2>4. uploaded' \in [Dests -> [Ids -> Events \cup {None}]]
    BY <1>1, <2>1 DEF Accept, CloudTypeOK, Requests
  <2>5. QED
    BY <1>0, <1>1, <2>3, <2>4 DEF Accept, CloudTypeOK
<1>2. ASSUME NEW r \in requests, Refuse(r)
      PROVE  CloudTypeOK'
  BY <1>0, <1>2 DEF Refuse, CloudTypeOK, serverVars
<1>3. ASSUME NEW s \in Scopes, OtherDevice(s)
      PROVE  CloudTypeOK'
  <2>1. log[s] \in Seq(Changes) /\ Len(log[s]) \in Nat
    BY DEF CloudTypeOK
  <2>2. PICK c \in Changes : Len(log[s]) + 1 <= MaxPosition
                             /\ log' = [log EXCEPT ![s] = Append(@, c)]
    BY <1>3, OtherAppends
  <2>3. log' \in [Scopes -> Seq(Changes)] /\ \A t \in Scopes : Len(log'[t]) <= MaxPosition
    <3>1. Append(log[s], c) \in Seq(Changes) /\ Len(Append(log[s], c)) = Len(log[s]) + 1
      BY <2>1, <2>2
    <3>2. QED
      BY <2>1, <2>2, <3>1 DEF CloudTypeOK
  <2>4. QED
    BY <1>0, <1>3, <2>3 DEF OtherDevice, CloudTypeOK, agentVars
<1>4. ASSUME NEW d \in Dests, Administer(d)
      PROVE  CloudTypeOK'
  <2>1. troubles' \in 0..MaxTroubles
    BY <1>4 DEF Administer, CloudTypeOK
  <2>2. account' \in [Dests -> Scopes]
    BY <1>4 DEF Administer, CloudTypeOK
  <2>3. access' \in [Dests -> {"member", "revoked", "moved"}]
    BY <1>4 DEF Administer, CloudTypeOK
  <2>4. QED
    BY <1>0, <1>4, <2>1, <2>2, <2>3 DEF Administer, CloudTypeOK, agentVars
<1>5. CASE Start
  BY <1>0, <1>5 DEF Start, CloudTypeOK, serverVars
<1>6. CASE Crash
  <2>1. troubles' \in 0..MaxTroubles
    BY <1>6 DEF Crash, CloudTypeOK
  <2>2. QED
    BY <1>0, <1>6, <2>1 DEF Crash, CloudTypeOK, serverVars
<1>7. ASSUME NEW i \in LocalIds, Record(i)
      PROVE  CloudTypeOK'
  BY <1>0, <1>7 DEF Record, CloudTypeOK, serverVars, agentVars
<1>8. CASE Wake
  BY <1>0, <1>8 DEF Wake, CloudTypeOK, serverVars
<1>9. CASE Download
  BY <1>0, <1>9 DEF Download, CloudTypeOK, serverVars
<1>10. CASE DownloadRejected
  BY <1>0, <1>10 DEF DownloadRejected, Backoff, CloudTypeOK, serverVars
<1>11. CASE DownloadFails
  BY <1>0, <1>11 DEF DownloadFails, Backoff, CloudTypeOK, serverVars
<1>12. CASE ShowAndSend
  <2> DEFINE r == [to |-> sink, rows |-> [i \in Ids |->
                     IF i \in Pending(sink, Limit) THEN outbox[sink][i] ELSE None]]
  <2>1. r \in Requests
    BY <1>12 DEF ShowAndSend, ShowAndSendTo, AgentInStep, CloudTypeOK, StoreTypeOK, Requests
  <2>2. requests' \subseteq Requests /\ sent' \in Requests \cup {None}
    BY <1>12, <2>1 DEF ShowAndSend, ShowAndSendTo, CloudTypeOK
  <2>3. QED
    BY <1>0, <1>12, <2>2 DEF ShowAndSend, ShowAndSendTo, CloudTypeOK, serverVars
<1>13. CASE Acknowledged
  BY <1>0, <1>13 DEF Acknowledged, ReceiptFor, CloudTypeOK, serverVars
<1>14. CASE UploadRejected
  BY <1>0, <1>14 DEF UploadRejected, Backoff, CloudTypeOK, serverVars
<1>15. CASE UploadFails
  BY <1>0, <1>15 DEF UploadFails, Backoff, CloudTypeOK, serverVars
<1>16. CASE Reload
  BY <1>0, <1>16 DEF Reload, CloudTypeOK, serverVars
<1>17. ASSUME NEW c \in Dests \cup {None}, Configure(c)
       PROVE  CloudTypeOK'
  <2>1. switches' \in 0..MaxSwitches
    BY <1>17 DEF Configure, CloudTypeOK
  <2>2. reload' \in BOOLEAN
    BY <1>17 DEF Configure, CloudTypeOK
  <2>3. QED
    BY <1>0, <1>17, <2>1, <2>2 DEF Configure, CloudTypeOK, serverVars, agentVars
<1>18. CASE AskHistory
  BY <1>0, <1>18 DEF AskHistory, CloudTypeOK, serverVars, agentVars
<1>19. CASE QueueHistory
  BY <1>0, <1>19 DEF QueueHistory, CloudTypeOK, serverVars, agentVars
<1>20. CASE UNCHANGED cloudVars
  BY <1>0, <1>20 DEF cloudVars, CloudTypeOK, serverVars, agentVars
<1>21. QED
  BY <1>1, <1>2, <1>3, <1>4, <1>5, <1>6, <1>7, <1>8, <1>9, <1>10, <1>11, <1>12, <1>13,
     <1>14, <1>15, <1>16, <1>17, <1>18, <1>19, <1>20 DEF CloudNext

-----------------------------------------------------------------------------

LEMMA AgentStep ==
  CloudTypeOK /\ AgentInStep /\ ViewVerified /\ [CloudNext]_cloudVars
    => AgentInStep' /\ ViewVerified'
<1> SUFFICES ASSUME CloudTypeOK, AgentInStep, ViewVerified, [CloudNext]_cloudVars
             PROVE  AgentInStep' /\ ViewVerified'
  OBVIOUS
<1> USE StoreAssumption DEF AgentInStep, ViewVerified
<1>1. ASSUME NEW r \in requests, Accept(r)
      PROVE  AgentInStep' /\ ViewVerified'
  <2>1. r # None /\ r \in Requests
    BY NoneIsNoRequest DEF CloudTypeOK
  <2>2. \A d \in Dests : \A i \in Ids : uploaded[d][i] # None => uploaded'[d][i] # None
    BY <1>1, <2>1 DEF Accept, CloudTypeOK, Ids_, Requests
  <2>3. \A i \in Ids_(r) : r.to \in Dests /\ uploaded'[r.to][i] # None
    BY <1>1, <2>1 DEF Accept, CloudTypeOK, Ids_, Requests
  <2>4. reply' = "stored" => sent # None /\ \A i \in Ids_(sent) : uploaded'[sink][i] # None
    <3>1. CASE r = sent
      BY <3>1, <2>1, <2>3
    <3>2. CASE r # sent
      BY <1>1, <3>2, <2>2 DEF Accept, Ids_, CloudTypeOK
    <3>3. QED
      BY <3>1, <3>2
  <2>5. QED
    BY <1>1, <2>4 DEF Accept, storeVars, Ids_
<1>2. ASSUME NEW r \in requests, Refuse(r)
      PROVE  AgentInStep' /\ ViewVerified'
  BY <1>2 DEF Refuse, storeVars, serverVars, Ids_
<1>3. ASSUME NEW s \in Scopes, OtherDevice(s)
      PROVE  AgentInStep' /\ ViewVerified'
  BY <1>3 DEF OtherDevice, storeVars, agentVars, Ids_
<1>4. ASSUME NEW d \in Dests, Administer(d)
      PROVE  AgentInStep' /\ ViewVerified'
  BY <1>4 DEF Administer, storeVars, agentVars, Ids_
<1>5. CASE Start
  BY <1>5 DEF Start, Open, serverVars
<1>6. CASE Crash
  BY <1>6 DEF Crash, Close, serverVars
<1>7. ASSUME NEW i \in LocalIds, Record(i)
      PROVE  AgentInStep' /\ ViewVerified'
  BY <1>7 DEF Record, Idle, Ingest, IngestNew, IngestReplay, storeVars, serverVars, agentVars, Ids_
<1>8. CASE Wake
  BY <1>8 DEF Wake, storeVars, serverVars, Ids_
<1>9. CASE Download
  BY <1>9 DEF Download, Idle, ApplyPage, storeVars, serverVars, Ids_, CloudTypeOK
<1>10. CASE DownloadRejected
  BY <1>10 DEF DownloadRejected, Idle, Activate, Backoff, serverVars, Ids_
<1>11. CASE DownloadFails
  BY <1>11 DEF DownloadFails, Idle, Backoff, storeVars, serverVars, Ids_
<1>12. CASE ShowAndSend
  BY <1>12 DEF ShowAndSend, ShowAndSendTo, Activate, serverVars, Ids_, CloudTypeOK
<1>13. CASE Acknowledged
  BY <1>13 DEF Acknowledged, ReceiptFor, Acknowledge, serverVars, Ids_
<1>14. CASE UploadRejected
  BY <1>14 DEF UploadRejected, Backoff, storeVars, serverVars, Ids_
<1>15. CASE UploadFails
  BY <1>15 DEF UploadFails, Backoff, storeVars, serverVars, Ids_
<1>16. CASE Reload
  BY <1>16 DEF Reload, Idle, Activate, storeVars, serverVars, Ids_
<1>17. ASSUME NEW c \in Dests \cup {None}, Configure(c)
       PROVE  AgentInStep' /\ ViewVerified'
  BY <1>17 DEF Configure, storeVars, serverVars, agentVars, Ids_
<1>18. CASE AskHistory
  BY <1>18 DEF AskHistory, storeVars, serverVars, agentVars, Ids_
<1>19. CASE QueueHistory
  BY <1>19 DEF QueueHistory, Unlocked, EnqueueHistory, serverVars, agentVars, Ids_
<1>20. CASE UNCHANGED cloudVars
  BY <1>20 DEF cloudVars, storeVars, serverVars, agentVars, Ids_
<1>21. QED
  BY <1>1, <1>2, <1>3, <1>4, <1>5, <1>6, <1>7, <1>8, <1>9, <1>10, <1>11, <1>12, <1>13,
     <1>14, <1>15, <1>16, <1>17, <1>18, <1>19, <1>20 DEF CloudNext

(* What was authorised stays authorised: the ledger and the decisions are  *)
(* never rewritten, and a request to upload the history is never undone.   *)
LEMMA AuthorisedStays ==
  ASSUME StoreInv, [StoreNext]_storeVars,
         NEW d \in Dests, NEW i \in Ids, NEW row, Authorised(d, i, row)
  PROVE  Authorised(d, i, row)'
<1>1. local[i] # None /\ row = Mask(local[i])
  BY DEF Authorised
<1>2. local'[i] = local[i] /\ decision'[i] = decision[i] /\ consent[d] \subseteq consent'[d]
  <2>1. CASE Open
    BY <1>1, <2>1 DEF Open, KeepOr, StoreInv, StoreTypeOK, LedgerDecided, queueVars
  <2>2. ASSUME NEW j \in Ids, NEW e \in Events, NEW c \in Dests \cup {NotShared}, Ingest(j, e, c)
        PROVE  local'[i] = local[i] /\ decision'[i] = decision[i] /\ consent' = consent
    BY <1>1, <2>2 DEF Ingest, IngestNew, IngestReplay, storeVars, ledgerVars, queueVars,
                      StoreInv, StoreTypeOK
  <2>3. ASSUME NEW c \in Dests, EnqueueHistory(c)
        PROVE  local' = local /\ decision' = decision /\ consent[d] \subseteq consent'[d]
    BY <2>3 DEF EnqueueHistory, ledgerVars, StoreInv, StoreTypeOK
  <2>4. CASE UNCHANGED <<local, decision, consent>>
    BY <2>4
  <2>5. QED
    BY <2>1, <2>2, <2>3, <2>4
       DEF StoreNext, Close, Acknowledge, ApplyPage, Activate, storeVars, ledgerVars, queueVars
<1>3. QED
  BY <1>1, <1>2 DEF Authorised, Mask

LEMMA SharedStep ==
  StoreInv /\ CloudTypeOK /\ AgentInStep /\ RequestsAuthorised /\ OnlyAuthorised
    /\ [CloudNext]_cloudVars => RequestsAuthorised' /\ OnlyAuthorised'
<1> SUFFICES ASSUME StoreInv, CloudTypeOK, AgentInStep, RequestsAuthorised, OnlyAuthorised,
                    [CloudNext]_cloudVars
             PROVE  RequestsAuthorised' /\ OnlyAuthorised'
  OBVIOUS
<1>1. [StoreNext]_storeVars
  BY CloudStoreStep
<1>2. \A d \in Dests, i \in Ids : \A row : Authorised(d, i, row) => Authorised(d, i, row)'
  BY <1>1, AuthorisedStays
<1>3. ASSUME NEW r \in Requests, \A i \in Ids_(r) : Authorised(r.to, i, r.rows[i])
      PROVE  \A i \in Ids_(r) : Authorised(r.to, i, r.rows[i])'
  BY <1>2, <1>3 DEF Requests, Ids_, Authorised
<1>4. CASE ShowAndSend
  <2> DEFINE r == [to |-> sink, rows |-> [i \in Ids |->
                     IF i \in Pending(sink, Limit) THEN outbox[sink][i] ELSE None]]
  <2>1. sink \in Dests
    BY <1>4 DEF ShowAndSend, ShowAndSendTo, AgentInStep, CloudTypeOK
  <2>2. r \in Requests
    BY <2>1 DEF CloudTypeOK, StoreTypeOK, Requests
  <2>3. \A i \in Ids_(r) : i \in Waiting(sink) /\ r.rows[i] = outbox[sink][i]
    BY DEF Ids_, Pending
  <2>4. \A i \in Ids_(r) : Authorised(r.to, i, r.rows[i])
    BY <2>1, <2>3 DEF StoreInv, QueueMirrorsLedger, SharedAsDecided, Authorised, Ids_
  <2>5. \A q \in requests' : q \in requests \/ q = r
    BY <1>4 DEF ShowAndSend, ShowAndSendTo
  <2>6. RequestsAuthorised'
    BY <1>3, <2>2, <2>4, <2>5 DEF RequestsAuthorised, CloudTypeOK, Ids_
  <2>7. OnlyAuthorised'
    BY <1>2, <1>4 DEF ShowAndSend, ShowAndSendTo, serverVars, OnlyAuthorised
  <2>8. QED
    BY <2>6, <2>7
<1>5. ASSUME NEW r \in requests, Accept(r)
      PROVE  RequestsAuthorised' /\ OnlyAuthorised'
  <2>1. r \in Requests /\ requests' \subseteq requests
    BY <1>5 DEF Accept, CloudTypeOK
  <2>2. RequestsAuthorised'
    BY <1>3, <2>1 DEF RequestsAuthorised, CloudTypeOK, Ids_
  <2>3. ASSUME NEW d \in Dests, NEW i \in Ids, uploaded'[d][i] # None
        PROVE  Authorised(d, i, uploaded'[d][i])
    <3>1. CASE d = r.to /\ i \in Ids_(r)
      <4>1. uploaded'[d][i] = r.rows[i]
        BY <1>5, <3>1 DEF Accept, CloudTypeOK
      <4>2. QED
        BY <3>1, <4>1 DEF RequestsAuthorised
    <3>2. CASE ~(d = r.to /\ i \in Ids_(r))
      <4>1. uploaded'[d][i] = uploaded[d][i]
        BY <1>5, <2>1, <3>2 DEF Accept, CloudTypeOK, Requests
      <4>2. QED
        BY <2>3, <4>1 DEF OnlyAuthorised
    <3>3. QED
      BY <3>1, <3>2
  <2>4. OnlyAuthorised'
    BY <1>2, <2>3 DEF OnlyAuthorised, Authorised
  <2>5. QED
    BY <2>2, <2>4
<1>6. CASE requests' \subseteq requests /\ uploaded' = uploaded
  <2>1. RequestsAuthorised'
    BY <1>3, <1>6 DEF RequestsAuthorised, CloudTypeOK, Ids_
  <2>2. OnlyAuthorised'
    BY <1>2, <1>6 DEF OnlyAuthorised
  <2>3. QED
    BY <2>1, <2>2
<1>7. QED
  BY <1>4, <1>5, <1>6
     DEF CloudNext, Refuse, OtherDevice, Administer, Start, Crash, Record, Wake, Download,
         DownloadRejected, DownloadFails, Acknowledged, ReceiptFor, UploadRejected, UploadFails,
         Reload, Configure, AskHistory, QueueHistory, Backoff, serverVars, cloudVars

LEMMA ReceiptsStep ==
  CloudTypeOK /\ AgentInStep /\ ReceiptsAreStored /\ [CloudNext]_cloudVars
    => ReceiptsAreStored'
<1> SUFFICES ASSUME CloudTypeOK, AgentInStep, ReceiptsAreStored, [CloudNext]_cloudVars
             PROVE  ReceiptsAreStored'
  OBVIOUS
<1>1. CASE Acknowledged
  BY <1>1 DEF Acknowledged, ReceiptFor, Acknowledge, serverVars, AgentInStep,
              ReceiptsAreStored, CloudTypeOK, StoreTypeOK
<1>2. ASSUME NEW r \in requests, Accept(r)
      PROVE  ReceiptsAreStored'
  <2>1. \A d \in Dests : \A i \in Ids : uploaded[d][i] # None => uploaded'[d][i] # None
    BY <1>2 DEF Accept, CloudTypeOK, Ids_, Requests
  <2>2. receipts' = receipts
    BY <1>2 DEF Accept, storeVars, queueVars
  <2>3. QED
    BY <2>1, <2>2 DEF ReceiptsAreStored, CloudTypeOK, StoreTypeOK
<1>3. CASE receipts' = receipts /\ uploaded' = uploaded
  BY <1>3 DEF ReceiptsAreStored
<1>4. ASSUME NEW i \in LocalIds, Record(i)
      PROVE  receipts' = receipts /\ uploaded' = uploaded
  BY <1>4 DEF Record, Ingest, IngestNew, IngestReplay, storeVars, queueVars, serverVars
<1>5. QED
  BY <1>1, <1>2, <1>3, <1>4
     DEF CloudNext, Refuse, OtherDevice, Administer, Start, Open, Crash, Close, Wake, Download,
         ApplyPage, DownloadRejected, DownloadFails, ShowAndSend, ShowAndSendTo, Activate,
         UploadRejected, UploadFails, Reload, Configure, AskHistory, QueueHistory,
         EnqueueHistory, Backoff, storeVars, queueVars, serverVars, cloudVars

-----------------------------------------------------------------------------

(* The inductive invariant: the database's and the synchronisation's. *)
CloudIInv == StoreInv /\ CloudInv

LEMMA CloudIInvInit == CloudInit => CloudIInv
<1> SUFFICES ASSUME CloudInit
             PROVE  CloudIInv
  OBVIOUS
<1>1. StoreInv
  BY StoreInvInit DEF CloudInit
<1>2. CloudTypeOK
  BY CloudTypeInit
<1>3. AgentInStep /\ ViewVerified /\ RequestsAuthorised
  BY DEF CloudInit, StoreInit, AgentInStep, ViewVerified, RequestsAuthorised
<1>4. ReceiptsAreStored /\ OnlyAuthorised
  BY DEF CloudInit, StoreInit, ReceiptsAreStored, OnlyAuthorised
<1>5. QED
  BY <1>1, <1>2, <1>3, <1>4 DEF CloudIInv, CloudInv

LEMMA CloudIInvStep == CloudIInv /\ [CloudNext]_cloudVars => CloudIInv'
BY CloudStoreStep, StoreInvStep, CloudTypeStep, AgentStep, SharedStep, ReceiptsStep
   DEF CloudIInv, CloudInv

LEMMA CloudIInvHolds == CloudSpec => []CloudIInv
BY CloudIInvInit, CloudIInvStep, PTL DEF CloudSpec

(* Synchronisation implements the database: whatever the network, the      *)
(* user and Cloud do, each of its transactions is one of Store's, so that  *)
(* the theorems of StoreProofs hold of the running agent.                  *)
THEOREM CloudRefinesStore == CloudSpec => StoreSpec
<1>1. CloudInit => StoreInit
  BY DEF CloudInit
<1>2. CloudIInv /\ [CloudNext]_cloudVars => [StoreNext]_storeVars
  BY CloudStoreStep DEF CloudIInv, CloudInv
<1>3. QED
  BY <1>1, <1>2, CloudIInvHolds, PTL DEF CloudSpec, StoreSpec

(* Every variable of the synchronisation keeps its type (sync_database,    *)
(* reload_cloud_sink, queue_history).                                      *)
THEOREM CloudTyped == CloudSpec => []CloudTypeOK
<1>1. CloudIInv => CloudTypeOK
  BY DEF CloudIInv, CloudInv
<1>2. QED
  BY <1>1, CloudIInvHolds, PTL

(* A record is only ever marked as delivered to a sign-in when Cloud has   *)
(* it from that sign-in (sync_database: the acknowledgment).               *)
THEOREM CloudReceiptsAreStored == CloudSpec => []ReceiptsAreStored
<1>1. CloudIInv => ReceiptsAreStored
  BY DEF CloudIInv, CloudInv
<1>2. QED
  BY <1>1, CloudIInvHolds, PTL

(* Cloud holds nothing of this machine but redacted records that were      *)
(* shared with the sign-in they came through (persist_event, pending,      *)
(* queue_history), however sign-ins are switched.                          *)
THEOREM CloudOnlyAuthorised == CloudSpec => []OnlyAuthorised
<1>1. CloudIInv => OnlyAuthorised
  BY DEF CloudIInv, CloudInv
<1>2. QED
  BY <1>1, CloudIInvHolds, PTL

(* No downloaded record is in view but those of the account Cloud named    *)
(* for the running agent's sign-in (activate, suspend).                    *)
THEOREM CloudViewVerified == CloudSpec => []ViewVerified
<1>1. CloudIInv => ViewVerified
  BY DEF CloudIInv, CloudInv
<1>2. QED
  BY <1>1, CloudIInvHolds, PTL

-----------------------------------------------------------------------------

(* What CacheIsPrefix says of one record of an account. *)
About(s, i, through) == {n \in 1..through : log[s][n].id = i}

RowOfLog(s, i, gone, rows, through) ==
  /\ i \in gone <=> \E n \in About(s, i, through) : log[s][n].deleted
  /\ IF About(s, i, through) = {} \/ i \in gone THEN rows[i] = None
     ELSE \E n \in About(s, i, through) : /\ \A m \in About(s, i, through) : m <= n
                                          /\ rows[i] = log[s][n].event

CursorInLog == \A s \in Scopes : cursor[s] <= Len(log[s])

RowsOfLog ==
  \A s \in Scopes : \A i \in Ids :
    RowOfLog(s, i, tombstones[s], remote[s], cursor[s])

LEMMA CacheInParts == CursorInLog /\ RowsOfLog => CacheIsPrefix
BY DEF CursorInLog, RowsOfLog, CacheIsPrefix, RowOfLog, About

LEMMA GreatestNumber ==
  ASSUME NEW N \in Nat, NEW T \in SUBSET (1..N), T # {}
  PROVE  \E n \in T : \A m \in T : m <= n
<1> DEFINE D == {N - n : n \in T}
<1>1. D \in SUBSET Nat /\ D # {}
  <2>1. \A n \in T : N - n \in Nat
    OBVIOUS
  <2>2. QED
    BY <2>1
<1>2. \E x \in D : \A y \in D : ~ (<<y, x>> \in OpToRel(<, Nat))
  BY <1>1, WFMin, NatLessThanWellFounded
<1>3. PICK x \in D : \A y \in D : ~(y < x)
  BY <1>1, <1>2 DEF OpToRel
<1>4. PICK n \in T : x = N - n
  OBVIOUS
<1>5. \A m \in T : m \in Int /\ ~(N - m < N - n)
  BY <1>3, <1>4
<1>6. N \in Int /\ n \in Int
  BY <1>4
<1> HIDE DEF D
<1>7. \A m \in T : m <= n
  BY ONLY <1>5, <1>6
<1>8. QED
  BY <1>7

(* A page that says something of a record says something last. *)
LEMMA LastUpsertExists ==
  ASSUME NEW page, Len(page) \in Nat, NEW i, Upserts(page, i) # {}
  PROVE  \E n \in Upserts(page, i) :
           LastUpsert(page, i) = {n} /\ \A m \in Upserts(page, i) : m <= n
<1>1. Upserts(page, i) \in SUBSET (1..Len(page))
  BY DEF Upserts
<1>2. PICK n \in Upserts(page, i) : \A m \in Upserts(page, i) : m <= n
  BY <1>1, GreatestNumber
<1>3. LastUpsert(page, i) = {n}
  BY <1>1, <1>2 DEF LastUpsert
<1>4. QED
  BY <1>2, <1>3

(* Applying the changes after the cursor moves the cache on along the log. *)
LEMMA PageOfLog ==
  ASSUME CloudTypeOK, NEW s \in Scopes, NEW i \in Ids,
         NEW from \in Nat, NEW through \in Nat, from <= through, through <= Len(log[s]),
         RowOfLog(s, i, tombstones[s], remote[s], from)
  PROVE  LET page == SubSeq(log[s], from + 1, through)
         IN RowOfLog(s, i, tombstones[s] \cup Deleted(page),
                     Applied(remote[s], tombstones[s], page), through)
<1> DEFINE page == SubSeq(log[s], from + 1, through)
           old == About(s, i, from)
           new == About(s, i, through)
           gone == i \in tombstones[s] \cup Deleted(page)
           row == Applied(remote[s], tombstones[s], page)[i]
<1>1. /\ Len(page) = through - from /\ Len(page) \in Nat
      /\ \A m \in 1..Len(page) : page[m] = log[s][m + from]
  BY DEF CloudTypeOK
<1>2. \A n \in 1..through : n \in 1..from \/ (n - from \in 1..Len(page) /\ page[n - from] = log[s][n])
  <2> SUFFICES ASSUME NEW n \in 1..through, n \notin 1..from
               PROVE  n - from \in 1..Len(page) /\ page[n - from] = log[s][n]
    OBVIOUS
  <2>1. n - from \in 1..(through - from) /\ (n - from) + from = n
    OBVIOUS
  <2>2. QED
    BY <1>1, <2>1
<1>3. \A m \in 1..Len(page) : m + from \in 1..through
  BY <1>1
<1>4. old \subseteq new
  BY DEF About
<1>5. i \in Deleted(page) <=> \E m \in 1..Len(page) : page[m].id = i /\ page[m].deleted
  BY DEF Deleted
<1>6. gone <=> \E n \in new : log[s][n].deleted
  <2>1. ASSUME i \in tombstones[s]
        PROVE  \E n \in new : log[s][n].deleted
    BY <1>4, <2>1 DEF RowOfLog
  <2>2. ASSUME i \in Deleted(page)
        PROVE  \E n \in new : log[s][n].deleted
    BY <1>1, <1>3, <1>5, <2>2 DEF About
  <2>3. ASSUME NEW n \in new, log[s][n].deleted
        PROVE  gone
    <3>1. CASE n \in 1..from
      BY <2>3, <3>1 DEF About, RowOfLog
    <3>2. CASE n \notin 1..from
      BY <1>2, <1>5, <2>3, <3>2 DEF About
    <3>3. QED
      BY <3>1, <3>2
  <2>4. QED
    BY <2>1, <2>2, <2>3
<1>7. ASSUME gone
      PROVE  row = None
  BY <1>7 DEF Applied, RowOfLog
<1>8. ASSUME new = {}
      PROVE  row = None
  <2>1. old = {} /\ Upserts(page, i) = {}
    BY <1>1, <1>3, <1>4, <1>8 DEF About, Upserts
  <2>2. LastUpsert(page, i) = {} /\ remote[s][i] = None
    BY <2>1 DEF LastUpsert, RowOfLog
  <2>3. QED
    BY <2>2 DEF Applied
<1>9. ASSUME ~gone, new # {}
      PROVE  \E n \in new : (\A m \in new : m <= n) /\ row = log[s][n].event
  <2>1. CASE Upserts(page, i) = {}
    <3>1. new = old
      <4>1. ASSUME NEW n \in new
            PROVE  n \in 1..from
        <5>1. CASE n \notin 1..from
          BY <1>2, <1>5, <1>9, <2>1, <5>1 DEF About, Upserts
        <5>2. QED
          BY <5>1
      <4>2. QED
        BY <1>4, <4>1 DEF About
    <3>2. LastUpsert(page, i) = {}
      BY <2>1 DEF LastUpsert
    <3>3. row = remote[s][i]
      BY <1>9, <3>2 DEF Applied
    <3>4. QED
      BY <1>9, <3>1, <3>3 DEF RowOfLog
  <2>2. CASE Upserts(page, i) # {}
    <3>1. PICK k \in Upserts(page, i) :
            LastUpsert(page, i) = {k} /\ \A m \in Upserts(page, i) : m <= k
      BY <1>1, <2>2, LastUpsertExists
    <3>2. k \in 1..Len(page) /\ page[k].id = i
      BY <3>1 DEF Upserts
    <3>3. row = page[k].event
      BY <1>9, <3>1 DEF Applied
    <3>4. k + from \in new /\ row = log[s][k + from].event
      BY <1>1, <1>3, <3>2, <3>3 DEF About
    <3>5. ASSUME NEW m \in new
          PROVE  m <= k + from
      <4>1. m \in 1..through /\ log[s][m].id = i
        BY DEF About
      <4>2. CASE m \in 1..from
        BY <3>2, <4>2
      <4>3. CASE m \notin 1..from
        <5>1. m - from \in 1..Len(page) /\ page[m - from] = log[s][m]
          BY <1>2, <4>1, <4>3
        <5>2. m - from \in Upserts(page, i)
          BY <1>5, <1>9, <4>1, <5>1 DEF Upserts
        <5>3. QED
          BY <3>1, <3>2, <4>1, <5>2
      <4>4. QED
        BY <4>2, <4>3
    <3>6. QED
      BY <3>4, <3>5
  <2>3. QED
    BY <2>1, <2>2
<1>10. QED
  BY <1>6, <1>7, <1>8, <1>9 DEF RowOfLog

(* The part of a change stream that exists is never rewritten.             *)
LogGrows ==
  \A s \in Scopes : /\ Len(log[s]) <= Len(log'[s])
                    /\ \A n \in 1..Len(log[s]) : log'[s][n] = log[s][n]

LEMMA LogGrowsStep ==
  CloudTypeOK /\ AgentInStep /\ [CloudNext]_cloudVars => LogGrows
<1> SUFFICES ASSUME CloudTypeOK, AgentInStep, [CloudNext]_cloudVars
             PROVE  LogGrows
  OBVIOUS
<1>0. /\ log \in [Scopes -> Seq(Changes)]
      /\ \A s \in Scopes : log[s] \in Seq(Changes) /\ Len(log[s]) \in Nat
  BY DEF CloudTypeOK
<1>1. ASSUME NEW r \in requests, Accept(r)
      PROVE  LogGrows
  <2>1. account[r.to] \in Scopes
    BY DEF CloudTypeOK, Requests
  <2>2. PICK more \in Seq(Changes) : log' = [log EXCEPT ![account[r.to]] = @ \o more]
    BY <1>1, AcceptAppends
  <2>3. QED
    BY <1>0, <2>1, <2>2 DEF LogGrows
<1>2. CASE log' = log
  BY <1>0, <1>2 DEF LogGrows
<1>3. ASSUME NEW s \in Scopes, OtherDevice(s)
      PROVE  LogGrows
  <2>1. PICK c \in Changes : log' = [log EXCEPT ![s] = Append(@, c)]
    BY <1>3, OtherAppends
  <2>2. QED
    BY <1>0, <2>1 DEF LogGrows
<1>4. QED
  BY <1>1, <1>2, <1>3
     DEF CloudNext, Refuse, Administer, Start, Crash, Record, Wake, Download,
         DownloadRejected, DownloadFails, ShowAndSend, ShowAndSendTo, Acknowledged, ReceiptFor,
         UploadRejected, UploadFails, Reload, Configure, AskHistory, QueueHistory, Backoff,
         serverVars, cloudVars

(* What the cache says of a record depends on the log up to the cursor.    *)
LEMMA RowStays ==
  ASSUME CloudTypeOK, LogGrows, NEW s \in Scopes, NEW i \in Ids,
         NEW gone, NEW rows, NEW through \in Nat, through <= Len(log[s]),
         RowOfLog(s, i, gone, rows, through)
  PROVE  LET about == {n \in 1..through : log'[s][n].id = i}
         IN /\ i \in gone <=> \E n \in about : log'[s][n].deleted
            /\ IF about = {} \/ i \in gone THEN rows[i] = None
               ELSE \E n \in about : /\ \A m \in about : m <= n
                                     /\ rows[i] = log'[s][n].event
<1>1. \A n \in 1..through : n \in 1..Len(log[s]) /\ log'[s][n] = log[s][n]
  BY DEF LogGrows, CloudTypeOK
<1>2. {n \in 1..through : log'[s][n].id = i} = About(s, i, through)
  BY <1>1 DEF About
<1>3. \A n \in About(s, i, through) : log'[s][n] = log[s][n]
  BY <1>1 DEF About
<1>4. QED
  BY <1>2, <1>3 DEF RowOfLog

CacheParts == CursorInLog /\ RowsOfLog

LEMMA CacheStep ==
  CloudTypeOK /\ AgentInStep /\ CacheParts /\ [CloudNext]_cloudVars => CacheParts'
<1> SUFFICES ASSUME CloudTypeOK, AgentInStep, CacheParts, [CloudNext]_cloudVars
             PROVE  CacheParts'
  OBVIOUS
<1>0. /\ LogGrows
      /\ \A s \in Scopes : cursor[s] \in Nat /\ Len(log[s]) \in Nat /\ cursor[s] <= Len(log[s])
  BY LogGrowsStep, StoreAssumption DEF CloudTypeOK, StoreTypeOK, CacheParts, CursorInLog
<1>1. CASE UNCHANGED <<cursor, tombstones, remote>>
  <2>1. CursorInLog'
    <3>1. \A s \in Scopes : Len(log'[s]) \in Nat
      BY CloudTypeStep DEF CloudTypeOK
    <3>2. QED
      BY <1>0, <1>1, <3>1 DEF CursorInLog, LogGrows
  <2>2. ASSUME NEW s \in Scopes, NEW i \in Ids
        PROVE  RowOfLog(s, i, tombstones[s], remote[s], cursor[s])'
    <3>1. RowOfLog(s, i, tombstones[s], remote[s], cursor[s])
      BY DEF CacheParts, RowsOfLog
    <3>2. LET about == {n \in 1..cursor[s] : log'[s][n].id = i}
          IN /\ i \in tombstones[s] <=> \E n \in about : log'[s][n].deleted
             /\ IF about = {} \/ i \in tombstones[s] THEN remote[s][i] = None
                ELSE \E n \in about : /\ \A m \in about : m <= n
                                      /\ remote[s][i] = log'[s][n].event
      BY <1>0, <3>1, RowStays
    <3>3. QED
      BY <1>1, <3>2 DEF RowOfLog, About
  <2>3. QED
    BY <2>1, <2>2 DEF CacheParts, RowsOfLog
<1>2. CASE Download
  <2> DEFINE s == account[sink]
             through == Through(s, After)
             page == SubSeq(log[s], After + 1, through)
  <2>1. CASE UNCHANGED storeVars
    BY <1>1, <2>1 DEF storeVars, cacheVars
  <2>2. CASE cursor[s] = After /\ ApplyPage(s, After, through, page)
    <3>1. s \in Scopes
      BY <1>2 DEF Download, CloudTypeOK
    <3>2. log' = log
      BY <1>2 DEF Download, serverVars
    <3>3. After \in Nat /\ After <= Len(log[s])
      BY <1>0, <2>2, <3>1
    <3>4. through \in Nat /\ After <= through /\ through <= Len(log[s])
      BY <1>0, <3>1, <3>3, CloudAssumption DEF Through
    <3>5. /\ cursor' = [cursor EXCEPT ![s] = through]
          /\ tombstones' = [tombstones EXCEPT ![s] = @ \cup Deleted(page)]
          /\ remote' = [remote EXCEPT ![s] = Applied(@, tombstones[s], page)]
      BY <2>2 DEF ApplyPage
    <3>6. CursorInLog'
      BY <1>0, <3>1, <3>2, <3>4, <3>5 DEF CursorInLog, CloudTypeOK, StoreTypeOK
    <3>7. ASSUME NEW t \in Scopes, NEW i \in Ids
          PROVE  RowOfLog(t, i, tombstones[t], remote[t], cursor[t])'
      <4>1. CASE t # s
        <5>1. cursor'[t] = cursor[t] /\ tombstones'[t] = tombstones[t] /\ remote'[t] = remote[t]
          BY <3>5, <4>1 DEF CloudTypeOK, StoreTypeOK
        <5>2. QED
          BY <3>2, <5>1 DEF CacheParts, RowsOfLog, RowOfLog, About
      <4>2. CASE t = s
        <5>1. RowOfLog(s, i, tombstones[s], remote[s], After)
          BY <2>2, <3>1 DEF CacheParts, RowsOfLog
        <5>2. RowOfLog(s, i, tombstones[s] \cup Deleted(page),
                       Applied(remote[s], tombstones[s], page), through)
          BY <3>1, <3>3, <3>4, <5>1, PageOfLog
        <5>3. /\ cursor'[s] = through
              /\ tombstones'[s] = tombstones[s] \cup Deleted(page)
              /\ remote'[s] = Applied(remote[s], tombstones[s], page)
          BY <3>1, <3>5 DEF CloudTypeOK, StoreTypeOK
        <5>4. QED
          BY <3>2, <4>2, <5>2, <5>3 DEF RowOfLog, About
      <4>3. QED
        BY <4>1, <4>2
    <3>8. QED
      BY <3>6, <3>7 DEF CacheParts, RowsOfLog
  <2>3. QED
    BY <1>2, <2>1, <2>2 DEF Download
<1>3. QED
  BY <1>1, <1>2
     DEF CloudNext, Accept, Refuse, OtherDevice, Administer, Start, Open, Crash, Close, Record,
         Ingest, IngestNew, IngestReplay, Wake, DownloadRejected, DownloadFails, ShowAndSend,
         ShowAndSendTo, Activate, Acknowledged, ReceiptFor, Acknowledge, UploadRejected,
         UploadFails, Reload, Configure, AskHistory, QueueHistory, EnqueueHistory, Backoff,
         storeVars, cacheVars, cloudVars

LEMMA CacheInit == CloudInit => CacheParts
BY DEF CloudInit, StoreInit, CacheParts, CursorInLog, RowsOfLog, RowOfLog, About

(* What this machine caches of an account is its change stream up to the   *)
(* cursor: no page is skipped or applied twice, whichever pages are lost,  *)
(* refused or cut short, and whoever signs in between (sync_database,      *)
(* apply_page).                                                            *)
THEOREM CloudCacheIsPrefix == CloudSpec => []CacheIsPrefix
<1>1. CloudIInv /\ CacheParts /\ [CloudNext]_cloudVars => CacheParts'
  BY CacheStep DEF CloudIInv, CloudInv
<1>2. CacheParts => CacheIsPrefix
  BY CacheInParts DEF CacheParts
<1>3. QED
  BY <1>1, <1>2, CacheInit, CloudIInvHolds, PTL DEF CloudSpec
============================================================================

------------------------------- MODULE Store -------------------------------
(***************************************************************************)
(* The collector's local database (crates/sink/src/store.rs): the ledger   *)
(* of observations, the sharing decision taken for each of them, the       *)
(* upload queue (outbox) and its receipts, and the cache of what the same  *)
(* account's other devices recorded, page by page, under a cursor.         *)
(*                                                                         *)
(* One process owns the connection and every method runs under one mutex   *)
(* and commits one transaction, so each method is one atomic action.  A    *)
(* crash between two methods loses nothing but the view, which every open  *)
(* resets.  An ingest that fails a check rolls back and changes nothing;   *)
(* what its caller does with the error is modelled by the callers.         *)
(*                                                                         *)
(* An event is a record of metadata and content; masking (cloud.rs,        *)
(* mask_for_cloud) erases the content.  An event id is a number: its rank  *)
(* in the order "ORDER BY event_id" of the outbox query.                   *)
(***************************************************************************)
EXTENDS Naturals, FiniteSets, Sequences

CONSTANTS
  Ids,        \* event identities, numbered in the order of event_id
  Metas,      \* what an event says about a call: everything masking keeps
  Contents,   \* prompt, tool input and output excerpt; includes Redacted
  Redacted,   \* the NULL content of a masked event
  Dests,      \* upload destinations: endpoint, workspace, account and host
  Scopes,     \* remote accounts: endpoint and account id
  Archive,    \* the Parquet history found when the database is first opened
  None,       \* no row
  NotShared,  \* a sharing decision whose destination is NULL
  MaxPosition,\* bound on the server's change positions
  MaxPage     \* bound on the changes of one page

Events == [meta : Metas, content : Contents]

ASSUME StoreAssumption ==
  /\ Ids \subseteq Nat
  /\ Redacted \in Contents
  /\ None \notin Events
  /\ None \notin Dests \cup Scopes \cup {NotShared}
  /\ NotShared \notin Dests
  /\ Archive \in [Ids -> Events \cup {None}]
  /\ MaxPosition \in Nat /\ MaxPage \in Nat

VARIABLES
  open,       \* a process holds the connection
  imported,   \* the imports table names 'parquet'
  local,      \* observations of scope 'local'
  remote,     \* observations downloaded for each account
  tombstones, \* deletions downloaded for each account
  cursor,     \* sync_cursors: position reached for each account
  decision,   \* sharing_decisions
  outbox,     \* masked payloads waiting for each destination
  receipts,   \* identities each destination has acknowledged
  view,       \* the account whose partition raw_events shows, None for none
  consent     \* history variable: what the user asked to upload explicitly

ledgerVars == <<imported, local, decision>>
queueVars  == <<outbox, receipts, consent>>
cacheVars  == <<remote, tombstones, cursor>>
storeVars  == <<open, view, ledgerVars, queueVars, cacheVars>>

Mask(e) == [e EXCEPT !.content = Redacted]

Changes == [sequence : 1..MaxPosition, id : Ids, event : Events, deleted : BOOLEAN]

Pages == UNION {[1..n -> Changes] : n \in 0..MaxPage}

-----------------------------------------------------------------------------

StoreInit ==
  /\ open = FALSE
  /\ imported = FALSE
  /\ local = [i \in Ids |-> None]
  /\ remote = [s \in Scopes |-> [i \in Ids |-> None]]
  /\ tombstones = [s \in Scopes |-> {}]
  /\ cursor = [s \in Scopes |-> 0]
  /\ decision = [i \in Ids |-> None]
  /\ outbox = [d \in Dests |-> [i \in Ids |-> None]]
  /\ receipts = [d \in Dests |-> {}]
  /\ view = None
  /\ consent = [d \in Dests |-> {}]

(* Rows "INSERT ... ON CONFLICT DO NOTHING" leaves in a table. *)
KeepOr(table, row) == [i \in Ids |-> IF table[i] # None THEN table[i] ELSE row[i]]

(* Store::open and Store::import_history, which `shared` runs before it     *)
(* registers the connection: the view shows no account, and the archive is *)
(* copied once, shared with nobody.                                        *)
Open ==
  /\ ~open
  /\ open' = TRUE
  /\ view' = None
  /\ imported' = TRUE
  /\ IF imported
       THEN UNCHANGED <<local, decision>>
       ELSE /\ local' = KeepOr(local, Archive)
            /\ decision' = KeepOr(decision,
                 [i \in Ids |-> IF local'[i] = None THEN None ELSE NotShared])
  /\ UNCHANGED <<queueVars, cacheVars>>

(* The process dies, or stops. The file keeps the last committed view text, *)
(* but nobody can query it before the next open replaces it.               *)
Close ==
  /\ open
  /\ open' = FALSE
  /\ UNCHANGED <<view, ledgerVars, queueVars, cacheVars>>

Conflicts(i, e) == local[i] \notin {None, e}

(* Mutant of Queued: a receipt no longer keeps an identity out. *)
QueuedDespiteReceipt(d, rows) ==
  [outbox EXCEPT ![d] =
     [i \in Ids |-> IF outbox[d][i] # None THEN outbox[d][i] ELSE rows[i]]]

(* Queueing a masked payload: skipped when a receipt or the row exists. *)
Queued(d, rows) ==
  [outbox EXCEPT ![d] =
     [i \in Ids |-> IF outbox[d][i] # None \/ i \in receipts[d] THEN outbox[d][i]
                    ELSE rows[i]]]

(* Mutants of IngestNew: the delivery keeps the content; a known identity  *)
(* is taken as new, so that the last write wins.                           *)
IngestNewUnmasked(i, e, d) ==
  /\ open
  /\ local[i] = None
  /\ local' = [local EXCEPT ![i] = e]
  /\ decision' = [decision EXCEPT ![i] = IF @ = None THEN d ELSE @]
  /\ outbox' = IF d = NotShared THEN outbox
               ELSE Queued(d, [j \in Ids |-> IF j = i THEN e ELSE None])
  /\ UNCHANGED <<open, view, imported, receipts, consent, cacheVars>>

IngestNewLastWins(i, e, d) ==
  /\ open
  /\ local' = [local EXCEPT ![i] = e]
  /\ decision' = [decision EXCEPT ![i] = IF @ = None THEN d ELSE @]
  /\ UNCHANGED <<open, view, imported, queueVars, cacheVars>>

(* Store::ingest_with_sharing of a new event: observation, decision and    *)
(* delivery commit together.                                               *)
IngestNew(i, e, d) ==
  /\ open
  /\ local[i] = None
  /\ local' = [local EXCEPT ![i] = e]
  /\ decision' = [decision EXCEPT ![i] = IF @ = None THEN d ELSE @]
  /\ outbox' = IF d = NotShared THEN outbox
               ELSE Queued(d, [j \in Ids |-> IF j = i THEN Mask(e) ELSE None])
  /\ UNCHANGED <<open, view, imported, receipts, consent, cacheVars>>

(* Mutant of IngestReplay: a replay is queued for whoever is signed in. *)
IngestReplayRequeues(i, e, d) ==
  /\ open
  /\ local[i] = e
  /\ outbox' = IF d = NotShared THEN outbox
               ELSE Queued(d, [j \in Ids |-> IF j = i THEN Mask(e) ELSE None])
  /\ UNCHANGED <<open, view, ledgerVars, receipts, consent, cacheVars>>

(* The same method given an event it holds already: nothing is written,    *)
(* whatever destination is signed in now.                                  *)
IngestReplay(i, e, d) ==
  /\ open
  /\ local[i] = e
  /\ UNCHANGED storeVars

Ingest(i, e, d) == IngestNew(i, e, d) \/ IngestReplay(i, e, d)

(* Store::enqueue_history: every local observation the destination neither *)
(* has nor waits for.                                                      *)
EnqueueHistory(d) ==
  /\ open
  /\ outbox' = Queued(d, [i \in Ids |-> IF local[i] = None THEN None ELSE Mask(local[i])])
  /\ consent' = [consent EXCEPT ![d] = @ \cup {i \in Ids : local[i] # None}]
  /\ UNCHANGED <<open, view, ledgerVars, receipts, cacheVars>>

(* Store::pending: the first `limit` identities in order. *)
Waiting(d) == {i \in Ids : outbox[d][i] # None}

Pending(d, limit) ==
  {i \in Waiting(d) : Cardinality({j \in Waiting(d) : j < i}) < limit}

(* Mutant of Acknowledge: the row is deleted before the receipt is copied  *)
(* from it.                                                                *)
AcknowledgeDeletesFirst(d, ids) ==
  /\ open
  /\ outbox' = [outbox EXCEPT ![d] =
                  [i \in Ids |-> IF i \in ids THEN None ELSE outbox[d][i]]]
  /\ UNCHANGED <<open, view, ledgerVars, receipts, consent, cacheVars>>

(* Store::acknowledge: an identity that is not queued gets no receipt. *)
Acknowledge(d, ids) ==
  /\ open
  /\ receipts' = [receipts EXCEPT ![d] = @ \cup (ids \cap Waiting(d))]
  /\ outbox' = [outbox EXCEPT ![d] =
                  [i \in Ids |-> IF i \in ids THEN None ELSE outbox[d][i]]]
  /\ UNCHANGED <<open, view, ledgerVars, consent, cacheVars>>

(* Store::apply_page. The code applies the changes one by one; their net   *)
(* effect is stated for a whole page: an identity the page deletes is gone *)
(* and tombstoned, one already tombstoned stays as it is, any other takes  *)
(* its last payload.                                                       *)
Ordered(from, through, page) ==
  /\ through >= from
  /\ \A n \in 1..Len(page) : page[n].sequence > from /\ page[n].sequence <= through
  /\ \A m, n \in 1..Len(page) : m < n => page[m].sequence < page[n].sequence

Deleted(page) == {page[n].id : n \in {m \in 1..Len(page) : page[m].deleted}}

Upserts(page, i) == {n \in 1..Len(page) : page[n].id = i /\ ~page[n].deleted}

LastUpsert(page, i) == {n \in Upserts(page, i) : \A m \in Upserts(page, i) : m <= n}

(* Mutant of Applied: an upsert ignores earlier deletions. *)
AppliedResurrects(rows, gone, page) ==
  [i \in Ids |->
     CASE LastUpsert(page, i) # {} -> page[CHOOSE n \in LastUpsert(page, i) : TRUE].event
       [] LastUpsert(page, i) = {} /\ i \in Deleted(page) -> None
       [] OTHER -> rows[i]]

Applied(rows, gone, page) ==
  [i \in Ids |->
     CASE i \in Deleted(page) -> None
       [] i \notin Deleted(page) \cup gone /\ LastUpsert(page, i) # {}
            -> page[CHOOSE n \in LastUpsert(page, i) : TRUE].event
       [] OTHER -> rows[i]]

(* One change of a page, as the loop body of apply_page executes it, and   *)
(* the loop.                                                               *)
Changed(acc, c) ==
  IF c.deleted THEN [rows |-> [acc.rows EXCEPT ![c.id] = None], gone |-> acc.gone \cup {c.id}]
  ELSE [acc EXCEPT !.rows[c.id] = IF c.id \in acc.gone THEN @ ELSE c.event]

OneByOne(rows, gone, page) ==
  LET after[n \in 0..Len(page)] ==
        IF n = 0 THEN [rows |-> rows, gone |-> gone] ELSE Changed(after[n - 1], page[n])
  IN after[Len(page)]

(* Mutants of ApplyPage: the position is not compared with the stored one; *)
(* the cursor moves past the page.                                         *)
ApplyPageStale(s, from, through, page) ==
  /\ open
  /\ Ordered(from, through, page)
  /\ remote' = [remote EXCEPT ![s] = Applied(@, tombstones[s], page)]
  /\ tombstones' = [tombstones EXCEPT ![s] = @ \cup Deleted(page)]
  /\ cursor' = [cursor EXCEPT ![s] = through]
  /\ UNCHANGED <<open, view, ledgerVars, queueVars>>

ApplyPagePastEnd(s, from, through, page) ==
  /\ open
  /\ cursor[s] = from
  /\ Ordered(from, through, page)
  /\ remote' = [remote EXCEPT ![s] = Applied(@, tombstones[s], page)]
  /\ tombstones' = [tombstones EXCEPT ![s] = @ \cup Deleted(page)]
  /\ cursor' = [cursor EXCEPT ![s] = through + 1]
  /\ UNCHANGED <<open, view, ledgerVars, queueVars>>

ApplyPage(s, from, through, page) ==
  /\ open
  /\ cursor[s] = from
  /\ Ordered(from, through, page)
  /\ remote' = [remote EXCEPT ![s] = Applied(@, tombstones[s], page)]
  /\ tombstones' = [tombstones EXCEPT ![s] = @ \cup Deleted(page)]
  /\ cursor' = [cursor EXCEPT ![s] = through]
  /\ UNCHANGED <<open, view, ledgerVars, queueVars>>

(* Store::activate *)
Activate(s) ==
  /\ open
  /\ view' = s
  /\ UNCHANGED <<open, ledgerVars, queueVars, cacheVars>>

(* What raw_events shows of one identity: one row, the local one first,    *)
(* none when the account has deleted it.                                   *)
Visible(i) ==
  CASE view # None /\ i \in tombstones[view] -> None
    [] view = None -> local[i]
    [] OTHER -> IF local[i] # None THEN local[i] ELSE remote[view][i]

-----------------------------------------------------------------------------

(* Every method, with every argument a caller could pass. CloudSync and    *)
(* Intake restrict the arguments to those the program passes.              *)
StoreNext ==
  \/ Open
  \/ Close
  \/ \E i \in Ids, e \in Events, d \in Dests \cup {NotShared} : Ingest(i, e, d)
  \/ \E d \in Dests : EnqueueHistory(d)
  \/ \E d \in Dests, ids \in SUBSET Ids : Acknowledge(d, ids)
  \/ \E s \in Scopes, from, through \in 0..MaxPosition, page \in Pages :
       ApplyPage(s, from, through, page)
  \/ \E s \in Scopes \cup {None} : Activate(s)

StoreSpec == StoreInit /\ [][StoreNext]_storeVars

-----------------------------------------------------------------------------
(* Properties *)

StoreTypeOK ==
  /\ open \in BOOLEAN
  /\ imported \in BOOLEAN
  /\ local \in [Ids -> Events \cup {None}]
  /\ remote \in [Scopes -> [Ids -> Events \cup {None}]]
  /\ tombstones \in [Scopes -> SUBSET Ids]
  /\ cursor \in [Scopes -> 0..MaxPosition]
  /\ decision \in [Ids -> Dests \cup {NotShared, None}]
  /\ outbox \in [Dests -> [Ids -> Events \cup {None}]]
  /\ receipts \in [Dests -> SUBSET Ids]
  /\ view \in Scopes \cup {None}
  /\ consent \in [Dests -> SUBSET Ids]

(* Applying a page as a whole is applying its changes one by one, in every *)
(* reachable cache: repeated, deleted and re-created records included.     *)
PageAppliesInOrder ==
  \A s \in Scopes : \A page \in Pages :
    Ordered(cursor[s], MaxPosition, page) =>
      [rows |-> Applied(remote[s], tombstones[s], page), gone |-> tombstones[s] \cup Deleted(page)]
      = OneByOne(remote[s], tombstones[s], page)

(* What is queued is the redacted copy of an observation of this machine,  *)
(* for as long as it is queued: a downloaded record never enters the       *)
(* queue, and content never waits to be uploaded.                          *)
QueueMirrorsLedger ==
  \A d \in Dests : \A i \in Waiting(d) :
    local[i] # None /\ outbox[d][i] = Mask(local[i])

(* An acknowledged event is not queued for the same destination again, by  *)
(* a replay, a workspace switch or a second request to upload the history. *)
AcknowledgedLeavesQueue == \A d \in Dests : receipts[d] \cap Waiting(d) = {}

(* A record is queued for, or acknowledged by, the destination chosen when *)
(* it was first recorded, or one the user asked to receive the history.    *)
(* Which account is signed in when it is replayed never matters.           *)
SharedAsDecided ==
  \A d \in Dests : \A i \in Waiting(d) \cup receipts[d] :
    decision[i] = d \/ i \in consent[d]

(* The decision and the delivery it authorises are never apart: what was   *)
(* shared with a destination waits for it or was acknowledged by it.       *)
DecisionDelivered ==
  \A i \in Ids : decision[i] \in Dests =>
    i \in Waiting(decision[i]) \cup receipts[decision[i]]

(* A record its account deleted is not cached again by a later page. *)
DeletedStaysDeleted == \A s \in Scopes : \A i \in tombstones[s] : remote[s][i] = None

(* What the invariants above rest on: a decision exists exactly where an   *)
(* observation does, and only recorded identities were ever acknowledged.  *)
LedgerDecided ==
  /\ \A i \in Ids : decision[i] = None <=> local[i] = None
  /\ \A d \in Dests : \A i \in receipts[d] : local[i] # None

StoreInv ==
  /\ StoreTypeOK
  /\ LedgerDecided
  /\ QueueMirrorsLedger
  /\ AcknowledgedLeavesQueue
  /\ SharedAsDecided
  /\ DecisionDelivered
  /\ DeletedStaysDeleted

(* Source evidence is immutable, and so is the decision taken for it. *)
EvidenceImmutable ==
  [][\A i \in Ids : local[i] # None =>
       local'[i] = local[i] /\ decision'[i] = decision[i]]_storeVars

(* A cursor never goes back, receipts and deletions are never forgotten,   *)
(* and what is cached of an account changes only as its cursor moves on.   *)
SyncOnlyAdvances ==
  [][/\ \A s \in Scopes : /\ cursor'[s] >= cursor[s]
                          /\ tombstones[s] \subseteq tombstones'[s]
                          /\ remote'[s] # remote[s] => cursor'[s] > cursor[s]
     /\ \A d \in Dests : receipts[d] \subseteq receipts'[d]]_storeVars
============================================================================

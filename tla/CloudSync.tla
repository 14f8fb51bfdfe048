----------------------------- MODULE CloudSync -----------------------------
(***************************************************************************)
(* Synchronisation of the local database with Cloud: CloudSink in its      *)
(* database mode (crates/sink/src/cloud.rs), the agent's part of it        *)
(* (crates/cli/src/agent.rs: start, reload, recording), the local web      *)
(* server's history request (crates/cli/src/web.rs) and the configuration  *)
(* the CLI rewrites (crates/cli/src/collection_cmd.rs).  The Cloud service *)
(* is not in the repository: what the client can see of it is modelled     *)
(* from the calls the client makes.                                        *)
(*                                                                         *)
(* The agent thread runs a synchronisation from beginning to end, but the  *)
(* store's mutex is released while the upload is under way, so that the    *)
(* web thread can queue history behind it, and the process can die between *)
(* any two transactions.  Every step that writes the database is a step of *)
(* Store.  Times are abstracted to whether retry_at lies ahead.            *)
(***************************************************************************)
EXTENDS Store

CONSTANTS
  Observation,    \* what this machine will record, under the ids it uses
  OtherEvents,    \* what the account's other devices upload, id by id
  FirstAccount,   \* the account each sign-in belongs to at first
  Limit,          \* changes of a page and events of an upload: 500
  MaxOther,       \* bound on what other devices add to an account
  MaxSwitches,    \* bound on configuration changes
  MaxTroubles     \* bound on crashes, revocations and account changes

LocalIds == DOMAIN Observation

ASSUME CloudAssumption ==
  /\ IsFiniteSet(Ids)
  /\ LocalIds \subseteq Ids
  /\ Observation \in [LocalIds -> Events]
  /\ OtherEvents \in [Ids \ LocalIds -> SUBSET Events]
  /\ FirstAccount \in [Dests -> Scopes]
  /\ Limit \in Nat \ {0}
  /\ MaxPage >= Limit
  /\ MaxOther \in Nat /\ MaxSwitches \in Nat /\ MaxTroubles \in Nat

VARIABLES
  log,        \* Cloud: the change stream of each account
  uploaded,   \* Cloud: what it accepted from this machine, by sign-in
  account,    \* Cloud: the account behind each sign-in's token
  access,     \* Cloud: "member", "revoked", or "moved" to another identity
  requests,   \* uploads on their way to Cloud; a lost one is never taken
  config,     \* saved sign-in; None when signed out or paused
  reload,     \* a reload byte is waiting on the control socket
  sink,       \* the sign-in the running agent synchronises with
  scope,      \* its remote_scope: the account verified since it was built
  verified,   \* the account whose page was just applied, None otherwise
  sent,       \* the upload the agent waits on, None otherwise
  reply,      \* Cloud's answer to it: "none", "stored", "denied"
  wait,       \* retry_at lies ahead
  denied,     \* history variable: the last answer was a 401 or 403
  asked,      \* the sign-in a web request to upload the history has loaded
  switches, troubles

serverVars == <<log, uploaded, account, access>>
agentVars  == <<sink, scope, verified, sent, reply, wait, denied>>
cloudVars  == <<storeVars, serverVars, requests, config, reload, agentVars, asked,
                switches, troubles>>

(* An upload: the rows queued for a sign-in when it was sent. *)
Requests == [to : Dests, rows : [Ids -> Events \cup {None}]]

ASSUME NoneIsNoRequest == None \notin Requests

Ids_(r) == {i \in Ids : r.rows[i] # None}

CloudInit ==
  /\ StoreInit
  /\ log = [s \in Scopes |-> <<>>]
  /\ uploaded = [d \in Dests |-> [i \in Ids |-> None]]
  /\ account = FirstAccount
  /\ access = [d \in Dests |-> "member"]
  /\ requests = {}
  /\ config = None /\ reload = FALSE
  /\ sink = None /\ scope = None /\ verified = None /\ sent = None /\ reply = "none"
  /\ wait = FALSE /\ denied = FALSE
  /\ asked = None
  /\ switches = 0 /\ troubles = 0

-----------------------------------------------------------------------------
(* Cloud (external) *)

Change(s, i, e, gone) == [sequence |-> Len(log[s]) + 1, id |-> i, event |-> e, deleted |-> gone]

Has(s, i) == \E n \in 1..Len(log[s]) : log[s][n].id = i

(* Accepted or already-present identities are acknowledged; only new ones  *)
(* enter the change stream, in some order. An upload names no identity: it *)
(* is the token that decides whose it is when it arrives.                  *)
Accept(r) ==
  /\ r \in requests
  /\ access[r.to] # "revoked"
  /\ LET s == account[r.to]
         new == {i \in Ids_(r) : ~Has(s, i)}
     IN \E order \in [1..Cardinality(new) -> new] :
          /\ \A m, n \in DOMAIN order : order[m] = order[n] => m = n
          /\ Len(log[s]) + Cardinality(new) <= MaxPosition
          /\ log' = [log EXCEPT ![s] = @ \o
                [n \in DOMAIN order |->
                   [Change(s, order[n], r.rows[order[n]], FALSE)
                      EXCEPT !.sequence = Len(log[s]) + n]]]
  /\ uploaded' = [uploaded EXCEPT ![r.to] =
       [i \in Ids |-> IF i \in Ids_(r) THEN r.rows[i] ELSE @[i]]]
  /\ requests' = requests \ {r}
  /\ reply' = IF r = sent THEN "stored" ELSE reply
  /\ UNCHANGED <<storeVars, account, access, config, reload, sink, scope, verified, sent,
                 wait, denied, asked, switches, troubles>>

Refuse(r) ==
  /\ r \in requests
  /\ access[r.to] = "revoked"
  /\ requests' = requests \ {r}
  /\ reply' = IF r = sent THEN "denied" ELSE reply
  /\ UNCHANGED <<storeVars, serverVars, config, reload, sink, scope, verified, sent,
                 wait, denied, asked, switches, troubles>>

(* What counts against MaxOther: deletions, and what is not recorded here. *)
Foreign(s) == {n \in 1..Len(log[s]) : log[s][n].deleted \/ log[s][n].id \notin LocalIds}

(* Another device of the account records, corrects or deletes. *)
OtherDevice(s) ==
  /\ Cardinality(Foreign(s)) < MaxOther /\ Len(log[s]) < MaxPosition
  /\ \/ \E i \in Ids \ LocalIds : \E e \in OtherEvents[i] :
          log' = [log EXCEPT ![s] = Append(@, Change(s, i, e, FALSE))]
     \/ \E n \in 1..Len(log[s]) :
          log' = [log EXCEPT ![s] = Append(@, Change(s, @[n].id, @[n].event, TRUE))]
  /\ UNCHANGED <<storeVars, uploaded, account, access, requests, config, reload, agentVars,
                 asked, switches, troubles>>

(* A membership is revoked, restored or moved; a sign-in gets a new account. *)
Administer(d) ==
  /\ troubles < MaxTroubles
  /\ troubles' = troubles + 1
  /\ \/ /\ \E a \in {"member", "revoked", "moved"} : access' = [access EXCEPT ![d] = a]
        /\ UNCHANGED account
     \/ /\ \E s \in Scopes : account' = [account EXCEPT ![d] = s]
        /\ UNCHANGED access
  /\ UNCHANGED <<storeVars, log, uploaded, requests, config, reload, agentVars, asked, switches>>

-----------------------------------------------------------------------------
(* The agent *)

(* No synchronisation under way, and so the thread is free for other work. *)
Idle == open /\ verified = None /\ sent = None

(* After apply_page and until `drop(store)` the agent holds the mutex. *)
Unlocked == open /\ verified = None

Start ==
  /\ Open
  /\ sink' = config
  /\ scope' = None /\ verified' = None /\ sent' = None /\ reply' = "none"
  /\ wait' = FALSE /\ denied' = FALSE
  /\ reload' = FALSE
  /\ asked' = None
  /\ UNCHANGED <<serverVars, requests, config, switches, troubles>>

(* The process dies anywhere. A request already sent may still arrive. *)
Crash ==
  /\ troubles < MaxTroubles
  /\ troubles' = troubles + 1
  /\ Close
  /\ sink' = None
  /\ scope' = None /\ verified' = None /\ sent' = None /\ reply' = "none"
  /\ wait' = FALSE /\ denied' = FALSE
  /\ reload' = FALSE
  /\ asked' = None
  /\ UNCHANGED <<serverVars, requests, config, switches>>

(* An event reaches the database through the agent's loop (persist_event): *)
(* shared with the sign-in of the running sink, not with the saved one.    *)
Record(i) ==
  /\ Idle
  /\ Ingest(i, Observation[i], IF sink = None THEN NotShared ELSE sink)
  /\ UNCHANGED <<serverVars, requests, config, reload, agentVars, asked, switches, troubles>>

Backoff ==
  /\ wait' = TRUE
  /\ UNCHANGED <<serverVars, config, reload, sink, asked, switches, troubles>>

(* retry_at passes, or the user asks for a flush, which does not look at it. *)
Wake ==
  /\ wait
  /\ wait' = FALSE
  /\ UNCHANGED <<storeVars, serverVars, requests, config, reload, sink, scope, verified, sent,
                 reply, denied, asked, switches, troubles>>

(* The position the first request of a synchronisation names. *)
After == IF scope = None THEN 0 ELSE cursor[scope]

Through(s, after) == IF Len(log[s]) <= after THEN after
                     ELSE IF after + Limit < Len(log[s]) THEN after + Limit ELSE Len(log[s])

(* Mutants of Download: a page is applied wherever it begins; the cursor   *)
(* follows a page that is not applied; a page is always applied, and an    *)
(* error when it does not fit.                                             *)
DownloadWith(Fits(_, _)) ==
  /\ Idle /\ ~wait /\ sink # None
  /\ access[sink] = "member"
  /\ Fits(account[sink], Through(account[sink], After))
  /\ verified' = account[sink]
  /\ denied' = FALSE
  /\ UNCHANGED <<serverVars, requests, config, reload, sink, scope, sent, reply, wait,
                 asked, switches, troubles>>

DownloadAnyPosition == DownloadWith(LAMBDA s, through :
  ApplyPage(s, cursor[s], IF through < cursor[s] THEN cursor[s] ELSE through,
    SelectSeq(SubSeq(log[s], After + 1, through), LAMBDA c : c.sequence > cursor[s])))

DownloadSkips == DownloadWith(LAMBDA s, through :
  IF cursor[s] = After THEN ApplyPage(s, After, through, SubSeq(log[s], After + 1, through))
  ELSE /\ cursor' = [cursor EXCEPT ![s] = through]
       /\ UNCHANGED <<open, view, ledgerVars, queueVars, remote, tombstones>>)

DownloadMustFit == DownloadWith(LAMBDA s, through :
  ApplyPage(s, After, through, SubSeq(log[s], After + 1, through)))

(* sync_database up to apply_page: the page is for the account the answer  *)
(* names, and only used when it begins where that account's cache ends.    *)
Download ==
  /\ Idle /\ ~wait /\ sink # None
  /\ access[sink] = "member"
  /\ LET s == account[sink]
         through == Through(s, After)
     IN /\ IF cursor[s] = After
             THEN ApplyPage(s, After, through, SubSeq(log[s], After + 1, through))
             ELSE UNCHANGED storeVars
        /\ verified' = s
  /\ denied' = FALSE
  /\ UNCHANGED <<serverVars, requests, config, reload, sink, scope, sent, reply, wait,
                 asked, switches, troubles>>

(* A 401 or 403, or an identity that is not the signed-in one. *)
DownloadRejected ==
  /\ Idle /\ ~wait /\ sink # None
  /\ access[sink] # "member"
  /\ Activate(None)
  /\ denied' = (access[sink] = "revoked")
  /\ Backoff
  /\ UNCHANGED <<requests, scope, verified, sent, reply>>

(* No answer, a server error, an oversized or malformed page. *)
DownloadFails ==
  /\ Idle /\ ~wait /\ sink # None
  /\ Backoff
  /\ UNCHANGED <<storeVars, requests, scope, verified, sent, reply, denied>>

(* The rest of the locked section, then the POST when something waits. *)
ShowAndSendTo(d) ==
  /\ verified # None
  /\ Activate(verified)
  /\ scope' = verified
  /\ verified' = None
  /\ LET batch == Pending(sink, Limit)
         r == [to |-> d,
               rows |-> [i \in Ids |-> IF i \in batch THEN outbox[sink][i] ELSE None]]
     IN IF batch = {} THEN UNCHANGED <<requests, sent>>
        ELSE requests' = requests \cup {r} /\ sent' = r
  /\ reply' = "none"
  /\ UNCHANGED <<serverVars, config, reload, sink, wait, denied, asked, switches, troubles>>

(* Mutants of ShowAndSend: the saved sign-in addresses the upload, whether *)
(* there still is one or only if there is.                                 *)
ShowAndSendAsSaved == ShowAndSendTo(config)

ShowAndSendAsSignedIn == ShowAndSendTo(IF config = None THEN sink ELSE config)

ShowAndSend == ShowAndSendTo(sink)

(* Cloud names what it stored. *)
ReceiptFor(ids) ==
  /\ sent # None /\ reply = "stored"
  /\ Acknowledge(sink, ids)
  /\ sent' = None /\ reply' = "none"
  /\ denied' = FALSE
  /\ UNCHANGED <<serverVars, requests, config, reload, sink, scope, verified, wait, asked,
                 switches, troubles>>

(* Mutants of Acknowledged: whatever waits is acknowledged; the answer is  *)
(* compared with the queue as it is now.                                   *)
AcknowledgedAll == ReceiptFor(Waiting(sink))

AcknowledgedIfWhole == sent # None /\ Ids_(sent) = Waiting(sink) /\ ReceiptFor(Ids_(sent))

(* The answer names exactly the identities that were sent. *)
Acknowledged == ReceiptFor(Ids_(sent))

(* A 401 or 403 to the upload. The view is left as it is. *)
UploadRejected ==
  /\ sent # None /\ reply = "denied"
  /\ sent' = None /\ reply' = "none"
  /\ denied' = TRUE
  /\ Backoff
  /\ UNCHANGED <<storeVars, requests, scope, verified>>

(* The request, or the answer to it, did not arrive in time, or the answer *)
(* does not name the identities sent.                                      *)
UploadFails ==
  /\ sent # None
  /\ sent' = None /\ reply' = "none"
  /\ Backoff
  /\ UNCHANGED <<storeVars, requests, scope, verified, denied>>

(* Mutant of Reload: the old sink is dropped without being suspended. *)
ReloadKeepsView ==
  /\ Idle /\ reload
  /\ reload' = FALSE
  /\ sink' = config /\ scope' = None /\ wait' = FALSE /\ denied' = FALSE
  /\ UNCHANGED <<storeVars, serverVars, requests, config, verified, sent, reply, asked,
                 switches, troubles>>

(* reload_cloud_sink: the old sink is suspended, a new one knows nothing.  *)
(* Nothing happens when neither the sign-in nor its token has changed.     *)
Reload ==
  /\ Idle /\ reload
  /\ reload' = FALSE
  /\ \/ /\ IF sink = None THEN UNCHANGED storeVars ELSE Activate(None)
        /\ sink' = config /\ scope' = None /\ wait' = FALSE /\ denied' = FALSE
     \/ /\ sink = config
        /\ UNCHANGED <<storeVars, sink, scope, wait, denied>>
  /\ UNCHANGED <<serverVars, requests, config, verified, sent, reply, asked, switches, troubles>>

-----------------------------------------------------------------------------
(* The user, at the command line and in the desktop application *)

(* The configuration is saved, then the agent is told; the byte that tells *)
(* it is lost when it is not running or does not answer in 50 ms.          *)
Configure(c) ==
  /\ switches < MaxSwitches
  /\ switches' = switches + 1
  /\ config' = c
  /\ reload' \in IF open THEN {TRUE, reload} ELSE {reload}
  /\ UNCHANGED <<storeVars, serverVars, requests, agentVars, asked, troubles>>

(* queue_history: the configuration is read and compared with what the     *)
(* user saw; then, under the store's mutex, the history is queued for it.  *)
AskHistory ==
  /\ open /\ asked = None /\ config # None
  /\ asked' = config
  /\ UNCHANGED <<storeVars, serverVars, requests, config, reload, agentVars, switches, troubles>>

QueueHistory ==
  /\ asked # None /\ Unlocked
  /\ EnqueueHistory(asked)
  /\ asked' = None
  /\ UNCHANGED <<serverVars, requests, config, reload, agentVars, switches, troubles>>

-----------------------------------------------------------------------------

CloudNext ==
  \/ \E r \in requests : Accept(r) \/ Refuse(r)
  \/ \E s \in Scopes : OtherDevice(s)
  \/ \E d \in Dests : Administer(d)
  \/ Start \/ Crash
  \/ \E i \in LocalIds : Record(i)
  \/ Wake \/ Download \/ DownloadRejected \/ DownloadFails
  \/ ShowAndSend \/ Acknowledged \/ UploadRejected \/ UploadFails
  \/ Reload
  \/ \E c \in Dests \cup {None} : Configure(c)
  \/ AskHistory \/ QueueHistory

CloudSpec == CloudInit /\ [][CloudNext]_cloudVars

(* The service restarts the agent and its loop ticks for ever; the network *)
(* fails as often as it likes, but not every time.                         *)
Fairness ==
  /\ WF_cloudVars(Start)
  /\ WF_cloudVars(Wake)
  /\ WF_cloudVars(ShowAndSend)
  /\ WF_cloudVars(Reload)
  /\ WF_cloudVars(UploadFails)
  /\ WF_cloudVars(QueueHistory)
  /\ SF_cloudVars(Download)
  /\ SF_cloudVars(\E r \in requests : r = sent /\ Accept(r))
  /\ SF_cloudVars(Acknowledged)

FairCloudSpec == CloudSpec /\ Fairness
-----------------------------------------------------------------------------
(* Properties *)

CloudTypeOK ==
  /\ StoreTypeOK
  /\ log \in [Scopes -> Seq(Changes)]
  /\ \A s \in Scopes : Len(log[s]) <= MaxPosition
  /\ uploaded \in [Dests -> [Ids -> Events \cup {None}]]
  /\ account \in [Dests -> Scopes]
  /\ access \in [Dests -> {"member", "revoked", "moved"}]
  /\ requests \subseteq Requests
  /\ config \in Dests \cup {None} /\ sink \in Dests \cup {None}
  /\ scope \in Scopes \cup {None} /\ verified \in Scopes \cup {None}
  /\ sent \in Requests \cup {None}
  /\ reply \in {"none", "stored", "denied"}
  /\ reload \in BOOLEAN /\ wait \in BOOLEAN /\ denied \in BOOLEAN
  /\ asked \in Dests \cup {None}
  /\ switches \in 0..MaxSwitches /\ troubles \in 0..MaxTroubles

(* What the cache of an account holds is exactly what its change stream    *)
(* says up to the cursor: nothing is skipped or applied twice, whatever    *)
(* crashes, failures, sign-ins and account changes come in between.        *)
CacheIsPrefix ==
  \A s \in Scopes : \A i \in Ids :
    LET about == {n \in 1..cursor[s] : log[s][n].id = i}
    IN /\ cursor[s] <= Len(log[s])
       /\ i \in tombstones[s] <=> \E n \in about : log[s][n].deleted
       /\ IF about = {} \/ i \in tombstones[s] THEN remote[s][i] = None
          ELSE \E n \in about : /\ \A m \in about : m <= n
                                /\ remote[s][i] = log[s][n].event

(* A receipt is only written for a record Cloud has stored through the     *)
(* same sign-in: a lost answer, a late one, a crash before the receipt and *)
(* history queued during the upload never produce one.                     *)
ReceiptsAreStored ==
  \A d \in Dests : \A i \in receipts[d] : uploaded[d][i] # None

Authorised(d, i, row) ==
  /\ local[i] # None /\ row = Mask(local[i])
  /\ decision[i] = d \/ i \in consent[d]

(* What Cloud holds of this machine through a sign-in is the redacted copy *)
(* of a record shared with that sign-in when it was recorded, or one its   *)
(* user asked to upload: switching workspaces sends nobody else's records. *)
OnlyAuthorised ==
  \A d \in Dests : \A i \in Ids :
    uploaded[d][i] # None => Authorised(d, i, uploaded[d][i])

(* Downloaded records are shown only while the running agent synchronises, *)
(* and only those of the account Cloud named for its sign-in: never those  *)
(* of an earlier sign-in, nor what the file showed before a restart.       *)
ViewVerified == open /\ view # None => sink # None /\ view = scope

(* What these rest on: an upload on its way carries only what was shared   *)
(* with the sign-in it is addressed to, it is the running agent's if the   *)
(* agent waits for it, and an answer is one to that upload.                *)
RequestsAuthorised ==
  \A r \in requests : \A i \in Ids_(r) : Authorised(r.to, i, r.rows[i])

AgentInStep ==
  /\ ~open => sink = None /\ verified = None /\ sent = None /\ asked = None
  /\ verified # None => sink # None /\ sent = None
  /\ sent # None => sink # None /\ sent.to = sink
  /\ reply = "stored" => sent # None /\ \A i \in Ids_(sent) : uploaded[sink][i] # None

CloudInv ==
  /\ CloudTypeOK
  /\ AgentInStep
  /\ RequestsAuthorised
  /\ ReceiptsAreStored
  /\ OnlyAuthorised
  /\ ViewVerified

(* After a 401 or 403 no downloaded record is shown. *)
HiddenWhenDenied == denied => view = None

Settled(d) == sink = d /\ access[d] = "member"

(* As long as the agent stays signed in somewhere, everything that waits   *)
(* for that sign-in is uploaded and acknowledged in the end.               *)
QueueDrains == \A d \in Dests : <>[]Settled(d) => <>[](Waiting(d) = {})

(* And the cache catches up with the account and is shown. *)
CacheCatchesUp ==
  \A d \in Dests : <>[]Settled(d) =>
    <>[](view = account[d] /\ cursor[account[d]] = Len(log[account[d]]))
============================================================================

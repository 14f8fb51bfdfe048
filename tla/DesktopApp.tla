----------------------------- MODULE DesktopApp -----------------------------
(* What the desktop application asks of the collector for its window. Its  *)
(* history comes from the running collector, or from a viewer it starts    *)
(* itself; either may be gone, or another one, when the request arrives.   *)
(* A change of the collection's destination uses an authorization given in *)
(* the browser, and applies to the destination the user has reviewed.      *)
EXTENDS Integers, FiniteSets

CONSTANTS
  Orgs,        \* workspaces of the cloud
  Asks,        \* requests at a time
  Attempts,    \* attempts of the first read
  MaxRuns,     \* collectors and viewers started
  MaxAsks,     \* requests
  MaxTokens,   \* authorizations
  MaxMoves,    \* switches, and changes of the destination by somebody else
  None

VARIABLES
  collecting,  \* the collector that runs, 0 for none
  published,   \* the collector whose address state.json holds
  viewer,      \* the viewer: which, and whether it has the ledger
  runs,
  ask,         \* [Asks -> the request]
  asks,
  target,      \* the destination in config.json, and the token's workspace
  reviewed,    \* the destination the window shows
  grant,       \* LOGIN_GRANT
  listing,     \* collection_workspaces under way
  switch,      \* switch_collection under way
  tokens, moves,
  spent        \* history: tokens used, and how often

historyVars == <<collecting, published, viewer, runs, ask, asks>>
switchVars == <<target, reviewed, grant, listing, switch, tokens, moves, spent>>
appVars == <<historyVars, switchVars>>

NoViewer == [id |-> 0, ledger |-> FALSE]
NoAsk == [what |-> "none", source |-> "local", stage |-> "none", to |-> "none", id |-> 0,
          tries |-> 0, applied |-> 0, ledger |-> TRUE]
NoGrant == [slug |-> None, token |-> 0, young |-> FALSE]
NoSwitch == [stage |-> "none", chosen |-> None, expected |-> None, slug |-> None, token |-> 0]
Local == [dest |-> "local", slug |-> None]

AppInit ==
  /\ collecting = 0 /\ published = 0 /\ viewer = NoViewer /\ runs = 0
  /\ ask = [r \in Asks |-> NoAsk] /\ asks = 0
  /\ target = Local /\ reviewed = Local /\ grant = NoGrant
  /\ listing = "none" /\ switch = NoSwitch
  /\ tokens = 0 /\ moves = 0 /\ spent = [t \in 1..MaxTokens |-> 0]

-----------------------------------------------------------------------------
(* The collector *)

(* It does not start while a viewer holds the database. *)
CollectorStarts ==
  /\ collecting = 0 /\ runs < MaxRuns /\ ~viewer.ledger
  /\ runs' = runs + 1 /\ collecting' = runs'
  /\ UNCHANGED <<published, viewer, ask, asks, switchVars>>

(* Its address, with a token of its own, gets into state.json later. *)
CollectorPublishes ==
  /\ collecting # 0 /\ published # collecting
  /\ published' = collecting
  /\ UNCHANGED <<collecting, viewer, runs, ask, asks, switchVars>>

CollectorStops ==
  /\ collecting # 0 /\ collecting' = 0
  /\ UNCHANGED <<published, viewer, runs, ask, asks, switchVars>>

CloseViewer ==
  /\ viewer # NoViewer /\ viewer' = NoViewer
  /\ UNCHANGED <<collecting, published, runs, ask, asks, switchVars>>

-----------------------------------------------------------------------------
(* History *)

Ask(r) ==
  /\ ask[r].what = "none" /\ asks < MaxAsks /\ asks' = asks + 1
  /\ \E w \in {"me", "mark"}, s \in {"local", "s3"} :
       ask' = [ask EXCEPT ![r] = [NoAsk EXCEPT !.what = w, !.source = s, !.stage = "route"]]
  /\ UNCHANGED <<collecting, published, viewer, runs, switchVars>>

(* history_request: the first read only, never a change *)
Retried(a) == a.what = "me" /\ a.source = "local" /\ a.tries + 1 < Attempts

Unanswered(a) ==
  IF Retried(a) THEN [a EXCEPT !.stage = "route", !.tries = @ + 1] ELSE NoAsk

Serves(needed) == viewer # NoViewer /\ (needed => viewer.ledger)

Sent(r, to, id) == [ask EXCEPT ![r] = [@ EXCEPT !.stage = "send", !.to = to, !.id = id]]

(* serve_dashboard: the viewer takes the ledger if no collector answers. *)
Started(id) == [id |-> id, ledger |-> collecting = 0]

(* ensure_viewer: one that does not have the ledger although it is needed  *)
(* is replaced; one that starts while the collector runs does not get it.  *)
EnsureViewer(r, needed) ==
  IF Serves(needed) THEN ask' = Sent(r, "viewer", viewer.id) /\ UNCHANGED <<viewer, runs>>
  ELSE IF runs = MaxRuns \/ (needed /\ collecting # 0)
       THEN /\ ask' = [ask EXCEPT ![r] = Unanswered(@)]
            /\ viewer' = NoViewer
            /\ UNCHANGED runs
       ELSE /\ runs' = runs + 1
            /\ viewer' = Started(runs')
            /\ ask' = Sent(r, "viewer", runs')

(* history_request_once: who is asked; the collector may come or go        *)
(* between the two questions.                                              *)
Route(r) ==
  /\ ask[r].stage = "route"
  /\ IF ask[r].source = "local" /\ collecting # 0
       THEN /\ ask' = IF published = 0 THEN [ask EXCEPT ![r] = Unanswered(@)]
                      ELSE Sent(r, "collector", published)
            /\ UNCHANGED <<viewer, runs>>
       ELSE ask' = [ask EXCEPT ![r].stage = "viewer"] /\ UNCHANGED <<viewer, runs>>
  /\ UNCHANGED <<collecting, published, asks, switchVars>>

OpenViewer(r) ==
  /\ ask[r].stage = "viewer"
  /\ EnsureViewer(r, ask[r].source = "local")
  /\ UNCHANGED <<collecting, published, asks, switchVars>>

Reached(a) == a.id = IF a.to = "viewer" THEN viewer.id ELSE collecting

(* It is done and answered, or done and the answer is lost; a server that  *)
(* is another one by now refuses the token, one that is gone nothing.      *)
Send(r) ==
  /\ ask[r].stage = "send"
  /\ LET a == ask[r]
         done == [a EXCEPT !.applied = @ + 1,
                           !.ledger = @ /\ (a.to = "viewer" => viewer.ledger)]
     IN ask' = [ask EXCEPT ![r] =
          IF Reached(a) THEN [done EXCEPT !.stage = "answered"] ELSE Unanswered(a)]
  /\ UNCHANGED <<collecting, published, viewer, runs, asks, switchVars>>

AnswerLost(r) ==
  /\ ask[r].stage = "send" /\ Reached(ask[r])
  /\ ask' = [ask EXCEPT ![r] = Unanswered([ask[r] EXCEPT !.applied = @ + 1])]
  /\ UNCHANGED <<collecting, published, viewer, runs, asks, switchVars>>

Shown(r) ==
  /\ ask[r].stage = "answered"
  /\ ask' = [ask EXCEPT ![r] = NoAsk]
  /\ UNCHANGED <<collecting, published, viewer, runs, asks, switchVars>>

-----------------------------------------------------------------------------
(* The destination *)

(* collection-info *)
Review ==
  /\ reviewed # target /\ reviewed' = target
  /\ UNCHANGED <<historyVars, target, grant, listing, switch, tokens, moves, spent>>

(* The command line, or another window *)
Moved ==
  /\ moves < MaxMoves /\ moves' = moves + 1
  /\ target' \in {Local} \cup {[dest |-> o, slug |-> o] : o \in Orgs}
  /\ UNCHANGED <<historyVars, reviewed, grant, listing, switch, tokens, spent>>

(* collection_workspaces: signed in, the list is there; otherwise the user *)
(* signs in to some workspace, and the authorization is kept.              *)
ListWorkspaces ==
  /\ listing = "none"
  /\ grant' = NoGrant
  /\ listing' \in {"none", "signing in"}
  /\ UNCHANGED <<historyVars, target, reviewed, switch, tokens, moves, spent>>

SignedIn ==
  /\ listing = "signing in"
  /\ listing' = "none"
  /\ \/ /\ tokens < MaxTokens /\ tokens' = tokens + 1
        /\ \E o \in Orgs : grant' = [slug |-> o, token |-> tokens', young |-> TRUE]
     \/ UNCHANGED <<grant, tokens>>
  /\ UNCHANGED <<historyVars, target, reviewed, switch, moves, spent>>

(* Five minutes *)
GrantAges ==
  /\ grant.young
  /\ grant' = [grant EXCEPT !.young = FALSE]
  /\ UNCHANGED <<historyVars, target, reviewed, listing, switch, tokens, moves, spent>>

(* switch_collection, one at a time: from the destination reviewed *)
SwitchBegins ==
  /\ switch = NoSwitch /\ moves < MaxMoves
  /\ \E o \in Orgs \cup {"local"} :
       switch' = IF target # reviewed THEN NoSwitch
                 ELSE [NoSwitch EXCEPT !.stage = IF o = "local" THEN "child" ELSE "grant",
                                       !.chosen = o, !.expected = reviewed]
  /\ moves' = moves + 1
  /\ UNCHANGED <<historyVars, target, reviewed, grant, listing, tokens, spent>>

GrantFits(o) == grant.young /\ grant.slug = o

(* take_login_grant: whatever is there is taken, and used if it fits. *)
TakeGrant ==
  /\ switch.stage = "grant"
  /\ grant' = NoGrant
  /\ switch' = IF GrantFits(switch.chosen)
                 THEN [switch EXCEPT !.stage = "child", !.slug = grant.slug, !.token = grant.token]
                 ELSE [switch EXCEPT !.stage = "authorizing"]
  /\ UNCHANGED <<historyVars, target, reviewed, listing, tokens, moves, spent>>

(* authorize_cloud: pending until the user approves, for the workspace     *)
(* asked for or another one; or it is declined, or expires.                *)
Authorized ==
  /\ switch.stage = "authorizing"
  /\ \/ /\ tokens < MaxTokens /\ tokens' = tokens + 1
        /\ \E o \in Orgs :
             switch' = IF o = switch.chosen
                         THEN [switch EXCEPT !.stage = "child", !.slug = o, !.token = tokens']
                         ELSE NoSwitch
     \/ switch' = NoSwitch /\ UNCHANGED tokens
  /\ UNCHANGED <<historyVars, target, reviewed, grant, listing, moves, spent>>

(* Mutant of AsExpected: the destination is not compared again. *)
AsExpectedOnce == TRUE

(* desktop switch-collection compares once more. *)
AsExpected == target = switch.expected

(* Its read and its write of config.json are apart, see Account. *)
ChildSwitches ==
  /\ switch.stage = "child"
  /\ IF AsExpected
       THEN /\ target' = [dest |-> switch.chosen, slug |-> switch.slug]
            /\ spent' = [t \in DOMAIN spent |-> spent[t] + IF t = switch.token THEN 1 ELSE 0]
       ELSE UNCHANGED <<target, spent>>
  /\ switch' = NoSwitch
  /\ UNCHANGED <<historyVars, reviewed, grant, listing, tokens, moves>>

HistoryNext ==
  \/ CollectorStarts \/ CollectorPublishes \/ CollectorStops \/ CloseViewer
  \/ \E r \in Asks :
       Ask(r) \/ Route(r) \/ OpenViewer(r) \/ Send(r) \/ AnswerLost(r) \/ Shown(r)

SwitchNext ==
  \/ Review \/ Moved \/ ListWorkspaces \/ SignedIn \/ GrantAges
  \/ SwitchBegins \/ TakeGrant \/ Authorized \/ ChildSwitches

AppNext == HistoryNext \/ SwitchNext

AppSpec == AppInit /\ [][AppNext]_appVars

-----------------------------------------------------------------------------
(* Properties *)

(* A request for the local history is answered by a process that has the   *)
(* ledger, however the collector and the viewer come and go; and a change  *)
(* is made at most once for a request, although its answer may be lost.    *)
HistoryOfLedger ==
  \A r \in Asks :
    /\ ask[r].stage = "answered" /\ ask[r].source = "local" => ask[r].ledger
    /\ ask[r].what = "mark" => ask[r].applied <= 1

(* What is collected for a workspace goes there by an authorization for    *)
(* this workspace, none is used twice, and a switch replaces the           *)
(* destination the user has seen and nothing that came between.            *)
SwitchAuthorized ==
  [][/\ target'.dest # "local" => target'.slug = target'.dest
     /\ \A t \in DOMAIN spent : spent'[t] <= 1
     /\ switch.stage = "child" /\ switch' = NoSwitch /\ target' # target =>
          target = switch.expected]_appVars
=============================================================================

------------------------------- MODULE Receiver -------------------------------
(***************************************************************************)
(* The receiver of the Claude plugin (crates/cli/src/claude_plugin.rs):     *)
(* the command that makes, exports and revokes its credential, and the      *)
(* requests that put measured responses into the inbox directory.          *)
(*                                                                         *)
(* The credential is in two places without a lock around them: the token in *)
(* the Keychain, its digest in claude-plugin-receiver.json. Commands may run *)
(* at the same time and die between two steps. A request reads the file      *)
(* when it arrives, waits for its body, and takes the lock of the inbox.    *)
(* A digest names its token. A request carries several rows. A row is a      *)
(* response: an identity, the measured part, and a fingerprint the plugin     *)
(* may learn later; the identifiers of messages beside it are left out.      *)
(***************************************************************************)
EXTENDS Integers, FiniteSets

CONSTANTS None, Commands, Requests,
          Rows,        \* what the plugin sends: [id, measure, print]
          BatchRows,   \* rows of a request
          MaxToken,    \* credentials made
          Permits,     \* requests answered at once
          InboxLimit,  \* entries of the inbox
          MaxCut       \* crashes of the agent or of a command

VARIABLES keychain, config,   \* the token, and [token, enabled] or None
          tokens, cuts,       \* counters: credentials made, crashes
          command,            \* what each command does: its step and what it holds
          exported,           \* tokens handed out for packaging
          withdrawn,          \* history: tokens that were in force and are not any more
          request,            \* requests under way
          inbox,              \* row identity -> [measure, print]
          accepted            \* history: rows answered for that were alone of their identity

receiverVars == <<keychain, config, tokens, cuts, command, exported, withdrawn, request, inbox, accepted>>

NoCommand == [step |-> "none", token |-> None]
NoRequest == [step |-> "none", rows |-> {}]

ReceiverInit ==
  /\ keychain = None /\ config = None /\ tokens = 0 /\ cuts = 0
  /\ command = [c \in Commands |-> NoCommand]
  /\ exported = {} /\ withdrawn = {}
  /\ request = [r \in Requests |-> NoRequest]
  /\ inbox = [i \in {} |-> 0] /\ accepted = {}
------------------------------------------------------------------------------
(***************************************************************************)
(* configure                                                               *)
(***************************************************************************)
Does(c, step) == command[c].step = step
Goes(c, step, token) == command' = [command EXCEPT ![c] = [step |-> step, token |-> token]]
Closes(c) == command' = [command EXCEPT ![c] = NoCommand]

Enabled(c) == IF c = None \/ ~c.enabled THEN None ELSE c.token

(* private_json: the file is replaced as a whole. *)
Configure(new) ==
  /\ config' = new
  /\ withdrawn' = withdrawn \cup ({Enabled(config)} \ {None, Enabled(new)})

EnableKeychain(c) ==
  /\ Does(c, "none") /\ tokens < MaxToken
  /\ tokens' = tokens + 1 /\ keychain' = tokens + 1
  /\ Goes(c, "enable", tokens + 1)
  /\ UNCHANGED <<config, cuts, exported, withdrawn, request, inbox, accepted>>

EnableConfig(c) ==
  /\ Does(c, "enable")
  /\ Configure([token |-> command[c].token, enabled |-> TRUE])
  /\ Closes(c)
  /\ UNCHANGED <<keychain, tokens, cuts, exported, request, inbox, accepted>>

ExportLoads(c) ==
  /\ Does(c, "none") /\ Enabled(config) # None
  /\ Goes(c, "export", config.token)
  /\ UNCHANGED <<keychain, config, tokens, cuts, exported, withdrawn, request, inbox, accepted>>

(* Mutant of HandsOut: the token of the Keychain is not compared. *)
HandsOutAny(c) == keychain # None

HandsOut(c) == keychain # None /\ keychain = command[c].token

(* The token of the Keychain is handed out where it fits what was loaded.     *)
ExportWrites(c) ==
  /\ Does(c, "export")
  /\ exported' = IF HandsOut(c) THEN exported \cup {keychain} ELSE exported
  /\ Closes(c)
  /\ UNCHANGED <<keychain, config, tokens, cuts, withdrawn, request, inbox, accepted>>

RevokeLoads(c) ==
  /\ Does(c, "none") /\ config # None
  /\ Goes(c, "revoke", config.token)
  /\ UNCHANGED <<keychain, config, tokens, cuts, exported, withdrawn, request, inbox, accepted>>

RevokeConfig(c) ==
  /\ Does(c, "revoke")
  /\ Configure([token |-> command[c].token, enabled |-> FALSE])
  /\ Goes(c, "delete", None)
  /\ UNCHANGED <<keychain, tokens, cuts, exported, request, inbox, accepted>>

RevokeKeychain(c) ==
  /\ Does(c, "delete")
  /\ keychain' = None
  /\ Closes(c)
  /\ UNCHANGED <<config, tokens, cuts, exported, withdrawn, request, inbox, accepted>>

Cut == cuts < MaxCut /\ cuts' = cuts + 1

CommandDies(c) ==
  /\ ~Does(c, "none") /\ Cut
  /\ Closes(c)
  /\ UNCHANGED <<keychain, config, tokens, exported, withdrawn, request, inbox, accepted>>
------------------------------------------------------------------------------
(***************************************************************************)
(* receive                                                                 *)
(***************************************************************************)
UnderWay == {r \in Requests : request[r].step # "none"}

Accepted(token) == Enabled(config) = token

(* A permit, the configuration of this moment, a token the plugin was given. *)
Arrives(r) ==
  /\ request[r].step = "none" /\ Cardinality(UnderWay) < Permits
  /\ \E token \in exported, rows \in SUBSET Rows :
       /\ Accepted(token) /\ rows # {} /\ Cardinality(rows) <= BatchRows
       /\ request' = [request EXCEPT ![r] = [step |-> "authorised", rows |-> rows]]
  /\ UNCHANGED <<keychain, config, tokens, cuts, command, exported, withdrawn, inbox, accepted>>

(* Mutant of Fits: it is not compared with what is kept. *)
FitsAny(row) == TRUE

(* The same response may come again, with a fingerprint it did not have; one  *)
(* that contradicts what is kept is refused. Every row of a request is        *)
(* compared with the inbox as it is before any of them is written, and with   *)
(* no other row of the request.                                             *)
Fits(row) ==
  row.id \in DOMAIN inbox =>
    LET kept == inbox[row.id]
    IN  kept.measure = row.measure /\ (None \in {kept.print, row.print} \/ kept.print = row.print)

Pending(row) == row.id \in DOMAIN inbox => (inbox[row.id].print = None /\ row.print # None)

Ids(rows) == {row.id : row \in rows}

(* Which of several rows of one identity is written last.                    *)
Lasts(rows) == {last \in [Ids(rows) -> rows] : \A i \in Ids(rows) : last[i].id = i}

Keep(last) ==
  [i \in DOMAIN inbox \cup DOMAIN last |->
     IF i \in DOMAIN last THEN [measure |-> last[i].measure, print |-> last[i].print] ELSE inbox[i]]

Alone(row, rows) == \A other \in rows : other.id = row.id => other = row

(* Under the lock. The body did not come, a row does not fit, the inbox is    *)
(* full: nothing. Else the rows are written one after the other, and a       *)
(* request of which one write fails is not answered for.                    *)
Answers(r) ==
  LET rows == request[r].rows
      new  == {row \in rows : Pending(row)}
  IN  /\ request[r].step = "authorised"
      /\ request' = [request EXCEPT ![r] = NoRequest]
      /\ \/ UNCHANGED <<inbox, accepted>>
         \/ /\ \A row \in rows : Fits(row)
            /\ Cardinality(DOMAIN inbox) + Cardinality(new) <= InboxLimit
            /\ \E written \in SUBSET new : \E last \in Lasts(written) :
                 /\ inbox' = Keep(last)
                 /\ accepted' = IF written = new THEN accepted \cup {row \in rows : Alone(row, rows)}
                                                 ELSE accepted
      /\ UNCHANGED <<keychain, config, tokens, cuts, command, exported, withdrawn>>

AgentDies ==
  /\ UnderWay # {} /\ Cut
  /\ request' = [r \in Requests |-> NoRequest]
  /\ UNCHANGED <<keychain, config, tokens, command, exported, withdrawn, inbox, accepted>>

ReceiverNext ==
  \/ \E c \in Commands :
       \/ EnableKeychain(c) \/ EnableConfig(c) \/ ExportLoads(c) \/ ExportWrites(c)
       \/ RevokeLoads(c) \/ RevokeConfig(c) \/ RevokeKeychain(c) \/ CommandDies(c)
  \/ \E r \in Requests : Arrives(r) \/ Answers(r)
  \/ AgentDies

ReceiverSpec == ReceiverInit /\ [][ReceiverNext]_receiverVars
------------------------------------------------------------------------------
(* Every credential handed out was the receiver's own, in force then or      *)
(* since withdrawn, although Keychain and file are written apart, commands   *)
(* overlap and die in between; and one that was revoked or replaced is never *)
(* in force again, whichever command writes the file last.                  *)
CredentialsHold ==
  /\ exported \subseteq withdrawn \cup {Enabled(config)}
  /\ Enabled(config) \notin withdrawn

(* The inbox keeps what it holds: a measured response is never changed or      *)
(* lost, and a fingerprint once known stays. And it holds what was answered   *)
(* for, as it was sent, unless another row of the same request had its        *)
(* identity: those are not compared, and the last one written stays.         *)
Held(row) ==
  /\ row.id \in DOMAIN inbox
  /\ inbox[row.id].measure = row.measure
  /\ row.print \in {None, inbox[row.id].print}

InboxKeeps ==
  [][/\ \A i \in DOMAIN inbox :
          /\ i \in DOMAIN inbox'
          /\ inbox'[i].measure = inbox[i].measure
          /\ inbox[i].print \in {None, inbox'[i].print}
     /\ \A row \in accepted' : Held(row)']_receiverVars
==============================================================================

-------------------------- MODULE CollectorsProofs --------------------------
(***************************************************************************)
(* What is proved of the collectors, whatever the values of the constants. *)
(* The collectors share no state, so that each step of CollectorsNext is a *)
(* step of one of them and a stutter of all others: the invariant of each  *)
(* is inductive on its own.                                                *)
(***************************************************************************)
EXTENDS MCCollectors, WellFoundedInduction, TLAPS

(* The plugin's receiver takes its own steps, or none.                     *)
LEMMA PluginStep == [CollectorsNext]_collectorsVars => [P!ReceiverNext]_(P!receiverVars)
BY DEF CollectorsNext, collectorsVars, plugin, P!receiverVars

-----------------------------------------------------------------------------
(* The credential of the plugin.                                           *)

Made == 1..tokens

PluginTypeOK ==
  /\ tokens \in Nat
  /\ keychain \in Made \cup {None}
  /\ config \in [token : Made, enabled : BOOLEAN] \cup {None}
  /\ command \in [PluginCommands ->
       [step : {"none", "enable", "export", "revoke", "delete"}, token : Made \cup {None}]]
  /\ exported \subseteq Made
  /\ withdrawn \subseteq Made

(* A command that has made a token and not yet written the file is the     *)
(* only one that holds it.                                                 *)
TokenIsNew ==
  \A c \in PluginCommands : command[c].step = "enable" =>
    /\ command[c].token \in Made \ withdrawn
    /\ config # None => config.token # command[c].token
    /\ \A d \in PluginCommands \ {c} : command[d].token # command[c].token

(* One that exports holds what was in force when it read the file; one     *)
(* that revokes, what the file named.                                      *)
HeldWasInForce ==
  \A c \in PluginCommands :
    /\ command[c].step = "export" =>
         command[c].token \in Made \cap (withdrawn \cup {P!Enabled(config)})
    /\ command[c].step = "revoke" => command[c].token \in Made

PluginInv == PluginTypeOK /\ TokenIsNew /\ HeldWasInForce /\ CredentialsHold

LEMMA PluginInit == CollectorsInit => PluginInv
BY PluginAssumption
   DEF CollectorsInit, P!ReceiverInit, P!NoCommand, P!Enabled, PluginInv, PluginTypeOK, Made,
       TokenIsNew, HeldWasInForce, CredentialsHold, P!CredentialsHold

(* What a written file says is in force.                                   *)
LEMMA EnabledOf ==
  ASSUME NEW t \in Nat
  PROVE  /\ P!Enabled([token |-> t, enabled |-> TRUE]) = t
         /\ P!Enabled([token |-> t, enabled |-> FALSE]) = None
<1>1. ASSUME NEW b \in BOOLEAN
      PROVE  P!Enabled([token |-> t, enabled |-> b]) = IF b THEN t ELSE None
  <2> DEFINE c == [token |-> t, enabled |-> b]
  <2>1. c \in [token : Nat, enabled : BOOLEAN]
    OBVIOUS
  <2>2. c # None
    BY <2>1, PluginAssumption
  <2>3. c.enabled = b /\ c.token = t
    OBVIOUS
  <2> HIDE DEF c
  <2>4. P!Enabled(c) = IF b THEN t ELSE None
    <3>1. CASE b
      BY <2>2, <2>3, <3>1 DEF P!Enabled
    <3>2. CASE ~b
      BY <2>2, <2>3, <3>2 DEF P!Enabled
    <3>3. QED
      BY <3>1, <3>2
  <2>5. QED
    BY <2>4 DEF c
<1>2. QED
  BY <1>1

LEMMA OneMoreMade ==
  ASSUME tokens \in Nat, tokens' = tokens + 1
  PROVE  Made' = Made \cup {tokens'} /\ tokens' \notin Made
BY DEF Made

LEMMA PluginInvStep == PluginInv /\ [P!ReceiverNext]_(P!receiverVars) => PluginInv'
<1> SUFFICES ASSUME PluginInv, [P!ReceiverNext]_(P!receiverVars)
             PROVE  PluginInv'
  OBVIOUS
<1>0. \A t \in Nat : /\ P!Enabled([token |-> t, enabled |-> TRUE]) = t
                     /\ P!Enabled([token |-> t, enabled |-> FALSE]) = None
  BY EnabledOf
<1> USE PluginAssumption
<1> USE DEF PluginInv, PluginTypeOK, Made, TokenIsNew, HeldWasInForce, CredentialsHold,
        P!CredentialsHold, P!Enabled, P!Does, P!Goes, P!Closes, P!NoCommand
<1>1. ASSUME NEW c \in PluginCommands, P!EnableKeychain(c)
      PROVE  PluginInv'
  <2>1. tokens' = tokens + 1 /\ Made' = Made \cup {tokens'} /\ tokens' \notin Made
    <3>1. tokens \in Nat /\ tokens' = tokens + 1
      BY <1>1 DEF P!EnableKeychain
    <3>2. QED
      BY <3>1, OneMoreMade
  <2>2. command' = [command EXCEPT ![c] = [step |-> "enable", token |-> tokens']]
    BY <1>1, <2>1 DEF P!EnableKeychain
  <2>3. UNCHANGED <<config, exported, withdrawn>>
    BY <1>1 DEF P!EnableKeychain
  <2>4. PluginTypeOK'
    BY <1>1, <2>1, <2>2, <2>3 DEF P!EnableKeychain
  <2>5. TokenIsNew'
    BY <2>1, <2>2, <2>3
  <2>6. HeldWasInForce' /\ CredentialsHold'
    BY <2>1, <2>2, <2>3
  <2>7. QED
    BY <2>4, <2>5, <2>6
<1>2. ASSUME NEW c \in PluginCommands, P!EnableConfig(c)
      PROVE  PluginInv'
  <2> DEFINE t == command[c].token
  <2>1. t \in Made \ withdrawn /\ t # None /\ \A d \in PluginCommands \ {c} : command[d].token # t
    BY <1>2 DEF P!EnableConfig
  <2>2. /\ config' = [token |-> t, enabled |-> TRUE]
        /\ withdrawn' = withdrawn \cup ({P!Enabled(config)} \ {None, t})
        /\ command' = [command EXCEPT ![c] = [step |-> "none", token |-> None]]
        /\ UNCHANGED <<keychain, tokens, exported>>
    BY <1>2, <2>1 DEF P!EnableConfig, P!Configure
  <2>3. PluginTypeOK'
    BY <2>1, <2>2
  <2>4. t \notin withdrawn' /\ withdrawn \cup {P!Enabled(config)} \subseteq withdrawn' \cup {t, None}
    BY <2>1, <2>2
  <2>5. \A d \in PluginCommands \ {c} : command'[d] = command[d]
    BY <2>2
  <2>6. TokenIsNew'
    BY <1>2, <2>1, <2>2, <2>5 DEF P!EnableConfig
  <2>10. P!Enabled(config)' = t
    <3>1. P!Enabled([token |-> t, enabled |-> TRUE]) = t
      <4>1. t \in Nat
        BY <2>1
      <4>2. QED
        BY <1>0, <4>1, Zenon
    <3>2. QED
      BY <2>2, <3>1, Zenon
  <2>7. HeldWasInForce'
    <3>1. \A d \in PluginCommands \ {c} : command[d].step = "export" =>
            command[d].token \in Made \cap (withdrawn' \cup {t})
      BY <2>4
    <3>2. QED
      BY <2>2, <2>5, <2>10, <3>1
  <2>8. CredentialsHold'
    BY <2>1, <2>2, <2>4, <2>10
  <2>9. QED
    BY <2>3, <2>6, <2>7, <2>8
<1>3. ASSUME NEW c \in PluginCommands, P!ExportLoads(c)
      PROVE  PluginInv'
  BY <1>3 DEF P!ExportLoads
<1>4. ASSUME NEW c \in PluginCommands, P!ExportWrites(c)
      PROVE  PluginInv'
  BY <1>4 DEF P!ExportWrites, P!HandsOut
<1>5. ASSUME NEW c \in PluginCommands, P!RevokeLoads(c)
      PROVE  PluginInv'
  BY <1>5 DEF P!RevokeLoads
<1>6. ASSUME NEW c \in PluginCommands, P!RevokeConfig(c)
      PROVE  PluginInv'
  <2> DEFINE t == command[c].token
  <2>1. t \in Made
    BY <1>6 DEF P!RevokeConfig
  <2>2. /\ config' = [token |-> t, enabled |-> FALSE]
        /\ withdrawn' = withdrawn \cup ({P!Enabled(config)} \ {None})
        /\ command' = [command EXCEPT ![c] = [step |-> "delete", token |-> None]]
        /\ UNCHANGED <<keychain, tokens, exported>>
    BY <1>6 DEF P!RevokeConfig, P!Configure
  <2>3. PluginTypeOK'
    BY <2>1, <2>2
  <2>4. \A d \in PluginCommands \ {c} : command'[d] = command[d]
    BY <2>2
  <2>5. \A d \in PluginCommands \ {c} : command[d].step = "enable" =>
          command[d].token \notin withdrawn' /\ command[d].token # t
    BY <2>2
  <2>6. TokenIsNew'
    BY <2>2, <2>3, <2>4, <2>5
  <2>7. withdrawn \cup {P!Enabled(config)} \subseteq withdrawn' \cup {None}
    BY <2>2
  <2>10. P!Enabled(config)' = None
    <3>1. P!Enabled([token |-> t, enabled |-> FALSE]) = None
      <4>1. t \in Nat
        BY <2>1
      <4>2. QED
        BY <1>0, <4>1, Zenon
    <3>2. QED
      BY <2>2, <3>1, Zenon
  <2>8. HeldWasInForce' /\ CredentialsHold'
    <3>1. HeldWasInForce'
      BY <2>1, <2>2, <2>4, <2>7, <2>10
    <3>2. None \notin withdrawn'
      <4>1. withdrawn' \subseteq 1..tokens'
        BY <2>3
      <4>2. QED
        BY <2>2, <4>1
    <3>3. exported' \subseteq withdrawn' \cup {None}
      BY <2>2, <2>7
    <3>4. CredentialsHold'
      BY <2>10, <3>2, <3>3, Zenon
    <3>5. QED
      BY <3>1, <3>4
  <2>9. QED
    BY <2>3, <2>6, <2>8
<1>7. ASSUME NEW c \in PluginCommands, P!RevokeKeychain(c) \/ P!CommandDies(c)
      PROVE  PluginInv'
  <2>1. /\ command' = [command EXCEPT ![c] = [step |-> "none", token |-> None]]
        /\ keychain' \in {keychain, None}
        /\ UNCHANGED <<config, tokens, exported, withdrawn>>
    BY <1>7 DEF P!RevokeKeychain, P!CommandDies
  <2>2. PluginTypeOK' /\ TokenIsNew'
    BY <2>1
  <2>3. P!Enabled(config)' = P!Enabled(config)
    BY <2>1
  <2>4. HeldWasInForce'
    BY <2>1, <2>3 DEF P!Enabled
  <2>5. CredentialsHold'
    BY <2>1, <2>3
  <2>6. QED
    BY <2>2, <2>4, <2>5
<1>8. CASE UNCHANGED <<keychain, config, tokens, command, exported, withdrawn>>
  BY <1>8
<1>9. QED
  BY <1>1, <1>2, <1>3, <1>4, <1>5, <1>6, <1>7, <1>8
     DEF P!ReceiverNext, P!Arrives, P!Answers, P!AgentDies, P!receiverVars

(* Whatever commands overlap, die or are started again: what was exported  *)
(* was in force, and what was withdrawn never is again (claude_plugin.rs,  *)
(* enable, export_credential, revoke).                                     *)
THEOREM PluginCredentialsHold == CollectorsSpec => []CredentialsHold
<1>1. PluginInv /\ [CollectorsNext]_collectorsVars => PluginInv'
  BY PluginStep, PluginInvStep
<1>2. PluginInv => CredentialsHold
  BY DEF PluginInv
<1>3. QED
  BY <1>1, <1>2, PluginInit, PTL DEF CollectorsSpec

(* What a step keeps of the inbox.                                          *)
Kept ==
  \A i \in DOMAIN inbox :
    /\ i \in DOMAIN inbox'
    /\ inbox'[i].measure = inbox[i].measure
    /\ inbox[i].print \in {None, inbox'[i].print}

AcceptedHeld == \A row \in accepted : P!Held(row)

(* The rows of a request that are written replace none that say something  *)
(* else, and one alone of its identity is there afterwards.                *)
LEMMA AnswersKeeps ==
  ASSUME NEW r \in PluginRequests, P!Answers(r), AcceptedHeld
  PROVE  Kept /\ AcceptedHeld'
<1> DEFINE carried == request[r].rows
           new == {row \in carried : P!Pending(row)}
<1>1. CASE UNCHANGED <<inbox, accepted>>
  BY <1>1 DEF Kept, AcceptedHeld, P!Held
<1>2. CASE /\ \A row \in carried : P!Fits(row)
           /\ \E put \in SUBSET new : \E last \in P!Lasts(put) :
                /\ inbox' = P!Keep(last)
                /\ accepted' = IF put = new THEN accepted \cup {row \in carried : P!Alone(row, carried)}
                                            ELSE accepted
  <2>1. PICK put \in SUBSET new : \E last \in P!Lasts(put) :
             /\ inbox' = P!Keep(last)
             /\ accepted' = IF put = new THEN accepted \cup {row \in carried : P!Alone(row, carried)}
                                             ELSE accepted
    BY <1>2
  <2>2. PICK last \in P!Lasts(put) :
             /\ inbox' = P!Keep(last)
             /\ accepted' = IF put = new THEN accepted \cup {row \in carried : P!Alone(row, carried)}
                                             ELSE accepted
    BY <2>1
  <2>3. /\ DOMAIN last = P!Ids(put)
        /\ \A i \in P!Ids(put) : last[i] \in put /\ last[i].id = i
    BY <2>2 DEF P!Lasts
  <2>4. /\ DOMAIN inbox' = DOMAIN inbox \cup P!Ids(put)
        /\ \A i \in P!Ids(put) : /\ inbox'[i].measure = last[i].measure
                                 /\ inbox'[i].print = last[i].print
        /\ \A i \in DOMAIN inbox \ P!Ids(put) : inbox'[i] = inbox[i]
    BY <2>2, <2>3 DEF P!Keep
  <2>5. \A i \in P!Ids(put) : P!Fits(last[i]) /\ P!Pending(last[i])
    BY <2>3, <1>2
  <2>6. Kept
    <3>1. SUFFICES ASSUME NEW i \in DOMAIN inbox
                   PROVE  /\ i \in DOMAIN inbox'
                          /\ inbox'[i].measure = inbox[i].measure
                          /\ inbox[i].print \in {None, inbox'[i].print}
      BY DEF Kept
    <3>2. CASE i \in P!Ids(put)
      BY <3>2, <2>3, <2>4, <2>5 DEF P!Fits, P!Pending
    <3>3. CASE i \notin P!Ids(put)
      BY <3>3, <2>4
    <3>4. QED
      BY <3>2, <3>3
  <2>7. ASSUME NEW row \in accepted
        PROVE  P!Held(row)'
    BY <2>6, <2>7 DEF Kept, AcceptedHeld, P!Held
  <2>8. ASSUME NEW row \in carried, put = new, P!Alone(row, carried)
        PROVE  P!Held(row)'
    <3>1. CASE P!Pending(row)
      <4>1. row.id \in P!Ids(put)
        BY <2>8, <3>1 DEF P!Ids
      <4>2. last[row.id] = row
        BY <4>1, <2>3, <2>8 DEF P!Alone
      <4>3. QED
        BY <4>1, <4>2, <2>4 DEF P!Held
    <3>2. CASE ~P!Pending(row)
      <4>1. row.id \notin P!Ids(put)
        BY <2>8, <3>2 DEF P!Ids, P!Alone
      <4>2. row.id \in DOMAIN inbox
        BY <3>2 DEF P!Pending
      <4>3. inbox'[row.id] = inbox[row.id] /\ row.id \in DOMAIN inbox'
        BY <4>1, <4>2, <2>4
      <4>4. P!Held(row)
        BY <1>2, <2>8, <3>2, <4>2 DEF P!Fits, P!Pending, P!Held
      <4>5. QED
        BY <4>3, <4>4 DEF P!Held
    <3>3. QED
      BY <3>1, <3>2
  <2>9. QED
    BY <2>2, <2>6, <2>7, <2>8 DEF AcceptedHeld
<1>3. QED
  BY <1>1, <1>2 DEF P!Answers

(* A measured response in the inbox is never changed or lost, a            *)
(* fingerprint once known stays, and what was answered for, alone of its   *)
(* identity in its request, is there as it was sent (claude_plugin.rs,     *)
(* receive).                                                               *)
THEOREM PluginInboxKeeps == CollectorsSpec => InboxKeeps
<1> DEFINE Step == /\ \A i \in DOMAIN inbox :
                       /\ i \in DOMAIN inbox'
                       /\ inbox'[i].measure = inbox[i].measure
                       /\ inbox[i].print \in {None, inbox'[i].print}
                  /\ \A row \in accepted' : P!Held(row)'
<1>1. CollectorsInit => AcceptedHeld
  BY DEF CollectorsInit, P!ReceiverInit, AcceptedHeld
<1>2. AcceptedHeld /\ P!ReceiverNext => Kept /\ AcceptedHeld'
  <2>1. ASSUME AcceptedHeld, inbox' = inbox, accepted' = accepted
        PROVE  Kept /\ AcceptedHeld'
    BY <2>1 DEF Kept, AcceptedHeld, P!Held
  <2>2. QED
    BY <2>1, AnswersKeeps
       DEF P!ReceiverNext, P!EnableKeychain, P!EnableConfig, P!ExportLoads, P!ExportWrites,
           P!RevokeLoads, P!RevokeConfig, P!RevokeKeychain, P!CommandDies, P!Arrives, P!AgentDies
<1>3. AcceptedHeld /\ [CollectorsNext]_collectorsVars => AcceptedHeld'
  <2>1. AcceptedHeld /\ UNCHANGED P!receiverVars => AcceptedHeld'
    BY DEF AcceptedHeld, P!Held, P!receiverVars
  <2>2. QED
    BY <1>2, <2>1, PluginStep
<1>4. AcceptedHeld /\ [CollectorsNext]_collectorsVars => [Step]_(P!receiverVars)
  BY <1>2, PluginStep DEF Kept, AcceptedHeld
<1>5. QED
  BY <1>1, <1>3, <1>4, PTL DEF CollectorsSpec, InboxKeeps, P!InboxKeeps
-----------------------------------------------------------------------------
(* The database of the browser, read while it is written.                  *)

LEMMA BrowserStep == [CollectorsNext]_collectorsVars => [C!ChromiumNext]_(C!chromiumVars)
BY DEF CollectorsNext, collectorsVars, browser, C!chromiumVars, C!storeFiles

Writes == [key : BrowserKeys, seq : Nat, value : BrowserValues \cup {None}]
Manifests == [log : Nat, tables : SUBSET Nat]
Manifest == manifests[current]
LiveFiles == C!Counts(Manifest, DOMAIN content, logs)
Holding(F) == UNION {content[f] : f \in F}

(* What a reading of R finds is what h holds.                              *)
FindsHeld(R, h) ==
  \A k \in BrowserKeys : \A v \in BrowserValues \cup {None} :
    (\E r \in C!Latest(R) : r.key = k /\ r.value = v) <=> (h[k] = v /\ v # None)

BrowserTypeOK ==
  /\ content \in [DOMAIN content -> SUBSET Writes] /\ DOMAIN content \in SUBSET Nat
  /\ manifests \in [DOMAIN manifests -> Manifests] /\ DOMAIN manifests \in SUBSET Nat
  /\ current \in DOMAIN manifests
  /\ written \in Nat
  /\ held \in [BrowserKeys -> BrowserValues \cup {None}]

(* One log, or a full one and its successor.                               *)
LogsOK ==
  /\ logs \in SUBSET (DOMAIN content)
  /\ \E a, c \in logs : logs = {a, c} /\ a <= c /\ Manifest.log \in {a, c}

TablesApart == Manifest.tables \subseteq (DOMAIN content) \ logs

(* The newest number is never that of a file that may go, so that none is  *)
(* given twice.                                                            *)
Numbers == DOMAIN content \cup DOMAIN manifests
NewestStays == \E top \in LiveFiles \cup {current} : \A n \in Numbers : n <= top

(* What is in a later log was written later, and what is in a table before. *)
WrittenBefore(f, g) == \A r \in content[f] : \A s \in content[g] : r.seq < s.seq
InOrder ==
  /\ \A f \in DOMAIN content : \A r \in content[f] : r.seq <= written
  /\ \A f, g \in logs : f < g => WrittenBefore(f, g)
  /\ \A f \in Manifest.tables : \A g \in logs : g >= Manifest.log => WrittenBefore(f, g)

StoredOK ==
  /\ BrowserTypeOK /\ LogsOK /\ TablesApart /\ NewestStays /\ InOrder
  /\ FindsHeld(Holding(LiveFiles), held)

-----------------------------------------------------------------------------
(* What the reader has listed either is what counts still; or a table has  *)
(* come that is not listed, or a log, and neither can go unnoticed.        *)
Outdated == ~(Manifest.tables \subseteq reader.first) \/ C!CurrentLog \notin reader.first

(* The log that is being written is the one file that changes: the moment  *)
(* it is read is the moment the reading is of.                             *)
OfOneMoment ==
  /\ LiveFiles = reader.first
  /\ IF C!CurrentLog \in reader.listed THEN reader.seen = Holding(reader.first \ reader.listed)
     ELSE \E moment \in truths : FindsHeld(reader.seen \cup Holding(reader.listed), moment)

Known(says) == says \in Manifests /\ \A n \in says.tables : n <= C!Newest

Readers ==
  [phase : {"idle", "named", "listed", "named again"}, first : (SUBSET Nat) \cup {None},
   listed : (SUBSET Nat) \cup {None}, named : [number : Nat, says : Manifests] \cup {None},
   seen : SUBSET Writes]

ReadingOK ==
  /\ reader \in Readers
  /\ reader.phase # "idle" => held \in truths /\ result = None
  /\ truths \in SUBSET [BrowserKeys -> BrowserValues \cup {None}]
  /\ reader.phase = "named" =>
       /\ Known(reader.named.says) /\ reader.seen = {}
       /\ Manifest = reader.named.says \/ ~(Manifest.tables \subseteq reader.named.says.tables)
  /\ reader.phase = "listed" =>
       /\ reader.listed \subseteq reader.first /\ reader.first \in SUBSET Nat
       /\ \A n \in reader.first : n <= C!Newest
       /\ OfOneMoment \/ Outdated
  /\ reader.phase = "named again" =>
       /\ reader.named.says \in Manifests /\ reader.first \in SUBSET Nat
       /\ \A n \in reader.first : n <= C!Newest
       /\ \/ \E moment \in truths : FindsHeld(reader.seen, moment)
          \/ ~(reader.named.says.tables \subseteq reader.first)
          \/ C!CurrentLog \notin reader.first /\ C!CurrentLog >= reader.named.says.log
  /\ C!SnapshotWasTrue

BrowserInv == StoredOK /\ ReadingOK

-----------------------------------------------------------------------------
LEMMA GreatestIs ==
  ASSUME NEW S \in SUBSET Nat, NEW m \in S, \A n \in S : n <= m
  PROVE  C!Max(S) = m
<1>1. \A x \in S : (\A y \in S : x >= y) => x = m
  OBVIOUS
<1>2. \A y \in S : m >= y
  OBVIOUS
<1> QED
  BY <1>1, <1>2 DEF C!Max

LEMMA LeastIs ==
  ASSUME NEW S \in SUBSET Nat, NEW m \in S, \A n \in S : m <= n
  PROVE  C!Min(S) = m
<1>1. \A x \in S : (\A y \in S : x <= y) => x = m
  OBVIOUS
<1> QED
  BY <1>1 DEF C!Min

LEMMA LeastOne ==
  ASSUME NEW S \in SUBSET Nat, S # {}
  PROVE  \E x \in S : \A y \in S : x <= y
<1>1. \E x \in S : \A y \in S : ~ (<<y, x>> \in OpToRel(<, Nat))
  BY WFMin, NatLessThanWellFounded
<1>2. \E x \in S : \A y \in S : ~(y < x)
  BY <1>1 DEF OpToRel
<1> QED
  BY <1>2

(* A key that is written again holds what was written last.                *)
LEMMA WrittenFound ==
  ASSUME NEW R \in SUBSET Writes, NEW h \in [BrowserKeys -> BrowserValues \cup {None}],
         FindsHeld(R, h), NEW n \in Nat, \A r \in R : r.seq <= n,
         NEW k \in BrowserKeys, NEW v \in BrowserValues \cup {None}
  PROVE  FindsHeld(R \cup {[key |-> k, seq |-> n + 1, value |-> v]}, [h EXCEPT ![k] = v])
<1> DEFINE new == [key |-> k, seq |-> n + 1, value |-> v]
           Q == R \cup {new}
<1>1. \A r \in R : r.seq \in Nat /\ r.key \in BrowserKeys
  BY DEF Writes
<1>2. ASSUME NEW r \in R, r.key # k
      PROVE  r \in C!Latest(Q) <=> r \in C!Latest(R)
  BY <1>2 DEF C!Latest
<1>3. \A r \in R : r.key = k => r \notin C!Latest(Q)
  <2>1. new.key = k /\ new.seq = n + 1 /\ new \in Q
    OBVIOUS
  <2>2. \A r \in R : ~(new.seq <= r.seq)
    BY <1>1, <2>1
  <2> HIDE DEF new, Q
  <2> QED
    BY <2>1, <2>2 DEF C!Latest
<1>4. new \in C!Latest(Q) <=> v # None
  <2>1. \A s \in Q : s.key = new.key => s.seq <= new.seq
    BY <1>1
  <2> QED
    BY <2>1 DEF C!Latest
<1>5. \A r \in C!Latest(Q) : r \in Q
  BY DEF C!Latest
<1>6. \A r \in C!Latest(R) : r \in R
  BY DEF C!Latest
<1> SUFFICES ASSUME NEW j \in BrowserKeys, NEW w \in BrowserValues \cup {None}
             PROVE  (\E r \in C!Latest(Q) : r.key = j /\ r.value = w)
                      <=> ([h EXCEPT ![k] = v][j] = w /\ w # None)
  BY DEF FindsHeld
<1>7. CASE j = k
  <2>1. [h EXCEPT ![k] = v][j] = v
    BY <1>7
  <2>2. \A r \in C!Latest(Q) : r.key = j => r = new
    BY <1>3, <1>5, <1>7
  <2> HIDE DEF Q
  <2>3. new.key = k /\ new.value = v
    OBVIOUS
  <2> HIDE DEF new
  <2> QED
    BY <1>4, <1>7, <2>1, <2>2, <2>3
<1>8. CASE j # k
  <2>1. [h EXCEPT ![k] = v][j] = h[j]
    BY <1>8
  <2>2. (\E r \in C!Latest(R) : r.key = j /\ r.value = w) <=> (h[j] = w /\ w # None)
    BY DEF FindsHeld
  <2>3. new.key = k
    OBVIOUS
  <2> HIDE DEF new
  <2>4. (\E r \in C!Latest(Q) : r.key = j /\ r.value = w)
          <=> (\E r \in C!Latest(R) : r.key = j /\ r.value = w)
    BY <1>2, <1>5, <1>6, <1>8, <2>3
  <2> QED
    BY <2>1, <2>2, <2>4
<1> QED
  BY <1>7, <1>8

(* What was overwritten, and what deletes, is not missed beside what was   *)
(* written later.                                                          *)
LEMMA MergedFound ==
  ASSUME NEW Older \in SUBSET Writes, NEW Later \in SUBSET Writes, NEW h,
         \A r \in Older : \A s \in Later : r.seq < s.seq,
         FindsHeld(Older \cup Later, h)
  PROVE  FindsHeld(C!Latest(Older) \cup Later, h)
<1>1. \A r \in Older \cup Later : r.seq \in Nat
  BY DEF Writes
<1>2. C!Latest(Older \cup Later) \subseteq C!Latest(C!Latest(Older) \cup Later)
  BY <1>1 DEF C!Latest
<1>3. C!Latest(C!Latest(Older) \cup Later) \subseteq C!Latest(Older \cup Later)
  <2> SUFFICES ASSUME NEW r \in C!Latest(C!Latest(Older) \cup Later), NEW s \in Older \cup Later, s.key = r.key
               PROVE  r \in Older \cup Later /\ r.value # None /\ s.seq <= r.seq
    BY DEF C!Latest
  <2>1. r \in Older \cup Later /\ r.value # None
    BY DEF C!Latest
  <2>2. r \in C!Latest(Older) \/ r \in Later
    BY DEF C!Latest
  <2>3. s.seq <= r.seq
    BY <1>1, <2>1, <2>2 DEF C!Latest
  <2> QED
    BY <2>1, <2>3
<1>4. C!Latest(C!Latest(Older) \cup Later) = C!Latest(Older \cup Later)
  BY <1>2, <1>3
<1> QED
  BY <1>4 DEF FindsHeld

LEMMA StoredFacts ==
  ASSUME StoredOK
  PROVE  /\ DOMAIN content \in SUBSET Nat /\ DOMAIN manifests \in SUBSET Nat
         /\ Manifest \in Manifests /\ current \in DOMAIN manifests /\ current \in Nat
         /\ logs \subseteq DOMAIN content
         /\ C!CurrentLog \in logs /\ C!CurrentLog \in Nat /\ \A f \in logs : f <= C!CurrentLog
         /\ Manifest.log \in logs /\ Manifest.tables \subseteq (DOMAIN content) \ logs
         /\ \A f \in logs : f # C!CurrentLog /\ Manifest.log = C!CurrentLog => f < Manifest.log
         /\ LiveFiles = Manifest.tables \cup {f \in logs : f >= Manifest.log}
         /\ C!CurrentLog \in LiveFiles
         /\ C!Newest \in Nat /\ C!Newest \in LiveFiles \cup {current}
         /\ \A n \in Numbers : n <= C!Newest
<1> USE DEF StoredOK
<1>1. /\ DOMAIN content \in SUBSET Nat /\ DOMAIN manifests \in SUBSET Nat
      /\ Manifest \in Manifests /\ current \in DOMAIN manifests /\ current \in Nat
  BY DEF BrowserTypeOK, Manifest
<1>2. logs \subseteq DOMAIN content
  BY DEF LogsOK
<1>3. PICK a, c \in logs : logs = {a, c} /\ a <= c /\ Manifest.log \in {a, c}
  BY DEF LogsOK
<1>4. logs \in SUBSET Nat /\ a \in Nat /\ c \in Nat
  BY <1>1, <1>2
<1>5. C!CurrentLog = c
  <2>1. \A n \in logs : n <= c
    BY <1>3, <1>4
  <2> QED
    BY <1>4, <2>1, GreatestIs DEF C!CurrentLog
<1>6. \A f \in logs : f <= C!CurrentLog
  BY <1>3, <1>4, <1>5
<1>7. \A f \in logs : f # C!CurrentLog /\ Manifest.log = C!CurrentLog => f < Manifest.log
  BY <1>3, <1>4, <1>5
<1>8. Manifest.tables \subseteq (DOMAIN content) \ logs
  BY DEF TablesApart
<1>9. LiveFiles = Manifest.tables \cup {f \in logs : f >= Manifest.log}
  BY <1>2 DEF LiveFiles, C!Counts
<1>10. C!CurrentLog \in LiveFiles
  BY <1>3, <1>4, <1>5, <1>9
<1>11. PICK top \in LiveFiles \cup {current} : \A n \in Numbers : n <= top
  BY DEF NewestStays
<1>12. LiveFiles \subseteq DOMAIN content
  BY <1>2, <1>8, <1>9
<1>13. top \in Numbers /\ Numbers \in SUBSET Nat
  BY <1>1, <1>11, <1>12 DEF Numbers
<1>14. C!Newest = top
  BY <1>11, <1>13, GreatestIs DEF C!Newest, Numbers
<1>15. C!Newest \in Nat /\ C!Newest \in LiveFiles \cup {current} /\ \A n \in Numbers : n <= C!Newest
  BY <1>11, <1>13, <1>14
<1>16. C!CurrentLog \in logs /\ C!CurrentLog \in Nat /\ Manifest.log \in logs
  BY <1>3, <1>4, <1>5
<1> QED
  BY <1>1, <1>2, <1>6, <1>7, <1>8, <1>9, <1>10, <1>15, <1>16

LEMMA StoredInit == CollectorsInit => StoredOK
<1> SUFFICES ASSUME C!ChromiumInit PROVE StoredOK
  BY DEF CollectorsInit
<1> USE DEF C!ChromiumInit
<1>1. Manifest = [log |-> 1, tables |-> {}] /\ DOMAIN content = {1} /\ DOMAIN manifests = {0} /\ content[1] = {}
  BY DEF Manifest
<1>2. Manifest \in Manifests /\ LiveFiles = {1}
  BY <1>1 DEF Manifests, LiveFiles, C!Counts
<1>3. BrowserTypeOK
  BY <1>1, <1>2 DEF BrowserTypeOK, Manifest
<1>4. LogsOK /\ TablesApart
  BY <1>1 DEF LogsOK, TablesApart
<1>5. NewestStays
  BY <1>1, <1>2 DEF NewestStays, Numbers
<1>6. InOrder
  BY <1>1 DEF InOrder, WrittenBefore
<1>7. Holding(LiveFiles) = {}
  BY <1>1, <1>2 DEF Holding
<1>8. FindsHeld(Holding(LiveFiles), held)
  <2>1. C!Latest({}) = {}
    BY DEF C!Latest
  <2> QED
    BY <1>7, <2>1 DEF FindsHeld
<1> QED
  BY <1>3, <1>4, <1>5, <1>6, <1>8 DEF StoredOK

(* A record goes to the newest log.                                        *)
LEMMA StoredPut ==
  ASSUME StoredOK, NEW k \in BrowserKeys, NEW v \in BrowserValues \cup {None}, C!Put(k, v)
  PROVE  StoredOK'
<1> DEFINE new == [key |-> k, seq |-> written + 1, value |-> v]
<1>1. /\ written' = written + 1 /\ held' = [held EXCEPT ![k] = v]
      /\ content' = [content EXCEPT ![C!CurrentLog] = @ \cup {new}]
      /\ UNCHANGED <<logs, manifests, current>>
  BY DEF C!Put
<1>2. BrowserTypeOK /\ LogsOK /\ TablesApart /\ NewestStays /\ InOrder /\ FindsHeld(Holding(LiveFiles), held)
  BY DEF StoredOK
<1>3. written \in Nat /\ new \in Writes /\ new.seq = written + 1
  BY <1>2 DEF BrowserTypeOK, Writes
<1> HIDE DEF new
<1>4. Manifest' = Manifest /\ DOMAIN content' = DOMAIN content /\ LiveFiles' = LiveFiles /\ Numbers' = Numbers
  BY <1>1 DEF Manifest, LiveFiles, Numbers, C!Counts
<1>5. \A f \in DOMAIN content : content'[f] = IF f = C!CurrentLog THEN content[f] \cup {new} ELSE content[f]
  BY <1>1
<1>6. \A f \in DOMAIN content : content[f] \subseteq Writes /\ \A r \in content[f] : r.seq \in Nat /\ r.seq <= written
  BY <1>2 DEF BrowserTypeOK, InOrder, Writes
<1>7. BrowserTypeOK'
  <2>1. content' \in [DOMAIN content -> SUBSET Writes]
    BY <1>1, <1>2, <1>3, <1>5, <1>6
  <2>2. held' \in [BrowserKeys -> BrowserValues \cup {None}]
    BY <1>1, <1>2 DEF BrowserTypeOK
  <2> QED
    BY <1>1, <1>2, <1>3, <1>4, <2>1, <2>2 DEF BrowserTypeOK
<1>8. LogsOK' /\ TablesApart' /\ NewestStays'
  BY <1>1, <1>2, <1>4 DEF LogsOK, TablesApart, NewestStays
<1>9. InOrder'
  <2>1. \A f \in DOMAIN content : \A r \in content'[f] : r.seq \in Nat /\ r.seq <= written + 1
    <3>1. \A f \in DOMAIN content : content'[f] \subseteq content[f] \cup {new}
      BY <1>5
    <3> QED
      BY <1>3, <1>6, <3>1
  <2>2. ASSUME NEW f \in DOMAIN content, NEW g \in DOMAIN content, WrittenBefore(f, g), f # C!CurrentLog
        PROVE  WrittenBefore(f, g)'
    <3>1. content'[f] = content[f] /\ content'[g] \subseteq content[g] \cup {new}
      BY <1>5, <2>2
    <3>2. \A r \in content[f] : r.seq < new.seq
      BY <1>3, <1>6
    <3> QED
      BY <2>2, <3>1, <3>2 DEF WrittenBefore
  <2>3. \A f \in logs : f \in DOMAIN content /\ f \in Nat /\ f <= C!CurrentLog
    BY StoredFacts
  <2>4. \A f \in Manifest.tables : f \in DOMAIN content /\ f # C!CurrentLog
    BY StoredFacts
  <2>5. \A f, g \in logs : f < g => f # C!CurrentLog
    BY <2>3
  <2>6. \A f, g \in logs : f < g => WrittenBefore(f, g)'
    BY <1>2, <2>2, <2>3, <2>5 DEF InOrder
  <2>7. \A f \in Manifest.tables : \A g \in logs : g >= Manifest.log => WrittenBefore(f, g)'
    BY <1>2, <2>2, <2>3, <2>4 DEF InOrder
  <2> QED
    BY <1>1, <1>4, <2>1, <2>6, <2>7 DEF InOrder, WrittenBefore
<1>10. Holding(LiveFiles)' = Holding(LiveFiles) \cup {new}
  <2>1. C!CurrentLog \in LiveFiles /\ LiveFiles \subseteq DOMAIN content
    BY StoredFacts
  <2> QED
    BY <1>4, <1>5, <2>1 DEF Holding
<1>11. FindsHeld(Holding(LiveFiles) \cup {new}, [held EXCEPT ![k] = v])
  <2>1. Holding(LiveFiles) \in SUBSET Writes /\ \A r \in Holding(LiveFiles) : r.seq <= written
    BY <1>6, StoredFacts DEF Holding
  <2>2. held \in [BrowserKeys -> BrowserValues \cup {None}]
    BY <1>2 DEF BrowserTypeOK
  <2> QED
    BY <1>2, <1>3, <2>1, <2>2, WrittenFound DEF new
<1>12. FindsHeld(Holding(LiveFiles)', held')
  BY <1>1, <1>10, <1>11
<1>13. FindsHeld(Holding(LiveFiles), held)'
  BY <1>12 DEF FindsHeld, C!Latest
<1> QED
  BY <1>7, <1>8, <1>9, <1>13 DEF StoredOK

LEMMA FindsHeldAgain ==
  ASSUME FindsHeld(Holding(LiveFiles)', held')
  PROVE  FindsHeld(Holding(LiveFiles), held)'
BY DEF FindsHeld, C!Latest

LEMMA NewNumber ==
  ASSUME StoredOK
  PROVE  /\ C!Newest + 1 \in Nat \ Numbers
         /\ \A n \in Numbers : n \in Nat /\ n < C!Newest + 1
<1>1. Numbers \in SUBSET Nat /\ C!Newest \in Nat /\ \A n \in Numbers : n <= C!Newest
  BY StoredFacts DEF Numbers
<1> QED
  BY ONLY <1>1

(* The three steps that make a file leave the others as they are.          *)
LEMMA FileMade ==
  ASSUME StoredOK, NEW R \in SUBSET Writes, \A r \in R : r.seq <= written,
         content' = [f \in DOMAIN content \cup {C!Newest + 1} |->
                       IF f \in DOMAIN content THEN content[f] ELSE R],
         UNCHANGED <<current, written, held>>,
         DOMAIN manifests' = DOMAIN manifests,
         C!Newest + 1 \in LiveFiles',
         manifests' \in [DOMAIN manifests' -> Manifests]
  PROVE  /\ BrowserTypeOK' /\ NewestStays'
         /\ DOMAIN content' = DOMAIN content \cup {C!Newest + 1}
         /\ \A f \in DOMAIN content : content'[f] = content[f]
         /\ content'[C!Newest + 1] = R
         /\ \A f \in DOMAIN content' : \A r \in content'[f] : r.seq <= written'
<1> DEFINE n == C!Newest + 1
<1>1. n \in Nat \ Numbers /\ \A m \in Numbers : m \in Nat /\ m < n
  BY NewNumber
<1> HIDE DEF n
<1>2. /\ DOMAIN content' = DOMAIN content \cup {n}
      /\ \A f \in DOMAIN content : content'[f] = content[f]
      /\ content'[n] = R
  BY <1>1 DEF Numbers, n
<1>3. BrowserTypeOK /\ InOrder
  BY DEF StoredOK
<1>4. BrowserTypeOK'
  <2>1. content' \in [DOMAIN content' -> SUBSET Writes]
    BY <1>2, <1>3 DEF BrowserTypeOK
  <2>2. DOMAIN content' \in SUBSET Nat
    BY <1>1, <1>2, <1>3 DEF BrowserTypeOK
  <2> QED
    BY <1>3, <2>1, <2>2 DEF BrowserTypeOK
<1>5. NewestStays'
  <2>1. Numbers' = Numbers \cup {n}
    BY <1>2 DEF Numbers
  <2>2. n \in LiveFiles' /\ \A m \in Numbers' : m <= n
    BY <1>1, <2>1 DEF n
  <2> QED
    BY <2>2 DEF NewestStays
<1>6. \A f \in DOMAIN content' : \A r \in content'[f] : r.seq <= written'
  BY <1>2, <1>3 DEF InOrder
<1> QED
  BY <1>2, <1>4, <1>5, <1>6 DEF n

LEMMA StoredSwitchLog ==
  ASSUME StoredOK, C!SwitchLog
  PROVE  StoredOK' /\ C!CurrentLog' = C!Newest + 1
<1>0. PICK n, a : n = C!Newest + 1 /\ a = C!CurrentLog
  OBVIOUS
<1>1. /\ logs = {a} /\ logs' = {a, n} /\ UNCHANGED <<manifests, current, written, held>>
      /\ content' = [f \in DOMAIN content \cup {n} |-> IF f \in DOMAIN content THEN content[f] ELSE {}]
  BY <1>0 DEF C!SwitchLog
<1>2. n \in Nat \ Numbers /\ \A m \in Numbers : m \in Nat /\ m < n
  BY <1>0, NewNumber
<1>3. /\ a \in DOMAIN content /\ Manifest.log = a /\ Manifest.tables \subseteq (DOMAIN content) \ logs
      /\ LiveFiles = Manifest.tables \cup {a} /\ Manifest \in Manifests /\ LiveFiles \subseteq DOMAIN content
      /\ a \in Nat
  <2>1. \A f \in logs : f = a
    BY <1>1
  <2> QED
    BY <1>0, <2>1, StoredFacts
<1>4. a < n /\ n \notin DOMAIN content
  BY <1>2, <1>3 DEF Numbers
<1>5. Manifest' = Manifest
  BY <1>1 DEF Manifest
<1>6. LiveFiles' = LiveFiles \cup {n}
  <2>1. DOMAIN content' = DOMAIN content \cup {n}
    BY <1>1
  <2>2. {f \in logs' \cap DOMAIN content' : f >= a} = {a, n}
    BY <1>1, <1>2, <1>3, <1>4, <2>1
  <2> QED
    BY <1>3, <1>5, <2>2 DEF LiveFiles, C!Counts
<1>7. /\ BrowserTypeOK' /\ NewestStays'
      /\ DOMAIN content' = DOMAIN content \cup {n}
      /\ \A f \in DOMAIN content : content'[f] = content[f]
      /\ content'[n] = {}
      /\ \A f \in DOMAIN content' : \A r \in content'[f] : r.seq <= written'
  <2>1. manifests' \in [DOMAIN manifests' -> Manifests]
    BY <1>1 DEF StoredOK, BrowserTypeOK
  <2>2. {} \in SUBSET Writes /\ \A r \in {} : r.seq <= written
    OBVIOUS
  <2>3. C!Newest + 1 \in LiveFiles' /\ DOMAIN manifests' = DOMAIN manifests
    BY <1>0, <1>1, <1>6
  <2>4. UNCHANGED <<current, written, held>>
    BY <1>1
  <2>5. content' = [f \in DOMAIN content \cup {C!Newest + 1} |-> IF f \in DOMAIN content THEN content[f] ELSE {}]
    BY <1>0, <1>1
  <2> QED
    BY <1>0, <2>1, <2>2, <2>3, <2>4, <2>5, FileMade
<1>8. LogsOK'
  <2>1. logs' = {a, n} /\ a <= n /\ Manifest'.log \in {a, n} /\ logs' \subseteq DOMAIN content'
    BY <1>1, <1>2, <1>3, <1>4, <1>5, <1>7
  <2> QED
    BY <2>1 DEF LogsOK
<1>9. TablesApart'
  BY <1>1, <1>3, <1>4, <1>5, <1>7 DEF TablesApart
<1>10. InOrder'
  <2>1. \A f \in DOMAIN content' : WrittenBefore(f, n)'
    BY <1>7 DEF WrittenBefore
  <2>2. \A f, g \in logs' : f < g => g = n
    BY <1>1, <1>2, <1>3, <1>4
  <2>3. \A f \in Manifest.tables : WrittenBefore(f, a)
    BY <1>1, <1>3 DEF StoredOK, InOrder
  <2>4. \A f \in Manifest.tables : WrittenBefore(f, a)'
    BY <1>3, <1>7, <2>3 DEF WrittenBefore
  <2>5. \A f, g \in logs' : f < g => WrittenBefore(f, g)'
    BY <1>1, <1>3, <1>7, <2>1, <2>2
  <2>6. \A f \in Manifest'.tables : \A g \in logs' : WrittenBefore(f, g)'
    BY <1>1, <1>3, <1>5, <1>7, <2>1, <2>4
  <2> QED
    BY <1>7, <2>5, <2>6 DEF InOrder, WrittenBefore
<1>11. FindsHeld(Holding(LiveFiles), held)'
  <2>1. Holding(LiveFiles)' = Holding(LiveFiles)
    BY <1>3, <1>6, <1>7 DEF Holding
  <2> QED
    BY <1>1, <2>1, FindsHeldAgain DEF StoredOK
<1>12. C!CurrentLog' = n
  <2>1. \A f \in logs' : f <= n
    BY <1>1, <1>2, <1>3, <1>4
  <2>2. n \in logs' /\ logs' \in SUBSET Nat
    BY <1>1, <1>2, <1>3
  <2> QED
    BY <2>1, <2>2, GreatestIs DEF C!CurrentLog
<1> QED
  BY <1>7, <1>8, <1>9, <1>10, <1>11, <1>12, <1>0 DEF StoredOK

LEMMA StoredFlushLog ==
  ASSUME StoredOK, C!FlushLog
  PROVE  /\ StoredOK' /\ C!CurrentLog' = C!CurrentLog
         /\ C!Newest + 1 \in Manifest'.tables
<1>0. PICK n, c : n = C!Newest + 1 /\ c = C!CurrentLog
  OBVIOUS
<1>1. n \in Nat \ Numbers /\ \A m \in Numbers : m \in Nat /\ m < n
  BY <1>0, NewNumber
<1>2. PICK a \in logs : logs = {a, c} /\ a < c /\ Manifest.log = a /\ c \in logs /\ a \in Nat /\ c \in Nat
  <2>1. manifests[current].log # c /\ logs # {c}
    BY <1>0 DEF C!FlushLog
  <2>2. PICK x, y \in logs : logs = {x, y} /\ x <= y /\ Manifest.log \in {x, y}
    BY DEF StoredOK, LogsOK
  <2>3. logs \in SUBSET Nat /\ \A f \in logs : f <= c
    BY <1>0, StoredFacts
  <2>4. c \in logs
    BY <1>0, StoredFacts
  <2>5. c = y
    BY <2>2, <2>3, <2>4
  <2> QED
    BY <2>1, <2>2, <2>3, <2>5 DEF Manifest
<1>3. C!Min(logs) = a
  <2>1. \A f \in logs : a <= f
    BY <1>2
  <2>2. logs \in SUBSET Nat
    BY <1>2
  <2> QED
    BY <2>1, <2>2, LeastIs
<1>4. /\ content' = [f \in DOMAIN content \cup {n} |-> IF f \in DOMAIN content THEN content[f] ELSE content[a]]
      /\ manifests' = [manifests EXCEPT ![current] = [log |-> c, tables |-> Manifest.tables \cup {n}]]
      /\ UNCHANGED <<logs, current, written, held>>
  BY <1>0, <1>3 DEF C!FlushLog, Manifest
<1>5. /\ DOMAIN content \in SUBSET Nat /\ Manifest \in Manifests /\ logs \subseteq DOMAIN content
      /\ Manifest.tables \subseteq (DOMAIN content) \ logs
      /\ LiveFiles = Manifest.tables \cup {a, c} /\ current \in DOMAIN manifests
  <2>1. LiveFiles = Manifest.tables \cup {f \in logs : f >= a}
    BY <1>2, StoredFacts
  <2>2. {f \in logs : f >= a} = {a, c}
    BY <1>2
  <2> QED
    BY <2>1, <2>2, StoredFacts
<1>6. Manifest' = [log |-> c, tables |-> Manifest.tables \cup {n}] /\ Manifest' \in Manifests
  <2>1. Manifest' = [log |-> c, tables |-> Manifest.tables \cup {n}]
    BY <1>4, <1>5 DEF Manifest
  <2> QED
    BY <1>1, <1>2, <1>5, <2>1 DEF Manifests
<1>7. LiveFiles' = Manifest.tables \cup {n, c}
  <2>1. logs' \cap DOMAIN content' = {a, c}
    BY <1>2, <1>4, <1>5
  <2>2. {f \in {a, c} : f >= c} = {c}
    BY <1>2
  <2> QED
    BY <1>6, <2>1, <2>2 DEF LiveFiles, C!Counts
<1>8. /\ BrowserTypeOK' /\ NewestStays'
      /\ DOMAIN content' = DOMAIN content \cup {n}
      /\ \A f \in DOMAIN content : content'[f] = content[f]
      /\ content'[n] = content[a]
      /\ \A f \in DOMAIN content' : \A r \in content'[f] : r.seq <= written'
  <2>1. manifests \in [DOMAIN manifests -> Manifests]
    BY DEF StoredOK, BrowserTypeOK
  <2>2. DOMAIN manifests' = DOMAIN manifests
    BY <1>4
  <2>3. manifests' \in [DOMAIN manifests' -> Manifests]
    BY <1>4, <1>5, <1>6, <2>1, <2>2 DEF Manifest
  <2>4. content[a] \in SUBSET Writes /\ \A r \in content[a] : r.seq <= written
    BY <1>2, <1>5 DEF StoredOK, BrowserTypeOK, InOrder
  <2>5. C!Newest + 1 \in LiveFiles' /\ UNCHANGED <<current, written, held>>
    BY <1>0, <1>4, <1>7
  <2>6. content' = [f \in DOMAIN content \cup {C!Newest + 1} |-> IF f \in DOMAIN content THEN content[f] ELSE content[a]]
    BY <1>0, <1>4
  <2> QED
    BY <1>0, <2>2, <2>3, <2>4, <2>5, <2>6, FileMade
<1>9. LogsOK'
  <2>1. logs' = {a, c} /\ a <= c /\ Manifest'.log \in {a, c} /\ logs' \subseteq DOMAIN content'
    BY <1>2, <1>4, <1>5, <1>6, <1>8
  <2> QED
    BY <2>1 DEF LogsOK
<1>10. TablesApart'
  <2>1. n \notin logs
    BY <1>1, <1>5 DEF Numbers
  <2> QED
    BY <1>4, <1>5, <1>6, <1>8, <2>1 DEF TablesApart
<1>11. InOrder'
  <2>1. /\ \A f, g \in logs : f < g => WrittenBefore(f, g)
        /\ \A f \in Manifest.tables : \A g \in logs : g >= Manifest.log => WrittenBefore(f, g)
    BY DEF StoredOK, InOrder
  <2>2. WrittenBefore(a, c) /\ \A f \in Manifest.tables : WrittenBefore(f, c)
    BY <1>2, <2>1
  <2>3. \A f \in DOMAIN content : \A g \in DOMAIN content : WrittenBefore(f, g) => WrittenBefore(f, g)'
    BY <1>8 DEF WrittenBefore
  <2>4. \A f, g \in logs : f < g => WrittenBefore(f, g)'
    BY <1>5, <2>1, <2>3
  <2>5. \A f \in Manifest.tables : WrittenBefore(f, c)'
    BY <1>2, <1>5, <2>2, <2>3
  <2>6. WrittenBefore(n, c)'
    BY <1>2, <1>5, <1>8, <2>2 DEF WrittenBefore
  <2>7. \A g \in logs : g >= c => g = c
    BY <1>2
  <2>8. \A f \in Manifest'.tables : \A g \in logs' : g >= Manifest'.log => WrittenBefore(f, g)'
    BY <1>4, <1>6, <2>5, <2>6, <2>7
  <2> QED
    BY <1>4, <1>8, <2>4, <2>8 DEF InOrder, WrittenBefore
<1>12. FindsHeld(Holding(LiveFiles), held)'
  <2>1. Holding(LiveFiles)' = Holding(LiveFiles)
    BY <1>2, <1>5, <1>7, <1>8 DEF Holding
  <2> QED
    BY <1>4, <2>1, FindsHeldAgain DEF StoredOK
<1>13. C!CurrentLog' = C!CurrentLog
  BY <1>4 DEF C!CurrentLog
<1> QED
  BY <1>0, <1>6, <1>8, <1>9, <1>10, <1>11, <1>12, <1>13 DEF StoredOK

LEMMA StoredMergeTables ==
  ASSUME StoredOK, C!MergeTables
  PROVE  /\ StoredOK' /\ C!CurrentLog' = C!CurrentLog
         /\ C!Newest + 1 \in Manifest'.tables
<1>0. PICK n, m : n = C!Newest + 1 /\ m = Manifest
  OBVIOUS
<1> DEFINE Older == UNION {content[t] : t \in m.tables}
           Later == UNION {content[t] : t \in {f \in logs : f >= m.log}}
<1>1. n \in Nat \ Numbers /\ \A k \in Numbers : k \in Nat /\ k < n
  BY <1>0, NewNumber
<1>2. /\ content' = [f \in DOMAIN content \cup {n} |-> IF f \in DOMAIN content THEN content[f] ELSE C!Latest(Older)]
      /\ manifests' = [manifests EXCEPT ![current].tables = {n}]
      /\ UNCHANGED <<logs, current, written, held>>
  BY <1>0 DEF C!MergeTables, Manifest
<1>3. /\ DOMAIN content \in SUBSET Nat /\ m \in Manifests /\ logs \subseteq DOMAIN content
      /\ m.tables \subseteq (DOMAIN content) \ logs /\ m.log \in logs
      /\ LiveFiles = m.tables \cup {f \in logs : f >= m.log} /\ current \in DOMAIN manifests
  BY <1>0, StoredFacts
<1>4. Manifest' = [log |-> m.log, tables |-> {n}] /\ Manifest' \in Manifests
  <2>1. Manifest' = [m EXCEPT !.tables = {n}]
    BY <1>0, <1>2, <1>3 DEF Manifest
  <2> QED
    BY <1>1, <1>3, <2>1 DEF Manifests
<1>5. LiveFiles' = {n} \cup {f \in logs : f >= m.log}
  <2>1. logs' \cap DOMAIN content' = logs
    BY <1>2, <1>3
  <2> QED
    BY <1>4, <2>1 DEF LiveFiles, C!Counts
<1>6. \A f \in DOMAIN content : content[f] \in SUBSET Writes /\ \A r \in content[f] : r.seq <= written
  BY DEF StoredOK, BrowserTypeOK, InOrder
<1>7. Older \in SUBSET Writes /\ Later \in SUBSET Writes /\ \A r \in Older : r.seq <= written
  BY <1>3, <1>6
<1>8. C!Latest(Older) \in SUBSET Writes /\ C!Latest(Older) \subseteq Older
  BY <1>7 DEF C!Latest
<1>9. /\ BrowserTypeOK' /\ NewestStays'
      /\ DOMAIN content' = DOMAIN content \cup {n}
      /\ \A f \in DOMAIN content : content'[f] = content[f]
      /\ content'[n] = C!Latest(Older)
      /\ \A f \in DOMAIN content' : \A r \in content'[f] : r.seq <= written'
  <2>1. manifests \in [DOMAIN manifests -> Manifests]
    BY DEF StoredOK, BrowserTypeOK
  <2>2. DOMAIN manifests' = DOMAIN manifests
    BY <1>2
  <2>3. manifests' \in [DOMAIN manifests' -> Manifests]
    <3>1. manifests'[current] \in Manifests
      BY <1>2, <1>4 DEF Manifest
    <3>2. manifests' = [manifests EXCEPT ![current] = manifests'[current]]
      BY <1>2, <1>3
    <3> QED
      BY <2>1, <2>2, <3>1, <3>2
  <2>4. \A r \in C!Latest(Older) : r.seq <= written
    BY <1>7, <1>8
  <2>5. C!Newest + 1 \in LiveFiles' /\ UNCHANGED <<current, written, held>>
    BY <1>0, <1>2, <1>5
  <2>6. content' = [f \in DOMAIN content \cup {C!Newest + 1} |-> IF f \in DOMAIN content THEN content[f] ELSE C!Latest(Older)]
    BY <1>0, <1>2
  <2> HIDE DEF Older
  <2> QED
    BY <1>0, <1>8, <2>2, <2>3, <2>4, <2>5, <2>6, FileMade
<1>10. LogsOK'
  BY <1>0, <1>2, <1>4, <1>9 DEF StoredOK, LogsOK
<1>11. TablesApart'
  <2>1. n \notin logs
    BY <1>1, <1>3 DEF Numbers
  <2> QED
    BY <1>2, <1>3, <1>4, <1>9, <2>1 DEF TablesApart
<1>12. \A r \in Older : \A g \in logs : g >= m.log => \A s \in content[g] : r.seq < s.seq
  <2>1. \A f \in m.tables : \A g \in logs : g >= m.log => WrittenBefore(f, g)
    BY <1>0 DEF StoredOK, InOrder
  <2> QED
    BY <2>1 DEF WrittenBefore
<1>13. InOrder'
  <2>1. \A f, g \in logs : f < g => WrittenBefore(f, g)
    BY DEF StoredOK, InOrder
  <2>2. \A f, g \in logs : f < g => WrittenBefore(f, g)'
    BY <1>3, <1>9, <2>1 DEF WrittenBefore
  <2>3. \A g \in logs : g >= m.log => WrittenBefore(n, g)'
    <3> HIDE DEF Older
    <3> QED
      BY <1>3, <1>8, <1>9, <1>12 DEF WrittenBefore
  <2>4. \A f \in Manifest'.tables : \A g \in logs' : g >= Manifest'.log => WrittenBefore(f, g)'
    BY <1>2, <1>4, <2>3
  <2> QED
    BY <1>2, <1>9, <2>2, <2>4 DEF InOrder, WrittenBefore
<1>14. FindsHeld(Holding(LiveFiles), held)'
  <2>1. Holding(LiveFiles) = Older \cup Later
    BY <1>3 DEF Holding
  <2>2. Holding(LiveFiles)' = C!Latest(Older) \cup Later
    <3>1. \A f \in logs : content'[f] = content[f]
      BY <1>3, <1>9
    <3> DEFINE L == C!Latest(Older)
    <3>2. content'[n] = L
      BY <1>9
    <3> HIDE DEF L
    <3>3. Holding(LiveFiles)' = L \cup Later
      BY <1>5, <3>1, <3>2 DEF Holding
    <3> QED
      BY <3>3 DEF L
  <2>3. \A r \in Older : \A s \in Later : r.seq < s.seq
    BY <1>12
  <2>4. FindsHeld(Older \cup Later, held)
    BY <2>1 DEF StoredOK
  <2> HIDE DEF Older, Later
  <2>5. FindsHeld(C!Latest(Older) \cup Later, held)
    BY <1>7, <2>3, <2>4, MergedFound
  <2> QED
    BY <1>2, <2>2, <2>5, FindsHeldAgain
<1>15. C!CurrentLog' = C!CurrentLog
  BY <1>2 DEF C!CurrentLog
<1> QED
  BY <1>0, <1>4, <1>9, <1>10, <1>11, <1>13, <1>14, <1>15 DEF StoredOK

LEMMA StoredSwitchManifest ==
  ASSUME StoredOK, C!SwitchManifest
  PROVE  StoredOK' /\ C!Newest' = C!Newest + 1
<1>0. PICK n : n = C!Newest + 1
  OBVIOUS
<1>1. n \in Nat \ Numbers /\ \A k \in Numbers : k \in Nat /\ k < n
  BY <1>0, NewNumber
<1>2. /\ manifests' = [m \in {current, n} |-> Manifest] /\ current' = n
      /\ UNCHANGED <<content, logs, written, held>>
  BY <1>0 DEF C!SwitchManifest, Manifest
<1>3. Manifest' = Manifest /\ Manifest \in Manifests /\ current \in Nat /\ current \in Numbers
  BY <1>2, StoredFacts DEF Manifest, Numbers
<1>4. LiveFiles' = LiveFiles
  BY <1>2, <1>3 DEF LiveFiles
<1>5. BrowserTypeOK'
  BY <1>1, <1>2, <1>3 DEF StoredOK, BrowserTypeOK
<1>6. LogsOK' /\ TablesApart' /\ InOrder'
  BY <1>2, <1>3 DEF StoredOK, LogsOK, TablesApart, InOrder, WrittenBefore
<1>7. Numbers' = DOMAIN content \cup {current, n}
  BY <1>2 DEF Numbers
<1>8. \A k \in Numbers' : k \in Nat /\ k <= n
  BY <1>1, <1>3, <1>7 DEF Numbers
<1>9. NewestStays'
  BY <1>2, <1>8 DEF NewestStays
<1>10. C!Newest' = n
  <2>1. n \in Numbers' /\ Numbers' \in SUBSET Nat
    BY <1>7, <1>8
  <2> QED
    BY <1>8, <2>1, GreatestIs DEF C!Newest, Numbers
<1>11. FindsHeld(Holding(LiveFiles), held)'
  <2>1. Holding(LiveFiles)' = Holding(LiveFiles)
    BY <1>2, <1>4 DEF Holding
  <2> QED
    BY <1>2, <2>1, FindsHeldAgain DEF StoredOK
<1> QED
  BY <1>0, <1>5, <1>6, <1>9, <1>10, <1>11 DEF StoredOK

(* What goes no longer counts, and is not the newest.                      *)
LEMMA StoredRemoveObsolete ==
  ASSUME StoredOK, C!RemoveObsolete
  PROVE  /\ StoredOK' /\ C!CurrentLog' = C!CurrentLog /\ C!Newest' = C!Newest
         /\ LiveFiles' = LiveFiles /\ \A f \in LiveFiles : content'[f] = content[f]
<1>1. PICK f \in DOMAIN content \ LiveFiles :
        /\ content' = [g \in DOMAIN content \ {f} |-> content[g]]
        /\ logs' = logs \ {f} /\ UNCHANGED <<manifests, current, written, held>>
  BY DEF C!RemoveObsolete, LiveFiles, Manifest
<1>2. DOMAIN content' = DOMAIN content \ {f} /\ \A g \in DOMAIN content' : content'[g] = content[g]
  BY <1>1
<1>3. Manifest' = Manifest /\ current' = current /\ DOMAIN manifests' = DOMAIN manifests
  BY <1>1 DEF Manifest
<1>4. /\ DOMAIN content \in SUBSET Nat /\ logs \subseteq DOMAIN content /\ Manifest.log \in logs
      /\ Manifest.tables \subseteq (DOMAIN content) \ logs
      /\ LiveFiles = Manifest.tables \cup {g \in logs : g >= Manifest.log}
      /\ C!CurrentLog \in LiveFiles /\ C!CurrentLog \in logs /\ C!CurrentLog \in Nat
      /\ \A g \in logs : g <= C!CurrentLog
  BY StoredFacts
<1>5. LiveFiles' = LiveFiles
  <2>1. logs' \cap DOMAIN content' = logs \ {f}
    BY <1>1, <1>2, <1>4
  <2> QED
    BY <1>1, <1>3, <1>4, <2>1 DEF LiveFiles, C!Counts
<1>6. \A g \in LiveFiles : g \in DOMAIN content' /\ content'[g] = content[g]
  BY <1>1, <1>2, <1>4
<1>7. BrowserTypeOK'
  <2>1. content' \in [DOMAIN content' -> SUBSET Writes]
    BY <1>1, <1>2 DEF StoredOK, BrowserTypeOK
  <2> QED
    BY <1>1, <1>2, <1>3, <2>1 DEF StoredOK, BrowserTypeOK
<1>8. LogsOK' /\ C!CurrentLog \in logs'
  <2>1. PICK a, c \in logs : logs = {a, c} /\ a <= c /\ Manifest.log \in {a, c}
    BY DEF StoredOK, LogsOK
  <2>2. a \in Nat /\ c \in Nat /\ c = C!CurrentLog
    BY <1>4, <2>1
  <2>3. f # c /\ c \in logs'
    BY <1>1, <1>4, <2>2
  <2>4. f = a => Manifest.log = c
    BY <1>1, <1>4, <2>1, <2>2
  <2>5. LogsOK'
    <3>1. CASE f = a
      <4>1. logs' = {c} /\ Manifest'.log = c /\ c <= c
        BY <1>1, <1>3, <2>1, <2>2, <2>3, <2>4, <3>1
      <4> QED
        BY <1>1, <1>2, <1>4, <2>3, <4>1 DEF LogsOK
    <3>2. CASE f # a
      <4>1. logs' = logs
        BY <1>1, <2>1, <2>3, <3>2
      <4> QED
        BY <1>1, <1>2, <1>3, <1>4, <2>1, <4>1 DEF LogsOK
    <3> QED
      BY <3>1, <3>2
  <2> QED
    BY <2>2, <2>3, <2>5
<1>9. TablesApart'
  BY <1>1, <1>2, <1>3, <1>4 DEF TablesApart
<1>10. C!CurrentLog' = C!CurrentLog
  <2>1. logs' \in SUBSET Nat /\ C!CurrentLog \in logs' /\ \A g \in logs' : g <= C!CurrentLog
    BY <1>1, <1>4, <1>8
  <2> QED
    BY <2>1, GreatestIs DEF C!CurrentLog
<1>11. NewestStays' /\ C!Newest' = C!Newest
  <2>1. Numbers' = Numbers \ ({f} \ DOMAIN manifests)
    BY <1>2, <1>3 DEF Numbers
  <2>2. /\ C!Newest \in LiveFiles \cup {current} /\ \A k \in Numbers : k <= C!Newest
        /\ current \in DOMAIN manifests /\ Numbers \in SUBSET Nat
    BY StoredFacts DEF Numbers
  <2>3. C!Newest \in LiveFiles' \cup {current'} /\ \A k \in Numbers' : k <= C!Newest
    BY <1>3, <1>5, <2>1, <2>2
  <2>4. C!Newest \in Numbers' /\ Numbers' \in SUBSET Nat
    BY <1>3, <1>6, <2>1, <2>2 DEF Numbers
  <2>5. C!Newest' = C!Newest
    BY <2>3, <2>4, GreatestIs DEF C!Newest, Numbers
  <2> QED
    BY <2>3, <2>5 DEF NewestStays
<1>12. InOrder'
  <2>1. \A g, h \in DOMAIN content' : WrittenBefore(g, h) => WrittenBefore(g, h)'
    BY <1>2 DEF WrittenBefore
  <2>2. \A g \in logs' : g \in logs /\ g \in DOMAIN content'
    BY <1>1, <1>2, <1>4
  <2>3. \A g \in Manifest'.tables : g \in Manifest.tables /\ g \in DOMAIN content'
    BY <1>3, <1>4, <1>6
  <2>4. \A g \in DOMAIN content' : \A r \in content'[g] : r.seq <= written'
    BY <1>1, <1>2 DEF StoredOK, InOrder
  <2>5. \A g, h \in logs' : g < h => WrittenBefore(g, h)'
    BY <2>1, <2>2 DEF StoredOK, InOrder
  <2>6. \A g \in Manifest'.tables : \A h \in logs' : h >= Manifest'.log => WrittenBefore(g, h)'
    BY <1>3, <2>1, <2>2, <2>3 DEF StoredOK, InOrder
  <2> QED
    BY <2>4, <2>5, <2>6 DEF InOrder, WrittenBefore
<1>13. FindsHeld(Holding(LiveFiles), held)'
  <2>1. Holding(LiveFiles)' = Holding(LiveFiles)
    BY <1>5, <1>6 DEF Holding
  <2> QED
    BY <1>1, <2>1, FindsHeldAgain DEF StoredOK
<1> QED
  BY <1>5, <1>6, <1>7, <1>8, <1>9, <1>10, <1>11, <1>12, <1>13 DEF StoredOK
-----------------------------------------------------------------------------
(* How the files may change beside a reading: the files that count stay,   *)
(* but for what is added to the current log; or a table is named that was  *)
(* not there; or a log is begun.                                           *)
SameFiles ==
  /\ Manifest' = Manifest /\ LiveFiles' = LiveFiles /\ C!CurrentLog' = C!CurrentLog
  /\ \A f \in LiveFiles \ {C!CurrentLog} : content'[f] = content[f]
TableAdded == C!CurrentLog' = C!CurrentLog /\ C!Newest + 1 \in Manifest'.tables
LogAdded == Manifest' = Manifest /\ C!CurrentLog' = C!Newest + 1

StoreActs ==
  \/ \E k \in BrowserKeys, v \in BrowserValues \cup {None} : C!Put(k, v)
  \/ C!SwitchLog \/ C!FlushLog \/ C!MergeTables \/ C!SwitchManifest \/ C!RemoveObsolete

NewestTops == C!Newest \in Nat /\ \A n \in Numbers : n <= C!Newest

LEMMA NewestIsGreatest == StoredOK => NewestTops
BY StoredFacts DEF NewestTops

LEMMA StoreMoves ==
  ASSUME StoredOK, StoreActs
  PROVE  /\ StoredOK' /\ (SameFiles \/ TableAdded \/ LogAdded)
         /\ C!Newest <= C!Newest'
         /\ reader' = reader /\ result' = result
         /\ truths' = truths \/ truths' = truths \cup {held'}
         /\ reader.phase # "idle" /\ held \in truths => held' \in truths'
<1>1. /\ reader' = reader /\ result' = result
      /\ truths' = truths \/ truths' = truths \cup {held'}
      /\ reader.phase # "idle" /\ held \in truths => held' \in truths'
  BY DEF StoreActs, C!Put, C!SwitchLog, C!FlushLog, C!MergeTables, C!SwitchManifest, C!RemoveObsolete
<1>2. LiveFiles \subseteq DOMAIN content
  BY StoredFacts
<1>3. C!Newest \in Nat
  BY StoredFacts
<1>4. StoredOK' => NewestTops'
  BY NewestIsGreatest, PTL
<1>5. ASSUME NEW k \in BrowserKeys, NEW v \in BrowserValues \cup {None}, C!Put(k, v)
      PROVE  StoredOK' /\ SameFiles /\ C!Newest' = C!Newest
  <2>1. /\ UNCHANGED <<logs, manifests, current>> /\ DOMAIN content' = DOMAIN content
        /\ \A f \in DOMAIN content \ {C!CurrentLog} : content'[f] = content[f]
    BY <1>5 DEF C!Put
  <2>2. SameFiles
    BY <1>2, <2>1 DEF SameFiles, Manifest, LiveFiles, C!Counts, C!CurrentLog
  <2>3. C!Newest' = C!Newest
    BY <2>1 DEF C!Newest
  <2> QED
    BY <1>5, <2>2, <2>3, StoredPut
<1>6. ASSUME C!SwitchLog PROVE StoredOK' /\ LogAdded /\ C!Newest < C!Newest'
  <2>1. StoredOK' /\ C!CurrentLog' = C!Newest + 1
    BY <1>6, StoredSwitchLog
  <2>2. C!Newest + 1 \in Numbers' /\ Manifest' = Manifest
    BY <1>6 DEF C!SwitchLog, Numbers, Manifest
  <2>3. C!Newest + 1 <= C!Newest' /\ C!Newest' \in Nat
    BY <1>4, <2>1, <2>2 DEF NewestTops
  <2> QED
    BY <1>3, <2>1, <2>2, <2>3 DEF LogAdded
<1>7. ASSUME C!FlushLog \/ C!MergeTables PROVE StoredOK' /\ TableAdded /\ C!Newest < C!Newest'
  <2>1. StoredOK' /\ TableAdded
    BY <1>7, StoredFlushLog, StoredMergeTables DEF TableAdded
  <2>2. C!Newest + 1 \in Numbers'
    BY <1>7 DEF C!FlushLog, C!MergeTables, Numbers
  <2>3. C!Newest + 1 <= C!Newest' /\ C!Newest' \in Nat
    BY <1>4, <2>1, <2>2 DEF NewestTops
  <2> QED
    BY <1>3, <2>1, <2>3
<1>8. ASSUME C!SwitchManifest PROVE StoredOK' /\ SameFiles /\ C!Newest < C!Newest'
  <2>1. StoredOK' /\ C!Newest' = C!Newest + 1
    BY <1>8, StoredSwitchManifest
  <2>2. Manifest' = Manifest /\ UNCHANGED <<content, logs>>
    BY <1>8 DEF C!SwitchManifest, Manifest
  <2>3. SameFiles
    BY <2>2 DEF SameFiles, LiveFiles, C!CurrentLog
  <2> QED
    BY <1>3, <2>1, <2>3
<1>9. ASSUME C!RemoveObsolete PROVE StoredOK' /\ SameFiles /\ C!Newest' = C!Newest
  <2>1. Manifest' = Manifest
    BY <1>9 DEF C!RemoveObsolete, Manifest
  <2> QED
    BY <1>9, <2>1, StoredRemoveObsolete DEF SameFiles
<1>10. /\ StoredOK' /\ (SameFiles \/ TableAdded \/ LogAdded)
       /\ C!Newest' = C!Newest \/ C!Newest < C!Newest'
  BY <1>5, <1>6, <1>7, <1>8, <1>9 DEF StoreActs
<1>11. C!Newest' \in Nat
  BY <1>4, <1>10 DEF NewestTops
<1>12. C!Newest <= C!Newest'
  BY <1>3, <1>10, <1>11
<1> QED
  BY <1>1, <1>10, <1>12

(* A reading that is true of some moment, or cannot go unnoticed, stays so *)
(* whatever is written beside it.                                          *)
LEMMA ReadingBeside ==
  ASSUME BrowserInv, StoreActs, reader.phase # "idle" \/ truths = {}
  PROVE  BrowserInv'
<1>1. StoredOK /\ ReadingOK
  BY DEF BrowserInv
<1>2. /\ StoredOK' /\ (SameFiles \/ TableAdded \/ LogAdded) /\ C!Newest <= C!Newest'
      /\ reader' = reader /\ result' = result /\ truths \subseteq truths'
      /\ truths' = truths \/ truths' = truths \cup {held'}
      /\ reader.phase # "idle" /\ held \in truths => held' \in truths'
  BY <1>1, StoreMoves
<1>3. C!Newest \in Nat /\ C!CurrentLog \in Nat /\ C!CurrentLog \in LiveFiles /\ C!CurrentLog <= C!Newest
  BY <1>1, StoredFacts DEF Numbers
<1>4. C!Newest' \in Nat
  <2>1. StoredOK' => NewestTops'
    BY NewestIsGreatest, PTL
  <2> QED
    BY <1>2, <2>1 DEF NewestTops
<1>5. truths' \in SUBSET [BrowserKeys -> BrowserValues \cup {None}]
  <2>1. held' \in [BrowserKeys -> BrowserValues \cup {None}]
    BY <1>2 DEF StoredOK, BrowserTypeOK
  <2> QED
    BY <1>1, <1>2, <2>1 DEF ReadingOK
<1>6. C!SnapshotWasTrue'
  BY <1>1, <1>2 DEF ReadingOK, C!SnapshotWasTrue
<1>7. ASSUME reader.phase = "named"
      PROVE  /\ Known(reader.named.says)' /\ reader'.seen = {}
             /\ Manifest' = reader.named.says \/ ~(Manifest'.tables \subseteq reader.named.says.tables)
  <2>1. /\ reader.named.says \in Manifests /\ \A n \in reader.named.says.tables : n \in Nat /\ n <= C!Newest
        /\ reader.seen = {}
        /\ Manifest = reader.named.says \/ ~(Manifest.tables \subseteq reader.named.says.tables)
    BY <1>1, <1>7 DEF ReadingOK, Known, Manifests
  <2>2. \A n \in reader.named.says.tables : n <= C!Newest'
    BY <1>2, <1>3, <1>4, <2>1
  <2>3. C!Newest + 1 \notin reader.named.says.tables
    BY <1>3, <2>1
  <2>4. Manifest' = Manifest \/ C!Newest + 1 \in Manifest'.tables
    BY <1>2 DEF SameFiles, TableAdded, LogAdded
  <2> QED
    BY <1>2, <2>1, <2>2, <2>3, <2>4 DEF Known
<1>8. ASSUME NEW F \in SUBSET Nat, \A n \in F : n <= C!Newest
      PROVE  \A n \in F : n <= C!Newest'
  BY <1>2, <1>3, <1>4, <1>8
<1>9. ASSUME reader.phase = "listed"
      PROVE  (OfOneMoment \/ Outdated)'
  <2>1. /\ reader.listed \subseteq reader.first /\ reader.first \in SUBSET Nat
        /\ \A n \in reader.first : n <= C!Newest
        /\ OfOneMoment \/ Outdated
    BY <1>1, <1>9 DEF ReadingOK
  <2>2. C!Newest + 1 \notin reader.first
    BY <1>3, <2>1
  <2>3. CASE TableAdded \/ LogAdded
    BY <1>2, <2>2, <2>3 DEF TableAdded, LogAdded, Outdated
  <2>4. CASE SameFiles /\ Outdated
    BY <1>2, <2>4 DEF SameFiles, Outdated
  <2>5. CASE SameFiles /\ OfOneMoment
    <3>1. LiveFiles' = reader.first /\ C!CurrentLog' = C!CurrentLog
      BY <2>5 DEF SameFiles, OfOneMoment
    <3>2. ASSUME NEW F \in SUBSET reader.first, C!CurrentLog \notin F
          PROVE  UNION {content'[f] : f \in F} = UNION {content[f] : f \in F}
      <4>1. \A f \in F : content'[f] = content[f]
        BY <2>5, <3>2 DEF SameFiles, OfOneMoment
      <4> QED
        BY <4>1
    <3>3. CASE C!CurrentLog \in reader.listed
      <4>1. reader.seen = UNION {content[f] : f \in reader.first \ reader.listed}
        BY <2>5, <3>3 DEF OfOneMoment, Holding
      <4>2. reader.seen = UNION {content'[f] : f \in reader.first \ reader.listed}
        BY <3>2, <3>3, <4>1
      <4> QED
        BY <1>2, <3>1, <3>3, <4>2 DEF OfOneMoment, Holding
    <3>4. CASE C!CurrentLog \notin reader.listed
      <4>1. PICK moment \in truths : FindsHeld(reader.seen \cup UNION {content[f] : f \in reader.listed}, moment)
        BY <2>5, <3>4 DEF OfOneMoment, Holding
      <4>2. FindsHeld(reader.seen \cup UNION {content'[f] : f \in reader.listed}, moment)
        BY <2>1, <3>2, <3>4, <4>1
      <4>3. (\E m \in truths : FindsHeld(reader.seen \cup Holding(reader.listed), m))'
        BY <1>2, <4>1, <4>2 DEF FindsHeld, C!Latest, Holding
      <4> QED
        BY <1>2, <3>1, <3>4, <4>3 DEF OfOneMoment
    <3> QED
      BY <3>3, <3>4
  <2> QED
    BY <1>2, <2>1, <2>3, <2>4, <2>5
<1>10. ASSUME reader.phase = "named again"
       PROVE  \/ \E moment \in truths' : FindsHeld(reader.seen, moment)
              \/ ~(reader.named.says.tables \subseteq reader.first)
              \/ C!CurrentLog' \notin reader.first /\ C!CurrentLog' >= reader.named.says.log
  <2>1. /\ reader.named.says \in Manifests /\ reader.first \in SUBSET Nat
        /\ \A n \in reader.first : n <= C!Newest
        /\ \/ \E moment \in truths : FindsHeld(reader.seen, moment)
           \/ ~(reader.named.says.tables \subseteq reader.first)
           \/ C!CurrentLog \notin reader.first /\ C!CurrentLog >= reader.named.says.log
    BY <1>1, <1>10 DEF ReadingOK
  <2>2. reader.named.says.log \in Nat
    BY <2>1 DEF Manifests
  <2>3. C!CurrentLog' = C!CurrentLog \/ C!CurrentLog' = C!Newest + 1
    BY <1>2 DEF SameFiles, TableAdded, LogAdded
  <2>4. C!Newest + 1 \notin reader.first
    BY <1>3, <2>1
  <2>5. C!CurrentLog >= reader.named.says.log => C!Newest + 1 >= reader.named.says.log
    BY <1>3, <2>2
  <2> QED
    BY <1>2, <2>1, <2>3, <2>4, <2>5
<1>11. ReadingOK'
  <2>1. reader' \in Readers /\ (reader'.phase # "idle" => held' \in truths' /\ result' = None)
    BY <1>1, <1>2 DEF ReadingOK
  <2>2. ReadingOK
    BY <1>1
  <2>3. (\E moment \in truths : FindsHeld(reader.seen, moment))'
           <=> (\E moment \in truths' : FindsHeld(reader.seen, moment))
    BY <1>2 DEF FindsHeld, C!Latest
  <2>4. reader.phase = "listed" =>
          /\ reader'.listed \subseteq reader'.first /\ reader'.first \in SUBSET Nat
          /\ \A n \in reader'.first : n <= C!Newest'
    BY <1>2, <1>8, <2>2 DEF ReadingOK
  <2>5. reader.phase = "named again" =>
          /\ reader'.named.says \in Manifests /\ reader'.first \in SUBSET Nat
          /\ \A n \in reader'.first : n <= C!Newest'
    BY <1>2, <1>8, <2>2 DEF ReadingOK
  <2>6. reader.phase = "named" =>
          /\ Known(reader.named.says)' /\ reader'.seen = {}
          /\ Manifest' = reader'.named.says \/ ~(Manifest'.tables \subseteq reader'.named.says.tables)
    BY <1>2, <1>7
  <2>7. reader.phase = "named again" =>
          \/ (\E moment \in truths : FindsHeld(reader.seen, moment))'
          \/ ~(reader'.named.says.tables \subseteq reader'.first)
          \/ C!CurrentLog' \notin reader'.first /\ C!CurrentLog' >= reader'.named.says.log
    BY <1>2, <1>10, <2>3
  <2> QED
    BY <1>2, <1>5, <1>6, <1>9, <2>1, <2>4, <2>5, <2>6, <2>7 DEF ReadingOK
<1> QED
  BY <1>2, <1>11 DEF BrowserInv

LEMMA StoredStays ==
  ASSUME StoredOK, UNCHANGED C!storeFiles
  PROVE  /\ StoredOK' /\ held' = held /\ content' = content /\ current' = current
         /\ Manifest' = Manifest /\ LiveFiles' = LiveFiles
         /\ C!CurrentLog' = C!CurrentLog /\ C!Newest' = C!Newest
<1> USE DEF C!storeFiles
<1>1. Manifest' = Manifest /\ LiveFiles' = LiveFiles /\ Numbers' = Numbers
  BY DEF Manifest, LiveFiles, Numbers
<1>2. C!CurrentLog' = C!CurrentLog /\ C!Newest' = C!Newest
  BY DEF C!CurrentLog, C!Newest
<1>3. FindsHeld(Holding(LiveFiles), held)'
  <2>1. Holding(LiveFiles)' = Holding(LiveFiles)
    BY <1>1 DEF Holding
  <2> QED
    BY <2>1, FindsHeldAgain DEF StoredOK
<1>4. BrowserTypeOK' /\ LogsOK' /\ TablesApart' /\ NewestStays' /\ InOrder'
  BY <1>1 DEF StoredOK, BrowserTypeOK, LogsOK, TablesApart, NewestStays, InOrder, WrittenBefore
<1> QED
  BY <1>1, <1>2, <1>3, <1>4 DEF StoredOK

LEMMA GivenUp ==
  ASSUME BrowserInv, UNCHANGED C!storeFiles, reader' = C!Idle, truths' = truths, C!SnapshotWasTrue'
  PROVE  BrowserInv'
<1>1. C!Idle \in Readers /\ C!Idle.phase = "idle"
  BY DEF C!Idle, Readers
<1>2. StoredOK'
  BY StoredStays DEF BrowserInv
<1> QED
  BY <1>1, <1>2 DEF BrowserInv, ReadingOK

LEMMA ReadingBegins ==
  ASSUME BrowserInv, C!BeginReading
  PROVE  BrowserInv'
<1>1. PICK m : m = Manifest
  OBVIOUS
<1>2. /\ reader' = [phase |-> "named", first |-> None, listed |-> None,
                   named |-> [number |-> current, says |-> m], seen |-> {}]
      /\ truths' = {held} /\ result' = None /\ UNCHANGED C!storeFiles
  BY <1>1 DEF C!BeginReading, C!Idle, Manifest
<1>3. /\ StoredOK' /\ held' = held /\ Manifest' = m /\ m \in Manifests /\ current \in Nat
      /\ held \in [BrowserKeys -> BrowserValues \cup {None}]
      /\ m.tables \subseteq Numbers /\ C!Newest' = C!Newest /\ \A n \in Numbers : n <= C!Newest
  BY <1>1, <1>2, StoredStays, StoredFacts DEF BrowserInv, StoredOK, BrowserTypeOK, Numbers
<1>4. /\ reader' \in Readers /\ reader'.phase = "named" /\ reader'.seen = {} /\ reader'.named.says = m
  BY <1>2, <1>3 DEF Readers
<1>5. Known(reader.named.says)'
  BY <1>3, <1>4 DEF Known
<1>6. C!SnapshotWasTrue'
  BY <1>2 DEF C!SnapshotWasTrue
<1> QED
  BY <1>2, <1>3, <1>4, <1>5, <1>6 DEF BrowserInv, ReadingOK

(* What counts is listed after the manifest was read: if the manifest says *)
(* the same still, all that counts.                                        *)
LEMMA ReadingLists ==
  ASSUME BrowserInv, C!ListFiles
  PROVE  BrowserInv'
<1>1. reader.phase = "named" /\ UNCHANGED <<C!storeFiles, truths, result>>
  BY DEF C!ListFiles, C!Give
<1>2. /\ reader \in Readers /\ held \in truths /\ result = None /\ C!SnapshotWasTrue
      /\ Known(reader.named.says) /\ reader.seen = {}
      /\ Manifest = reader.named.says \/ ~(Manifest.tables \subseteq reader.named.says.tables)
      /\ truths \in SUBSET [BrowserKeys -> BrowserValues \cup {None}]
  BY <1>1 DEF BrowserInv, ReadingOK
<1>3. C!SnapshotWasTrue'
  BY <1>1, <1>2 DEF C!SnapshotWasTrue
<1>4. CASE ~C!SameManifest
  <2>1. reader' = C!Idle
    BY <1>4 DEF C!ListFiles, C!Give
  <2> QED
    BY <1>1, <1>3, <2>1, GivenUp
<1>5. CASE C!SameManifest
  <2>1. PICK F : F = C!Listed
    OBVIOUS
  <2>2. reader' = [reader EXCEPT !.phase = "listed", !.first = F, !.listed = F]
    BY <1>5, <2>1 DEF C!ListFiles, C!Give
  <2>3. F = reader.named.says.tables \cup {f \in logs \cap DOMAIN content : f >= reader.named.says.log}
    BY <2>1 DEF C!Listed, C!Counts
  <2>4. /\ StoredOK' /\ held' = held /\ content' = content /\ Manifest' = Manifest /\ LiveFiles' = LiveFiles
        /\ C!CurrentLog' = C!CurrentLog /\ C!Newest' = C!Newest
    BY <1>1, StoredStays DEF BrowserInv
  <2>5. /\ logs \subseteq Numbers /\ Numbers \in SUBSET Nat /\ \A n \in Numbers : n <= C!Newest
        /\ C!CurrentLog \in LiveFiles /\ Manifest.tables \cap logs = {}
    BY StoredFacts DEF Numbers, BrowserInv
  <2>6. F \in SUBSET Nat /\ \A n \in F : n <= C!Newest
    BY <1>2, <2>3, <2>5 DEF Known, Manifests
  <2>7. /\ reader' \in Readers /\ reader'.phase = "listed" /\ reader'.first = F /\ reader'.listed = F
        /\ reader'.seen = {}
    BY <1>2, <2>2, <2>6 DEF Readers
  <2>8. (OfOneMoment \/ Outdated)'
    <3>1. CASE Manifest = reader.named.says
      <4>1. F = LiveFiles
        BY <2>1, <3>1 DEF C!Listed, LiveFiles
      <4>2. UNION {content'[f] : f \in {}} = {} /\ F \ F = {}
        OBVIOUS
      <4> QED
        BY <2>4, <2>5, <2>7, <4>1, <4>2 DEF OfOneMoment, Holding
    <3>2. CASE ~(Manifest.tables \subseteq reader.named.says.tables)
      <4>1. ~(Manifest.tables \subseteq F)
        BY <2>3, <2>5, <3>2
      <4> QED
        BY <2>4, <2>7, <4>1 DEF Outdated
    <3> QED
      BY <1>2, <3>1, <3>2
  <2> QED
    BY <1>1, <1>2, <1>3, <2>4, <2>6, <2>7, <2>8 DEF BrowserInv, ReadingOK
<1> QED
  BY <1>4, <1>5

(* A file is read once; the log that is being written, at the moment the   *)
(* reading will be of.                                                     *)
LEMMA ReadingReads ==
  ASSUME BrowserInv, C!ReadFile
  PROVE  BrowserInv'
<1>1. /\ reader.phase = "listed" /\ reader.listed # {} /\ UNCHANGED <<C!storeFiles, truths, result>>
  BY DEF C!ReadFile, C!Give
<1>2. /\ reader \in Readers /\ held \in truths /\ result = None /\ C!SnapshotWasTrue
      /\ reader.listed \subseteq reader.first /\ reader.first \in SUBSET Nat
      /\ \A n \in reader.first : n <= C!Newest
      /\ OfOneMoment \/ Outdated
      /\ truths \in SUBSET [BrowserKeys -> BrowserValues \cup {None}]
  BY <1>1 DEF BrowserInv, ReadingOK
<1>3. C!SnapshotWasTrue'
  BY <1>1, <1>2 DEF C!SnapshotWasTrue
<1>4. PICK f : f = C!Min(reader.listed)
  OBVIOUS
<1>5. CASE f \notin DOMAIN content
  <2>1. reader' = C!Idle
    BY <1>4, <1>5 DEF C!ReadFile, C!Give
  <2> QED
    BY <1>1, <1>3, <2>1, GivenUp
<1>6. CASE f \in DOMAIN content
  <2>1. reader' = [reader EXCEPT !.listed = @ \ {f}, !.seen = @ \cup content[f]]
    BY <1>4, <1>6 DEF C!ReadFile, C!Give
  <2>2. /\ StoredOK' /\ held' = held /\ content' = content /\ Manifest' = Manifest /\ LiveFiles' = LiveFiles
        /\ C!CurrentLog' = C!CurrentLog /\ C!Newest' = C!Newest
    BY <1>1, StoredStays DEF BrowserInv
  <2>3. content[f] \in SUBSET Writes
    BY <1>6 DEF BrowserInv, StoredOK, BrowserTypeOK
  <2>4. /\ reader' \in Readers /\ reader'.phase = "listed" /\ reader'.first = reader.first
        /\ reader'.listed = reader.listed \ {f} /\ reader'.seen = reader.seen \cup content[f]
    BY <1>1, <1>2, <2>1, <2>3 DEF Readers
  <2>5. f \in reader.listed
    <3>1. PICK x \in reader.listed : \A y \in reader.listed : x <= y
      BY <1>1, <1>2, LeastOne
    <3>2. C!Min(reader.listed) = x
      BY <1>2, <3>1, LeastIs
    <3> QED
      BY <1>4, <3>1, <3>2
  <2>6. (OfOneMoment \/ Outdated)'
    <3>1. CASE Outdated
      BY <2>2, <2>4, <3>1 DEF Outdated
    <3>2. CASE OfOneMoment
      <4>1. LiveFiles = reader.first /\ FindsHeld(Holding(LiveFiles), held)
        BY <3>2 DEF OfOneMoment, BrowserInv, StoredOK
      <4>2. CASE C!CurrentLog \in reader'.listed
        <5>1. reader.seen = Holding(reader.first \ reader.listed)
          BY <2>4, <3>2, <4>2 DEF OfOneMoment
        <5>2. reader'.seen = Holding(reader.first \ reader'.listed)
          BY <1>2, <2>4, <2>5, <5>1 DEF Holding
        <5> QED
          BY <2>2, <2>4, <4>1, <4>2, <5>2 DEF OfOneMoment, Holding
      <4>3. CASE C!CurrentLog \notin reader'.listed
        <5>1. reader'.seen \cup Holding(reader'.listed) = reader.seen \cup Holding(reader.listed)
          BY <2>4, <2>5 DEF Holding
        <5>2. C!CurrentLog \in reader.listed => reader.seen \cup Holding(reader.listed) = Holding(LiveFiles)
          BY <1>2, <3>2, <4>1 DEF OfOneMoment, Holding
        <5>3. \E moment \in truths : FindsHeld(reader'.seen \cup Holding(reader'.listed), moment)
          BY <1>2, <3>2, <4>1, <5>1, <5>2 DEF OfOneMoment
        <5>4. (\E moment \in truths : FindsHeld(reader.seen \cup Holding(reader.listed), moment))'
          BY <1>1, <2>2, <5>3 DEF FindsHeld, C!Latest, Holding
        <5> QED
          BY <2>2, <2>4, <4>1, <4>3, <5>4 DEF OfOneMoment
      <4> QED
        BY <4>2, <4>3
    <3> QED
      BY <1>2, <3>1, <3>2
  <2> QED
    BY <1>1, <1>2, <1>3, <2>2, <2>4, <2>6 DEF BrowserInv, ReadingOK
<1> QED
  BY <1>5, <1>6

LEMMA ReadingNamesAgain ==
  ASSUME BrowserInv, C!NameAgain
  PROVE  BrowserInv'
<1>1. PICK m : m = Manifest
  OBVIOUS
<1>2. /\ reader.phase = "listed" /\ reader.listed = {} /\ UNCHANGED <<C!storeFiles, truths, result>>
      /\ reader' = [reader EXCEPT !.phase = "named again", !.named = [number |-> current, says |-> m]]
  BY <1>1 DEF C!NameAgain, C!Give, Manifest
<1>3. /\ reader \in Readers /\ held \in truths /\ result = None /\ C!SnapshotWasTrue
      /\ reader.first \in SUBSET Nat /\ \A n \in reader.first : n <= C!Newest
      /\ OfOneMoment \/ Outdated
      /\ truths \in SUBSET [BrowserKeys -> BrowserValues \cup {None}]
  BY <1>2 DEF BrowserInv, ReadingOK
<1>4. C!SnapshotWasTrue'
  BY <1>2, <1>3 DEF C!SnapshotWasTrue
<1>5. /\ StoredOK' /\ held' = held /\ C!CurrentLog' = C!CurrentLog /\ C!Newest' = C!Newest
  BY <1>2, StoredStays DEF BrowserInv
<1>6. m \in Manifests /\ current \in Nat /\ C!CurrentLog \in Nat /\ m.log <= C!CurrentLog /\ m.log \in Nat
  BY <1>1, StoredFacts DEF BrowserInv, Manifests
<1>7. /\ reader' \in Readers /\ reader'.phase = "named again" /\ reader'.first = reader.first
      /\ reader'.named.says = m /\ reader'.seen = reader.seen
  BY <1>2, <1>3, <1>6 DEF Readers
<1>8. \/ \E moment \in truths : FindsHeld(reader.seen, moment)
      \/ ~(m.tables \subseteq reader.first)
      \/ C!CurrentLog \notin reader.first /\ C!CurrentLog >= m.log
  <2>1. CASE Outdated
    BY <1>1, <1>6, <2>1 DEF Outdated
  <2>2. CASE OfOneMoment
    <3>1. reader.seen \cup Holding(reader.listed) = reader.seen
      BY <1>2 DEF Holding
    <3> QED
      BY <1>2, <2>2, <3>1 DEF OfOneMoment
  <2> QED
    BY <1>3, <2>1, <2>2
<1>9. (\E moment \in truths : FindsHeld(reader.seen, moment))'
         <=> (\E moment \in truths : FindsHeld(reader.seen, moment))
  BY <1>2, <1>7 DEF FindsHeld, C!Latest
<1> QED
  BY <1>2, <1>3, <1>4, <1>5, <1>6, <1>7, <1>8, <1>9 DEF BrowserInv, ReadingOK

(* A reading whose files do not count any more is given up.                *)
LEMMA ReadingEnds ==
  ASSUME BrowserInv, C!EndReading
  PROVE  BrowserInv'
<1>1. /\ reader.phase = "named again" /\ reader' = C!Idle /\ UNCHANGED <<C!storeFiles, truths>>
      /\ result' = IF C!SameManifest /\ C!Listed = reader.first THEN C!Latest(reader.seen) ELSE None
  BY DEF C!EndReading
<1>2. /\ reader \in Readers /\ reader.named.says \in Manifests
      /\ truths \in SUBSET [BrowserKeys -> BrowserValues \cup {None}]
      /\ \/ \E moment \in truths : FindsHeld(reader.seen, moment)
         \/ ~(reader.named.says.tables \subseteq reader.first)
         \/ C!CurrentLog \notin reader.first /\ C!CurrentLog >= reader.named.says.log
  BY <1>1 DEF BrowserInv, ReadingOK
<1>3. C!SnapshotWasTrue'
  <2> SUFFICES ASSUME C!Listed = reader.first, result' = C!Latest(reader.seen)
               PROVE  C!SnapshotWasTrue'
    BY <1>1 DEF C!SnapshotWasTrue
  <2>1. C!CurrentLog \in logs /\ logs \subseteq DOMAIN content
    BY StoredFacts DEF BrowserInv
  <2>2. reader.named.says.tables \subseteq reader.first
    BY DEF C!Listed, C!Counts
  <2>3. C!CurrentLog >= reader.named.says.log => C!CurrentLog \in reader.first
    BY <2>1 DEF C!Listed, C!Counts
  <2>4. PICK moment \in truths : FindsHeld(reader.seen, moment)
    BY <1>2, <2>2, <2>3
  <2>5. moment \in [BrowserKeys -> BrowserValues \cup {None}]
    BY <1>2
  <2>6. \A r \in C!Latest(reader.seen) :
          r.key \in BrowserKeys /\ r.value \in BrowserValues \cup {None} /\ r.value # None
    BY <1>2 DEF C!Latest, Readers, Writes
  <2>7. {<<r.key, r.value>> : r \in C!Latest(reader.seen)}
          = {<<k, moment[k]>> : k \in {x \in BrowserKeys : moment[x] # None}}
    <3>1. ASSUME NEW r \in C!Latest(reader.seen)
          PROVE  <<r.key, r.value>> \in {<<k, moment[k]>> : k \in {x \in BrowserKeys : moment[x] # None}}
      <4>1. moment[r.key] = r.value /\ r.value # None /\ r.key \in BrowserKeys
        BY <2>4, <2>6 DEF FindsHeld
      <4> QED
        BY <4>1
    <3>2. ASSUME NEW k \in BrowserKeys, moment[k] # None
          PROVE  <<k, moment[k]>> \in {<<r.key, r.value>> : r \in C!Latest(reader.seen)}
      <4>1. PICK r \in C!Latest(reader.seen) : r.key = k /\ r.value = moment[k]
        BY <2>4, <2>5, <3>2 DEF FindsHeld
      <4> QED
        BY <4>1
    <3> QED
      BY <3>1, <3>2
  <2> QED
    BY <1>1, <2>4, <2>7 DEF C!SnapshotWasTrue
<1> QED
  BY <1>1, <1>3, GivenUp

LEMMA BrowserInit == CollectorsInit => BrowserInv
<1> SUFFICES ASSUME CollectorsInit PROVE BrowserInv
  OBVIOUS
<1>1. reader = C!Idle /\ truths = {} /\ result = None
  BY DEF CollectorsInit, C!ChromiumInit
<1>2. C!Idle \in Readers /\ C!Idle.phase = "idle"
  BY DEF C!Idle, Readers
<1> QED
  BY <1>1, <1>2, StoredInit DEF BrowserInv, ReadingOK, C!SnapshotWasTrue

LEMMA BrowserInvStep == BrowserInv /\ [CollectorsNext]_collectorsVars => BrowserInv'
<1> SUFFICES ASSUME BrowserInv, [C!ChromiumNext]_(C!chromiumVars) PROVE BrowserInv'
  BY BrowserStep
<1>1. ASSUME UNCHANGED C!chromiumVars PROVE BrowserInv'
  <2>1. /\ StoredOK' /\ held' = held /\ content' = content /\ Manifest' = Manifest /\ LiveFiles' = LiveFiles
        /\ C!CurrentLog' = C!CurrentLog /\ C!Newest' = C!Newest
    BY <1>1, StoredStays DEF BrowserInv, C!chromiumVars
  <2>2. UNCHANGED <<reader, truths, result>>
    BY <1>1 DEF C!chromiumVars
  <2>3. (OfOneMoment \/ Outdated) => (OfOneMoment \/ Outdated)'
    BY <2>1, <2>2 DEF OfOneMoment, Outdated, FindsHeld, C!Latest, Holding
  <2>4. Known(reader.named.says) => Known(reader.named.says)'
    BY <2>1, <2>2 DEF Known
  <2>5. (\E moment \in truths : FindsHeld(reader.seen, moment))
           => (\E moment \in truths : FindsHeld(reader.seen, moment))'
    BY <2>1, <2>2 DEF FindsHeld, C!Latest
  <2>6. C!SnapshotWasTrue => C!SnapshotWasTrue'
    BY <2>2 DEF C!SnapshotWasTrue
  <2> QED
    BY <2>1, <2>2, <2>3, <2>4, <2>5, <2>6 DEF BrowserInv, ReadingOK
<1>2. ASSUME StoreActs, ~C!ReadOnce PROVE BrowserInv'
  BY <1>2, ReadingBeside DEF C!ReadOnce
<1> QED
  BY <1>1, <1>2, ReadingBegins, ReadingLists, ReadingReads, ReadingNamesAgain, ReadingEnds
     DEF C!ChromiumNext, StoreActs

-----------------------------------------------------------------------------
(* The limits of a subscription.                                           *)

LEMMA LimitsStep == [CollectorsNext]_collectorsVars => [U!UsageNext]_(U!usageVars)
BY DEF CollectorsNext, collectorsVars, limits, U!usageVars

Replies == [at : Nat, of : LimitAccounts \cup {None}, sure : BOOLEAN]

Runs ==
  [stage : {"none", "before", "replied", "stamped", "locked"}, label : LimitLabels \cup {None},
   before : LimitAccounts \cup {None}, reply : Replies, switched : Nat,
   name : U!Names \cup {None}]

(* The account is the one before, unless the user has signed in meanwhile: *)
(* once, and it is another; twice, and it may be the same again.           *)
ReadsAccount(r, account) ==
  /\ r.switched = 0 => r.before = account
  /\ r.switched = 1 => r.before # account
  /\ r.stage = "replied" /\ r.switched = 0 => r.reply.of = account

(* What is to be saved under an account's name was measured of it, or is   *)
(* not known to have been.                                                 *)
MeasuredOf(r) ==
  /\ r.name \in U!Names
  /\ r.label # None => r.name = r.label
  /\ r.label = None => /\ r.name = r.before
                       /\ r.reply.sure \/ r.switched < 2 => r.reply.of = r.name

RunOK(r, account) ==
  /\ r.stage \in {"before", "replied"} => ReadsAccount(r, account)
  /\ r.stage \in {"stamped", "locked"} => MeasuredOf(r)

LimitsInv ==
  /\ auth \in LimitAccounts \cup {None} /\ time \in Nat
  /\ files \in [U!Names -> Replies] /\ newest \in [U!Names -> Nat]
  /\ run \in [LimitReaders -> Runs]
  /\ \A p \in LimitReaders : RunOK(run[p], auth)
  /\ U!SnapshotOfAccount /\ U!NewestSnapshotKept

LEMMA NoRunTyped == U!NoRun \in Runs /\ U!NoRun.stage = "none"
BY DEF U!NoRun, U!NoSnapshot, Runs, Replies

LEMMA LimitsInit == CollectorsInit => LimitsInv
<1> SUFFICES ASSUME CollectorsInit PROVE LimitsInv
  OBVIOUS
<1>1. /\ auth \in LimitAccounts /\ time = 1
      /\ files = [a \in U!Names |-> U!NoSnapshot] /\ newest = [a \in U!Names |-> 0]
      /\ run = [p \in LimitReaders |-> U!NoRun]
  BY DEF CollectorsInit, U!UsageInit
<1>2. U!NoSnapshot \in Replies /\ U!NoSnapshot.at = 0
  BY DEF U!NoSnapshot, Replies
<1>3. U!SnapshotOfAccount /\ U!NewestSnapshotKept
  BY <1>1, <1>2 DEF U!SnapshotOfAccount, U!NewestSnapshotKept, U!Names
<1>4. QED
  BY <1>1, <1>2, <1>3, NoRunTyped DEF LimitsInv, RunOK

(* One process goes on, and neither the account nor a file changes.        *)
LEMMA OneRun ==
  ASSUME LimitsInv, NEW p \in LimitReaders, NEW r \in Runs, RunOK(r, auth),
         run' = [run EXCEPT ![p] = r], UNCHANGED <<auth, time, files, newest>>
  PROVE  LimitsInv'
<1>1. run' \in [LimitReaders -> Runs] /\ \A q \in LimitReaders : run'[q] = IF q = p THEN r ELSE run[q]
  BY DEF LimitsInv
<1>2. \A q \in LimitReaders : RunOK(run'[q], auth')
  BY <1>1 DEF LimitsInv
<1>3. (U!SnapshotOfAccount /\ U!NewestSnapshotKept)'
  BY DEF LimitsInv, U!SnapshotOfAccount, U!NewestSnapshotKept
<1>4. QED
  BY <1>1, <1>2, <1>3 DEF LimitsInv

LEMMA SignInKeeps ==
  ASSUME LimitsInv, U!SignIn
  PROVE  LimitsInv'
<1>1. /\ auth' \in (LimitAccounts \cup {None}) \ {auth} /\ UNCHANGED <<time, files, newest>>
      /\ run' = [p \in LimitReaders |->
           IF run[p].stage \in {"before", "replied"} THEN [run[p] EXCEPT !.switched = @ + 1] ELSE run[p]]
  BY DEF U!SignIn
<1>2. ASSUME NEW p \in LimitReaders
      PROVE  run'[p] \in Runs /\ RunOK(run'[p], auth')
  <2>1. run[p] \in Runs /\ RunOK(run[p], auth)
    BY DEF LimitsInv
  <2>2. CASE run[p].stage \in {"before", "replied"}
    <3>1. run'[p] = [run[p] EXCEPT !.switched = run[p].switched + 1]
      BY <1>1, <2>2
    <3>2. /\ run'[p] \in Runs /\ run'[p].switched = run[p].switched + 1 /\ run[p].switched \in Nat
          /\ run'[p].stage = run[p].stage /\ run'[p].before = run[p].before
      BY <2>1, <3>1 DEF Runs
    <3>3. QED
      BY <1>1, <2>1, <2>2, <3>2 DEF RunOK, ReadsAccount
  <2>3. CASE run[p].stage \notin {"before", "replied"}
    BY <1>1, <2>1, <2>3 DEF RunOK
  <2>4. QED
    BY <2>2, <2>3
<1>3. run' \in [LimitReaders -> Runs]
  BY <1>1, <1>2
<1>4. (U!SnapshotOfAccount /\ U!NewestSnapshotKept)'
  BY <1>1 DEF LimitsInv, U!SnapshotOfAccount, U!NewestSnapshotKept
<1>5. QED
  BY <1>1, <1>2, <1>3, <1>4 DEF LimitsInv

LEMMA BeginsKeeps ==
  ASSUME LimitsInv, NEW p \in LimitReaders, U!Claude(p) \/ U!Codex(p)
  PROVE  LimitsInv'
<1>1. CASE U!Claude(p)
  <2>1. PICK l \in LimitLabels :
          U!Begin(p, [U!NoRun EXCEPT !.stage = "stamped", !.label = l, !.name = l,
                        !.reply = [at |-> time, of |-> None, sure |-> TRUE]])
    BY <1>1 DEF U!Claude
  <2>2. PICK r : r = [U!NoRun EXCEPT !.stage = "stamped", !.label = l, !.name = l,
                        !.reply = [at |-> time, of |-> None, sure |-> TRUE]]
    OBVIOUS
  <2>3. [at |-> time, of |-> None, sure |-> TRUE] \in Replies
    BY DEF LimitsInv, Replies
  <2>4. r \in Runs /\ r.stage = "stamped" /\ r.label = l /\ r.name = l
    BY <2>2, <2>3, NoRunTyped DEF Runs, U!Names
  <2>5. RunOK(r, auth)
    BY <2>4, LimitsAssumption DEF RunOK, MeasuredOf, U!Names
  <2>6. run' = [run EXCEPT ![p] = r] /\ UNCHANGED <<auth, time, files, newest>>
    BY <2>1, <2>2 DEF U!Begin
  <2>7. QED
    BY <2>4, <2>5, <2>6, OneRun
<1>2. CASE U!Codex(p)
  <2>1. PICK l \in LimitLabels \cup {None} :
          U!Begin(p, [U!NoRun EXCEPT !.stage = "before", !.label = l, !.before = auth])
    BY <1>2 DEF U!Codex
  <2>2. PICK r : r = [U!NoRun EXCEPT !.stage = "before", !.label = l, !.before = auth]
    OBVIOUS
  <2>3. r \in Runs /\ r.stage = "before" /\ r.before = auth /\ r.switched = 0
    BY <2>2, NoRunTyped DEF Runs, LimitsInv, U!NoRun
  <2>4. RunOK(r, auth)
    BY <2>3 DEF RunOK, ReadsAccount
  <2>5. run' = [run EXCEPT ![p] = r] /\ UNCHANGED <<auth, time, files, newest>>
    BY <2>1, <2>2 DEF U!Begin
  <2>6. QED
    BY <2>3, <2>4, <2>5, OneRun
<1>3. QED
  BY <1>1, <1>2

LEMMA StopsKeeps ==
  ASSUME LimitsInv, NEW p \in LimitReaders,
         run' = [run EXCEPT ![p] = U!NoRun], UNCHANGED <<auth, time, files, newest>>
  PROVE  LimitsInv'
<1>1. RunOK(U!NoRun, auth)
  BY NoRunTyped DEF RunOK
<1>2. QED
  BY <1>1, NoRunTyped, OneRun

LEMMA FetchKeeps ==
  ASSUME LimitsInv, NEW p \in LimitReaders, U!Fetch(p)
  PROVE  LimitsInv'
<1>1. run[p].stage = "before" /\ run[p] \in Runs /\ RunOK(run[p], auth)
  BY DEF LimitsInv, U!Fetch
<1>2. CASE U!Stops(p)
  BY <1>2, StopsKeeps DEF U!Stops
<1>3. ASSUME auth # None, NEW named \in BOOLEAN,
             run' = [run EXCEPT ![p].stage = "replied",
                                ![p].reply = [at |-> 0, of |-> auth, sure |-> named]],
             UNCHANGED <<auth, time, files, newest>>
      PROVE  LimitsInv'
  <2>1. PICK r : r = [run[p] EXCEPT !.stage = "replied", !.reply = [at |-> 0, of |-> auth, sure |-> named]]
    OBVIOUS
  <2>2. run' = [run EXCEPT ![p] = r]
    BY <1>3, <2>1 DEF LimitsInv
  <2>3. [at |-> 0, of |-> auth, sure |-> named] \in Replies
    BY <1>3 DEF LimitsInv, Replies
  <2>4. /\ r \in Runs /\ r.stage = "replied" /\ r.reply.of = auth
        /\ r.before = run[p].before /\ r.switched = run[p].switched
    BY <1>1, <2>1, <2>3 DEF Runs
  <2>5. RunOK(r, auth)
    BY <1>1, <2>4 DEF RunOK, ReadsAccount
  <2>6. QED
    BY <1>3, <2>2, <2>4, <2>5, OneRun
<1>4. QED
  BY <1>2, <1>3 DEF U!Fetch

LEMMA StampKeeps ==
  ASSUME LimitsInv, NEW p \in LimitReaders, U!Stamp(p)
  PROVE  LimitsInv'
<1>1. run[p].stage = "replied" /\ run[p] \in Runs /\ RunOK(run[p], auth)
  BY DEF LimitsInv, U!Stamp
<1>2. CASE U!Stops(p)
  BY <1>2, StopsKeeps DEF U!Stops
<1>3. ASSUME U!Agrees(p), U!NameOf(p) # None,
             run' = [run EXCEPT ![p].stage = "stamped", ![p].name = U!NameOf(p), ![p].reply.at = time],
             UNCHANGED <<auth, time, files, newest>>
      PROVE  LimitsInv'
  <2>1. PICK reply : reply = [run[p].reply EXCEPT !.at = time]
    OBVIOUS
  <2>2. PICK r : r = [run[p] EXCEPT !.stage = "stamped", !.name = U!NameOf(p), !.reply = reply]
    OBVIOUS
  <2>3. run' = [run EXCEPT ![p] = r]
    BY <1>3, <2>1, <2>2 DEF LimitsInv
  <2>4. /\ reply \in Replies /\ reply.of = run[p].reply.of /\ reply.sure = run[p].reply.sure
    BY <1>1, <2>1 DEF LimitsInv, Runs, Replies
  <2>5. U!NameOf(p) \in U!Names
    BY <1>1, <1>3 DEF U!NameOf, U!Names, Runs
  <2>6. /\ r \in Runs /\ r.stage = "stamped" /\ r.reply = reply /\ r.name = U!NameOf(p)
        /\ r.before = run[p].before /\ r.switched = run[p].switched /\ r.label = run[p].label
    BY <1>1, <2>2, <2>4, <2>5 DEF Runs
  <2>7. MeasuredOf(r)
    <3>1. r.label # None => r.name = r.label
      BY <2>6 DEF U!NameOf
    <3>2. ASSUME r.label = None
          PROVE  r.name = r.before /\ (r.reply.sure \/ r.switched < 2 => r.reply.of = r.name)
      <4>1. r.name = r.before /\ r.before # None
        BY <1>3, <2>6, <3>2 DEF U!NameOf
      <4>2. r.before = auth /\ (r.reply.sure => r.reply.of = r.before)
        BY <1>3, <2>4, <2>6, <4>1 DEF U!Agrees
      <4>3. r.switched < 2 => r.switched = 0
        BY <1>1, <2>6, <4>2 DEF RunOK, ReadsAccount, Runs
      <4>4. r.switched = 0 => r.reply.of = auth
        BY <1>1, <2>4, <2>6 DEF RunOK, ReadsAccount
      <4>5. QED
        BY <4>1, <4>2, <4>3, <4>4
    <3>3. QED
      BY <2>5, <2>6, <3>1, <3>2 DEF MeasuredOf
  <2>8. RunOK(r, auth)
    BY <2>6, <2>7 DEF RunOK
  <2>9. QED
    BY <1>3, <2>3, <2>6, <2>8, OneRun
<1>4. QED
  BY <1>2, <1>3 DEF U!Stamp

LEMMA LockKeeps ==
  ASSUME LimitsInv, NEW p \in LimitReaders, U!Lock(p)
  PROVE  LimitsInv'
<1>1. run[p].stage = "stamped" /\ run[p] \in Runs /\ RunOK(run[p], auth)
  BY DEF LimitsInv, U!Lock
<1>2. PICK r : r = [run[p] EXCEPT !.stage = "locked"]
  OBVIOUS
<1>3. run' = [run EXCEPT ![p] = r] /\ UNCHANGED <<auth, time, files, newest>>
  BY <1>2 DEF U!Lock, LimitsInv
<1>4. /\ r \in Runs /\ r.stage = "locked" /\ r.reply = run[p].reply /\ r.name = run[p].name
      /\ r.before = run[p].before /\ r.switched = run[p].switched /\ r.label = run[p].label
  BY <1>1, <1>2 DEF Runs
<1>5. RunOK(r, auth)
  BY <1>1, <1>4 DEF RunOK, MeasuredOf
<1>6. QED
  BY <1>3, <1>4, <1>5, OneRun

LEMMA SaveKeeps ==
  ASSUME LimitsInv, NEW p \in LimitReaders, U!Save(p)
  PROVE  LimitsInv'
<1>1. /\ run[p].stage = "locked" /\ run[p] \in Runs /\ RunOK(run[p], auth)
      /\ run' = [run EXCEPT ![p] = U!NoRun] /\ UNCHANGED <<auth, time>>
  BY DEF LimitsInv, U!Save
<1>2. PICK r : r = run[p]
  OBVIOUS
<1>3. /\ r \in Runs /\ MeasuredOf(r) /\ r.name \in U!Names /\ r.reply \in Replies
  BY <1>1, <1>2 DEF RunOK, MeasuredOf, Runs
<1>4. PICK snapshot : snapshot = [at |-> r.reply.at, of |-> r.reply.of,
                                  sure |-> r.label # None \/ r.reply.sure \/ r.switched < 2]
  OBVIOUS
<1>5. /\ files' = IF files[r.name].at <= r.reply.at THEN [files EXCEPT ![r.name] = snapshot] ELSE files
      /\ newest' = [newest EXCEPT ![r.name] = IF r.reply.at > newest[r.name] THEN r.reply.at ELSE newest[r.name]]
  BY <1>2, <1>3, <1>4 DEF U!Save, U!Newer, LimitsInv
<1>6. snapshot \in Replies /\ snapshot.at = r.reply.at /\ snapshot.at \in Nat
  <2>1. (r.label # None \/ r.reply.sure \/ r.switched < 2) \in BOOLEAN
    OBVIOUS
  <2>2. QED
    BY <1>3, <1>4, <2>1 DEF Replies
<1>7. files' \in [U!Names -> Replies] /\ newest' \in [U!Names -> Nat]
  BY <1>3, <1>5, <1>6 DEF LimitsInv
<1>8. \A a \in U!Names : a # r.name => files'[a] = files[a] /\ newest'[a] = newest[a]
  BY <1>5 DEF LimitsInv
<1>9. files[r.name].at = newest[r.name] /\ newest[r.name] \in Nat
  BY <1>3 DEF LimitsInv, U!NewestSnapshotKept
<1>10. files'[r.name].at = newest'[r.name]
  <2>1. CASE newest[r.name] <= r.reply.at
    <3>1. files'[r.name] = snapshot /\ newest'[r.name] = r.reply.at
      BY <1>3, <1>5, <1>6, <1>9, <2>1 DEF LimitsInv
    <3>2. QED
      BY <1>6, <3>1
  <2>2. CASE ~(newest[r.name] <= r.reply.at)
    BY <1>3, <1>5, <1>6, <1>9, <2>2 DEF LimitsInv
  <2>3. QED
    BY <2>1, <2>2
<1>11. U!NewestSnapshotKept'
  BY <1>8, <1>10 DEF LimitsInv, U!NewestSnapshotKept
<1>12. U!SnapshotOfAccount'
  <2>1. SUFFICES ASSUME NEW a \in LimitAccounts, files'[a].at # 0, files'[a].sure
                 PROVE  files'[a].of = a
    BY DEF U!SnapshotOfAccount
  <2>2. CASE files'[a] = files[a]
    BY <2>1, <2>2 DEF LimitsInv, U!SnapshotOfAccount
  <2>3. CASE files'[a] # files[a]
    <3>1. a = r.name /\ files'[a] = snapshot
      BY <1>3, <1>5, <1>8, <2>3 DEF LimitsInv, U!Names
    <3>2. r.label = None
      BY <1>3, <2>1, <3>1, LimitsAssumption DEF MeasuredOf, Runs
    <3>3. r.reply.sure \/ r.switched < 2
      <4>1. snapshot.sure = (r.label # None \/ r.reply.sure \/ r.switched < 2)
        BY <1>4
      <4>2. snapshot.sure
        BY <2>1, <3>1
      <4>3. QED
        BY <3>2, <4>1, <4>2, Zenon
    <3>4. QED
      BY <1>3, <1>4, <3>1, <3>2, <3>3 DEF MeasuredOf
  <2>4. QED
    BY <2>2, <2>3
<1>13. run' \in [LimitReaders -> Runs] /\ \A q \in LimitReaders : run'[q] = IF q = p THEN U!NoRun ELSE run[q]
  BY <1>1, NoRunTyped DEF LimitsInv
<1>14. \A q \in LimitReaders : RunOK(run'[q], auth')
  <2>1. RunOK(U!NoRun, auth)
    BY NoRunTyped DEF RunOK
  <2>2. QED
    BY <1>1, <1>13, <2>1 DEF LimitsInv
<1>15. QED
  BY <1>1, <1>7, <1>11, <1>12, <1>13, <1>14 DEF LimitsInv

LEMMA LimitsInvStep == LimitsInv /\ [U!UsageNext]_(U!usageVars) => LimitsInv'
<1> SUFFICES ASSUME LimitsInv, [U!UsageNext]_(U!usageVars)
             PROVE  LimitsInv'
  OBVIOUS
<1>1. CASE U!Tick
  <2>1. UNCHANGED <<auth, files, run, newest>> /\ time' \in Nat
    BY <1>1 DEF U!Tick, LimitsInv
  <2>2. QED
    BY <2>1 DEF LimitsInv, RunOK, ReadsAccount, MeasuredOf, U!SnapshotOfAccount, U!NewestSnapshotKept
<1>2. CASE UNCHANGED U!usageVars
  BY <1>2 DEF U!usageVars, LimitsInv, RunOK, ReadsAccount, MeasuredOf, U!SnapshotOfAccount, U!NewestSnapshotKept
<1>3. ASSUME NEW p \in LimitReaders, U!Killed(p)
      PROVE  LimitsInv'
  BY <1>3, StopsKeeps DEF U!Killed
<1>4. QED
  BY <1>1, <1>2, <1>3, SignInKeeps, BeginsKeeps, FetchKeeps, StampKeeps, LockKeeps, SaveKeeps DEF U!UsageNext

-----------------------------------------------------------------------------
(* A reading of the browser's database that is not given up is what the    *)
(* database held at one moment of it, whatever is written, moved, merged   *)
(* and removed meanwhile (chromium_store.rs, read_live); and a snapshot of *)
(* an account's limits is of that account, whoever signs in between, and   *)
(* never gives way to an older one (usage.rs).                             *)
THEOREM CollectorsReadingsAreTrue == CollectorsSpec => []ReadingsAreTrue
<1> DEFINE Inv == BrowserInv /\ LimitsInv
<1>1. CollectorsInit => Inv
  BY BrowserInit, LimitsInit
<1>2. Inv /\ [CollectorsNext]_collectorsVars => Inv'
  BY BrowserInvStep, LimitsStep, LimitsInvStep
<1>3. Inv => ReadingsAreTrue
  BY DEF BrowserInv, ReadingOK, LimitsInv, ReadingsAreTrue
<1> QED
  BY <1>1, <1>2, <1>3, PTL DEF CollectorsSpec

-----------------------------------------------------------------------------
(* The chats of Claude Desktop and the responses measured in them.         *)

LEMMA ChatStep == [CollectorsNext]_collectorsVars => [D!DesktopNext]_(D!desktopVars)
BY DEF CollectorsNext, collectorsVars, chat, D!desktopVars

Messages == {x \in D!ChatItems : x.item = "message"}
LinkKinds == {"message.usage.link", "message.usage.link.rejected"}
Persisting == records \cup sweep.out

(* What is linked matched while it was near, and what matched is linked or *)
(* taken back.                                                             *)
LinkOf(e, r, m) == r \in D!Printed /\ m \in Messages /\ D!Near(r, m) /\ e = D!Linked(r, m)
Settled(r, m, E) == D!Linked(r, m) \in E \/ D!Rejected(r) \in E

Sweeps == [step : {"none", "collected", "snapshot", "persist"}, usage : {sweep.usage}, chat : {sweep.chat},
           prints : SUBSET Messages, matched : SUBSET (D!PluginRows \X Messages), out : {sweep.out}]

(* An identity is known only where it is recorded or about to be.          *)
KnownOK ==
  /\ known # None \/ sweep.step # "none" => known = D!ChatIds(Persisting)
  /\ sweep.step # "persist" => sweep.out = {} /\ sweep.matched = {}
  /\ \A e \in sweep.usage \cup sweep.chat : e.kind \notin LinkKinds

LinksOK ==
  \A e \in Persisting :
    /\ e.kind = "message.usage.link" => \E r \in D!PluginRows, m \in Messages : LinkOf(e, r, m)
    /\ e.kind = "message.usage.link.rejected" => \E r \in D!PluginRows : e = D!Rejected(r)

OneRowEach ==
  \A r, q \in D!PluginRows : \A m \in Messages :
    D!Linked(r, m) \in Persisting /\ D!Linked(q, m) \in Persisting => r = q

MatchedSettled ==
  /\ \A p \in sweep.matched : Settled(p[1], p[2], Persisting)
  /\ \A r \in D!PluginRows : \A m \in shown[r] : Settled(r, m, records)

ChatInv ==
  /\ offer \in ChatOffers /\ cache \subseteq D!ChatItems
  /\ DOMAIN arrived \subseteq D!PluginRows
  /\ shown \in [D!PluginRows -> SUBSET Messages]
  /\ sweep \in Sweeps
  /\ KnownOK /\ LinksOK /\ OneRowEach /\ MatchedSettled

LEMMA IdentitiesDiffer ==
  ASSUME ChatInv
  PROVE  /\ \A x, y \in Messages : x.id = y.id => x = y
         /\ \A r, q \in D!PluginRows : r.id = q.id => r = q
BY OffersAssumption DEF ChatInv, Messages, D!ChatItems, D!PluginRows

LEMMA LinkFields ==
  ASSUME NEW r, NEW m
  PROVE  /\ D!Linked(r, m).kind = "message.usage.link" /\ D!Linked(r, m).key = <<r.id, m.chat, m.id>>
         /\ D!Linked(r, m).chat = m.chat /\ D!Linked(r, m).turn = m.id
         /\ D!Rejected(r).kind = "message.usage.link.rejected" /\ D!Rejected(r).key = <<r.id>>
BY DEF D!Linked, D!Rejected, D!ChatEvent

LEMMA LinkNames ==
  ASSUME ChatInv,
         NEW r \in D!PluginRows, NEW q \in D!PluginRows, NEW m \in Messages, NEW n \in Messages
  PROVE  /\ D!Linked(r, m) # D!Rejected(q)
         /\ D!Linked(r, m).key = D!Linked(q, n).key => r = q /\ m = n
         /\ D!Rejected(r).key = D!Rejected(q).key => r = q
<1>1. \A a, b, c, x, y, z : <<a, b, c>> = <<x, y, z>> => a = x /\ b = y /\ c = z
  OBVIOUS
<1>2. \A a, x : <<a>> = <<x>> => a = x
  OBVIOUS
<1> QED
  BY <1>1, <1>2, LinkFields, IdentitiesDiffer

(* Of what is not a link, nothing is taken for one.                        *)
LEMMA CollectKinds ==
  ASSUME NEW S
  PROVE  \A e \in D!Collect(S) : e.kind \notin LinkKinds
<1>1. ASSUME NEW m, m.item = "message", D!MessageKind(m) # None
      PROVE  /\ D!Base(m).kind \in {"turn", "message.received"}
             /\ D!Estimate(m).kind = "message.tokens.estimated"
             /\ D!Folder(m).kind = "conversation.folder.attached"
  BY <1>1 DEF D!Base, D!Estimate, D!Folder, D!ChatEvent, D!MessageKind
<1>2. \A c : \A e \in D!Normalize(c, S) : e.kind \notin LinkKinds
  <2> SUFFICES ASSUME NEW c, NEW e \in D!Normalize(c, S) PROVE e.kind \notin LinkKinds
    OBVIOUS
  <2>1. \A m \in D!Messages(c, S) : m.item = "message" /\ D!MessageKind(m) # None
    BY DEF D!Messages
  <2>2. CASE \E m \in D!Messages(c, S) : e = D!Base(m) \/ e = D!Estimate(m)
    BY <1>1, <2>1, <2>2 DEF LinkKinds
  <2>3. CASE e \in D!Folders(D!Messages(c, S), c)
    <3>1. PICK m : e = D!Folder(m)
      BY <2>3 DEF D!Folders
    <3>2. e.kind = "conversation.folder.attached"
      BY <3>1 DEF D!Folder, D!Base, D!ChatEvent
    <3> QED
      BY <3>2 DEF LinkKinds
  <2> QED
    BY <2>2, <2>3 DEF D!Normalize
<1>3. \A e \in D!Settings(S) : e.kind \notin LinkKinds
  BY DEF D!Settings, D!ChatEvent, LinkKinds
<1>4. \A e \in D!ResponseModels(S) : e.kind \notin LinkKinds
  <2> SUFFICES ASSUME NEW e \in D!ResponseModels(S) PROVE e.kind \notin LinkKinds
    OBVIOUS
  <2>0. PICK s : e \in {[D!Base(m) EXCEPT !.kind = "message.model", !.key = <<m.chat, m.id, s.model>>, !.value = s.model] :
                         m \in {m \in D!Messages(s.chat, S) : m.id = s.message /\ m.sender = "assistant"}}
    BY DEF D!ResponseModels
  <2>1. PICK m : e = [D!Base(m) EXCEPT !.kind = "message.model", !.key = <<m.chat, m.id, s.model>>, !.value = s.model]
    BY <2>0
  <2>2. e.kind = "message.model"
    BY <2>1 DEF D!Base, D!ChatEvent
  <2> QED
    BY <2>2 DEF LinkKinds
<1> SUFFICES ASSUME NEW e \in D!Collect(S) PROVE e.kind \notin LinkKinds
  OBVIOUS
<1>5. (\E c \in D!Chats : e \in D!Normalize(c, S)) \/ e \in D!Settings(S) \/ e \in D!ResponseModels(S)
  BY DEF D!Collect
<1> QED
  BY <1>2, <1>3, <1>4, <1>5

(* What is recorded stays settled, and rows only get more fingerprints.    *)
LEMMA ChatKept ==
  ASSUME ChatInv, offer' = offer, Persisting' \subseteq Persisting, records \subseteq records',
         D!Printed \subseteq D!Printed'
  PROVE  LinksOK' /\ OneRowEach' /\ \A r \in D!PluginRows : \A m \in shown[r] : Settled(r, m, records')
<1>1. D!PluginRows' = D!PluginRows /\ Messages' = Messages
  BY DEF D!PluginRows, D!ChatItems, Messages
<1>2. LinksOK'
  <2>1. ASSUME NEW e \in Persisting', e.kind = "message.usage.link"
        PROVE  \E r \in D!PluginRows, m \in Messages : LinkOf(e, r, m)'
    BY <1>1, <2>1 DEF ChatInv, LinksOK, LinkOf, D!Near, D!Linked, D!ChatEvent
  <2>2. ASSUME NEW e \in Persisting', e.kind = "message.usage.link.rejected"
        PROVE  \E r \in D!PluginRows : e = D!Rejected(r)
    BY <2>2 DEF ChatInv, LinksOK
  <2> QED
    BY <1>1, <2>1, <2>2 DEF LinksOK, D!Rejected, D!ChatEvent
<1>3. OneRowEach'
  BY <1>1 DEF ChatInv, OneRowEach, D!Linked, D!ChatEvent
<1>4. \A r \in D!PluginRows : \A m \in shown[r] : Settled(r, m, records')
  BY DEF ChatInv, MatchedSettled, Settled
<1> QED
  BY <1>2, <1>3, <1>4

LEMMA ChatInitially == CollectorsInit => ChatInv
<1> SUFFICES ASSUME D!DesktopInit PROVE ChatInv
  BY DEF CollectorsInit
<1>1. /\ offer \in ChatOffers /\ cache \subseteq D!ChatItems /\ DOMAIN arrived = {} /\ known = None
      /\ sweep = [step |-> "none", usage |-> {}, chat |-> {}, prints |-> {}, matched |-> {}, out |-> {}]
      /\ records = {} /\ shown = [r \in D!PluginRows |-> {}]
  BY DEF D!DesktopInit, D!Resting
<1>2. sweep \in Sweeps /\ Persisting = {}
  BY <1>1 DEF Sweeps, Persisting
<1>3. KnownOK /\ LinksOK /\ OneRowEach /\ MatchedSettled
  BY <1>1, <1>2 DEF KnownOK, LinksOK, OneRowEach, MatchedSettled
<1> QED
  BY <1>1, <1>2, <1>3 DEF ChatInv

(* A scan that has nothing to persist yet.                                 *)
LEMMA ScanBegins ==
  ASSUME ChatInv, D!ScanInbox \/ D!ScanSnapshot \/ D!SnapshotFails
  PROVE  ChatInv'
<1>1. sweep.step \in {"none", "collected"} /\ UNCHANGED <<offer, cache, arrived, records, shown>>
  BY DEF D!ScanInbox, D!ScanSnapshot, D!SnapshotFails
<1>2. sweep \in Sweeps /\ sweep.out = {} /\ sweep.matched = {} /\ Persisting = records
  BY <1>1 DEF ChatInv, KnownOK, Persisting
<1>3. /\ sweep'.step \in {"none", "collected", "snapshot"} /\ sweep'.out = {} /\ sweep'.matched = {}
      /\ sweep' \in Sweeps'
      /\ \A e \in sweep'.usage \cup sweep'.chat : e.kind \notin LinkKinds
  <2>1. CASE D!ScanInbox
    <3>1. \A r : D!Usage(r).kind = "api.request"
      BY DEF D!Usage, D!ChatEvent
    <3>2. PICK rows_ : rows_ = {D!Usage(r) : r \in DOMAIN arrived}
      OBVIOUS
    <3>3. sweep' = [step |-> "collected", usage |-> rows_, chat |-> {}, prints |-> {}, matched |-> {}, out |-> {}]
      BY <2>1, <3>2 DEF D!ScanInbox, D!Resting
    <3>4. \A e \in rows_ : e.kind \notin LinkKinds
      BY <3>1, <3>2 DEF LinkKinds
    <3> QED
      BY <3>3, <3>4 DEF Sweeps
  <2>2. CASE D!ScanSnapshot
    <3>1. PICK said, prints : said = D!Collect(cache) /\ prints = D!Fingerprints(cache)
      OBVIOUS
    <3>2. sweep' = [sweep EXCEPT !.step = "snapshot", !.chat = said, !.prints = prints]
      BY <2>2, <3>1 DEF D!ScanSnapshot
    <3>3. prints \subseteq Messages
      BY <3>1 DEF ChatInv, D!Fingerprints, D!Messages, Messages
    <3>4. \A e \in said : e.kind \notin LinkKinds
      BY <3>1, CollectKinds
    <3>5. \A e \in sweep.usage : e.kind \notin LinkKinds
      BY DEF ChatInv, KnownOK
    <3>6. /\ sweep'.step = "snapshot" /\ sweep'.usage = sweep.usage /\ sweep'.chat = said
          /\ sweep'.prints = prints /\ sweep'.matched = {} /\ sweep'.out = {}
      BY <1>2, <3>2 DEF Sweeps
    <3>7. sweep' = [step |-> "snapshot", usage |-> sweep.usage, chat |-> said, prints |-> prints,
                    matched |-> {}, out |-> {}]
      BY <1>2, <3>2, <3>6 DEF Sweeps
    <3>8. Messages' = Messages /\ D!PluginRows' = D!PluginRows
      BY <1>1 DEF Messages, D!ChatItems, D!PluginRows
    <3> QED
      BY <3>3, <3>4, <3>5, <3>6, <3>7, <3>8 DEF Sweeps
  <2>3. CASE D!SnapshotFails
    <3>1. Messages' = Messages /\ D!PluginRows' = D!PluginRows
      BY <1>1 DEF Messages, D!ChatItems, D!PluginRows
    <3>2. CASE sweep' = D!Resting
      BY <3>1, <3>2 DEF D!Resting, Sweeps
    <3>3. CASE sweep' = [sweep EXCEPT !.step = "snapshot"]
      <4>1. /\ sweep'.step = "snapshot" /\ sweep'.usage = sweep.usage /\ sweep'.chat = sweep.chat
            /\ sweep'.matched = {} /\ sweep'.out = {}
        BY <1>2, <3>3 DEF Sweeps
      <4>2. sweep' \in Sweeps'
        BY <1>2, <3>1, <3>3, <4>1 DEF Sweeps
      <4> QED
        BY <4>1, <4>2 DEF ChatInv, KnownOK
    <3> QED
      BY <2>3, <3>2, <3>3 DEF D!SnapshotFails
  <2> QED
    BY <2>1, <2>2, <2>3
<1>4. Persisting' = Persisting
  BY <1>1, <1>2, <1>3 DEF Persisting
<1>5. D!Printed' = D!Printed /\ D!PluginRows' = D!PluginRows /\ Messages' = Messages /\ D!ChatItems' = D!ChatItems
  BY <1>1 DEF D!Printed, D!PluginRows, Messages, D!ChatItems
<1>6. LinksOK' /\ OneRowEach' /\ \A r \in D!PluginRows : \A m \in shown[r] : Settled(r, m, records')
  BY <1>1, <1>4, <1>5, ChatKept
<1>7. MatchedSettled'
  BY <1>1, <1>3, <1>5, <1>6 DEF MatchedSettled, Settled, D!Linked, D!Rejected, D!ChatEvent
<1>8. known' = D!ChatIds(Persisting)
  <2>1. known = D!ChatIds(records) \/ (known = None /\ D!ScanInbox)
    BY <1>2 DEF ChatInv, KnownOK, D!ScanInbox, D!ScanSnapshot, D!SnapshotFails
  <2>2. known' = known \/ (known = None /\ known' = D!ChatIds(records))
    BY DEF D!ScanInbox, D!ScanSnapshot, D!SnapshotFails
  <2>3. D!ScanInbox /\ known = None => known' = D!ChatIds(records)
    BY DEF D!ScanInbox
  <2> QED
    BY <1>2, <2>1, <2>2, <2>3
<1>9. KnownOK'
  BY <1>3, <1>4, <1>8 DEF KnownOK, D!ChatIds, D!ChatId
<1> QED
  BY <1>1, <1>3, <1>5, <1>6, <1>7, <1>9 DEF ChatInv

(* The same identity is the same link.                                     *)
LEMMA LinkRecorded ==
  ASSUME ChatInv, NEW r \in D!PluginRows, NEW m \in Messages
  PROVE  /\ D!ChatId(D!Linked(r, m)) \in D!ChatIds(Persisting) => D!Linked(r, m) \in Persisting
         /\ D!ChatId(D!Rejected(r)) \in D!ChatIds(Persisting) => D!Rejected(r) \in Persisting
<1>0. \A a, b, x, y : <<a, b>> = <<x, y>> => a = x /\ b = y
  OBVIOUS
<1>1. ASSUME D!ChatId(D!Linked(r, m)) \in D!ChatIds(Persisting)
      PROVE  D!Linked(r, m) \in Persisting
  <2>1. PICK e \in Persisting : e.kind = D!Linked(r, m).kind /\ e.key = D!Linked(r, m).key
    BY <1>0, <1>1 DEF D!ChatIds, D!ChatId
  <2>2. PICK q \in D!PluginRows, n \in Messages : e = D!Linked(q, n)
    BY <2>1, LinkFields DEF ChatInv, LinksOK, LinkOf
  <2> QED
    BY <2>1, <2>2, LinkNames
<1>2. ASSUME D!ChatId(D!Rejected(r)) \in D!ChatIds(Persisting)
      PROVE  D!Rejected(r) \in Persisting
  <2>1. PICK e \in Persisting : e.kind = D!Rejected(r).kind /\ e.key = D!Rejected(r).key
    BY <1>0, <1>2 DEF D!ChatIds, D!ChatId
  <2>2. PICK q \in D!PluginRows : e = D!Rejected(q)
    BY <2>1, LinkFields DEF ChatInv, LinksOK
  <2> QED
    BY <2>1, <2>2, LinkNames
<1> QED
  BY <1>1, <1>2

LEMMA ScanLinksKeeps ==
  ASSUME ChatInv, D!ScanLinks
  PROVE  ChatInv'
<1>1. /\ sweep.step = "snapshot" /\ UNCHANGED <<offer, cache, arrived, records, shown>>
      /\ Persisting = records /\ known = D!ChatIds(records)
      /\ sweep \in Sweeps /\ sweep.prints \subseteq Messages
  BY DEF D!ScanLinks, ChatInv, KnownOK, Persisting, Sweeps
<1>2. PICK all, out, matched :
        /\ all = sweep.usage \cup sweep.chat \cup D!LinkResponses(sweep.prints)
        /\ out = {e \in all : D!ChatId(e) \notin known}
        /\ matched = {p \in D!Printed \X sweep.prints : D!Near(p[1], p[2])}
  OBVIOUS
<1>3. /\ sweep' = [step |-> "persist", usage |-> {}, chat |-> {}, prints |-> {}, matched |-> matched, out |-> out]
      /\ known' = known \cup D!ChatIds(all)
  BY <1>2 DEF D!ScanLinks, D!Resting
<1>4. D!Printed' = D!Printed /\ D!PluginRows' = D!PluginRows /\ Messages' = Messages /\ D!ChatItems' = D!ChatItems
  BY <1>1 DEF D!Printed, D!PluginRows, Messages, D!ChatItems
<1>5. D!Printed \subseteq D!PluginRows
  BY DEF ChatInv, D!Printed
<1>6. Persisting' = records \cup out
  BY <1>1, <1>3 DEF Persisting
<1>7. sweep' \in Sweeps'
  BY <1>1, <1>2, <1>3, <1>4, <1>5 DEF Sweeps
<1>8. KnownOK'
  <2>1. D!ChatIds(records) \cup D!ChatIds(all) = D!ChatIds(records \cup out)
    BY <1>1, <1>2 DEF D!ChatIds
  <2> QED
    BY <1>1, <1>3, <1>6, <2>1 DEF KnownOK, D!ChatIds, D!ChatId
<1>9. ASSUME NEW e \in out, e.kind \in LinkKinds
      PROVE  \/ \E r \in D!Printed : D!Ambiguous(r, sweep.prints) /\ e = D!Rejected(r)
             \/ \E r \in D!Printed : \E m \in D!Matches(r, sweep.prints) :
                  ~D!Ambiguous(r, sweep.prints) /\ e = D!Linked(r, m)
  <2>1. e \in D!LinkResponses(sweep.prints)
    BY <1>2, <1>9 DEF ChatInv, KnownOK
  <2>2. \/ e \in {D!Rejected(r) : r \in {r \in D!Printed : D!Ambiguous(r, sweep.prints)}}
        \/ \E r \in D!Printed : ~D!Ambiguous(r, sweep.prints)
             /\ e \in {D!Linked(r, m) : m \in D!Matches(r, sweep.prints)}
    BY <2>1 DEF D!LinkResponses
  <2> QED
    BY <2>2
<1>10. ASSUME NEW r \in D!Printed, NEW m \in D!Matches(r, sweep.prints)
       PROVE  r \in D!PluginRows /\ m \in Messages /\ D!Near(r, m)
  BY <1>1, <1>5 DEF D!Matches
<1>11. LinksOK'
  <2>1. ASSUME NEW e \in out, e.kind = "message.usage.link"
        PROVE  \E r \in D!PluginRows, m \in Messages : LinkOf(e, r, m)
    <3>1. PICK r \in D!Printed : \E m \in D!Matches(r, sweep.prints) : e = D!Linked(r, m)
      BY <1>9, <2>1, LinkFields DEF LinkKinds
    <3> QED
      BY <1>10, <3>1 DEF LinkOf
  <2>2. ASSUME NEW e \in out, e.kind = "message.usage.link.rejected"
        PROVE  \E r \in D!PluginRows : e = D!Rejected(r)
    BY <1>5, <1>9, <2>2, LinkFields DEF LinkKinds
  <2>3. \A e \in records :
          /\ e.kind = "message.usage.link" => \E r \in D!PluginRows, m \in Messages : LinkOf(e, r, m)
          /\ e.kind = "message.usage.link.rejected" => \E r \in D!PluginRows : e = D!Rejected(r)
    BY <1>1 DEF ChatInv, LinksOK
  <2>4. \A e, r, m : LinkOf(e, r, m) => LinkOf(e, r, m)'
    BY <1>4 DEF LinkOf, D!Near, D!Linked, D!ChatEvent
  <2> QED
    BY <1>4, <1>6, <2>1, <2>2, <2>3, <2>4 DEF LinksOK, D!Rejected, D!ChatEvent
<1>12. OneRowEach'
  <2>1. ASSUME NEW r \in D!PluginRows, NEW m \in Messages, D!Linked(r, m) \in records \cup out
        PROVE  r \in D!Rivals(m) /\ (D!Linked(r, m) \in out => D!Rivals(m) = {r})
    <3>1. CASE D!Linked(r, m) \in records
      <4>1. PICK q \in D!PluginRows, n \in Messages : LinkOf(D!Linked(r, m), q, n)
        BY <1>1, <3>1, LinkFields DEF ChatInv, LinksOK
      <4>2. q = r /\ n = m
        BY <4>1, LinkNames DEF LinkOf
      <4>3. D!Linked(r, m) \notin out
        BY <1>1, <1>2, <3>1 DEF D!ChatIds
      <4> QED
        BY <4>1, <4>2, <4>3 DEF LinkOf, D!Rivals
    <3>2. CASE D!Linked(r, m) \in out
      <4>1. PICK q \in D!Printed, n \in Messages :
              n \in D!Matches(q, sweep.prints) /\ ~D!Ambiguous(q, sweep.prints) /\ D!Linked(r, m) = D!Linked(q, n)
        <5>0. D!Linked(r, m).kind = "message.usage.link"
              /\ \A q : D!Rejected(q).kind = "message.usage.link.rejected"
          BY LinkFields
        <5>1. D!Linked(r, m).kind \in LinkKinds /\ \A q : D!Linked(r, m) # D!Rejected(q)
          BY <5>0 DEF LinkKinds
        <5>2. \E q \in D!Printed : \E n \in D!Matches(q, sweep.prints) :
                ~D!Ambiguous(q, sweep.prints) /\ D!Linked(r, m) = D!Linked(q, n)
          BY <1>9, <3>2, <5>1
        <5> QED
          BY <1>10, <5>2
      <4>2. q = r /\ n = m
        BY <1>10, <4>1, LinkNames
      <4> QED
        BY <1>10, <4>1, <4>2 DEF D!Ambiguous, D!Rivals
    <3> QED
      BY <2>1, <3>1, <3>2
  <2>2. ASSUME NEW r \in D!PluginRows, NEW q \in D!PluginRows, NEW m \in Messages,
               D!Linked(r, m) \in records \cup out, D!Linked(q, m) \in records \cup out
        PROVE  r = q
    <3>1. CASE D!Linked(r, m) \in records /\ D!Linked(q, m) \in records
      BY <1>1, <3>1 DEF ChatInv, OneRowEach
    <3>2. CASE D!Linked(r, m) \in out \/ D!Linked(q, m) \in out
      BY <2>1, <2>2, <3>2
    <3> QED
      BY <2>2, <3>1, <3>2
  <2> QED
    BY <1>4, <1>6, <2>2 DEF OneRowEach, D!Linked, D!ChatEvent
<1>13. MatchedSettled'
  <2>1. ASSUME NEW r \in D!PluginRows, NEW m \in Messages
        PROVE  /\ D!Linked(r, m) \in all => D!Linked(r, m) \in records \cup out
               /\ D!Rejected(r) \in all => D!Rejected(r) \in records \cup out
    BY <1>1, <1>2, LinkRecorded
  <2>2. ASSUME NEW p \in matched
        PROVE  Settled(p[1], p[2], records \cup out)
    <3>1. PICK r \in D!Printed, m \in sweep.prints : p[1] = r /\ p[2] = m /\ D!Near(r, m)
      BY <1>2
    <3>2. m \in D!Matches(r, sweep.prints) /\ r \in D!PluginRows /\ m \in Messages
      BY <1>1, <1>5, <3>1 DEF D!Matches
    <3>3. CASE D!Ambiguous(r, sweep.prints)
      <4>1. D!Rejected(r) \in all
        BY <1>2, <3>3 DEF D!LinkResponses
      <4> QED
        BY <2>1, <3>1, <3>2, <4>1 DEF Settled
    <3>4. CASE ~D!Ambiguous(r, sweep.prints)
      <4>1. D!Linked(r, m) \in {D!Linked(r, n) : n \in D!Matches(r, sweep.prints)}
        BY <3>2
      <4>2. D!Linked(r, m) \in all
        BY <1>2, <3>4, <4>1 DEF D!LinkResponses
      <4> QED
        BY <2>1, <3>1, <3>2, <4>2 DEF Settled
    <3> QED
      BY <3>3, <3>4
  <2>3. \A r \in D!PluginRows : \A m \in shown[r] : Settled(r, m, records)
    BY DEF ChatInv, MatchedSettled
  <2> QED
    BY <1>1, <1>3, <1>4, <1>6, <2>2, <2>3 DEF MatchedSettled, Settled, D!Linked, D!Rejected, D!ChatEvent
<1> QED
  BY <1>1, <1>4, <1>7, <1>8, <1>11, <1>12, <1>13 DEF ChatInv

LEMMA ScanPersistsKeeps ==
  ASSUME ChatInv, D!ScanPersists
  PROVE  ChatInv'
<1>1. /\ sweep.step = "persist" /\ UNCHANGED <<offer, cache, arrived, known>>
      /\ records' = Persisting
      /\ sweep' = [step |-> "none", usage |-> {}, chat |-> {}, prints |-> {}, matched |-> {}, out |-> {}]
      /\ shown' = [r \in D!PluginRows |-> shown[r] \cup {p[2] : p \in {p \in sweep.matched : p[1] = r}}]
  BY DEF D!ScanPersists, D!Resting, Persisting
<1>2. Persisting' = Persisting /\ records' = Persisting /\ records \subseteq records'
  BY <1>1 DEF Persisting
<1>3. D!Printed' = D!Printed /\ D!PluginRows' = D!PluginRows /\ Messages' = Messages /\ D!ChatItems' = D!ChatItems
  BY <1>1 DEF D!Printed, D!PluginRows, Messages, D!ChatItems
<1>4. LinksOK' /\ OneRowEach' /\ \A r \in D!PluginRows : \A m \in shown[r] : Settled(r, m, records')
  BY <1>1, <1>2, <1>3, ChatKept
<1>5. ASSUME NEW r \in D!PluginRows, NEW m \in shown'[r]
      PROVE  m \in Messages /\ Settled(r, m, records')
  <2>1. CASE m \in shown[r]
    BY <1>4, <2>1 DEF ChatInv
  <2>2. CASE m \notin shown[r]
    <3>1. PICK p \in sweep.matched : p[1] = r /\ m = p[2]
      BY <1>1, <1>5, <2>2
    <3>2. Settled(p[1], p[2], Persisting) /\ p \in D!PluginRows \X Messages
      BY DEF ChatInv, MatchedSettled, Sweeps
    <3> QED
      BY <1>2, <3>1, <3>2
  <2> QED
    BY <2>1, <2>2
<1>6. shown' \in [D!PluginRows -> SUBSET Messages]
  BY <1>1, <1>5
<1>7. MatchedSettled'
  BY <1>1, <1>3, <1>5 DEF MatchedSettled, Settled, D!Linked, D!Rejected, D!ChatEvent
<1>8. KnownOK'
  <2>1. known = D!ChatIds(Persisting)
    BY <1>1 DEF ChatInv, KnownOK
  <2> QED
    BY <1>1, <1>2, <2>1 DEF KnownOK, D!ChatIds, D!ChatId
<1>9. sweep' \in Sweeps'
  BY <1>1 DEF Sweeps
<1> QED
  BY <1>1, <1>3, <1>4, <1>6, <1>7, <1>8, <1>9 DEF ChatInv

(* What was persisted when the agent died stays, and is found recorded.    *)
LEMMA ScanDiesKeeps ==
  ASSUME ChatInv, D!ScanDies
  PROVE  ChatInv'
<1>1. /\ UNCHANGED <<offer, cache, arrived, shown>> /\ known' = None
      /\ records \subseteq records' /\ records' \subseteq Persisting
      /\ sweep' = [step |-> "none", usage |-> {}, chat |-> {}, prints |-> {}, matched |-> {}, out |-> {}]
  BY DEF D!ScanDies, D!Resting, Persisting
<1>2. Persisting' = records'
  BY <1>1 DEF Persisting
<1>3. D!Printed' = D!Printed /\ D!PluginRows' = D!PluginRows /\ Messages' = Messages /\ D!ChatItems' = D!ChatItems
  BY <1>1 DEF D!Printed, D!PluginRows, Messages, D!ChatItems
<1>4. LinksOK' /\ OneRowEach' /\ \A r \in D!PluginRows : \A m \in shown[r] : Settled(r, m, records')
  BY <1>1, <1>2, <1>3, ChatKept
<1>5. MatchedSettled'
  BY <1>1, <1>3, <1>4 DEF MatchedSettled, Settled, D!Linked, D!Rejected, D!ChatEvent
<1>6. KnownOK' /\ sweep' \in Sweeps'
  BY <1>1 DEF KnownOK, Sweeps
<1> QED
  BY <1>1, <1>3, <1>4, <1>5, <1>6 DEF ChatInv

(* The cache shows and loses what it will; a row keeps its fingerprint.    *)
LEMMA ChatGoesOn ==
  ASSUME ChatInv, UNCHANGED <<offer, known, sweep, records, shown>>,
         cache' \subseteq D!ChatItems,
         DOMAIN arrived' \subseteq D!PluginRows, D!Printed \subseteq D!Printed'
  PROVE  ChatInv'
<1>1. D!PluginRows' = D!PluginRows /\ Messages' = Messages /\ D!ChatItems' = D!ChatItems
  BY DEF D!PluginRows, Messages, D!ChatItems
<1>2. Persisting' = Persisting
  BY DEF Persisting
<1>3. LinksOK' /\ OneRowEach'
  BY <1>2, ChatKept
<1>4. KnownOK'
  BY <1>2 DEF ChatInv, KnownOK, D!ChatIds, D!ChatId
<1>5. MatchedSettled'
  BY <1>1, <1>2 DEF ChatInv, MatchedSettled, Settled, D!Linked, D!Rejected, D!ChatEvent
<1>6. sweep' \in Sweeps'
  BY <1>1 DEF ChatInv, Sweeps
<1> QED
  BY <1>1, <1>3, <1>4, <1>5, <1>6 DEF ChatInv

LEMMA ChatInvStep == ChatInv /\ [CollectorsNext]_collectorsVars => ChatInv'
<1> SUFFICES ASSUME ChatInv, [D!DesktopNext]_(D!desktopVars) PROVE ChatInv'
  BY ChatStep
<1>1. ASSUME NEW x \in D!ChatItems, D!Shows(x) \/ D!Vanishes(x) PROVE ChatInv'
  BY <1>1, ChatGoesOn DEF D!Shows, D!Vanishes, D!Printed, ChatInv
<1>2. ASSUME NEW c \in D!Chats, D!Grants(c) PROVE ChatInv'
  BY <1>2, ChatGoesOn DEF D!Grants, D!Printed, ChatInv
<1>3. ASSUME NEW r \in D!PluginRows, D!RowArrives(r) PROVE ChatInv'
  <2>1. PICK p : arrived' = [q \in DOMAIN arrived \cup {r} |-> IF q = r THEN p ELSE arrived[q]]
    BY <1>3 DEF D!RowArrives
  <2>2. r \notin DOMAIN arrived \/ ~arrived[r]
    BY <1>3 DEF D!RowArrives
  <2>3. D!Printed \subseteq D!Printed'
    BY <2>1, <2>2 DEF D!Printed
  <2>4. DOMAIN arrived' \subseteq D!PluginRows
    BY <2>1 DEF ChatInv
  <2>5. UNCHANGED <<offer, cache, known, sweep, records, shown>>
    BY <1>3 DEF D!RowArrives
  <2> QED
    BY <2>3, <2>4, <2>5, ChatGoesOn DEF ChatInv
<1>4. CASE UNCHANGED D!desktopVars
  BY <1>4, ChatGoesOn DEF D!desktopVars, D!Printed, ChatInv
<1> QED
  BY <1>1, <1>2, <1>3, <1>4, ScanBegins, ScanLinksKeeps, ScanPersistsKeeps, ScanDiesKeeps
     DEF D!DesktopNext, D!DesktopScan

-----------------------------------------------------------------------------
(* No identity twice, with two contents.                                   *)
Once(E) == \A e, f \in E : e.kind = f.kind /\ e.key = f.key => e = f

LEMMA ChatEventFields ==
  ASSUME NEW kind, NEW key, NEW at, NEW c, NEW turn
  PROVE  /\ D!ChatEvent(kind, key, at, c, turn).kind = kind
         /\ D!ChatEvent(kind, key, at, c, turn).key = key
BY DEF D!ChatEvent

LEMMA MessageEvents ==
  ASSUME NEW m, D!MessageKind(m) # None
  PROVE  /\ D!Base(m).kind \in {"turn", "message.received"} /\ D!Base(m).key = <<m.chat, m.id>>
         /\ D!Estimate(m).kind = "message.tokens.estimated" /\ D!Estimate(m).key = <<m.chat, m.id>>
         /\ D!Folder(m).kind = "conversation.folder.attached" /\ D!Folder(m).key = <<m.chat>>
         /\ \A x : [D!Base(m) EXCEPT !.kind = "message.model", !.key = <<m.chat, m.id, x>>, !.value = x].kind
                     = "message.model"
         /\ \A x : [D!Base(m) EXCEPT !.kind = "message.model", !.key = <<m.chat, m.id, x>>, !.value = x].key
                     = <<m.chat, m.id, x>>
<1>1. D!MessageKind(m) \in {"turn", "message.received"}
  BY DEF D!MessageKind
<1> QED
  BY <1>1 DEF D!Base, D!Estimate, D!Folder, D!ChatEvent

(* The first of some messages is one, if there is any.                     *)
LEMMA FoldersOnce ==
  ASSUME ChatInv, NEW S \in SUBSET D!ChatItems, NEW c
  PROVE  \A e \in D!Folders(D!Messages(c, S), c) :
           /\ \E m \in D!Messages(c, S) : e = D!Folder(m)
           /\ \A f \in D!Folders(D!Messages(c, S), c) : e = f
<1> DEFINE M == D!Messages(c, S)
           turns == {m \in M : m.sender = "human"}
           open == {m \in turns : m.folder}
           FirstShown(m, o) == m.at < o.at
           Earlier(m, o) == m.time < o.time \/ (m.time = o.time /\ m.at < o.at)
           As == {m \in open : \A o \in open \ {m} : FirstShown(m, o)}
           Bs == {m \in turns : \A o \in turns \ {m} : Earlier(m, o)}
<1>1. \A m \in M : m.at \in Nat /\ m.time \in Nat
  <2>1. \A m \in M : m \in D!ChatItems /\ m.item = "message" /\ D!MessageKind(m) # None
    BY DEF D!Messages
  <2>2. \A m \in M : m.time # None
    BY <2>1 DEF D!MessageKind
  <2> QED
    BY <2>1, <2>2, OffersAssumption DEF ChatInv, D!ChatItems
<1>2. \A m, n \in As : m = n
  BY <1>1
<1>3. \A m, n \in Bs : m = n
  BY <1>1
<1>4. PICK first : /\ first \in {As, Bs, {}}
                   /\ D!Folders(M, c) = {D!Folder(m) : m \in first}
  BY DEF D!Folders, D!First
<1>5. first \subseteq M /\ \A m, n \in first : m = n
  BY <1>2, <1>3, <1>4
<1> QED
  BY <1>4, <1>5

(* What a reading of the cache finds.                                      *)
IsFound(e, S) ==
  \/ \E c \in D!Chats : \E m \in D!Messages(c, S) : e \in {D!Base(m), D!Estimate(m)}
  \/ \E c \in D!Chats : e \in D!Folders(D!Messages(c, S), c)
  \/ \E s : e = D!ChatEvent("conversation.model.observed", <<s.org, s.chat, s.time, s.model>>, s.time, s.chat, None)
  \/ \E s : \E m \in D!Messages(s.chat, S) :
       e = [D!Base(m) EXCEPT !.kind = "message.model", !.key = <<m.chat, m.id, s.model>>, !.value = s.model]

LEMMA CollectFinds ==
  ASSUME NEW S, NEW e \in D!Collect(S)
  PROVE  IsFound(e, S)
<1>1. CASE \E c \in D!Chats : e \in D!Normalize(c, S)
  <2>1. PICK c \in D!Chats : e \in D!Normalize(c, S)
    BY <1>1
  <2>2. \/ \E m \in D!Messages(c, S) : e \in {D!Base(m), D!Estimate(m)}
        \/ e \in D!Folders(D!Messages(c, S), c)
    BY <2>1 DEF D!Normalize
  <2> QED
    BY <2>2 DEF IsFound
<1>2. CASE e \in D!Settings(S)
  BY <1>2 DEF IsFound, D!Settings
<1>3. CASE e \in D!ResponseModels(S)
  <2>1. PICK s : e \in {[D!Base(m) EXCEPT !.kind = "message.model", !.key = <<m.chat, m.id, s.model>>, !.value = s.model] :
                         m \in {m \in D!Messages(s.chat, S) : m.id = s.message /\ m.sender = "assistant"}}
    BY <1>3 DEF D!ResponseModels
  <2>2. \E m \in D!Messages(s.chat, S) :
          e = [D!Base(m) EXCEPT !.kind = "message.model", !.key = <<m.chat, m.id, s.model>>, !.value = s.model]
    BY <2>1
  <2> QED
    BY <2>2 DEF IsFound
<1> QED
  BY <1>1, <1>2, <1>3 DEF D!Collect


LEMMA CollectOnce ==
  ASSUME ChatInv, NEW S \in SUBSET D!ChatItems
  PROVE  Once(D!Collect(S)) /\ \A e \in D!Collect(S) : e.kind # "api.request"
<1> DEFINE Model(m, x) == [D!Base(m) EXCEPT !.kind = "message.model", !.key = <<m.chat, m.id, x>>, !.value = x]
           Setting(s) == D!ChatEvent("conversation.model.observed", <<s.org, s.chat, s.time, s.model>>,
                                     s.time, s.chat, None)
           Shown(m) == m \in Messages /\ D!MessageKind(m) # None
<1>1. \A c : \A m \in D!Messages(c, S) : Shown(m) /\ m.chat = c
  BY DEF D!Messages, Messages
<1>2. \A m, n \in Messages : m.id = n.id => m = n
  BY IdentitiesDiffer
<1>3. ASSUME NEW e \in D!Collect(S)
      PROVE  \/ \E m : Shown(m) /\ e = D!Base(m) /\ e.kind \in {"turn", "message.received"} /\ e.key = <<m.chat, m.id>>
             \/ \E m : Shown(m) /\ e = D!Estimate(m) /\ e.kind = "message.tokens.estimated" /\ e.key = <<m.chat, m.id>>
             \/ \E c : /\ e \in D!Folders(D!Messages(c, S), c)
                       /\ e.kind = "conversation.folder.attached" /\ e.key = <<c>>
             \/ \E s : e = Setting(s) /\ e.kind = "conversation.model.observed" /\ e.key = <<s.org, s.chat, s.time, s.model>>
             \/ \E m, x : Shown(m) /\ e = Model(m, x) /\ e.kind = "message.model" /\ e.key = <<m.chat, m.id, x>>
  <2>0. IsFound(e, S)
    BY CollectFinds
  <2>1. ASSUME NEW c, NEW m \in D!Messages(c, S), e \in {D!Base(m), D!Estimate(m)}
        PROVE  \/ Shown(m) /\ e = D!Base(m) /\ e.kind \in {"turn", "message.received"} /\ e.key = <<m.chat, m.id>>
               \/ Shown(m) /\ e = D!Estimate(m) /\ e.kind = "message.tokens.estimated" /\ e.key = <<m.chat, m.id>>
    <3>1. Shown(m)
      BY <1>1
    <3> QED
      BY <2>1, <3>1, MessageEvents
  <2>2. ASSUME NEW c, e \in D!Folders(D!Messages(c, S), c)
        PROVE  e.kind = "conversation.folder.attached" /\ e.key = <<c>>
    <3>1. PICK m \in D!Messages(c, S) : e = D!Folder(m)
      BY <2>2, FoldersOnce
    <3>2. Shown(m) /\ m.chat = c
      BY <1>1
    <3> QED
      BY <3>1, <3>2, MessageEvents
  <2>3. ASSUME NEW s, e = Setting(s)
        PROVE  e.kind = "conversation.model.observed" /\ e.key = <<s.org, s.chat, s.time, s.model>>
    BY <2>3, ChatEventFields
  <2>4. ASSUME NEW s, NEW m \in D!Messages(s.chat, S), e = Model(m, s.model)
        PROVE  Shown(m) /\ e.kind = "message.model" /\ e.key = <<m.chat, m.id, s.model>>
    <3>1. Shown(m)
      BY <1>1
    <3>2. \A x : Model(m, x).kind = "message.model" /\ Model(m, x).key = <<m.chat, m.id, x>>
      BY <3>1, MessageEvents
    <3> QED
      BY <2>4, <3>1, <3>2
  <2>5. CASE \E c \in D!Chats : \E m \in D!Messages(c, S) : e \in {D!Base(m), D!Estimate(m)}
    <3>1. PICK c : \E m \in D!Messages(c, S) : e \in {D!Base(m), D!Estimate(m)}
      BY <2>5
    <3>2. PICK m \in D!Messages(c, S) : e \in {D!Base(m), D!Estimate(m)}
      BY <3>1
    <3> HIDE DEF Shown, Model, Setting
    <3> QED
      BY <2>1, <3>2
  <2>6. CASE \E c \in D!Chats : e \in D!Folders(D!Messages(c, S), c)
    BY <2>2, <2>6
  <2>7. CASE \E s : e = Setting(s)
    BY <2>3, <2>7
  <2>8. CASE \E s : \E m \in D!Messages(s.chat, S) : e = Model(m, s.model)
    <3>1. PICK s : \E m \in D!Messages(s.chat, S) : e = Model(m, s.model)
      BY <2>8
    <3>2. PICK m \in D!Messages(s.chat, S) : e = Model(m, s.model)
      BY <3>1
    <3> HIDE DEF Shown, Model, Setting
    <3> QED
      BY <2>4, <3>2
  <2> QED
    BY <2>0, <2>5, <2>6, <2>7, <2>8 DEF IsFound
<1>4. \A e \in D!Collect(S) : e.kind # "api.request"
  BY <1>3
<1>5. ASSUME NEW e \in D!Collect(S), NEW f \in D!Collect(S), e.kind = f.kind, e.key = f.key
      PROVE  e = f
  <2>1. \A a, b, x, y : <<a, b>> = <<x, y>> => a = x /\ b = y
    OBVIOUS
  <2>2. \A a, b, c, x, y, z : <<a, b, c>> = <<x, y, z>> => a = x /\ b = y /\ c = z
    OBVIOUS
  <2>3. \A a, x : <<a>> = <<x>> => a = x
    OBVIOUS
  <2>4. \A a, b, c, d, x, y, z, w : <<a, b, c, d>> = <<x, y, z, w>> => a = x /\ b = y /\ c = z /\ d = w
    OBVIOUS
  <2>5. \A s, t : <<s.org, s.chat, s.time, s.model>> = <<t.org, t.chat, t.time, t.model>> => Setting(s) = Setting(t)
    BY <2>4
  <2>6. \A m, n : Shown(m) /\ Shown(n) /\ m.id = n.id => m = n
    BY <1>2
  <2>7. \A c : \A g, h \in D!Folders(D!Messages(c, S), c) : g = h
    BY FoldersOnce
  <2> HIDE DEF Shown, Model, Setting
  <2>8. CASE e.kind \in {"turn", "message.received"}
    <3>1. PICK m : Shown(m) /\ e = D!Base(m) /\ e.key = <<m.chat, m.id>>
      BY <1>3, <2>8
    <3>2. PICK n : Shown(n) /\ f = D!Base(n) /\ f.key = <<n.chat, n.id>>
      BY <1>3, <1>5, <2>8
    <3> QED
      BY <1>5, <2>1, <2>6, <3>1, <3>2
  <2>9. CASE e.kind = "message.tokens.estimated"
    <3>1. PICK m : Shown(m) /\ e = D!Estimate(m) /\ e.key = <<m.chat, m.id>>
      BY <1>3, <2>9
    <3>2. PICK n : Shown(n) /\ f = D!Estimate(n) /\ f.key = <<n.chat, n.id>>
      BY <1>3, <1>5, <2>9
    <3> QED
      BY <1>5, <2>1, <2>6, <3>1, <3>2
  <2>10. CASE e.kind = "conversation.folder.attached"
    <3>1. PICK c : e \in D!Folders(D!Messages(c, S), c) /\ e.key = <<c>>
      BY <1>3, <2>10
    <3>2. PICK d : f \in D!Folders(D!Messages(d, S), d) /\ f.key = <<d>>
      BY <1>3, <1>5, <2>10
    <3> QED
      BY <1>5, <2>3, <2>7, <3>1, <3>2
  <2>11. CASE e.kind = "conversation.model.observed"
    <3>1. PICK s : e = Setting(s) /\ e.key = <<s.org, s.chat, s.time, s.model>>
      BY <1>3, <2>11
    <3>2. PICK t : f = Setting(t) /\ f.key = <<t.org, t.chat, t.time, t.model>>
      BY <1>3, <1>5, <2>11
    <3> QED
      BY <1>5, <2>5, <3>1, <3>2
  <2>12. CASE e.kind = "message.model"
    <3>1. PICK m, x : Shown(m) /\ e = Model(m, x) /\ e.key = <<m.chat, m.id, x>>
      BY <1>3, <2>12
    <3>2. PICK n, y : Shown(n) /\ f = Model(n, y) /\ f.key = <<n.chat, n.id, y>>
      BY <1>3, <1>5, <2>12
    <3> QED
      BY <1>5, <2>2, <2>6, <3>1, <3>2
  <2> QED
    BY <1>3, <2>8, <2>9, <2>10, <2>11, <2>12
<1> QED
  BY <1>4, <1>5 DEF Once


OnceInv ==
  /\ Once(Persisting) /\ Once(sweep.chat)
  /\ \A e \in sweep.chat : e.kind # "api.request"
  /\ \A e \in sweep.usage : \E r \in D!PluginRows : e = D!Usage(r)

LEMMA UsageFields ==
  ASSUME NEW r
  PROVE  D!Usage(r).kind = "api.request" /\ D!Usage(r).key = <<r.id>>
BY DEF D!Usage, D!ChatEvent

LEMMA OnceInitially == CollectorsInit => OnceInv
BY DEF CollectorsInit, D!DesktopInit, D!Resting, OnceInv, Once, Persisting

LEMMA RejectedNames ==
  ASSUME NEW r, NEW q, D!Rejected(r).key = D!Rejected(q).key
  PROVE  r.id = q.id
<1>1. D!Rejected(r).key = <<r.id>> /\ D!Rejected(q).key = <<q.id>>
  BY LinkFields
<1>2. \A a, x : <<a>> = <<x>> => a = x
  OBVIOUS
<1> QED
  BY <1>1, <1>2

(* Of one scan: usage, what the cache shows and links are apart.           *)
LEMMA ScanOnce ==
  ASSUME ChatInv, OnceInv
  PROVE  Once(sweep.usage \cup sweep.chat \cup D!LinkResponses(sweep.prints))
<1>0. D!Printed \subseteq D!PluginRows /\ sweep.prints \subseteq Messages
  BY DEF ChatInv, D!Printed, Sweeps
<1>1. ASSUME NEW e \in D!LinkResponses(sweep.prints)
      PROVE  \/ \E r \in D!PluginRows : e = D!Rejected(r)
             \/ \E r \in D!PluginRows : \E m \in Messages : e = D!Linked(r, m)
  <2>1. \/ e \in {D!Rejected(r) : r \in {r \in D!Printed : D!Ambiguous(r, sweep.prints)}}
        \/ \E r \in D!Printed : e \in {D!Linked(r, m) : m \in D!Matches(r, sweep.prints)}
    BY DEF D!LinkResponses
  <2> QED
    BY <1>0, <2>1 DEF D!Matches
<1>2. ASSUME NEW e \in D!LinkResponses(sweep.prints)
      PROVE  e.kind \in LinkKinds
  <2>1. CASE \E r \in D!PluginRows : e = D!Rejected(r)
    BY <2>1, LinkFields DEF LinkKinds
  <2>2. CASE \E r \in D!PluginRows : \E m \in Messages : e = D!Linked(r, m)
    BY <2>2, LinkFields DEF LinkKinds
  <2> QED
    BY <1>1, <2>1, <2>2
<1>3. \A e \in sweep.usage \cup sweep.chat : e.kind \notin LinkKinds
  BY DEF ChatInv, KnownOK
<1>4. \A e, f \in D!LinkResponses(sweep.prints) : e.kind = f.kind /\ e.key = f.key => e = f
  <2> SUFFICES ASSUME NEW e \in D!LinkResponses(sweep.prints), NEW f \in D!LinkResponses(sweep.prints),
                      e.kind = f.kind, e.key = f.key
               PROVE  e = f
    OBVIOUS
  <2>1. CASE e.kind = "message.usage.link"
    <3>1. PICK r \in D!PluginRows : \E m \in Messages : e = D!Linked(r, m)
      BY <1>1, <2>1, LinkFields
    <3>2. PICK m \in Messages : e = D!Linked(r, m)
      BY <3>1
    <3>3. PICK q \in D!PluginRows : \E n \in Messages : f = D!Linked(q, n)
      BY <1>1, <2>1, LinkFields
    <3>4. PICK n \in Messages : f = D!Linked(q, n)
      BY <3>3
    <3> QED
      BY <3>2, <3>4, LinkNames
  <2>2. CASE e.kind = "message.usage.link.rejected"
    <3>0. \A r, m : D!Linked(r, m).kind = "message.usage.link"
      BY LinkFields
    <3>1. PICK r \in D!PluginRows : e = D!Rejected(r)
      BY <1>1, <2>2, <3>0
    <3>2. PICK q \in D!PluginRows : f = D!Rejected(q)
      <4>1. f.kind = "message.usage.link.rejected"
        BY <2>2
      <4> QED
        BY <1>1, <3>0, <4>1
    <3> QED
      BY <3>1, <3>2, IdentitiesDiffer, RejectedNames
  <2> QED
    BY <1>2, <2>1, <2>2 DEF LinkKinds
<1>5. \A e, f \in sweep.usage : e.key = f.key => e = f
  <2> SUFFICES ASSUME NEW e \in sweep.usage, NEW f \in sweep.usage, e.key = f.key PROVE e = f
    OBVIOUS
  <2>1. PICK r \in D!PluginRows : e = D!Usage(r)
    BY DEF OnceInv
  <2>2. PICK q \in D!PluginRows : f = D!Usage(q)
    BY DEF OnceInv
  <2>3. r.id = q.id
    BY <2>1, <2>2, UsageFields
  <2> QED
    BY <2>1, <2>2, <2>3, IdentitiesDiffer
<1>6. \A e \in sweep.usage : e.kind = "api.request"
  BY UsageFields DEF OnceInv
<1> QED
  BY <1>2, <1>3, <1>4, <1>5, <1>6 DEF OnceInv, Once

LEMMA OnceStep == ChatInv /\ OnceInv /\ [CollectorsNext]_collectorsVars => OnceInv'
<1> SUFFICES ASSUME ChatInv, OnceInv, [D!DesktopNext]_(D!desktopVars) PROVE OnceInv'
  BY ChatStep
<1>0. \A r : (r \in D!PluginRows) <=> (r \in offer.rows)
  BY DEF D!PluginRows
<1>u. \A r : D!Usage(r)' = D!Usage(r)
  BY DEF D!Usage, D!ChatEvent
<1>s. sweep \in Sweeps /\ (sweep.step # "persist" => sweep.out = {})
  BY DEF ChatInv, KnownOK
<1>1. ASSUME offer' = offer, Persisting' \subseteq Persisting,
             sweep'.chat = {} \/ sweep'.chat = sweep.chat,
             sweep'.usage = {} \/ sweep'.usage = sweep.usage
      PROVE  OnceInv'
  BY <1>u, <1>1 DEF OnceInv, Once, D!PluginRows
<1>2. CASE D!ScanInbox
  <2>1. PICK found : found = {D!Usage(r) : r \in DOMAIN arrived}
    OBVIOUS
  <2>2. sweep' = [step |-> "collected", usage |-> found, chat |-> {}, prints |-> {}, matched |-> {}, out |-> {}]
    BY <1>2, <2>1 DEF D!ScanInbox, D!Resting
  <2>3. UNCHANGED <<offer, records>>
    BY <1>2 DEF D!ScanInbox
  <2>5. Persisting' \subseteq Persisting
    BY <2>2, <2>3 DEF Persisting
  <2>4. \A e \in found : \E r \in D!PluginRows : e = D!Usage(r)
    BY <2>1 DEF ChatInv
  <2> QED
    BY <1>u, <2>2, <2>3, <2>4, <2>5 DEF OnceInv, Once, D!PluginRows
<1>3. CASE D!ScanSnapshot
  <2>1. PICK said, prints : said = D!Collect(cache) /\ prints = D!Fingerprints(cache)
    OBVIOUS
  <2>2. sweep' = [sweep EXCEPT !.step = "snapshot", !.chat = said, !.prints = prints]
        /\ UNCHANGED <<offer, records>>
    BY <1>3, <2>1 DEF D!ScanSnapshot
  <2>3. sweep'.chat = said /\ sweep'.usage = sweep.usage /\ sweep'.out = sweep.out
    BY <1>s, <2>2 DEF Sweeps
  <2>4. Once(said) /\ \A e \in said : e.kind # "api.request"
    BY <2>1, CollectOnce DEF ChatInv
  <2> QED
    BY <1>u, <2>2, <2>3, <2>4 DEF OnceInv, Once, Persisting, D!PluginRows
<1>4. CASE D!SnapshotFails
  <2>1. UNCHANGED <<offer, records>>
    BY <1>4 DEF D!SnapshotFails
  <2>2. sweep' = D!Resting \/ sweep' = [sweep EXCEPT !.step = "snapshot"]
    BY <1>4 DEF D!SnapshotFails
  <2>3. /\ sweep'.chat = {} \/ sweep'.chat = sweep.chat
        /\ sweep'.usage = {} \/ sweep'.usage = sweep.usage
        /\ sweep'.out \subseteq sweep.out
    BY <1>s, <2>2 DEF D!Resting, Sweeps
  <2> QED
    BY <1>1, <2>1, <2>3 DEF Persisting
<1>5. CASE D!ScanLinks
  <2>1. PICK all, out, matched :
          /\ all = sweep.usage \cup sweep.chat \cup D!LinkResponses(sweep.prints)
          /\ out = {e \in all : D!ChatId(e) \notin known}
          /\ matched = {p \in D!Printed \X sweep.prints : D!Near(p[1], p[2])}
    OBVIOUS
  <2>2. /\ sweep' = [step |-> "persist", usage |-> {}, chat |-> {}, prints |-> {}, matched |-> matched, out |-> out]
        /\ UNCHANGED <<offer, records>>
    BY <1>5, <2>1 DEF D!ScanLinks, D!Resting
  <2>3. known = D!ChatIds(records) /\ sweep.out = {}
    BY <1>5, <1>s DEF D!ScanLinks, ChatInv, KnownOK, Persisting
  <2>4. Once(all) /\ Once(records)
    BY <2>1, <2>3, ScanOnce DEF OnceInv, Persisting
  <2>5. \A e \in out : \A f \in records : ~(e.kind = f.kind /\ e.key = f.key)
    BY <2>1, <2>3 DEF D!ChatIds, D!ChatId
  <2>6. Once(records \cup out)
    BY <2>1, <2>4, <2>5 DEF Once
  <2> QED
    BY <2>2, <2>6 DEF OnceInv, Once, Persisting
<1>6. CASE D!ScanPersists
  <2>1. /\ sweep' = [step |-> "none", usage |-> {}, chat |-> {}, prints |-> {}, matched |-> {}, out |-> {}]
        /\ records' = Persisting /\ offer' = offer
    BY <1>6 DEF D!ScanPersists, D!Resting, Persisting
  <2> QED
    BY <1>1, <2>1 DEF Persisting
<1>7. CASE D!ScanDies
  <2>1. /\ sweep' = [step |-> "none", usage |-> {}, chat |-> {}, prints |-> {}, matched |-> {}, out |-> {}]
        /\ records' \subseteq Persisting /\ offer' = offer
    BY <1>7 DEF D!ScanDies, D!Resting, Persisting
  <2> QED
    BY <1>1, <2>1 DEF Persisting
<1>8. CASE UNCHANGED <<offer, sweep, records>>
  BY <1>1, <1>8 DEF Persisting
<1> QED
  BY <1>2, <1>3, <1>4, <1>5, <1>6, <1>7, <1>8
     DEF D!DesktopNext, D!DesktopScan, D!Shows, D!Vanishes, D!Grants, D!RowArrives, D!desktopVars

(* A measured response is shown at the one message that ever matched it,   *)
(* and no two responses at one message.                                    *)
LEMMA ChatAbstains ==
  ASSUME ChatInv
  PROVE  D!AmbiguityAbstains /\ D!OneResponsePerMessage
<1>1. ASSUME NEW r \in D!PluginRows, NEW t \in D!Attributed(r)
      PROVE  \E m \in Messages : m.id = t /\ D!Linked(r, m) \in records
  <2>1. PICK e \in records : e.kind = "message.usage.link" /\ e.key[1] = r.id /\ t = e.turn
    BY <1>1 DEF D!Attributed, D!Links
  <2>2. PICK q \in D!PluginRows, m \in Messages : e = D!Linked(q, m)
    BY <2>1 DEF ChatInv, LinksOK, LinkOf, Persisting
  <2>3. q = r
    BY <2>1, <2>2, LinkFields, IdentitiesDiffer
  <2> QED
    BY <2>1, <2>2, <2>3, LinkFields
<1>2. D!OneResponsePerMessage
  <2> SUFFICES ASSUME NEW r \in D!PluginRows, NEW q \in D!PluginRows, NEW t \in D!Attributed(r) \cap D!Attributed(q)
               PROVE  r = q
    BY DEF D!OneResponsePerMessage
  <2>1. PICK m \in Messages : m.id = t /\ D!Linked(r, m) \in records
    BY <1>1
  <2>2. PICK n \in Messages : n.id = t /\ D!Linked(q, n) \in records
    BY <1>1
  <2> QED
    BY <2>1, <2>2, IdentitiesDiffer DEF ChatInv, OneRowEach, Persisting
<1>3. D!AmbiguityAbstains
  <2> SUFFICES ASSUME NEW r \in D!PluginRows, D!Attributed(r) # {}, NEW m \in shown[r], NEW n \in shown[r]
               PROVE  m = n
    BY DEF D!AmbiguityAbstains
  <2>1. D!OneSource(r) /\ D!Rejected(r) \notin records
    BY DEF D!Attributed
  <2>2. m \in Messages /\ n \in Messages /\ D!Linked(r, m) \in records /\ D!Linked(r, n) \in records
    BY <2>1 DEF ChatInv, MatchedSettled, Settled
  <2>3. D!Linked(r, m) \in D!Links(r) /\ D!Linked(r, n) \in D!Links(r)
    BY <2>2, LinkFields DEF D!Links
  <2>4. m.id = n.id
    BY <2>1, <2>3, LinkFields DEF D!OneSource
  <2> QED
    BY <2>2, <2>4, IdentitiesDiffer
<1> QED
  BY <1>2, <1>3

(* Measured usage is shown at the one message it can belong to or at none, *)
(* what is marked as seen is recorded, and no identity with two contents:  *)
(* whatever vanishes from the cache, arrives late or was half persisted    *)
(* when the agent died (claude_desktop_tailer.rs, collect; claude_plugin.rs, *)
(* link_responses; sink/src/store.rs, resolved_source).                    *)
THEOREM CollectorsChatHolds == CollectorsSpec => []ChatHolds
<1>1. ChatInv /\ OnceInv => ChatHolds
  <2> SUFFICES ASSUME ChatInv, OnceInv PROVE ChatHolds
    OBVIOUS
  <2>1. D!MarkedIsRecorded
    BY DEF ChatInv, KnownOK, D!MarkedIsRecorded, Persisting
  <2>2. D!RecordedOnce
    <3>1. \A a, b, x, y : <<a, b>> = <<x, y>> => a = x /\ b = y
      OBVIOUS
    <3> QED
      BY <3>1 DEF OnceInv, Once, D!RecordedOnce, D!ChatId, Persisting
  <2> QED
    BY <2>1, <2>2, ChatAbstains DEF ChatHolds
<1> QED
  BY <1>1, ChatInitially, OnceInitially, ChatInvStep, OnceStep, PTL DEF CollectorsSpec
-----------------------------------------------------------------------------
(* What hooks and exporters report.                                        *)

LEMMA ReportsStep == [CollectorsNext]_collectorsVars => [N!NormNext]_(N!normVars)
BY DEF CollectorsNext, collectorsVars, reports, N!normVars, N!reportVars, N!processVars, N!boundVars

(* The identities a report may be recorded under.                          *)
RecordNamed(id, r) ==
  \/ N!IsCodex(r) /\ N!Usage(r) /\ id = <<"usage", r.session, r.tokens>>
  \/ ~N!IsCodex(r) /\ r.at # 0 /\ id = <<"record", r.kind, r.session, r.at, r.tool>>
  \/ ~N!IsCodex(r) /\ r.at = 0 /\ r.tool # None /\ id = <<"tool", r.kind, r.tool>>
  \/ ~N!IsCodex(r) /\ r.at = 0 /\ r.tool = None /\ \E k, c : id = <<"seq", r.kind, r.session, k, c>>

RowOK(row) ==
  \/ \E r \in Reports : row.says.of = r.n /\ RecordNamed(row.id, r)
  \/ row.says.of \in ReportHooks /\ row.id = <<"spool", row.says.of>>

EventOK(e) ==
  /\ e.says.of = e.of
  /\ \/ \E r \in Reports : e.of = r.n /\ e.source = r.vendor /\ RecordNamed(e.id, r)
     \/ e.of \in ReportHooks /\ e.source = "hook" /\ e.id = <<"spool", e.of>>

HasIdentity(id, R) == \E row \in R : row.id = id
HasRow(n, R) == \E row \in R : row.says.of = n
IsRecorded(r, R) ==
  \/ HasRow(r.n, R)
  \/ N!IsCodex(r) /\ \E x \in Reports : N!IsCodex(x) /\ N!UsageKey(x) = N!UsageKey(r) /\ HasRow(x.n, R)

Works == [unit : {"none", "codex", "other", "entry"}, rest : SUBSET Nat, events : {work.events},
          entry : ReportHooks \cup {0}]

(* Of a batch, what is not to be read and not at hand is recorded.         *)
BatchOK ==
  work.unit \in {"codex", "other"} =>
    /\ work.rest \subseteq 1..sent
    /\ \A j \in DOMAIN work.events : work.events[j].source # "hook"
    /\ \A i \in 1..sent : N!Supported(outgoing[i]) =>
         \/ i \in work.rest \/ IsRecorded(outgoing[i], rows)
         \/ \E j \in DOMAIN work.events : work.events[j].of = outgoing[i].n

(* The event of an entry is new until it is recorded.                      *)
EntryOK ==
  work.unit = "entry" =>
    /\ work.entry \in ReportHooks
    /\ \/ work.events = <<>> /\ (HookSays[work.entry].kind # "other" => HasRow(work.entry, rows))
       \/ \E e : work.events = <<e>> /\ e.of = work.entry /\ e.source = "hook" /\ ~HasIdentity(e.id, rows)

EventsOK ==
  /\ \E S : work.events \in Seq(S)
  /\ \A j \in DOMAIN work.events : EventOK(work.events[j])

RowsOK ==
  /\ \A row \in rows : RowOK(row) /\ row = [id |-> row.id, says |-> row.says]
  /\ \A row, copy \in rows : row.id = copy.id => row = copy

KeptOK ==
  /\ \A r \in Reports : r.n \in answered /\ N!Supported(r) => IsRecorded(r, rows)
  /\ \A h \in ReportHooks : h \in answered /\ HookSays[h].kind # "other" => HasRow(h, rows)

Refusable(e, R) ==
  /\ e.source = "claude"
  /\ \/ \E row \in R : row.id = e.id /\ row.says.of = e.of /\ row.says # e.says
     \/ \E r, x \in Reports :
          r.n = e.of /\ x # r /\ r.at = x.at /\ r.session = x.session /\ r.tool = x.tool

ReportsInv ==
  /\ outgoing \in Seq(Reports) /\ sent \in 0..Len(outgoing) /\ spool \subseteq ReportHooks
  /\ work \in Works /\ (work.unit = "none" => work.events = <<>>)
  /\ BatchOK /\ EntryOK /\ EventsOK /\ RowsOK /\ KeptOK
  /\ \A e \in refusedReports : Refusable(e, rows)

(* The forms of identity are apart, and each tells what it is of.          *)
LEMMA NamesTell ==
  ASSUME NEW id, NEW r, RecordNamed(id, r)
  PROVE  /\ \A h : id # <<"spool", h>>
         /\ \A x : RecordNamed(id, x) =>
              IF N!IsCodex(r) THEN N!IsCodex(x) /\ N!UsageKey(x) = id
              ELSE /\ ~N!IsCodex(x) /\ r.at = x.at /\ r.tool = x.tool
                   /\ r.tool # None \/ r.session = x.session
<1>1. \A a, b, h : <<"usage", a, b>> # <<"spool", h>>
  OBVIOUS
<1>2. \A a, b, c, d, h : <<"record", a, b, c, d>> # <<"spool", h>>
  OBVIOUS
<1>3. \A a, b, h : <<"tool", a, b>> # <<"spool", h>>
  OBVIOUS
<1>4. \A a, b, c, d, h : <<"seq", a, b, c, d>> # <<"spool", h>>
  OBVIOUS
<1>5. \A a, b, c, d, e, f : /\ <<"usage", a, b>> # <<"record", c, d, e, f>>
                            /\ <<"usage", a, b>> # <<"tool", c, d>>
                            /\ <<"usage", a, b>> # <<"seq", c, d, e, f>>
  OBVIOUS
<1>6. \A a, b, c, d, e, f, g, h : /\ <<"record", a, b, c, d>> # <<"tool", e, f>>
                                  /\ <<"record", a, b, c, d>> # <<"seq", e, f, g, h>>
  OBVIOUS
<1>7. \A a, b, c, d, e, f : <<"tool", a, b>> # <<"seq", c, d, e, f>>
  OBVIOUS
<1>8. \A a, b, c, d, w, x, y, z : <<"record", a, b, c, d>> = <<"record", w, x, y, z>> => b = x /\ c = y /\ d = z
  OBVIOUS
<1>9. \A a, b, x, y : <<"tool", a, b>> = <<"tool", x, y>> => b = y
  OBVIOUS
<1>10. \A a, b, c, d, w, x, y, z : <<"seq", a, b, c, d>> = <<"seq", w, x, y, z>> => b = x
  OBVIOUS
<1>11. CASE N!IsCodex(r)
  BY <1>1, <1>5, <1>11 DEF RecordNamed, N!UsageKey
<1>12. CASE ~N!IsCodex(r) /\ r.at # 0
  BY <1>2, <1>5, <1>6, <1>8, <1>12 DEF RecordNamed
<1>13. CASE ~N!IsCodex(r) /\ r.at = 0 /\ r.tool # None
  BY <1>3, <1>5, <1>6, <1>7, <1>9, <1>13 DEF RecordNamed
<1>14. CASE ~N!IsCodex(r) /\ r.at = 0 /\ r.tool = None
  BY <1>4, <1>5, <1>6, <1>7, <1>10, <1>14 DEF RecordNamed
<1> QED
  BY <1>11, <1>12, <1>13, <1>14

(* Who is behind an identity.                                              *)
LEMMA RowTells ==
  ASSUME NEW row, RowOK(row)
  PROVE  /\ \A r \in Reports : row.says.of = r.n => RecordNamed(row.id, r)
         /\ \A h \in ReportHooks : row.says.of = h => row.id = <<"spool", h>>
         /\ \A h \in ReportHooks : row.id = <<"spool", h>> => row.says.of = h
<1>1. \A a, b : <<"spool", a>> = <<"spool", b>> => a = b
  OBVIOUS
<1>2. CASE row.says.of \in ReportHooks /\ row.id = <<"spool", row.says.of>>
  BY <1>1, <1>2, ReportsAssumption
<1>3. CASE \E r \in Reports : row.says.of = r.n /\ RecordNamed(row.id, r)
  <2>1. PICK r \in Reports : row.says.of = r.n /\ RecordNamed(row.id, r)
    BY <1>3
  <2>2. \A h : row.id # <<"spool", h>>
    BY <2>1, NamesTell
  <2>3. row.says.of \notin ReportHooks /\ \A x \in Reports : x.n = r.n => x = r
    BY <2>1, ReportsAssumption
  <2> QED
    BY <2>1, <2>2, <2>3
<1> QED
  BY <1>2, <1>3 DEF RowOK

(* What is recorded stays so.                                              *)
LEMMA RowsGrow ==
  ASSUME NEW R, NEW Q, R \subseteq Q
  PROVE  /\ \A n : HasRow(n, R) => HasRow(n, Q)
         /\ \A r : IsRecorded(r, R) => IsRecorded(r, Q)
         /\ \A e : Refusable(e, R) => Refusable(e, Q)
<1>1. \A n : HasRow(n, R) => HasRow(n, Q)
  BY DEF HasRow
<1>2. \A r : IsRecorded(r, R) => IsRecorded(r, Q)
  BY <1>1 DEF IsRecorded
<1>3. \A e : Refusable(e, R) => Refusable(e, Q)
  <2> SUFFICES ASSUME NEW e, Refusable(e, R) PROVE Refusable(e, Q)
    OBVIOUS
  <2>1. CASE \E row \in R : row.id = e.id /\ row.says.of = e.of /\ row.says # e.says
    BY <2>1 DEF Refusable
  <2>2. CASE \E r, x \in Reports :
               r.n = e.of /\ x # r /\ r.at = x.at /\ r.session = x.session /\ r.tool = x.tool
    BY <2>2 DEF Refusable
  <2> QED
    BY <2>1, <2>2 DEF Refusable
<1> QED
  BY <1>1, <1>2, <1>3

LEMMA ReportsInitially == CollectorsInit => ReportsInv
<1> SUFFICES ASSUME N!NormInit PROVE ReportsInv
  BY DEF CollectorsInit
<1>1. /\ outgoing = <<>> /\ sent = 0 /\ spool = {} /\ rows = {} /\ answered = {} /\ refusedReports = {}
      /\ work = [unit |-> "none", rest |-> {}, events |-> <<>>, entry |-> 0]
  BY DEF N!NormInit, N!NoWork
<1>2. outgoing \in Seq(Reports) /\ sent \in 0..Len(outgoing)
  BY <1>1
<1>3. work \in Works /\ BatchOK /\ EntryOK
  BY <1>1 DEF Works, BatchOK, EntryOK
<1>4. EventsOK
  <2>1. work.events = <<>> /\ <<>> \in Seq({}) /\ DOMAIN <<>> = {}
    BY <1>1
  <2> QED
    BY <2>1 DEF EventsOK
<1>5. RowsOK /\ KeptOK
  BY <1>1 DEF RowsOK, KeptOK
<1> QED
  BY <1>1, <1>2, <1>3, <1>4, <1>5 DEF ReportsInv

(* A report may come and the process may end at any time.                  *)
LEMMA ReportsGoOn ==
  ASSUME ReportsInv, UNCHANGED <<rows, answered, refusedReports>>,
         spool' \subseteq ReportHooks,
         \/ work' = work /\ UNCHANGED <<outgoing, sent>>
         \/ work' = N!NoWork /\ outgoing' \in Seq(Reports) /\ sent' \in 0..Len(outgoing')
  PROVE  ReportsInv'
<1>1. RowsOK' /\ KeptOK' /\ \A e \in refusedReports' : Refusable(e, rows')
  BY DEF ReportsInv, RowsOK, RowOK, KeptOK, HasRow, IsRecorded, Refusable
<1>2. CASE work' = work /\ UNCHANGED <<outgoing, sent>>
  <2>1. work' \in Works' /\ BatchOK' /\ EntryOK' /\ EventsOK'
    BY <1>2 DEF ReportsInv, Works, BatchOK, EntryOK, EventsOK, EventOK
  <2> QED
    BY <1>1, <1>2, <2>1 DEF ReportsInv
<1>3. CASE work' = N!NoWork /\ outgoing' \in Seq(Reports) /\ sent' \in 0..Len(outgoing')
  <2>1. work' = [unit |-> "none", rest |-> {}, events |-> <<>>, entry |-> 0]
    BY <1>3 DEF N!NoWork
  <2>2. work' \in Works' /\ BatchOK' /\ EntryOK'
    BY <2>1 DEF Works, BatchOK, EntryOK
  <2>3. EventsOK'
    <3>1. work'.events = <<>> /\ <<>> \in Seq({}) /\ DOMAIN <<>> = {}
      BY <2>1
    <3> QED
      BY <3>1 DEF EventsOK
  <2> QED
    BY <1>1, <1>3, <2>1, <2>2, <2>3 DEF ReportsInv
<1> QED
  BY <1>2, <1>3

(* A step on the work at hand alone.                                       *)
LEMMA WorkChanges ==
  ASSUME ReportsInv, UNCHANGED <<outgoing, spool, rows, answered, refusedReports>>,
         sent' \in 0..Len(outgoing),
         NEW u \in {"codex", "other", "entry"}, NEW rest \in SUBSET Nat, NEW events, NEW at \in ReportHooks \cup {0},
         work' = [unit |-> u, rest |-> rest, events |-> events, entry |-> at],
         \E S : events \in Seq(S), \A j \in DOMAIN events : EventOK(events[j]),
         u # "entry" => BatchOK', u = "entry" => EntryOK'
  PROVE  ReportsInv'
<1>1. RowsOK' /\ KeptOK' /\ \A e \in refusedReports' : Refusable(e, rows')
  BY DEF ReportsInv, RowsOK, RowOK, KeptOK, HasRow, IsRecorded, Refusable
<1>2. work' \in Works'
  BY DEF Works
<1>3. EventsOK'
  BY DEF EventsOK, EventOK
<1>4. BatchOK' /\ EntryOK'
  BY DEF BatchOK, EntryOK
<1> QED
  BY <1>1, <1>2, <1>3, <1>4 DEF ReportsInv

LEMMA WorkFields ==
  ASSUME ReportsInv
  PROVE  /\ work.unit \in {"none", "codex", "other", "entry"} /\ work.rest \in SUBSET Nat
         /\ work.entry \in ReportHooks \cup {0}
         /\ work = [unit |-> work.unit, rest |-> work.rest, events |-> work.events, entry |-> work.entry]
BY DEF ReportsInv, Works

LEMMA SmallSequences ==
  ASSUME NEW e
  PROVE  /\ <<>> \in Seq({e}) /\ DOMAIN <<>> = {}
         /\ <<e>> \in Seq({e}) /\ DOMAIN <<e>> = {1} /\ <<e>>[1] = e
OBVIOUS

LEMMA TakeBatchKeeps ==
  ASSUME ReportsInv, N!TakeBatch
  PROVE  ReportsInv'
<1>1. PICK k \in Nat : /\ k <= Len(outgoing) /\ sent' = k
                       /\ work' = [unit |-> "codex", rest |-> 1..k, events |-> <<>>, entry |-> 0]
  <2>1. sent \in Nat /\ Len(outgoing) \in Nat
    BY DEF ReportsInv
  <2>2. PICK k \in IF sent > 0 THEN {sent} ELSE 1..ReportBatch :
          /\ k <= Len(outgoing) /\ sent' = k
          /\ work' = [unit |-> "codex", rest |-> 1..k, events |-> <<>>, entry |-> 0]
    BY DEF N!TakeBatch
  <2>3. k \in Nat
    BY <2>1, <2>2
  <2> QED
    BY <2>2, <2>3
<1>2. UNCHANGED <<outgoing, spool, rows, answered, refusedReports>>
  BY DEF N!TakeBatch
<1>3. BatchOK'
  <2>1. work'.unit = "codex" /\ work'.rest = 1..k /\ work'.events = <<>> /\ DOMAIN <<>> = {}
    BY <1>1
  <2> QED
    BY <1>1, <2>1 DEF BatchOK
<1>4. Len(outgoing) \in Nat
  BY DEF ReportsInv
<1>5. sent' \in 0..Len(outgoing) /\ 1..k \in SUBSET Nat
  BY <1>1, <1>4
<1>6. (\E S : <<>> \in Seq(S)) /\ \A j \in DOMAIN <<>> : EventOK(<<>>[j])
  BY SmallSequences
<1>7. "codex" # "entry" /\ "codex" \in {"codex", "other", "entry"} /\ 0 \in ReportHooks \cup {0}
  OBVIOUS
<1> QED
  BY <1>1, <1>2, <1>3, <1>5, <1>6, <1>7, WorkChanges

LEMMA ReadCodexKeeps ==
  ASSUME ReportsInv, N!ReadCodex
  PROVE  ReportsInv'
<1>1. PICK i \in N!Foremost(N!OfCodex(work.rest)) :
        work' = [work EXCEPT !.rest = @ \ {i},
                             !.events = IF N!Usage(outgoing[i])
                                        THEN <<N!Reported(N!UsageKey(outgoing[i]), outgoing[i])>> ELSE <<>>]
  BY DEF N!ReadCodex
<1>2. i \in work.rest /\ N!IsCodex(outgoing[i])
  BY <1>1 DEF N!Foremost, N!OfCodex
<1>3. work.unit = "codex" /\ work.events = <<>> /\ UNCHANGED <<outgoing, sent, spool, rows, answered, refusedReports>>
  BY DEF N!ReadCodex, N!reportVars
<1>4. i \in 1..sent /\ work.rest \subseteq 1..sent /\ outgoing[i] \in Reports
  BY <1>2, <1>3 DEF ReportsInv, BatchOK
<1>5. PICK r : r = outgoing[i]
  OBVIOUS
<1>6. PICK e : e = N!Reported(N!UsageKey(r), r)
  OBVIOUS
<1>7. e.of = r.n /\ e.source = r.vendor /\ e.id = <<"usage", r.session, r.tokens>> /\ e.says.of = r.n
  BY <1>6 DEF N!Reported, N!UsageKey
<1>8. PICK events : events = IF N!Usage(r) THEN <<e>> ELSE <<>>
  OBVIOUS
<1>9. work' = [unit |-> "codex", rest |-> work.rest \ {i}, events |-> events, entry |-> work.entry]
  BY <1>1, <1>3, <1>5, <1>6, <1>8, WorkFields
<1>10. (\E S : events \in Seq(S)) /\ \A j \in DOMAIN events : events[j] = e /\ N!Usage(r)
  BY <1>8, SmallSequences
<1>11. N!Usage(r) => EventOK(e) /\ e.source # "hook"
  <2>1. r \in Reports /\ r.vendor # "hook"
    BY <1>4, <1>5, ReportsAssumption
  <2> QED
    BY <1>2, <1>5, <1>7, <2>1 DEF EventOK, RecordNamed
<1>12. BatchOK'
  <2>1. ASSUME NEW k \in 1..sent, N!Supported(outgoing[k])
        PROVE  \/ k \in work.rest \ {i} \/ IsRecorded(outgoing[k], rows)
               \/ \E j \in DOMAIN events : events[j].of = outgoing[k].n
    <3>1. CASE k = i
      <4>1. N!Usage(r)
        BY <1>2, <1>5, <2>1, <3>1 DEF N!Supported
      <4>2. 1 \in DOMAIN events /\ events[1] = e
        BY <1>8, <4>1, SmallSequences
      <4> QED
        BY <1>5, <1>7, <3>1, <4>2
    <3>2. CASE k # i
      <4>1. DOMAIN work.events = {}
        BY <1>3
      <4> QED
        BY <1>3, <2>1, <3>2, <4>1 DEF ReportsInv, BatchOK
    <3> QED
      BY <3>1, <3>2
  <2>2. work.rest \ {i} \subseteq 1..sent /\ \A j \in DOMAIN events : events[j].source # "hook"
    BY <1>4, <1>10, <1>11
  <2> QED
    BY <1>3, <1>9, <2>1, <2>2 DEF BatchOK
<1>13. sent' \in 0..Len(outgoing) /\ work.rest \ {i} \in SUBSET Nat /\ work.entry \in ReportHooks \cup {0}
  BY <1>3, WorkFields DEF ReportsInv
<1>14. (\E S : events \in Seq(S)) /\ \A j \in DOMAIN events : EventOK(events[j])
  BY <1>10, <1>11
<1>15. "codex" # "entry" /\ "codex" \in {"codex", "other", "entry"}
  OBVIOUS
<1> QED
  BY <1>3, <1>9, <1>12, <1>13, <1>14, <1>15, WorkChanges

(* The key of a record of the others.                                      *)
LEMMA RecordKeyNames ==
  ASSUME NEW m, NEW r, ~N!IsCodex(r)
  PROVE  RecordNamed(N!RecordKey(m, r), r)
<1>1. CASE r.at # 0
  BY <1>1 DEF RecordNamed, N!RecordKey
<1>2. CASE r.at = 0 /\ r.tool # None
  BY <1>2 DEF RecordNamed, N!RecordKey, N!KeyOf
<1>3. CASE r.at = 0 /\ r.tool = None
  <2>1. N!RecordKey(m, r) = <<"seq", r.kind, r.session, m.nonce, N!Counted(m, r.session).seq[r.session]>>
    BY <1>3 DEF N!RecordKey, N!KeyOf, N!SeqKey
  <2> HIDE DEF N!RecordKey
  <2> QED
    BY <1>3, <2>1 DEF RecordNamed
<1> QED
  BY <1>1, <1>2, <1>3

LEMMA AppendedTo ==
  ASSUME NEW S, NEW s \in Seq(S), NEW e
  PROVE  /\ Append(s, e) \in Seq(S \cup {e})
         /\ DOMAIN Append(s, e) = DOMAIN s \cup {Len(s) + 1}
         /\ \A j \in DOMAIN s : Append(s, e)[j] = s[j]
         /\ Append(s, e)[Len(s) + 1] = e
<1>1. s \in Seq(S \cup {e})
  OBVIOUS
<1> QED
  BY <1>1

LEMMA ReadOtherKeeps ==
  ASSUME ReportsInv, N!ReadOther
  PROVE  ReportsInv'
<1>1. PICK i \in N!Foremost(work.rest) :
        work' = [work EXCEPT !.unit = "other", !.rest = @ \ {i},
                   !.events = IF outgoing[i].kind = "other" THEN @
                              ELSE Append(@, N!Reported(N!RecordKey(memory, outgoing[i]), outgoing[i]))]
  BY DEF N!ReadOther
<1>2. i \in work.rest /\ ~N!IsCodex(outgoing[i])
  BY <1>1 DEF N!ReadOther, N!Foremost, N!OfCodex
<1>3. work.unit \in {"codex", "other"} /\ UNCHANGED <<outgoing, sent, spool, rows, answered, refusedReports>>
  BY DEF N!ReadOther, N!reportVars
<1>4. i \in 1..sent /\ work.rest \subseteq 1..sent /\ outgoing[i] \in Reports
  BY <1>2, <1>3 DEF ReportsInv, BatchOK
<1>5. PICK r : r = outgoing[i]
  OBVIOUS
<1>6. PICK e : e = N!Reported(N!RecordKey(memory, r), r)
  OBVIOUS
<1>7. e.of = r.n /\ e.source = r.vendor /\ e.id = N!RecordKey(memory, r) /\ e.says.of = r.n
  BY <1>6 DEF N!Reported
<1>8. PICK ready : ready = work.events
  OBVIOUS
<1>9. PICK events : events = IF r.kind = "other" THEN ready ELSE Append(ready, e)
  OBVIOUS
<1>10. work' = [unit |-> "other", rest |-> work.rest \ {i}, events |-> events, entry |-> work.entry]
  BY <1>1, <1>5, <1>6, <1>8, <1>9, WorkFields
<1>11. PICK S : ready \in Seq(S)
  BY <1>8 DEF ReportsInv, EventsOK
<1>12. /\ \E T : events \in Seq(T)
       /\ DOMAIN ready \subseteq DOMAIN events
       /\ \A j \in DOMAIN ready : events[j] = ready[j]
       /\ \A j \in DOMAIN events \ DOMAIN ready : events[j] = e
       /\ r.kind # "other" => \E j \in DOMAIN events : events[j] = e
  <2>1. CASE r.kind = "other"
    BY <1>9, <1>11, <2>1
  <2>2. CASE r.kind # "other"
    <3>1. events = Append(ready, e)
      BY <1>9, <2>2
    <3>2. events \in Seq(S \cup {e}) /\ DOMAIN events = DOMAIN ready \cup {Len(ready) + 1}
      BY <1>11, <3>1, AppendedTo
    <3>3. (\A j \in DOMAIN ready : events[j] = ready[j]) /\ events[Len(ready) + 1] = e
      BY <1>11, <3>1, AppendedTo
    <3>4. PICK last : last = Len(ready) + 1
      OBVIOUS
    <3>5. DOMAIN events = DOMAIN ready \cup {last} /\ events[last] = e
      BY <3>2, <3>3, <3>4
    <3> QED
      BY <3>2, <3>3, <3>5
  <2> QED
    BY <2>1, <2>2
<1>13. EventOK(e) /\ e.source # "hook"
  <2>1. r \in Reports /\ r.vendor # "hook"
    BY <1>4, <1>5, ReportsAssumption
  <2>2. RecordNamed(e.id, r)
    BY <1>2, <1>5, <1>7, RecordKeyNames
  <2> QED
    BY <1>7, <2>1, <2>2 DEF EventOK
<1>14. \A j \in DOMAIN events : EventOK(events[j]) /\ events[j].source # "hook"
  <2>1. \A j \in DOMAIN ready : EventOK(ready[j]) /\ ready[j].source # "hook"
    BY <1>3, <1>8 DEF ReportsInv, EventsOK, BatchOK
  <2> QED
    BY <1>12, <1>13, <2>1
<1>15. BatchOK'
  <2>1. ASSUME NEW k \in 1..sent, N!Supported(outgoing[k])
        PROVE  \/ k \in work.rest \ {i} \/ IsRecorded(outgoing[k], rows)
               \/ \E j \in DOMAIN events : events[j].of = outgoing[k].n
    <3>1. CASE k = i
      <4>1. r.kind # "other"
        BY <1>2, <1>5, <2>1, <3>1 DEF N!Supported
      <4> QED
        BY <1>5, <1>7, <1>12, <3>1, <4>1
    <3>2. CASE k # i
      <4>1. \/ k \in work.rest \/ IsRecorded(outgoing[k], rows)
            \/ \E j \in DOMAIN ready : ready[j].of = outgoing[k].n
        BY <1>3, <1>8, <2>1 DEF ReportsInv, BatchOK
      <4> QED
        BY <1>12, <3>2, <4>1
    <3> QED
      BY <3>1, <3>2
  <2>2. work.rest \ {i} \subseteq 1..sent
    BY <1>4
  <2> QED
    BY <1>3, <1>10, <1>14, <2>1, <2>2 DEF BatchOK
<1>16. sent' \in 0..Len(outgoing) /\ work.rest \ {i} \in SUBSET Nat /\ work.entry \in ReportHooks \cup {0}
  BY <1>3, WorkFields DEF ReportsInv
<1>17. (\E T : events \in Seq(T)) /\ \A j \in DOMAIN events : EventOK(events[j])
  BY <1>12, <1>14
<1>18. "other" # "entry" /\ "other" \in {"codex", "other", "entry"}
  OBVIOUS
<1> QED
  BY <1>3, <1>10, <1>15, <1>16, <1>17, <1>18, WorkChanges

(* A row more, of an event that nothing contradicts.                       *)
LEMMA RowRecorded ==
  ASSUME RowsOK, NEW e, EventOK(e), NEW row, row = [id |-> e.id, says |-> e.says],
         N!PassedOver(e) \/ row \in rows \/ ~N!Committed(e.id),
         NEW R, N!PassedOver(e) => R = rows, ~N!PassedOver(e) => R = rows \cup {row}
  PROVE  /\ rows \subseteq R
         /\ \A one \in R : RowOK(one) /\ one = [id |-> one.id, says |-> one.says]
         /\ \A one, copy \in R : one.id = copy.id => one = copy
         /\ \A r \in Reports : r.n = e.of => IsRecorded(r, R)
         /\ e.source = "hook" => HasRow(e.of, R)
<1>2. row.id = e.id /\ row.says = e.says /\ row.says.of = e.of
  BY DEF EventOK
<1>3. RowOK(row) /\ row = [id |-> row.id, says |-> row.says]
  BY <1>2 DEF EventOK, RowOK
<1>4. (N!PassedOver(e) => R = rows) /\ (~N!PassedOver(e) => R = rows \cup {row})
  OBVIOUS
<1>5. \A other \in R : RowOK(other) /\ other = [id |-> other.id, says |-> other.says]
  BY <1>3, <1>4 DEF RowsOK
<1>6. \A one, copy \in R : one.id = copy.id => one = copy
  <2>1. CASE N!PassedOver(e) \/ row \in rows
    BY <1>4, <2>1 DEF RowsOK
  <2>2. CASE ~N!Committed(e.id)
    <3>1. \A one \in rows : one.id # row.id
      BY <1>2, <2>2 DEF N!Committed
    <3> QED
      BY <1>4, <3>1 DEF RowsOK
  <2> QED
    BY <2>1, <2>2
<1>7. CASE ~N!PassedOver(e)
  <2>1. HasRow(e.of, R)
    BY <1>2, <1>4, <1>7 DEF HasRow
  <2> QED
    BY <1>4, <1>5, <1>6, <2>1 DEF IsRecorded
<1>8. CASE N!PassedOver(e)
  <2>1. e.source = "codex" /\ R = rows
    BY <1>4, <1>8 DEF N!PassedOver
  <2>2. PICK copy \in rows : copy.id = e.id
    BY <1>8 DEF N!PassedOver, N!Committed
  <2>3. PICK r \in Reports : e.of = r.n /\ e.source = r.vendor /\ RecordNamed(e.id, r)
    BY <2>1 DEF EventOK
  <2>4. N!IsCodex(r)
    BY <2>1, <2>3 DEF N!IsCodex
  <2>5. N!UsageKey(r) = e.id
    BY <2>3, <2>4 DEF RecordNamed, N!UsageKey
  <2>6. PICK x \in Reports : copy.says.of = x.n /\ RecordNamed(copy.id, x)
    <3>1. \A h : copy.id # <<"spool", h>>
      BY <2>2, <2>3, NamesTell
    <3> QED
      BY <3>1 DEF RowsOK, RowOK
  <2>7. N!IsCodex(x) /\ N!UsageKey(x) = e.id
    BY <2>2, <2>3, <2>4, <2>6, NamesTell
  <2>8. HasRow(x.n, R)
    BY <2>1, <2>6 DEF HasRow
  <2>9. IsRecorded(r, R)
    BY <2>4, <2>5, <2>7, <2>8 DEF IsRecorded
  <2>10. \A other \in Reports : other.n = e.of => other = r
    BY <2>3, ReportsAssumption
  <2> QED
    BY <1>4, <1>5, <1>6, <2>1, <2>9, <2>10
<1> QED
  BY <1>7, <1>8

(* What is refused is of Claude Code, and something says otherwise.        *)
LEMMA RefusedIsRefusable ==
  ASSUME RowsOK, NEW e, EventOK(e), e.source # "hook",
         ~N!PassedOver(e), [id |-> e.id, says |-> e.says] \notin rows, N!Committed(e.id)
  PROVE  Refusable(e, rows)
<1>1. PICK r \in Reports : e.of = r.n /\ e.source = r.vendor /\ RecordNamed(e.id, r)
  BY DEF EventOK
<1>2. e.source = "claude" /\ ~N!IsCodex(r)
  BY <1>1, ReportsAssumption DEF N!PassedOver, N!IsCodex
<1>3. PICK copy \in rows : copy.id = e.id
  BY DEF N!Committed
<1>4. RowOK(copy) /\ copy = [id |-> copy.id, says |-> copy.says]
  BY DEF RowsOK
<1>5. CASE copy.says.of = e.of
  <2>1. copy.says # e.says
    BY <1>3, <1>4
  <2> QED
    BY <1>2, <1>3, <1>5, <2>1 DEF Refusable
<1>6. CASE copy.says.of # e.of
  <2>1. \A h : copy.id # <<"spool", h>>
    BY <1>1, <1>3, NamesTell
  <2>2. PICK x \in Reports : copy.says.of = x.n /\ RecordNamed(e.id, x)
    BY <1>3, <1>4, <2>1 DEF RowOK
  <2>3. r.at = x.at /\ r.tool = x.tool /\ (r.tool # None \/ r.session = x.session)
    BY <1>1, <1>2, <2>2, NamesTell
  <2>4. r.session = x.session /\ x # r
    BY <1>1, <1>6, <2>2, <2>3, ReportsAssumption
  <2> QED
    BY <1>1, <1>2, <2>3, <2>4 DEF Refusable
<1> QED
  BY <1>5, <1>6

(* Recorded, or against a row: then the process ends.                      *)
LEMMA PersistKeeps ==
  ASSUME ReportsInv, N!Persist
  PROVE  ReportsInv'
<1>1. PICK ready : ready = work.events
  OBVIOUS
<1>2. PICK S : ready \in Seq(S)
  BY <1>1 DEF ReportsInv, EventsOK
<1>3. ready # <<>> /\ UNCHANGED <<outgoing, sent, spool, answered>>
  BY <1>1 DEF N!Persist, N!reportVars
<1>4. PICK e : e = Head(ready)
  OBVIOUS
<1>5. 1 \in DOMAIN ready /\ ready[1] = e
  BY <1>2, <1>3, <1>4
<1>6. EventOK(e)
  BY <1>1, <1>5 DEF ReportsInv, EventsOK
<1>7. CASE /\ N!PassedOver(e) \/ [id |-> e.id, says |-> e.says] \in rows \/ ~N!Committed(e.id)
           /\ rows' = IF N!PassedOver(e) THEN rows ELSE rows \cup {[id |-> e.id, says |-> e.says]}
           /\ work' = [work EXCEPT !.events = Tail(@)] /\ refusedReports' = refusedReports
  <2>1. PICK R : R = rows'
    OBVIOUS
  <2>2. /\ rows \subseteq R
        /\ \A row \in R : RowOK(row) /\ row = [id |-> row.id, says |-> row.says]
        /\ \A row, copy \in R : row.id = copy.id => row = copy
        /\ \A r \in Reports : r.n = e.of => IsRecorded(r, R)
        /\ e.source = "hook" => HasRow(e.of, R)
    <3>1. RowsOK
      BY DEF ReportsInv
    <3>2. PICK new : new = [id |-> e.id, says |-> e.says]
      OBVIOUS
    <3>3. (N!PassedOver(e) => R = rows) /\ (~N!PassedOver(e) => R = rows \cup {new})
      BY <1>7, <2>1, <3>2
    <3>4. N!PassedOver(e) \/ new \in rows \/ ~N!Committed(e.id)
      BY <1>7, <3>2
    <3> QED
      BY <1>6, <3>1, <3>2, <3>3, <3>4, RowRecorded, SMTT(20)
  <2>3. PICK rest : rest = Tail(ready)
    OBVIOUS
  <2>4. work' = [unit |-> work.unit, rest |-> work.rest, events |-> rest, entry |-> work.entry]
    BY <1>1, <1>7, <2>3, WorkFields
  <2>5. rest \in Seq(S) /\ \A j \in DOMAIN rest : j + 1 \in DOMAIN ready /\ rest[j] = ready[j + 1]
    BY <1>2, <1>3, <2>3
  <2>6. \A j \in DOMAIN ready : j # 1 => \E i \in DOMAIN rest : rest[i] = ready[j]
    <3> SUFFICES ASSUME NEW j \in DOMAIN ready, j # 1 PROVE \E i \in DOMAIN rest : rest[i] = ready[j]
      OBVIOUS
    <3>1. j - 1 \in DOMAIN rest /\ rest[j - 1] = ready[j]
      BY <1>2, <1>3, <2>3
    <3> QED
      BY <3>1
  <2>7. \A j \in DOMAIN rest : EventOK(rest[j])
    BY <1>1, <2>5 DEF ReportsInv, EventsOK
  <2>8. RowsOK'
    BY <2>1, <2>2 DEF RowsOK, RowOK
  <2>9. KeptOK' /\ \A x \in refusedReports' : Refusable(x, rows')
    <3>1. KeptOK'
      BY <1>3, <2>1, <2>2, RowsGrow DEF ReportsInv, KeptOK, HasRow, IsRecorded
    <3>2. \A x \in refusedReports : Refusable(x, R)
      BY <2>2, RowsGrow DEF ReportsInv
    <3> QED
      BY <1>7, <2>1, <3>1, <3>2 DEF Refusable
  <2>10. EventsOK' /\ work' \in Works' /\ work.unit # "none"
    <3>1. EventsOK'
      BY <2>4, <2>5, <2>7 DEF EventsOK, EventOK
    <3>2. work' \in Works'
      BY <2>4, WorkFields DEF Works
    <3>3. work.unit # "none"
      BY <1>1, <1>3 DEF ReportsInv
    <3> QED
      BY <3>1, <3>2, <3>3
  <2>11. BatchOK'
    <3> SUFFICES ASSUME work.unit \in {"codex", "other"} PROVE BatchOK'
      BY <2>4 DEF BatchOK
    <3>1. work.rest \subseteq 1..sent /\ \A j \in DOMAIN ready : ready[j].source # "hook"
      BY <1>1 DEF ReportsInv, BatchOK
    <3>2. ASSUME NEW k \in 1..sent, N!Supported(outgoing[k])
          PROVE  \/ k \in work.rest \/ IsRecorded(outgoing[k], R)
                 \/ \E i \in DOMAIN rest : rest[i].of = outgoing[k].n
      <4>1. outgoing[k] \in Reports
        BY DEF ReportsInv
      <4>2. CASE k \in work.rest \/ IsRecorded(outgoing[k], rows)
        BY <2>2, <4>2, RowsGrow
      <4>3. CASE \E j \in DOMAIN ready : ready[j].of = outgoing[k].n
        <5>1. PICK j \in DOMAIN ready : ready[j].of = outgoing[k].n
          BY <4>3
        <5>2. CASE j = 1
          BY <1>5, <2>2, <4>1, <5>1, <5>2
        <5>3. CASE j # 1
          BY <2>6, <5>1, <5>3
        <5> QED
          BY <5>2, <5>3
      <4> QED
        BY <1>1, <3>2, <4>2, <4>3 DEF ReportsInv, BatchOK
    <3>3. \A j \in DOMAIN rest : rest[j].source # "hook"
      BY <2>5, <3>1
    <3>4. \A k \in 1..sent : N!Supported(outgoing[k]) =>
            \/ k \in work.rest \/ IsRecorded(outgoing[k], rows')
            \/ \E i \in DOMAIN rest : rest[i].of = outgoing[k].n
      BY <2>1, <3>2
    <3> QED
      BY <1>3, <2>4, <3>1, <3>3, <3>4 DEF BatchOK, IsRecorded, HasRow, N!Supported
  <2>12. EntryOK'
    <3> SUFFICES ASSUME work.unit = "entry" PROVE EntryOK'
      BY <2>4 DEF EntryOK
    <3>1. PICK x : work.events = <<x>> /\ x.of = work.entry /\ x.source = "hook"
      BY <1>1, <1>3 DEF ReportsInv, EntryOK
    <3>2. x = e /\ rest = <<>>
      BY <1>1, <1>4, <2>3, <3>1
    <3>3. HasRow(work.entry, rows') /\ work.entry \in ReportHooks
      BY <2>1, <2>2, <3>1, <3>2 DEF ReportsInv, EntryOK
    <3> QED
      BY <2>4, <3>2, <3>3 DEF EntryOK
  <2> QED
    BY <1>3, <2>4, <2>8, <2>9, <2>10, <2>11, <2>12 DEF ReportsInv
<1>8. CASE /\ ~N!PassedOver(e) /\ [id |-> e.id, says |-> e.says] \notin rows /\ N!Committed(e.id)
           /\ refusedReports' = refusedReports \cup {e} /\ N!Gone /\ rows' = rows
  <2>1. e.source # "hook"
    <3>1. CASE work.unit \in {"codex", "other"}
      BY <1>1, <1>5, <3>1 DEF ReportsInv, BatchOK
    <3>2. CASE work.unit = "entry"
      <4>1. PICK x : work.events = <<x>> /\ ~HasIdentity(x.id, rows)
        BY <1>1, <1>3, <3>2 DEF ReportsInv, EntryOK
      <4>2. x = e
        BY <1>1, <1>4, <4>1
      <4> QED
        BY <1>8, <4>1, <4>2 DEF HasIdentity, N!Committed
    <3>3. CASE work.unit = "none"
      BY <1>1, <1>3, <3>3 DEF ReportsInv
    <3> QED
      BY <3>1, <3>2, <3>3, WorkFields
  <2>2. Refusable(e, rows)
    BY <1>6, <1>8, <2>1, RefusedIsRefusable DEF ReportsInv
  <2>3. \A x \in refusedReports' : Refusable(x, rows')
    BY <1>8, <2>2 DEF ReportsInv, Refusable
  <2>4. RowsOK' /\ KeptOK'
    BY <1>3, <1>8 DEF ReportsInv, RowsOK, RowOK, KeptOK, HasRow, IsRecorded
  <2>5. work' = [unit |-> "none", rest |-> {}, events |-> <<>>, entry |-> 0]
    BY <1>8 DEF N!Gone, N!NoWork
  <2>6. work' \in Works' /\ BatchOK' /\ EntryOK'
    BY <2>5 DEF Works, BatchOK, EntryOK
  <2>7. EventsOK'
    <3>1. work'.events = <<>> /\ <<>> \in Seq({}) /\ DOMAIN <<>> = {}
      BY <2>5
    <3> QED
      BY <3>1 DEF EventsOK
  <2> QED
    BY <1>3, <2>3, <2>4, <2>5, <2>6, <2>7 DEF ReportsInv
<1> QED
  BY <1>1, <1>4, <1>7, <1>8 DEF N!Persist

LEMMA AnswerKeeps ==
  ASSUME ReportsInv, N!Answer
  PROVE  ReportsInv'
<1>1. /\ work' = N!NoWork /\ UNCHANGED <<spool, rows, refusedReports>>
      /\ work.unit \in {"codex", "other"} /\ work.rest = {} /\ work.events = <<>>
  BY DEF N!Answer
<1>2. CASE UNCHANGED <<answered, outgoing, sent>>
  BY <1>1, <1>2, ReportsGoOn DEF ReportsInv
<1>3. CASE /\ answered' = answered \cup {outgoing[i].n : i \in 1..sent}
           /\ outgoing' = SubSeq(outgoing, sent + 1, Len(outgoing)) /\ sent' = 0
  <2>1. \A i \in 1..sent : outgoing[i] \in Reports
    BY DEF ReportsInv
  <2>2. \A i \in 1..sent : N!Supported(outgoing[i]) => IsRecorded(outgoing[i], rows)
    <3>1. DOMAIN work.events = {}
      BY <1>1
    <3> QED
      BY <1>1, <3>1 DEF ReportsInv, BatchOK
  <2>3. \A r \in Reports : r.n \in answered' /\ N!Supported(r) => IsRecorded(r, rows)
    <3> SUFFICES ASSUME NEW r \in Reports, r.n \in answered', N!Supported(r)
                 PROVE  IsRecorded(r, rows)
      OBVIOUS
    <3>1. CASE r.n \in answered
      BY <3>1 DEF ReportsInv, KeptOK
    <3>2. CASE \E i \in 1..sent : r.n = outgoing[i].n
      <4>1. PICK i \in 1..sent : r.n = outgoing[i].n
        BY <3>2
      <4>2. r = outgoing[i]
        BY <2>1, <4>1, ReportsAssumption
      <4> QED
        BY <2>2, <4>2
    <3> QED
      BY <1>3, <3>1, <3>2
  <2>4. \A h \in ReportHooks : h \in answered' /\ HookSays[h].kind # "other" => HasRow(h, rows)
    BY <1>3, <2>1, ReportsAssumption DEF ReportsInv, KeptOK
  <2>5. KeptOK'
    BY <1>1, <2>3, <2>4 DEF KeptOK, IsRecorded, HasRow
  <2>6. RowsOK' /\ \A e \in refusedReports' : Refusable(e, rows')
    BY <1>1 DEF ReportsInv, RowsOK, RowOK, Refusable
  <2>7. outgoing' \in Seq(Reports) /\ sent' \in 0..Len(outgoing')
    BY <1>3 DEF ReportsInv
  <2>8. work' = [unit |-> "none", rest |-> {}, events |-> <<>>, entry |-> 0]
    BY <1>1 DEF N!NoWork
  <2>9. work' \in Works' /\ BatchOK' /\ EntryOK'
    BY <2>8 DEF Works, BatchOK, EntryOK
  <2>10. EventsOK'
    <3>1. work'.events = <<>> /\ <<>> \in Seq({}) /\ DOMAIN <<>> = {}
      BY <2>8
    <3> QED
      BY <3>1 DEF EventsOK
  <2> QED
    BY <1>1, <2>5, <2>6, <2>7, <2>8, <2>9, <2>10 DEF ReportsInv
<1> QED
  BY <1>2, <1>3 DEF N!Answer

(* An entry whose event is recorded already has none to record.            *)
LEMMA OpenEntryKeeps ==
  ASSUME ReportsInv, N!OpenEntry
  PROVE  ReportsInv'
<1>1. PICK h \in spool :
        work' = [unit |-> "entry", rest |-> {}, events |-> N!HookWork(h), entry |-> h]
  BY DEF N!OpenEntry
<1>2. h \in ReportHooks /\ UNCHANGED <<outgoing, sent, spool, rows, answered, refusedReports>>
  BY <1>1 DEF ReportsInv, N!OpenEntry, N!reportVars
<1>3. PICK e : e = N!HookEvent(h)
  OBVIOUS
<1>4. e.of = h /\ e.source = "hook" /\ e.id = <<"spool", h>> /\ e.says.of = h
  BY <1>3 DEF N!HookEvent, N!HookKey
<1>5. PICK events : events = N!HookWork(h)
  OBVIOUS
<1>6. work' = [unit |-> "entry", rest |-> {}, events |-> events, entry |-> h]
  BY <1>1, <1>5
<1>7. CASE HookSays[h].kind = "other" \/ HasIdentity(<<"spool", h>>, rows)
  <2>1. events = <<>>
    BY <1>5, <1>7 DEF N!HookWork, N!Committed, N!HookKey, HasIdentity
  <2>2. HookSays[h].kind # "other" => HasRow(h, rows)
    <3> SUFFICES ASSUME HookSays[h].kind # "other" PROVE HasRow(h, rows)
      OBVIOUS
    <3>1. PICK row \in rows : row.id = <<"spool", h>>
      BY <1>7 DEF HasIdentity
    <3>2. row.says.of = h
      BY <1>2, <3>1, RowTells DEF ReportsInv, RowsOK
    <3> QED
      BY <3>2 DEF HasRow
  <2>3. EntryOK'
    BY <1>2, <1>6, <2>1, <2>2 DEF EntryOK, HasRow
  <2>4. (\E S : events \in Seq(S)) /\ \A j \in DOMAIN events : EventOK(events[j])
    BY <2>1, SmallSequences
  <2>5. sent' \in 0..Len(outgoing) /\ {} \in SUBSET Nat /\ h \in ReportHooks \cup {0} /\ "entry" \in {"codex", "other", "entry"}
    BY <1>2 DEF ReportsInv
  <2> QED
    BY <1>2, <1>6, <2>3, <2>4, <2>5, WorkChanges
<1>8. CASE HookSays[h].kind # "other" /\ ~HasIdentity(<<"spool", h>>, rows)
  <2>1. events = <<e>>
    BY <1>3, <1>5, <1>8 DEF N!HookWork, N!Committed, N!HookKey, HasIdentity
  <2>2. EntryOK'
    BY <1>2, <1>4, <1>6, <1>8, <2>1 DEF EntryOK, HasIdentity
  <2>3. EventOK(e)
    BY <1>2, <1>4 DEF EventOK
  <2>4. (\E S : events \in Seq(S)) /\ \A j \in DOMAIN events : EventOK(events[j])
    BY <2>1, <2>3, SmallSequences
  <2>5. sent' \in 0..Len(outgoing) /\ {} \in SUBSET Nat /\ h \in ReportHooks \cup {0} /\ "entry" \in {"codex", "other", "entry"}
    BY <1>2 DEF ReportsInv
  <2> QED
    BY <1>2, <1>6, <2>2, <2>4, <2>5, WorkChanges
<1> QED
  BY <1>7, <1>8

LEMMA RemoveEntryKeeps ==
  ASSUME ReportsInv, N!RemoveEntry
  PROVE  ReportsInv'
<1>1. /\ work' = N!NoWork /\ UNCHANGED <<outgoing, sent, rows, refusedReports>>
      /\ work.unit = "entry" /\ work.events = <<>>
  BY DEF N!RemoveEntry
<1>2. spool' \subseteq ReportHooks
  BY DEF N!RemoveEntry, ReportsInv
<1>3. CASE answered' = answered
  BY <1>1, <1>2, <1>3, ReportsGoOn DEF ReportsInv
<1>4. CASE answered' = answered \cup {work.entry}
  <2>1. work.entry \in ReportHooks /\ (HookSays[work.entry].kind # "other" => HasRow(work.entry, rows))
    <3>1. \A e : work.events # <<e>>
      BY <1>1
    <3> QED
      BY <1>1, <3>1 DEF ReportsInv, EntryOK
  <2>2. KeptOK'
    BY <1>1, <1>4, <2>1, ReportsAssumption DEF ReportsInv, KeptOK, IsRecorded, HasRow
  <2>3. RowsOK' /\ \A e \in refusedReports' : Refusable(e, rows')
    BY <1>1 DEF ReportsInv, RowsOK, RowOK, Refusable
  <2>4. work' = [unit |-> "none", rest |-> {}, events |-> <<>>, entry |-> 0]
    BY <1>1 DEF N!NoWork
  <2>5. work' \in Works' /\ BatchOK' /\ EntryOK'
    BY <2>4 DEF Works, BatchOK, EntryOK
  <2>6. EventsOK'
    <3>1. work'.events = <<>> /\ <<>> \in Seq({}) /\ DOMAIN <<>> = {}
      BY <2>4
    <3> QED
      BY <3>1 DEF EventsOK
  <2> QED
    BY <1>1, <1>2, <2>2, <2>3, <2>4, <2>5, <2>6 DEF ReportsInv
<1> QED
  BY <1>3, <1>4 DEF N!RemoveEntry

LEMMA ReportsInvStep ==
  ASSUME ReportsInv, [N!NormNext]_(N!normVars)
  PROVE  ReportsInv'
<1>1. CASE \E r \in Reports : N!Happen(r)
  <2>1. PICK r \in Reports : N!Happen(r)
    BY <1>1
  <2>2. work.unit = "none" /\ sent = 0 /\ outgoing' = Append(outgoing, r)
        /\ UNCHANGED <<work, sent, spool, rows, answered, refusedReports>>
    BY <2>1 DEF N!Happen, N!processVars
  <2>3. outgoing' \in Seq(Reports) /\ sent' \in 0..Len(outgoing')
    BY <2>2 DEF ReportsInv
  <2>4. BatchOK' /\ EntryOK'
    BY <2>2 DEF BatchOK, EntryOK
  <2>5. RowsOK' /\ KeptOK' /\ EventsOK' /\ work' \in Works' /\ \A e \in refusedReports' : Refusable(e, rows')
    BY <2>2 DEF ReportsInv, RowsOK, RowOK, KeptOK, HasRow, IsRecorded, Refusable, EventsOK, EventOK, Works
  <2> QED
    BY <2>2, <2>3, <2>4, <2>5 DEF ReportsInv
<1>2. CASE \E h \in ReportHooks : N!Fire(h)
  <2>1. /\ UNCHANGED <<work, outgoing, sent, rows, answered, refusedReports>>
        /\ spool' \subseteq ReportHooks
    BY <1>2 DEF N!Fire, N!processVars, ReportsInv
  <2> QED
    BY <2>1, ReportsGoOn
<1>3. CASE N!Change \/ N!Begins \/ N!Expire \/ UNCHANGED N!normVars
  <2>1. UNCHANGED <<work, spool, outgoing, sent, rows, answered, refusedReports>>
    BY <1>3 DEF N!Change, N!Begins, N!Expire, N!normVars, N!reportVars, N!processVars
  <2> QED
    BY <2>1, ReportsGoOn DEF ReportsInv
<1>4. CASE N!Crash
  <2>1. work' = N!NoWork /\ UNCHANGED <<spool, outgoing, sent, rows, answered, refusedReports>>
    BY <1>4 DEF N!Crash, N!Gone, N!reportVars
  <2> QED
    BY <2>1, ReportsGoOn DEF ReportsInv
<1> QED
  BY <1>1, <1>2, <1>3, <1>4, TakeBatchKeeps, ReadCodexKeeps, ReadOtherKeeps, PersistKeeps, AnswerKeeps,
     OpenEntryKeeps, RemoveEntryKeeps DEF N!NormNext

LEMMA ReportsInvHolds == ReportsInv => ReportsHold
<1> SUFFICES ASSUME ReportsInv PROVE ReportsHold
  OBVIOUS
<1>1. N!EveryReportKept
  BY DEF ReportsInv, KeptOK, IsRecorded, HasRow, N!EveryReportKept, N!RowsOf
<1>2. N!ReportsCountedOnce
  <2>1. ASSUME NEW r \in Reports, r.at # 0 \/ r.tool # None \/ N!IsCodex(r),
               NEW row \in N!RowsOf(r.n), NEW copy \in N!RowsOf(r.n)
        PROVE  row = copy
    <3>1. row \in rows /\ copy \in rows /\ row.says.of = r.n /\ copy.says.of = r.n
      BY DEF N!RowsOf
    <3>2. RecordNamed(row.id, r) /\ RecordNamed(copy.id, r)
      BY <3>1, RowTells DEF ReportsInv, RowsOK
    <3>3. row.id = copy.id
      BY <2>1, <3>2 DEF RecordNamed
    <3> QED
      BY <3>1, <3>3 DEF ReportsInv, RowsOK
  <2>2. ASSUME NEW h \in ReportHooks, NEW row \in N!RowsOf(h), NEW copy \in N!RowsOf(h)
        PROVE  row = copy
    <3>1. row \in rows /\ copy \in rows /\ row.says.of = h /\ copy.says.of = h
      BY DEF N!RowsOf
    <3>2. row.id = copy.id
      <4>1. RowOK(row) /\ RowOK(copy)
        BY <3>1 DEF ReportsInv, RowsOK
      <4>2. row.id = <<"spool", h>> /\ copy.id = <<"spool", h>>
        BY <3>1, <4>1, RowTells
      <4> QED
        BY <4>2
    <3> QED
      BY <3>1, <3>2 DEF ReportsInv, RowsOK
  <2> QED
    BY <2>1, <2>2 DEF N!ReportsCountedOnce
<1>3. N!OnlyRecordsRefused
  BY DEF ReportsInv, Refusable, N!OnlyRecordsRefused
<1> QED
  BY <1>1, <1>2, <1>3 DEF ReportsHold

(* What was answered for, or removed from the spool, is recorded; what has *)
(* a time, a tool call or a usage of Codex to go by is counted once,       *)
(* however often it arrives and whichever process reads it; and only a     *)
(* record of Claude Code contradicts a row (otlp.rs and hook.rs of the     *)
(* adapters; drain_spool, ingest_otlp and persist_event of agent.rs).      *)
THEOREM CollectorsReportsHold == CollectorsSpec => []ReportsHold
<1>1. CollectorsInit => ReportsInv
  BY ReportsInitially
<1>2. ReportsInv /\ [CollectorsNext]_collectorsVars => ReportsInv'
  BY ReportsInvStep, ReportsStep
<1>3. ReportsInv => ReportsHold
  BY ReportsInvHolds
<1> QED
  BY <1>1, <1>2, <1>3, PTL DEF CollectorsSpec
=============================================================================

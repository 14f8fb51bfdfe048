----------------------------- MODULE DesktopChat -----------------------------
(***************************************************************************)
(* The collector of the chats of Claude Desktop                            *)
(* (crates/cli/src/claude_desktop_tailer.rs, collect and link_responses of  *)
(* claude_plugin.rs, drain_claude_desktop of agent.rs) and the attribution   *)
(* of measured usage to a message (resolved_source of sink/src/store.rs).   *)
(*                                                                         *)
(* The browser's cache shows messages, conversation settings and models of    *)
(* responses; it may lose any of them between two scans. The inbox of the    *)
(* plugin (Receiver) only grows: a row may get a fingerprint it did not      *)
(* have. A snapshot shows the cache of one moment (SnapshotWasTrue of        *)
(* ChromiumStore), the inbox is read before it and again after it. An event  *)
(* is a record; <<kind, key>> is its identity.                             *)
(*                                                                         *)
(* A text is [ascii, other], its numbers of characters; the fingerprint of    *)
(* a message is its text. The rotation of the matching key is left out.      *)
(***************************************************************************)
EXTENDS Integers

CONSTANTS None,
          Offers,      \* what the cache and the inbox may come to hold:
                       \* [items, rows], a row [id, time, print]
          OrgOf,       \* chat -> organisation
          MaxGone,     \* items that vanish from the cache
          MaxDied,     \* crashes of the agent
          LinkWindow   \* 120 seconds

VARIABLES offer,           \* one of Offers
          cache, granted,  \* items shown; chats with a folder grant in the settings
          gone, died,      \* counters that bound the faults
          arrived,         \* rows of the inbox: row -> whether the fingerprint is known
          known,           \* ClaudeDesktopTailer.seen, None before the first scan
          sweep,           \* the scan under way
          records,         \* events of this client in the database
          shown            \* row -> messages it matched in a recorded scan

desktopVars == <<offer, cache, granted, gone, died, arrived, known, sweep, records, shown>>

Chats == DOMAIN OrgOf
ChatItems == offer.items
PluginRows == offer.rows
Resting == [step |-> "none", usage |-> {}, chat |-> {}, prints |-> {}, matched |-> {}, out |-> {}]
ChatId(e) == <<e.kind, e.key>>
ChatIds(E) == {ChatId(e) : e \in E}

DesktopInit ==
  /\ offer \in Offers
  /\ cache = {x \in ChatItems : x.item # "message"} /\ granted = {} /\ gone = 0 /\ died = 0
  /\ arrived = [r \in {} |-> FALSE]
  /\ known = None /\ sweep = Resting /\ records = {}
  /\ shown = [r \in PluginRows |-> {}]
------------------------------------------------------------------------------
(***************************************************************************)
(* normalize: the events of one conversation.                              *)
(***************************************************************************)
ChatEvent(kind, key, time, chat, turn) ==
  [kind |-> kind, key |-> key, time |-> time, chat |-> chat, turn |-> turn, value |-> None]

(* A person's message is a turn, an assistant's with a stop reason a response. *)
MessageKind(m) ==
  CASE m.time # None /\ m.sender = "human" -> "turn"
    [] m.time # None /\ m.sender = "assistant" /\ m.stopped -> "message.received"
    [] OTHER -> None

Messages(chat, S) == {m \in S : m.item = "message" /\ m.chat = chat /\ MessageKind(m) # None}

Base(m) ==
  ChatEvent(MessageKind(m), <<m.chat, m.id>>, m.time, m.chat,
            IF MessageKind(m) = "turn" THEN m.id ELSE m.parent)

(* ASCII characters / 4, others / 1, rounded up.                            *)
Estimate(m) ==
  [Base(m) EXCEPT !.kind = "message.tokens.estimated",
                  !.value = (m.text.ascii + 4 * m.text.other + 3) \div 4]

Folder(m) == [Base(m) EXCEPT !.kind = "conversation.folder.attached", !.key = <<m.chat>>]

First(S, Before(_, _)) == {m \in S : \A o \in S \ {m} : Before(m, o)}

(* One folder event: at the first turn that shows a folder, else, where the   *)
(* settings grant one, at the earliest turn.                                *)
Folders(M, chat) ==
  LET turns == {m \in M : m.sender = "human"}
      marked == {m \in turns : m.folder}
      FirstShown(m, o) == m.at < o.at
      Earlier(m, o) == m.time < o.time \/ (m.time = o.time /\ m.at < o.at)
      first == IF marked # {} THEN First(marked, FirstShown)
               ELSE IF chat \in granted THEN First(turns, Earlier) ELSE {}
  IN  {Folder(m) : m \in first}

Normalize(chat, S) ==
  LET M == Messages(chat, S)
  IN  {Base(m) : m \in M} \cup {Estimate(m) : m \in {m \in M : m.text # None}} \cup Folders(M, chat)

(* normalize_models: settings of a conversation that shows messages.          *)
Settings(S) ==
  {ChatEvent("conversation.model.observed", <<s.org, s.chat, s.time, s.model>>, s.time, s.chat, None) :
     s \in {s \in S : s.item = "setting" /\ s.org = OrgOf[s.chat] /\ Messages(s.chat, S) # {}}}

(* normalize_response_model: the model of a response that is shown.           *)
ResponseModels(S) ==
  UNION {{[Base(m) EXCEPT !.kind = "message.model", !.key = <<m.chat, m.id, s.model>>, !.value = s.model] :
            m \in {m \in Messages(s.chat, S) : m.id = s.message /\ m.sender = "assistant"}} :
         s \in {s \in S : s.item = "model" /\ s.org = OrgOf[s.chat]}}

(* collect_with_key                                                        *)
Collect(S) == (UNION {Normalize(c, S) : c \in Chats}) \cup Settings(S) \cup ResponseModels(S)

(* fingerprint_messages: the responses with a text that is not empty.         *)
Fingerprints(S) ==
  {m \in UNION {Messages(c, S) : c \in Chats} :
     m.sender = "assistant" /\ m.text # None /\ m.text.ascii + m.text.other > 0}
------------------------------------------------------------------------------
(***************************************************************************)
(* The plugin's rows and their links.                                      *)
(***************************************************************************)
Usage(r) == ChatEvent("api.request", <<r.id>>, r.time, None, None)

Printed == {r \in DOMAIN arrived : arrived[r]}
Near(r, m) == r.print = m.text /\ r.time - m.time \in -LinkWindow..LinkWindow
Matches(r, S) == {m \in S : Near(r, m)}
Rivals(m) == {r \in Printed : Near(r, m)}

Ambiguous(r, S) ==
  \/ \E m, n \in Matches(r, S) : m # n
  \/ \E m \in Matches(r, S) : \E q \in Rivals(m) : q # r

Rejected(r) == ChatEvent("message.usage.link.rejected", <<r.id>>, r.time, None, None)
Linked(r, m) == ChatEvent("message.usage.link", <<r.id, m.chat, m.id>>, r.time, m.chat, m.id)

LinkResponses(S) ==
  {Rejected(r) : r \in {r \in Printed : Ambiguous(r, S)}}
  \cup UNION {{Linked(r, m) : m \in Matches(r, S)} : r \in {r \in Printed : ~Ambiguous(r, S)}}

(* The messages a row is linked to.                                          *)
Links(r) == {e \in records : e.kind = "message.usage.link" /\ e.key[1] = r.id}
OneSource(r) == \A e, f \in Links(r) : e.chat = f.chat /\ e.turn = f.turn

(* Mutant of Attributed: a later ambiguity takes nothing back. *)
AttributedOnce(r) == IF OneSource(r) THEN {e.turn : e \in Links(r)} ELSE {}

(* resolved_source: the message the usage of a row is shown at.               *)
Attributed(r) ==
  IF OneSource(r) /\ Rejected(r) \notin records THEN {e.turn : e \in Links(r)} ELSE {}
------------------------------------------------------------------------------
(***************************************************************************)
(* The scan.                                                               *)
(***************************************************************************)
(* The identities are loaded once; the inbox is read.                        *)
ScanInbox ==
  /\ sweep.step = "none"
  /\ known' = IF known = None THEN ChatIds(records) ELSE known
  /\ sweep' = [Resting EXCEPT !.step = "collected", !.usage = {Usage(r) : r \in DOMAIN arrived}]
  /\ UNCHANGED <<offer, cache, granted, gone, died, arrived, records, shown>>

ScanSnapshot ==
  /\ sweep.step = "collected"
  /\ sweep' = [sweep EXCEPT !.step = "snapshot", !.chat = Collect(cache), !.prints = Fingerprints(cache)]
  /\ UNCHANGED <<offer, cache, granted, gone, died, arrived, known, records, shown>>

(* The database of the browser cannot be read: the rows of the plugin go on.  *)
SnapshotFails ==
  /\ sweep.step = "collected"
  /\ sweep' = IF sweep.usage = {} THEN Resting ELSE [sweep EXCEPT !.step = "snapshot"]
  /\ UNCHANGED <<offer, cache, granted, gone, died, arrived, known, records, shown>>

(* collect_links reads the inbox again; only then identities are marked.      *)
ScanLinks ==
  /\ sweep.step = "snapshot"
  /\ LET all == sweep.usage \cup sweep.chat \cup LinkResponses(sweep.prints)
     IN  /\ sweep' = [Resting EXCEPT !.step = "persist",
                                     !.out = {e \in all : ChatId(e) \notin known},
                                     !.matched = {p \in Printed \X sweep.prints : Near(p[1], p[2])}]
         /\ known' = known \cup ChatIds(all)
  /\ UNCHANGED <<offer, cache, granted, gone, died, arrived, records, shown>>

ScanPersists ==
  /\ sweep.step = "persist"
  /\ records' = records \cup sweep.out
  /\ shown' = [r \in PluginRows |-> shown[r] \cup {p[2] : p \in {p \in sweep.matched : p[1] = r}}]
  /\ sweep' = Resting
  /\ UNCHANGED <<offer, cache, granted, gone, died, arrived, known>>

(* The order events are persisted in: usage, the snapshot by time, links.     *)
Sooner(e, f) ==
  LET Group(x) == CASE x.kind = "api.request" -> 0
                    [] x.kind \in {"message.usage.link", "message.usage.link.rejected"} -> 2
                    [] OTHER -> 1
  IN  Group(e) < Group(f) \/ (Group(e) = 1 /\ Group(f) = 1 /\ e.time < f.time)

(* A crash, or a write that fails, which ends the agent too.                  *)
ScanDies ==
  /\ known # None /\ died < MaxDied
  /\ died' = died + 1 /\ known' = None /\ sweep' = Resting
  /\ \E E \in SUBSET sweep.out :
       /\ \A e \in E, f \in sweep.out : Sooner(f, e) => f \in E
       /\ records' = records \cup E
  /\ UNCHANGED <<offer, cache, granted, gone, arrived, shown>>
------------------------------------------------------------------------------
(***************************************************************************)
(* The browser and the plugin (the plugin through Receiver). A scan reads      *)
(* the cache and the settings at one step and the inbox at two; what changes   *)
(* does so just before, which is as good as earlier.                         *)
(***************************************************************************)
Shows(x) ==
  /\ sweep.step = "collected" /\ x \in ChatItems \ cache
  /\ cache' = cache \cup {x}
  /\ UNCHANGED <<offer, granted, gone, died, arrived, known, sweep, records, shown>>

Vanishes(x) ==
  /\ sweep.step = "collected" /\ x \in cache /\ gone < MaxGone
  /\ cache' = cache \ {x} /\ gone' = gone + 1
  /\ UNCHANGED <<offer, granted, died, arrived, known, sweep, records, shown>>

Grants(c) ==
  /\ sweep.step = "collected" /\ c \notin granted
  /\ granted' = granted \cup {c}
  /\ UNCHANGED <<offer, cache, gone, died, arrived, known, sweep, records, shown>>

RowArrives(r) ==
  /\ sweep.step \in {"none", "snapshot"}
  /\ \/ r \notin DOMAIN arrived
     \/ r \in DOMAIN arrived /\ r.print # None /\ ~arrived[r]
  /\ \E p \in (IF r.print = None THEN {FALSE} ELSE {TRUE, (r \in DOMAIN arrived)}) :
       arrived' = [q \in DOMAIN arrived \cup {r} |-> IF q = r THEN p ELSE arrived[q]]
  /\ UNCHANGED <<offer, cache, granted, gone, died, known, sweep, records, shown>>

DesktopScan == ScanInbox \/ ScanSnapshot \/ SnapshotFails \/ ScanLinks \/ ScanPersists

DesktopNext ==
  \/ DesktopScan \/ ScanDies
  \/ \E x \in ChatItems : Shows(x) \/ Vanishes(x)
  \/ \E c \in Chats : Grants(c)
  \/ \E r \in PluginRows : RowArrives(r)

DesktopSpec == DesktopInit /\ [][DesktopNext]_desktopVars
DesktopFairSpec == DesktopSpec /\ WF_desktopVars(DesktopScan)
------------------------------------------------------------------------------
(* Ambiguous text abstains: usage is shown at a message only where that is     *)
(* the one message that ever matched in a recorded scan.                     *)
AmbiguityAbstains == \A r \in PluginRows : Attributed(r) # {} => \A m, n \in shown[r] : m = n

(* Two measured responses are never shown at one message.                    *)
OneResponsePerMessage ==
  \A r, q \in PluginRows : r # q => Attributed(r) \cap Attributed(q) = {}

(* Between two scans an identity that was marked is in the database: a scan    *)
(* that failed consumed nothing.                                            *)
MarkedIsRecorded == sweep.step = "none" /\ known # None => known \subseteq ChatIds(records)

(* No identity is recorded with two contents, whatever vanished, was granted   *)
(* or crashed in between: one folder event for a conversation.               *)
RecordedOnce == \A e, f \in records : ChatId(e) = ChatId(f) => e = f

(* Every row of the plugin is recorded, even if the browser's database can     *)
(* never be read.                                                          *)
UploadsRecorded == []<>(\A r \in DOMAIN arrived : Usage(r) \in records)
==============================================================================

------------------------------- MODULE Routers -------------------------------
(***************************************************************************)
(* Pointing the vendors' programs at the team router: `router connect`,     *)
(* `enable`, `disable`, `token` and `status` for Codex (codex_router.rs) and*)
(* the same for OpenCode (opencode_router.rs).  Each owns one vendor file,  *)
(* which the user owns as well, a record in config.json that knows how to   *)
(* undo what was written, and a key the server has minted; OpenCode's key   *)
(* lies in a file of its own.  Values the user chooses are model values.    *)
(***************************************************************************)
EXTENDS Integers, FiniteSets

CONSTANTS None,
          Choices,     \* values the user gives a key of a vendor's file
          MaxKeys,     \* keys the server mints
          MaxBegun,    \* commands the user starts
          MaxEdits,    \* edits the user makes
          MaxKilled,   \* commands killed half-way
          MaxFailed    \* writes that fail, and revocations that do

VARIABLES codex,       \* config.toml: model_provider, model, and the provider's table
          open,        \* opencode.json: model, and the provider's entry
          keyFile,     \* .kikimimi-router-key
          records,     \* what config.json keeps of each
          team,        \* a team workspace is authorised
          keys, minted,\* keys the server accepts; how many it has minted
          stray,       \* history: keys minted in an answer that nobody could use
          task,        \* the command under way
          chosen,      \* what the user chose, and expects to find again
          routerEdits, lost, failures, routerBegun

routerVars == <<codex, open, keyFile, records, team, keys, minted, stray, task, chosen,
                routerEdits, lost, failures, routerBegun>>

Vendors == {"codex", "open"}
(* What kikimimi writes: its provider, its model, and the entry with the key. *)
Ours == <<"kikimimi", 0>>
Own(v) == <<"own", v>>
Entry(key) == <<"entry", key>>
Values == {None} \cup {Own(v) : v \in Choices}

NoTask == [at |-> "idle"]

RoutersInit ==
    /\ \E provider, model \in Values :
          /\ codex = [provider |-> provider, model |-> model, table |-> None]
          /\ open = [model |-> model, entry |-> None]
          /\ chosen = [provider |-> provider, model |-> model, open |-> model]
    /\ keyFile = None /\ records = [v \in Vendors |-> None]
    /\ team = FALSE /\ keys = {} /\ minted = 0 /\ stray = {}
    /\ task = NoTask
    /\ routerEdits = 0 /\ lost = 0 /\ failures = 0 /\ routerBegun = 0

-----------------------------------------------------------------------------
(* The vendors' files.                                                       *)

(* Codex: both root keys and the table, again and again the same.            *)
Applied(doc, r) == [provider |-> Ours, model |-> Ours, table |-> Entry(r.key)]

(* Mutant of Reverted: what the user has changed since goes.                 *)
RevertedAll(doc, r) == [provider |-> r.provider, model |-> r.model, table |-> None]

(* Undone is what is still kikimimi's; what the user has changed since stays. *)
Reverted(doc, r) ==
    [provider |-> IF doc.provider = Ours THEN r.provider ELSE doc.provider,
     model |-> IF doc.model = Ours THEN r.model ELSE doc.model,
     table |-> None]

OpenApplied(doc, r) == [model |-> Ours, entry |-> Entry(r.key)]
OpenReverted(doc, r) ==
    [model |-> IF doc.model = Ours THEN r.model ELSE doc.model,
     entry |-> IF doc.entry = Entry(r.key) THEN None ELSE doc.entry]

(* An entry of that name, whoever made it, is not overwritten.               *)
Acceptable(doc) == doc.entry = None

File(v) == IF v = "codex" THEN codex ELSE open
Connected(v, r) == IF v = "codex" THEN Applied(codex, r) ELSE OpenApplied(open, r)
Restored(v, r) == IF v = "codex" THEN Reverted(codex, r) ELSE OpenReverted(open, r)
Write(v, doc) == IF v = "codex" THEN codex' = doc /\ UNCHANGED open
                 ELSE open' = doc /\ UNCHANGED codex

-----------------------------------------------------------------------------
(* The commands.                                                             *)

Start == task = NoTask /\ routerBegun < MaxBegun /\ routerBegun' = routerBegun + 1

(* A team is authorised only while nothing is routed through another.        *)
Connect ==
    /\ Start /\ ~team
    /\ \A v \in Vendors : records[v] = None
    /\ team' = TRUE
    /\ UNCHANGED <<codex, open, keyFile, records, keys, minted, stray, task, chosen, routerEdits, lost, failures>>

Record(v, key) ==
    [key |-> key, model |-> File(v).model,
     provider |-> IF v = "codex" THEN codex.provider ELSE None]

Minted(v, at) ==
    LET r == Record(v, minted + 1) IN
    [at |-> at, vendor |-> v, r |-> r, fresh |-> TRUE, doc |-> Connected(v, r)]

(* Enabling Codex again keeps the first key and the first previous values;
   OpenCode is not enabled twice, nor over a key file or an entry of the name.
   An answer that misses its fields is an error: OpenCode's key is revoked;
   Codex's is not, and neither is one whose answer is lost or does not parse.  *)
EnableLoads(v) ==
    /\ Start
    /\ IF v = "codex" /\ records[v] # None
       THEN /\ task' = [at |-> "record", vendor |-> v, r |-> records[v], fresh |-> FALSE,
                        doc |-> Connected(v, records[v])]
            /\ UNCHANGED <<keys, minted, stray>>
       ELSE /\ team /\ records[v] = None /\ minted < MaxKeys
            /\ v = "open" => Acceptable(open) /\ keyFile = None
            /\ minted' = minted + 1 /\ keys' = keys \cup {minted + 1}
            /\ \/ task' = Minted(v, IF v = "open" THEN "key file" ELSE "record") /\ UNCHANGED stray
               \/ v = "open" /\ task' = Minted(v, "undo") /\ UNCHANGED stray
               \/ stray' = stray \cup {minted + 1} /\ UNCHANGED task
    /\ UNCHANGED <<codex, open, keyFile, records, team, chosen, routerEdits, lost, failures>>

(* A write that fails undoes what this command began.                        *)
MayFail == failures < MaxFailed /\ failures' = failures + 1

WriteKeyFile ==
    /\ task.at = "key file"
    /\ \/ /\ keyFile' = task.r.key
          /\ task' = [task EXCEPT !.at = "record"]
          /\ UNCHANGED failures
       \/ MayFail /\ task' = [task EXCEPT !.at = "undo"] /\ UNCHANGED keyFile
    /\ UNCHANGED <<codex, open, records, team, keys, minted, stray, chosen, routerEdits, lost, routerBegun>>

(* What undoes it is saved before the vendor's file is touched.              *)
SaveRecord ==
    /\ task.at = "record"
    /\ records' = [records EXCEPT ![task.vendor] = task.r]
    /\ task' = [task EXCEPT !.at = "apply"]
    /\ UNCHANGED <<codex, open, keyFile, team, keys, minted, stray, chosen, routerEdits, lost, failures, routerBegun>>

(* The user who enables Codex again over an edit gets the first values back.  *)
ApplyFile ==
    /\ task.at = "apply"
    /\ \/ /\ Write(task.vendor, task.doc)
          /\ task' = NoTask
          /\ chosen' = IF task.vendor = "open" THEN [chosen EXCEPT !.open = task.r.model]
                       ELSE [chosen EXCEPT !.provider = task.r.provider, !.model = task.r.model]
          /\ UNCHANGED failures
       \/ /\ MayFail
          /\ task' = IF task.fresh THEN [task EXCEPT !.at = "undo"] ELSE NoTask
          /\ UNCHANGED <<codex, open, chosen>>
    /\ UNCHANGED <<keyFile, records, team, keys, minted, stray, routerEdits, lost, routerBegun>>

(* The key is revoked, if the server can be reached, and forgotten.          *)
Undo ==
    /\ task.at = "undo"
    /\ \/ keys' = keys \ {task.r.key} /\ UNCHANGED failures
       \/ MayFail /\ UNCHANGED keys
    /\ keyFile' = IF task.vendor = "open" THEN None ELSE keyFile
    /\ records' = [records EXCEPT ![task.vendor] = None]
    /\ task' = NoTask
    /\ UNCHANGED <<codex, open, team, minted, stray, chosen, routerEdits, lost, routerBegun>>

(* Disabling: the vendor's file first, then the key, then the record.        *)
DisableWrites(v) ==
    /\ Start /\ records[v] # None
    /\ LET r == records[v] IN
       \/ /\ Write(v, Restored(v, r))
          /\ task' = [at |-> "revoke", vendor |-> v, r |-> r]
          /\ UNCHANGED failures
       \/ MayFail /\ UNCHANGED <<codex, open, task>>
    /\ UNCHANGED <<keyFile, records, team, keys, minted, stray, chosen, routerEdits, lost>>

Revoke ==
    /\ task.at = "revoke"
    /\ \/ keys' = keys \ {task.r.key} /\ UNCHANGED failures
       \/ MayFail /\ UNCHANGED keys
    /\ keyFile' = IF task.vendor = "open" THEN None ELSE keyFile
    /\ task' = [task EXCEPT !.at = "forget"]
    /\ UNCHANGED <<codex, open, records, team, minted, stray, chosen, routerEdits, lost, routerBegun>>

Forget ==
    /\ task.at = "forget"
    /\ records' = [records EXCEPT ![task.vendor] = None]
    /\ task' = NoTask
    /\ UNCHANGED <<codex, open, keyFile, team, keys, minted, stray, chosen, routerEdits, lost, failures, routerBegun>>

RouterKilled ==
    /\ task # NoTask /\ lost < MaxKilled
    /\ lost' = lost + 1 /\ task' = NoTask
    /\ UNCHANGED <<codex, open, keyFile, records, team, keys, minted, stray, chosen, routerEdits, failures, routerBegun>>

(* The user chooses a provider or a model, routed or not.                    *)
Chooses ==
    /\ task = NoTask /\ routerEdits < MaxEdits
    /\ routerEdits' = routerEdits + 1
    /\ \E v \in Values :
          \/ codex' = [codex EXCEPT !.provider = v] /\ chosen' = [chosen EXCEPT !.provider = v]
             /\ UNCHANGED open
          \/ codex' = [codex EXCEPT !.model = v] /\ chosen' = [chosen EXCEPT !.model = v]
             /\ UNCHANGED open
          \/ open' = [open EXCEPT !.model = v] /\ chosen' = [chosen EXCEPT !.open = v]
             /\ UNCHANGED codex
          \/ (* an entry of their own, or a change to kikimimi's *)
             /\ v # None /\ open' = [open EXCEPT !.entry = v]
             /\ UNCHANGED <<codex, chosen>>
    /\ UNCHANGED <<keyFile, records, team, keys, minted, stray, task, lost, failures, routerBegun>>

RoutersNext ==
    \/ Connect \/ WriteKeyFile \/ SaveRecord \/ ApplyFile \/ Undo \/ Revoke \/ Forget
    \/ RouterKilled \/ Chooses
    \/ \E v \in Vendors : EnableLoads(v) \/ DisableWrites(v)

RoutersSpec == RoutersInit /\ [][RoutersNext]_routerVars

-----------------------------------------------------------------------------
(* `router token`: the key the record names, which Codex asks for; and what
   `status` says is applied.                                                 *)
TokenOf == IF records["codex"] = None THEN None ELSE records["codex"].key
StatusApplied == [codex |-> codex.provider = Ours,
                  open |-> /\ records["open"] # None /\ keyFile # None
                           /\ open.model = Ours /\ open.entry = Entry(records["open"].key)]

(* At every moment, a kill included, a vendor's file that points at the
   router has a record that leads back to what the user chose: the record is
   saved before the file is touched and cleared after it is restored.        *)
AlwaysReversible ==
    /\ codex.provider = Ours => /\ records["codex"] # None
                                /\ records["codex"].provider = chosen.provider
    /\ codex.model = Ours => /\ records["codex"] # None
                             /\ records["codex"].model = chosen.model
    /\ open.model = Ours => records["open"] # None /\ records["open"].model = chosen.open

(* What is not routed is what the user chose, and no value of kikimimi's is
   left in a file whose record is gone: disabling, failing half-way and being
   killed restore the former provider and model, and keep a later edit.      *)
ChoiceReturns ==
    task = NoTask =>
        /\ codex.provider # Ours => codex.provider = chosen.provider
        /\ codex.model # Ours => codex.model = chosen.model
        /\ open.model # Ours => open.model = chosen.open
        /\ records["codex"] = None => Ours \notin {codex.provider, codex.model} /\ codex.table = None
        /\ records["open"] = None => open.model # Ours

(* While no write or revocation fails and no command is killed, a live key
   that nothing points at is left by an unusable answer alone, and a program
   that is routed is never given a dead one.                                 *)
KeysArePointedAt ==
    (task = NoTask /\ lost = 0 /\ failures = 0) =>
        /\ keys = stray \cup {records[v].key : v \in {w \in Vendors : records[w] # None}}
        /\ StatusApplied.codex => TokenOf \in keys
        /\ StatusApplied.open => keyFile \in keys
        /\ records["open"] = None <=> keyFile = None
=============================================================================

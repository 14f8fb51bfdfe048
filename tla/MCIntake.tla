------------------------------ MODULE MCIntake ------------------------------
(* Bounds for TLC. Identities 1 and 2 come from one hook, 3 is Codex usage *)
(* that a batch and the first line of the session file both report, 4 is   *)
(* on the second line, 5 in the old transcript.                            *)
EXTENDS Intake

Event(m) == [meta |-> m, content |-> Redacted]

MCArchive == [i \in Ids |-> None]

MCParts ==
  [x \in Items |->
     Ids \cap CASE x = Entry(1) -> {1, 2}
                [] x = Batch(1) -> {3}
                [] x = Line(1)  -> {3}
                [] x = Line(2)  -> {4}
                [] x = Chunk(1) -> {5}
                [] OTHER        -> {}]

(* Only what is passed over reads differently: hooks and Codex usage.      *)
Stable == [i \in Ids |-> [l \in Labels |->
  IF i \in {1, 2, 3} /\ l = "known" THEN Event("labelled") ELSE Event("plain")]]

(* Everything does: a session the registry learns of later.                *)
Enriched == [i \in Ids |-> [l \in Labels |->
  IF l = "known" THEN Event("labelled") ELSE Event("plain")]]
============================================================================

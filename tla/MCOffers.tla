------------------------------ MODULE MCOffers ------------------------------
(* What the cache of Claude Desktop offers in the bounds for TLC: a        *)
(* conversation in a project's folder; and one with two answers of the     *)
(* same text and two measured responses near them.                         *)
EXTENDS Naturals

CONSTANT None

Words == [ascii |-> 5, other |-> 1]

ChatMessage(id, at, sender, t, words, folder) ==
  [item |-> "message", chat |-> "c", id |-> id, at |-> at, sender |-> sender, stopped |-> TRUE,
   time |-> t, text |-> words, folder |-> folder, parent |-> "h1"]

Measured(id, t) == [id |-> id, time |-> t, print |-> Words]

FolderOffer ==
  [items |-> {ChatMessage("h1", 1, "human", 1, None, FALSE), ChatMessage("h2", 2, "human", 2, None, TRUE),
              ChatMessage("a1", 3, "assistant", 2, Words, FALSE),
              [item |-> "model", chat |-> "c", org |-> "o", message |-> "a1", model |-> "x"],
              [item |-> "setting", chat |-> "c", org |-> "o", time |-> 1, model |-> "x"]},
   rows |-> {}]
LinkOffer ==
  [items |-> {ChatMessage("a1", 1, "assistant", 2, Words, FALSE), ChatMessage("a2", 2, "assistant", 3, Words, FALSE)},
   rows |-> {Measured("p", 2), Measured("q", 4)}]

ChatOrg == [c \in {"c"} |-> "o"]
=============================================================================

----------------------------- MODULE MCRollout -----------------------------
(* Bounds for TLC: a session with the context of a turn, a call, its count *)
(* once more, and the end of the turn, which does not name it; a short     *)
(* one; and one with an edit and two commands.                             *)
EXTENDS Rollout

Blank == [kind |-> "other", session |-> None, turn |-> None, model |-> None, total |-> None,
          usage |-> None, ordinal |-> 0, item |-> None, at |-> 0]

Meta(n, s)      == [Blank EXCEPT !.kind = "meta", !.session = s, !.at = n]
TurnContext(t, m) == [Blank EXCEPT !.kind = "context", !.turn = t, !.model = m]
Turn(n, t)      == [Blank EXCEPT !.kind = "turn", !.turn = t, !.at = n]
Tokens(n, t, u) == [Blank EXCEPT !.kind = "tokens", !.total = t, !.usage = u, !.at = n]
Command(o, t)   == [Blank EXCEPT !.kind = "command", !.ordinal = o, !.turn = t]
Tool(i, t)      == [Blank EXCEPT !.kind = "tool", !.item = i, !.turn = t]

Long  == <<Meta(1, "a"), TurnContext("t1", "m"), Tokens(3, "total1", "call1"),
           Tokens(4, "total1", None), Turn(5, None)>>
Short == <<Meta(1, "b"), Tokens(2, "total2", "call2")>>

MCScript == [p \in Paths |-> IF p = "a" THEN Long ELSE Short]

MCEnds == [p \in Paths |-> {Len(Script[p])}]

(* Commands of a version of Codex that numbers no lines. *)
Unnumbered == [p \in Paths |-> <<Meta(1, p), Tool("edit1", "t1"), Command(0, "t1"), Command(0, "t2")>>]
============================================================================

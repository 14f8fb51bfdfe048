----------------------------- MODULE MCStories ------------------------------
(* Rows of the database in the bounds for TLC: what several sources report  *)
(* of the same calls and requests, and two sessions with incidents.        *)
EXTENDS Integers

CONSTANT None

Row(id, type, source, ts) ==
  [id |-> id, type |-> type, source |-> source, ts |-> ts, day |-> 1 + ts \div 100000, host |-> 1, repo |-> None,
   session |-> 1, key |-> None, tool |-> None, server |-> None, skill |-> None, agent |-> None, agentType |-> None,
   success |-> None, ms |-> None, model |-> None, effort |-> None, input |-> None, output |-> None,
   cacheRead |-> None, cacheWrite |-> None, cost |-> None, querySource |-> None, parent |-> None, turn |-> None,
   client |-> None, confidence |-> None, vendor |-> "claude", gpt |-> FALSE, real |-> id,
   kind |-> None, configured |-> None, skills |-> None]
Result(id, source, ts, key, ok, real) ==
  [Row(id, "tool.result", source, ts) EXCEPT !.key = key, !.tool = 7, !.server = 8, !.success = ok, !.ms = 4, !.real = real]
Request(id, source, ts, real) ==
  [Row(id, "api.request", source, ts) EXCEPT !.input = 3, !.output = 2, !.model = 9, !.real = real]

Results == {
  [Result(1, "hook", 10, 1, FALSE, 1) EXCEPT !.repo = 1, !.agent = 1], Result(2, "otel", 100020, 1, FALSE, 1),
  [Result(3, "hook", 20, 1, FALSE, 3) EXCEPT !.session = 2, !.host = 2, !.repo = 1],
  Result(4, "hook", 30, None, FALSE, 4),
  [Row(9, "tool.call", "hook", 5) EXCEPT !.tool = 7, !.agent = 1, !.repo = 1],
  Request(5, "otel", 40, 5), [Request(6, "log", 100041, 5) EXCEPT !.agent = 1, !.agentType = 2, !.cost = 1]}
Requests == {
  Request(5, "otel", 40, 5), [Request(6, "log", 100041, 5) EXCEPT !.agent = 1, !.agentType = 2, !.cost = 1],
  [Request(7, "log", 60000, 7) EXCEPT !.session = 2, !.host = 2, !.agent = 1, !.repo = 1],
  [Row(8, "subagent.stop", "log", 60050) EXCEPT !.session = 2, !.host = 2, !.agent = 1, !.input = 9, !.ms = 5],
  [Request(10, "hook", 50, 10) EXCEPT !.client = "claude_desktop", !.session = 3, !.key = 2],
  [Row(11, "message.usage.link", "log", 51) EXCEPT !.parent = 3, !.key = 2, !.session = 2, !.turn = 1, !.confidence = "content_match"],
  [Row(12, "message.usage.link.rejected", "log", 52) EXCEPT !.session = 3, !.key = 2],
  [Row(13, "api.error", "otel", 53) EXCEPT !.model = 9]}

Denied(id, ts, tool) == [Row(id, "tool.denied", "hook", ts) EXCEPT !.tool = tool]
Failure(id, ts, tool, ok) ==
  [Result(id, "hook", ts, None, ok, id) EXCEPT !.tool = tool, !.kind = "mcp", !.server = 8]
Asked(id, ts, n) == [Request(id, "otel", ts, id) EXCEPT !.input = n]
Incidents1 == {
  Denied(21, 1, 5), Denied(22, 4, 5), Denied(23, 2, 6), Denied(24, 4, 5),
  Failure(25, 5, 7, FALSE), Failure(26, 6, 7, TRUE), Failure(27, 7, 7, FALSE), Failure(28, 8, 7, FALSE),
  [Row(29, "tool.call", "hook", 9) EXCEPT !.kind = "bash", !.tool = 3],
  [Failure(30, 9, 7, FALSE) EXCEPT !.session = 2, !.ts = 100009, !.day = 2],
  Asked(31, 3, 10),
  Row(32, "compaction", "hook", 60), Row(33, "compaction", "hook", 70)}
Incidents2 == {
  [Row(41, "session.start", "hook", 1) EXCEPT !.configured = {8, 9}],
  [Row(42, "session.end", "log", 90) EXCEPT !.configured = {8}, !.skills = {4}],
  [Row(43, "session.start", "hook", 2) EXCEPT !.configured = {8, 9}, !.session = 2, !.ts = 100002, !.day = 2],
  [Row(44, "tool.call", "hook", 9) EXCEPT !.kind = "mcp", !.tool = 7, !.server = 8],
  [Row(45, "tool.call", "hook", 100009) EXCEPT !.kind = "mcp", !.tool = 7, !.server = 9, !.session = 2, !.skill = 4],
  Asked(46, 3, 10), Asked(47, 4, 40), Asked(48, 5, 41), [Asked(49, 100003, 30) EXCEPT !.session = 2],
  [Failure(50, 6, 7, TRUE) EXCEPT !.ms = 40], Failure(51, 7, 7, TRUE), Failure(52, 8, 7, TRUE)}
Told == {Results, Requests, Incidents1, Incidents2}
=============================================================================

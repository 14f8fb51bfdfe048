------------------------------ MODULE Transcript ------------------------------
(***************************************************************************)
(* The translation of a Claude transcript into events                      *)
(* (crates/adapter-claude/src/transcript.rs). One normalizer reads one     *)
(* file from its beginning; what a line becomes depends on the lines       *)
(* before it (the prompt it answers, the call a result belongs to, the     *)
(* requests already counted). No variables: Backfill and Cowork hold the   *)
(* context of each file and step it line by line.                          *)
(*                                                                         *)
(* An event keeps what tells two readings of a line apart: its identity    *)
(* (type and key, hashed by event_id) and the fields taken from the        *)
(* context. Models, tokens, versions and directories are copied from the   *)
(* line itself and left out.                                               *)
(***************************************************************************)
EXTENDS SequencesExt, Integers

CONSTANT None

(* The kinds of line: a "prompt" of the user, the "result" of tool calls,   *)
(* what the client wrote as the user ("meta"), a block of an "assistant"    *)
(* response, an "error" of the API, an "attachment" (what the session has   *)
(* loaded), and any "other", bookkeeping or not recognised.                 *)

(* TranscriptNormalizer::new *)
NewNormalizer ==
  [session |-> None, first |-> None, last |-> None, turn |-> None, agent |-> None,
   sidechain |-> FALSE, calls |-> [id \in {} |-> 0], counted |-> {}, loaded |-> {}]

Event(type, key, session, at, turn) ==
  [type |-> type, key |-> key, session |-> session, at |-> at, turn |-> turn,
   tool |-> None, took |-> None, loaded |-> {}]

(* session_boundary_event: one start and one end for a session, whatever     *)
(* file tells of it.                                                        *)
BoundaryEvent(type, ctx, at) == Event(type, <<ctx.session>>, ctx.session, at, None)

OfSubagent(line) == line.side \/ line.agent # None

(* The fields every line carries: the session, the time, and at the first    *)
(* line with a time whether this is the file of a subagent.                 *)
Carry(ctx, line) ==
  LET begins == ctx.first = None /\ line.at # None
      side   == OfSubagent(line)
  IN  [ctx EXCEPT !.session = IF line.session = None THEN @ ELSE line.session,
                  !.first = IF begins THEN line.at ELSE @,
                  !.last = IF line.at = None THEN @ ELSE line.at,
                  !.sidechain = IF begins THEN side ELSE @,
                  !.agent = IF begins /\ side THEN line.agent ELSE @]

(* session.start is put in front of the events of that first line.           *)
Opening(ctx, line) ==
  IF ctx.first = None /\ line.at # None /\ ~OfSubagent(line)
    THEN <<BoundaryEvent("session.start", Carry(ctx, line), line.at)>>
    ELSE <<>>

(* turn_event: a prompt is named by its promptId, else by the line.          *)
TurnEvent(ctx, line) ==
  LET key == IF line.prompt = None THEN line.uuid ELSE line.prompt
  IN  IF key = None THEN <<>> ELSE <<Event("turn", <<key>>, ctx.session, line.at, line.prompt)>>

(* tool_result_event: named and timed by the call, if the file told of one.  *)
ResultEvent(ctx, line, id) ==
  LET known == id \in DOMAIN ctx.calls
  IN  [Event("tool.result", <<id>>, ctx.session, line.at, line.prompt) EXCEPT
         !.tool = IF known THEN id ELSE None,
         !.took = IF known /\ line.at >= ctx.calls[id] THEN line.at - ctx.calls[id] ELSE None]

(* handle_user: results, or a prompt of the user, never both. The first      *)
(* prompt of a subagent is its parent's text, with its parent's promptId.   *)
UserEvents(ctx, line) ==
  IF line.kind = "result" THEN [n \in DOMAIN line.tools |-> ResultEvent(ctx, line, line.tools[n])]
  ELSE IF line.kind = "meta" \/ line.side THEN <<>>
  ELSE TurnEvent(ctx, line)

AsPrompted(ctx, line) == IF line.prompt = None THEN ctx ELSE [ctx EXCEPT !.turn = line.prompt]

(* handle_assistant: the usage of a request once, however many lines its     *)
(* response was written in, and one call for each tool_use block.           *)
Counts(ctx, line) == line.usage /\ line.request # None /\ line.request \notin ctx.counted

AssistantEvents(ctx, line) ==
  (IF Counts(ctx, line) THEN <<Event("api.request", <<line.request>>, ctx.session, line.at, None)>> ELSE <<>>)
  \o [n \in DOMAIN line.tools |->
        [Event("tool.call", <<line.tools[n]>>, ctx.session, line.at, ctx.turn) EXCEPT !.tool = line.tools[n]]]

AsAnswered(ctx, line) ==
  [ctx EXCEPT !.counted = IF Counts(ctx, line) THEN @ \cup {line.request} ELSE @,
              !.calls = [id \in ToSet(line.tools) \cup DOMAIN @ |->
                           IF id \in ToSet(line.tools) THEN line.at ELSE ctx.calls[id]]]

(* api_error_event *)
ErrorEvents(ctx, line) ==
  IF line.request = None THEN <<>> ELSE <<Event("api.error", <<line.request>>, ctx.session, line.at, None)>>

(* line(): a user or an assistant line without a time is skipped, and only    *)
(* after what every line carries was taken from it.                          *)
ByUser(line) == line.kind \in {"prompt", "result", "meta"}

Learned(ctx, line) ==
  LET now == Carry(ctx, line)
  IN  IF line.kind = "attachment" THEN [now EXCEPT !.loaded = @ \cup ToSet(line.tools)]
      ELSE IF line.at = None THEN now
      ELSE IF ByUser(line) THEN AsPrompted(now, line)
      ELSE IF line.kind = "assistant" THEN AsAnswered(now, line)
      ELSE now

Reported(ctx, line) ==
  LET now == Carry(ctx, line)
  IN  IF line.at = None THEN <<>>
      ELSE IF ByUser(line) THEN UserEvents(now, line)
      ELSE IF line.kind = "assistant" THEN AssistantEvents(now, line)
      ELSE IF line.kind = "error" THEN ErrorEvents(now, line)
      ELSE <<>>

Line(ctx, line) ==
  [ctx |-> Learned(ctx, line), out |-> Opening(ctx, line) \o Reported(ctx, line)]

(* finish(): at the end of the file, the end of the session with what it had  *)
(* loaded, or of the subagent with the time it ran.                          *)
Finish(ctx) ==
  IF ctx.last = None THEN <<>>
  ELSE IF ctx.sidechain
    THEN <<[Event("subagent.stop", <<ctx.session, ctx.agent>>, ctx.session, ctx.last, ctx.turn)
              EXCEPT !.took = ctx.last - ctx.first]>>
  ELSE <<[BoundaryEvent("session.end", ctx, ctx.last) EXCEPT !.loaded = ctx.loaded]>>
------------------------------------------------------------------------------
(***************************************************************************)
(* What a transcript says, stated without a reader: each event by the lines *)
(* it is about.                                                            *)
(***************************************************************************)
Timed(lines) == {n \in DOMAIN lines : lines[n].at # None}
Earliest(S) == CHOOSE n \in S : \A m \in S : n <= m
Latest(S)   == CHOOSE n \in S : \A m \in S : m <= n

PromptAt(lines, n) ==
  LET told == {m \in Timed(lines) : m <= n /\ lines[m].kind \in {"prompt", "result", "meta"}
                                      /\ lines[m].prompt # None}
  IN  IF told = {} THEN None ELSE lines[Latest(told)].prompt

SessionAt(lines, n) ==
  LET told == {m \in 1..n : lines[m].session # None}
  IN  IF told = {} THEN None ELSE lines[Latest(told)].session

Calling(lines, id) == {n \in Timed(lines) : lines[n].kind = "assistant" /\ id \in ToSet(lines[n].tools)}

MeantCalls(lines) ==
  UNION {{[Event("tool.call", <<id>>, SessionAt(lines, n), lines[n].at, PromptAt(lines, n))
             EXCEPT !.tool = id] : id \in ToSet(lines[n].tools)} :
         n \in {m \in Timed(lines) : lines[m].kind = "assistant"}}

MeantResults(lines) ==
  UNION {{LET called == {m \in Calling(lines, id) : m < n}
              since  == lines[Latest(called)].at
          IN  [Event("tool.result", <<id>>, SessionAt(lines, n), lines[n].at, lines[n].prompt)
                 EXCEPT !.tool = IF called = {} THEN None ELSE id,
                        !.took = IF called # {} /\ lines[n].at >= since THEN lines[n].at - since
                                 ELSE None] :
          id \in ToSet(lines[n].tools)} :
         n \in {m \in Timed(lines) : lines[m].kind = "result"}}

MeantRequests(lines) ==
  LET telling(r) == {n \in Timed(lines) : lines[n].kind = "assistant" /\ lines[n].usage /\ lines[n].request = r}
  IN  {LET n == Earliest(telling(r)) IN Event("api.request", <<r>>, SessionAt(lines, n), lines[n].at, None) :
         r \in {q \in {lines[n].request : n \in DOMAIN lines} \ {None} : telling(q) # {}}}

MeantTurns(lines) ==
  {LET p == lines[n].prompt
   IN  Event("turn", <<IF p = None THEN lines[n].uuid ELSE p>>, SessionAt(lines, n), lines[n].at, p) :
     n \in {m \in Timed(lines) : lines[m].kind = "prompt" /\ ~lines[m].side
                                   /\ {lines[m].prompt, lines[m].uuid} # {None}}}

MeantErrors(lines) ==
  {Event("api.error", <<lines[n].request>>, SessionAt(lines, n), lines[n].at, None) :
     n \in {m \in Timed(lines) : lines[m].kind = "error" /\ lines[m].request # None}}

MeantStart(lines) ==
  {Event("session.start", <<SessionAt(lines, n)>>, SessionAt(lines, n), lines[n].at, None) :
     n \in {m \in Timed(lines) : m = Earliest(Timed(lines)) /\ ~OfSubagent(lines[m])}}

MeantEnd(lines) ==
  IF Timed(lines) = {} THEN {}
  ELSE LET n == Latest(Timed(lines))
           m == Earliest(Timed(lines))
           s == SessionAt(lines, Len(lines))
       IN  IF OfSubagent(lines[m])
           THEN {[Event("subagent.stop", <<s, lines[m].agent>>, s, lines[n].at, PromptAt(lines, Len(lines)))
                    EXCEPT !.took = lines[n].at - lines[m].at]}
           ELSE {[Event("session.end", <<s>>, s, lines[n].at, None) EXCEPT
                    !.loaded = UNION {ToSet(lines[k].tools) :
                                        k \in {j \in DOMAIN lines : lines[j].kind = "attachment"}}]}

Meant(lines) ==
  MeantCalls(lines) \cup MeantResults(lines) \cup MeantRequests(lines) \cup MeantTurns(lines)
    \cup MeantErrors(lines) \cup MeantStart(lines)
==============================================================================

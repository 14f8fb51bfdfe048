------------------------------- MODULE Patterns -------------------------------
(***************************************************************************)
(* The incidents found in the event database: bypass, thrash, patterns,       *)
(* schema-tax, mcp-tax, unused-mcp and unused-skills of query_cmd.rs, and the  *)
(* pages over them (crates/cli/src/web_query.rs).                            *)
(*                                                                         *)
(* A window function is read as the position of a row in its partition. Rows   *)
(* with one timestamp are taken in the order of their identifiers: DuckDB may *)
(* take them in another. Shares are whole tokens.                           *)
(***************************************************************************)
EXTENDS Activity

CONSTANTS Window5, Spiral, Denials, Compacted,   \* 5 rows, 3 failures, 2 denials, 2 compactions
          JumpFrom, JumpBy, LongCall             \* 5000 and 20000 tokens, 10 seconds

(* row_number() of a row among S.                                            *)
Position(S, e) == Cardinality({o \in S : o = e \/ Before(o, e)})
InSession(S, e) == {o \in S : o.session = e.session}
Where(S, e, f) == {o \in S : o[f] = e[f]}
Used(E) == With(Of(E, "tool.call"), "server")
------------------------------------------------------------------------------
(***************************************************************************)
(* A call around a failed or denied one, within five rows of the session.      *)
(***************************************************************************)
Around(E) == {e \in Of(E, "tool.call") : e.kind \in {"bash", "browser"}}

Detours(E, from) ==
  {d \in from \X Around(E) :
     /\ d[1].session = d[2].session /\ d[1].session # None
     /\ LET rows == InSession(E, d[1])
        IN  Position(rows, d[2]) - Position(rows, d[1]) \in 1..Window5}

McpFailures(E) == {e \in Failed(ToolResults(E)) : e.kind = "mcp"}
Bypass(E) == Detours(E, McpFailures(E))
DenyDetour(E) == Detours(E, Of(E, "tool.denied"))

(* thrash: a tool that failed three times and never succeeded.                 *)
RepeatFailure(E) ==
  LET results == With(ToolResults(E), "tool")
      Of2(k) == {e \in results : <<e.session, e.tool>> = k}
  IN  {k \in {<<e.session, e.tool>> : e \in Failed(results)} :
         /\ Cardinality(Failed(Of2(k))) >= Spiral
         /\ k[1] = None \/ ~\E e \in Of2(k) : e.success = TRUE}

Thrash(E) == [repeat |-> RepeatFailure(E), detours |-> DenyDetour(E)]

Reach(E) ==
  LET calls == {e \in Of(E, "tool.call") : e.kind \in {"mcp", "bash", "browser"}}
  IN  [k \in {<<e.day, e.session, e.kind>> : e \in calls} |->
         Cardinality({e \in calls : <<e.day, e.session, e.kind>> = k})]
------------------------------------------------------------------------------
(***************************************************************************)
(* PATTERNS_SQL over the rows of sessions.                                   *)
(***************************************************************************)
Hit(pattern, subject, key, first, last, incidents, session) ==
  [pattern |-> pattern, subject |-> subject, key |-> key, first |-> first, last |-> last,
   incidents |-> incidents, session |-> session, tokens |-> None]

Pairs(pattern, D, f) ==
  {Hit(pattern, d[1][f], <<d[1].id, d[2].id>>, d[1].ts, d[2].ts, 1, d[1].session) : d \in D}

(* Gaps and islands: the rows of an island have one difference of positions, in  *)
(* the partition and among those of it that are alike.                       *)
Island(partition, alike, e) == Position(partition, e) - Position(alike, e)

Runs(pattern, islands, least) ==
  {Hit(pattern, (CHOOSE e \in I : TRUE).tool, <<Min({e.id : e \in I})>>, Starts(I), Ends(I), Cardinality(I),
       (CHOOSE e \in I : TRUE).session) : I \in {I \in islands : Cardinality(I) >= least}}

FailRuns(E) ==
  LET known == With(With(ToolResults(E), "tool"), "success")
      ofTool(e) == Where(InSession(known, e), e, "tool")
      group(e) == Island(ofTool(e), Where(ofTool(e), e, "success"), e)
  IN  {{o \in Where(ofTool(e), e, "success") : group(o) = group(e)} : e \in Failed(known)}

DeniedRuns(E) ==
  LET denied == With(Of(E, "tool.denied"), "tool")
      group(e) == Island(InSession(denied, e), Where(InSession(denied, e), e, "tool"), e)
  IN  {{o \in Where(InSession(denied, e), e, "tool") : group(o) = group(e)} : e \in denied}

(* api_stream: the transcript's requests, or the main ones OTel reported.       *)
Context(e) == Zero(e.input) + Zero(e.cacheRead) + Zero(e.cacheWrite)

ApiStream(E) ==
  LET log == {e \in Of(E, "api.request") : e.source = "log"}
  IN  log \cup {[e EXCEPT !.agent = None] :
                  e \in {e \in Of(E, "api.request") :
                           /\ e.source = "otel" /\ e.querySource \in {None, "main"}
                           /\ InSession(log, e) = {}}}

ContextJumps(E) ==
  LET stream == ApiStream(E)
      Line(e) == {o \in InSession(stream, e) : o.agent = e.agent /\ o.model = e.model}
      At(e, n) == {o \in Line(e) : Position(Line(e), o) = Position(Line(e), e) + n}
      LastTool(e) == {o.tool : o \in {o \in With(Of(InSession(E, e), "tool.result"), "tool") :
                                        /\ o.agent = e.agent /\ Before(o, e)
                                        /\ ~\E p \in With(Of(InSession(E, e), "tool.result"), "tool") :
                                             p.agent = e.agent /\ Before(o, p) /\ Before(p, e)}}
      Jumped(e) ==
        \E p \in At(e, -1) :
          /\ Context(p) >= JumpFrom /\ Context(e) - Context(p) >= JumpBy /\ 2 * Context(e) >= 3 * Context(p)
          /\ \A n \in At(e, 1) : 10 * Context(n) >= 8 * Context(e)
  IN  {Hit("context_bloat", IF LastTool(e) = {} THEN 0 ELSE CHOOSE t \in LastTool(e) : TRUE, <<e.id>>,
           e.ts, e.ts, 1, e.session) : e \in {e \in stream : Jumped(e)}}

Compactions(E) ==
  LET compacted(s) == {e \in Of(E, "compaction") : e.session = s}
  IN  {Hit("context_bloat", -1, <<>>, Starts(compacted(s)), Ends(compacted(s)), Cardinality(compacted(s)), s) :
         s \in {s \in Values(E, "session") : Cardinality(compacted(s)) >= Compacted}}

(* Twice the median of a column.                                             *)
Median2(S, f) ==
  LET Below(e) == Cardinality({o \in S : o[f] < e[f] \/ (o[f] = e[f] /\ o.id < e.id)})
      Nth(n) == (CHOOSE e \in S : Below(e) = n)[f]
  IN  Nth((Cardinality(S) - 1) \div 2) + Nth(Cardinality(S) \div 2)

LongToolTail(E) ==
  LET timed == {e \in With(With(ToolResults(E), "server"), "ms") : e.kind = "mcp" /\ e.tool # None}
      alike(e) == {o \in timed : o.server = e.server /\ o.tool = e.tool}
  IN  {Hit("long_tool_tail", e.server, <<e.id>>, e.ts, e.ts + e.ms, 1, e.session) :
         e \in {e \in timed : e.ms >= LongCall /\ 2 * e.ms >= 3 * Median2(alike(e), "ms")}}

(* starts: the snapshot of the servers, at the end of a session before its start. *)
SnapshotOf(E, s) ==
  LET taken == {e \in With(Of(E, "session.start") \cup Of(E, "session.end"), "configured") : e.session = s}
      atEnd == Of(taken, "session.end")
  IN  IF taken = {} THEN None ELSE Earliest(IF atEnd # {} THEN atEnd ELSE taken)

FirstTokens(E, s) ==
  LET asked == {e \in Of(E, "api.request") : e.source = "otel" /\ e.session = s}
  IN  IF asked = {} THEN None
      ELSE [requests |-> Cardinality(asked), first |-> Zero(Earliest(asked).input) + Zero(Earliest(asked).cacheRead)]

Share(E, s, n) == IF FirstTokens(E, s) = None THEN None ELSE (FirstTokens(E, s).first * FirstTokens(E, s).requests) \div n

Snapshots(E) == {s \in Values(E, "session") : SnapshotOf(E, s) # None}
Servers(E, s) == SnapshotOf(E, s).configured

UnusedServers(E) ==
  {[Hit("unused_mcp_server", k[2], <<>>, SnapshotOf(E, k[1]).ts, Ends({e \in E : e.session = k[1]}), 1, k[1])
      EXCEPT !.tokens = Share(E, k[1], Cardinality(Servers(E, k[1])))] :
     k \in UNION {{<<s, m>> : m \in {m \in Servers(E, s) : ~\E e \in Used(E) : e.session = s /\ e.server = m}} :
                    s \in Snapshots(E)}}

(* priced: the tokens asked for while the incident lasted.                    *)
Price(E, h) ==
  LET meanwhile == {e \in Of(E, "api.request") : e.source = "otel" /\ e.session = h.session /\ e.ts \in h.first..h.last}
  IN  IF h.pattern = "unused_mcp_server" \/ meanwhile = {} THEN h
      ELSE [h EXCEPT !.tokens = MapThenSumSet(Tokens, meanwhile)]

Hits(rows, from) ==
  LET E == {e \in With(rows, "session") : e.day >= from}
  IN  {Price(E, h) : h \in
        Pairs("mcp_bypass", Detours(E, With(McpFailures(E), "server")), "server")
        \cup Pairs("deny_detour", Detours(E, With(Of(E, "tool.denied"), "tool")), "tool")
        \cup Runs("retry_spiral", FailRuns(E), Spiral)
        \cup Runs("permission_denied_loop", DeniedRuns(E), Denials)
        \cup ContextJumps(E) \cup Compactions(E) \cup LongToolTail(E) \cup UnusedServers(E)}
------------------------------------------------------------------------------
(***************************************************************************)
(* The pages: they find the incidents in the rows as recorded and the day of   *)
(* their session in the resolved ones.                                      *)
(***************************************************************************)
DayOf(E, s) == Min({e.day : e \in {e \in E : e.session = s}})
InPages(from) == {h \in Hits(ingested, from) : h.session \in Values(ResolvedSource(ingested), "session")}
SumTokens(H) == IF {h.tokens : h \in H} \ {None} = {} THEN None ELSE MapThenSumSet(LAMBDA h : Zero(h.tokens), H)
Incidents(H) == MapThenSumSet(LAMBDA h : h.incidents, H)

Ranking(from) ==
  LET H == InPages(from)
  IN  [k \in {<<h.pattern, h.subject>> : h \in H} |->
         LET mine == {h \in H : <<h.pattern, h.subject>> = k}
             sessions == {h.session : h \in mine}
             tokens == SumTokens(mine)
             days == {DayOf(ResolvedSource(ingested), s) : s \in sessions}
         IN  [sessions |-> Cardinality(sessions), incidents |-> Incidents(mine), tokens |-> tokens,
              hits |-> Cardinality(mine), pricedHits |-> Cardinality({h \in mine : h.tokens # None}),
              priority |-> IF tokens = None THEN None ELSE tokens * Cardinality(sessions),
              firstSeen |-> Min(days), lastSeen |-> Max(days)]]

PatternHits(k, from) == {h \in InPages(from) : <<h.pattern, h.subject>> = k}

PatternTimeline(k, from) ==
  LET E == {e \in With(ResolvedSource(ingested), "session") : e.day >= from}
      ofDay(d) == {s \in Values(E, "session") : DayOf(E, s) = d}
      H == {h \in Hits(ingested, from) : <<h.pattern, h.subject>> = k}
  IN  [d \in {DayOf(E, s) : s \in Values(E, "session")} |->
         LET hit == {h \in H : h.session \in ofDay(d)}
         IN  [total |-> Cardinality(ofDay(d)), hit |-> Cardinality({h.session : h \in hit}),
              incidents |-> Incidents(hit), tokens |-> SumTokens(hit)]]
------------------------------------------------------------------------------
(***************************************************************************)
(* What a configured server costs, and what is configured and never used.     *)
(***************************************************************************)
SchemaTax(E) ==
  LET asked == {e \in Of(E, "api.request") : e.source = "otel"}
      Of2(s) == {e \in asked : e.session = s}
  IN  [s \in Values(asked, "session") |->
         [requests |-> Cardinality(Of2(s)), input |-> SumOf(Of2(s), "input"), cacheRead |-> SumOf(Of2(s), "cacheRead"),
          cacheWrite |-> SumOf(Of2(s), "cacheWrite"), output |-> SumOf(Of2(s), "output"), first |-> FirstTokens(E, s).first]]

McpTax(E) ==
  LET priced(S) == {s \in S : FirstTokens(E, s) # None}
      used(s, m) == \E e \in Used(E) : e.session = s /\ e.server = m
      tokens(S) == IF priced(S) = {} THEN None
                   ELSE MapThenSumSet(LAMBDA s : Share(E, s, Cardinality(Servers(E, s))), priced(S))
      median2(S) == IF S = {} THEN None ELSE Median2({[id |-> s, first |-> FirstTokens(E, s).first] : s \in S}, "first")
  IN  [m \in UNION {Servers(E, s) : s \in Snapshots(E)} |->
         LET mine == {s \in Snapshots(E) : m \in Servers(E, s)}
             others == median2(priced(Snapshots(E) \ mine))
         IN  [configured |-> Cardinality(mine), used |-> Cardinality({s \in mine : used(s, m)}),
              unused |-> Cardinality({s \in mine : ~used(s, m)}), withUsage |-> Cardinality(priced(mine)),
              fixed |-> tokens(mine), unusedTokens |-> tokens({s \in mine : ~used(s, m)}),
              marginal2 |-> IF None \in {median2(priced(mine)), others} THEN None ELSE median2(priced(mine)) - others]]

(* A full outer join: what is configured or called, by its name in a column,    *)
(* and the sessions that list it, pairs of its name and a session.             *)
Joined(E, f, configured, listed) ==
  LET calls == With(Of(E, "tool.call"), f)
  IN  [n \in configured \cup Values(calls, f) |->
         LET C == {e \in calls : e[f] = n}
         IN  [configured |-> n \in configured, calls |-> Cardinality(C), sessions |-> Cardinality(Values(C, "session")),
              last |-> Max(Values(C, "day") \cup {0}), sessionsConfigured |-> Cardinality({l[2] : l \in {m \in listed : m[1] = n}})]]

(* Of this machine, by its settings; none are asked for without an event.      *)
UnusedMcp(E, configured) == Joined(E, "server", configured, {})

(* Of a team: by the snapshots of its sessions alone.                         *)
ByTheSnapshots(E, f, S, column) ==
  Joined(E, f, UNION Values(S, column),
         UNION {{<<n, e.session>> : n \in e[column]} : e \in With(S, column)})

S3UnusedMcp(E) == ByTheSnapshots(E, "server", E, "configured")
UnusedSkills(E) ==
  ByTheSnapshots(E, "skill", With(Of(E, "session.start") \cup Of(E, "session.end"), "session"), "skills")
------------------------------------------------------------------------------
(* A spiral is a longest run of failures of one tool, a denial loop one of       *)
(* denials with nothing else denied in between: the queries find every one, and *)
(* one hit for each. A tool that thrash says never succeeded is in a spiral.      *)
Maximal(S, partition(_), alike(_, _)) ==
  {I \in SUBSET S :
     /\ I # {}
     /\ \E e \in I : I = {o \in S : /\ partition(o) = partition(e) /\ alike(o, e)
                                    /\ \A p \in S : /\ partition(p) = partition(e)
                                                    /\ (Before(o, p) /\ Before(p, e)) \/ (Before(e, p) /\ Before(p, o))
                                                    => alike(p, e)}}

RunsAreReal ==
  LET E == With(ResolvedSource(ingested), "session")
      known == With(With(ToolResults(E), "tool"), "success")
      spirals == {I \in Maximal(known, LAMBDA e : <<e.session, e.tool>>, LAMBDA a, b : a.success = b.success) :
                    \A e \in I : e.success = FALSE}
      loops == Maximal(With(Of(E, "tool.denied"), "tool"), LAMBDA e : e.session, LAMBDA a, b : a.tool = b.tool)
      hits == Hits(E, 0)
      Found(pattern) == {h \in hits : h.pattern = pattern}
      Summary(I) == <<Starts(I), Ends(I), Cardinality(I)>>
      Same(found, runs) ==
        /\ Cardinality(found) = Cardinality(runs)
        /\ {<<h.first, h.last, h.incidents>> : h \in found} = {Summary(I) : I \in runs}
  IN  /\ Same(Found("retry_spiral"), {I \in spirals : Cardinality(I) >= Spiral})
      /\ Same(Found("permission_denied_loop"), {I \in loops : Cardinality(I) >= Denials})
      /\ \A k \in RepeatFailure(E) : \E h \in Found("retry_spiral") : <<h.session, h.subject>> = k

(* The queries and the pages count the same incidents: bypass and thrash those of *)
(* patterns, mcp-tax the unused servers, schema-tax the requests of a session,   *)
(* unused-mcp and unused-skills the calls of mcp and skills; and the ranking,  *)
(* the hits behind a row and its days add up.                                *)
IncidentsAgree ==
  LET E == ResolvedSource(ingested)
      hits == Hits(E, 0)
      keys(pattern) == {h.key : h \in {h \in hits : h.pattern = pattern}}
      ids(D) == {<<d[1].id, d[2].id>> : d \in D}
      ranking == Ranking(0)
      tax == McpTax(With(E, "session"))
      schema == SchemaTax(With(E, "session"))
      reach == Reach(E)
      unused == S3UnusedMcp(E)
  IN  /\ ids({d \in Bypass(E) : d[1].server # None}) = keys("mcp_bypass")
      /\ ids({d \in Thrash(E).detours : d[1].tool # None}) = keys("deny_detour")
      /\ \A m \in DOMAIN tax : tax[m].unused = Cardinality({h \in hits : h.pattern = "unused_mcp_server" /\ h.subject = m})
      /\ \A s \in DOMAIN schema :
           LET models == Detail(SessionRows(s)).models
           IN  schema[s].requests = MapThenSumSet(LAMBDA m : models[m].requests, DOMAIN models)
      /\ MapThenSumSet(LAMBDA k : reach[k], {k \in DOMAIN reach : k[3] = "mcp"})
           = MapThenSumSet(LAMBDA m : Mcp(E)[m].calls, DOMAIN Mcp(E))
      /\ \A m \in DOMAIN Mcp(E) \cap DOMAIN unused : Mcp(E)[m].calls = unused[m].calls
      /\ \A m \in DOMAIN unused : UnusedMcp(E, DOMAIN unused)[m].calls = unused[m].calls
      /\ \A k \in DOMAIN Skills(E) \cap DOMAIN UnusedSkills(E) : Skills(E)[k].calls = UnusedSkills(E)[k].calls
      /\ \A k \in DOMAIN ranking :
           LET days == PatternTimeline(k, 0)
               Column(c) == MapThenSumSet(LAMBDA d : Zero(days[d][c]), DOMAIN days)
           IN  /\ Column("hit") = ranking[k].sessions /\ Column("incidents") = ranking[k].incidents
               /\ Column("tokens") = Zero(ranking[k].tokens)
               /\ Cardinality(PatternHits(k, 0)) = ranking[k].hits
==============================================================================

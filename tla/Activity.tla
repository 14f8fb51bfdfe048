------------------------------- MODULE Activity -------------------------------
(***************************************************************************)
(* What the dashboard and the named queries show of the event database       *)
(* (crates/cli/src/web_query.rs, activity_filter.rs, query_cmd.rs and        *)
(* resolved_source of sink/src/store.rs).                                  *)
(*                                                                         *)
(* The SQL is read as sets: a relation is a set of rows, a row a record with   *)
(* the columns of the schema and None for NULL, a GROUP BY a function of its   *)
(* key. Columns that are only carried along, approximate percentiles and the  *)
(* layout of a response are left out. Events reach the database one at a     *)
(* time, in any order, from several sources that report the same thing:       *)
(* "real" names what a row reports and is read by the properties only.        *)
(***************************************************************************)
EXTENDS Integers, Sequences, FiniteSets, FiniteSetsExt

CONSTANTS None, ThisHost,
          Stories   \* sets of rows that may come to be recorded together

VARIABLE ingested           \* rows of the database

activityVars == <<ingested>>

ActivityInit == ingested = {}

Ingest(e) ==
  /\ e \notin ingested
  /\ \E story \in Stories : ingested \cup {e} \subseteq story
  /\ ingested' = ingested \cup {e}

ActivityNext == \E e \in UNION Stories : Ingest(e)

ActivitySpec == ActivityInit /\ [][ActivityNext]_activityVars
------------------------------------------------------------------------------
(***************************************************************************)
(* SQL                                                                     *)
(***************************************************************************)
With(E, f) == {e \in E : e[f] # None}
Values(E, f) == {e[f] : e \in With(E, f)}
Of(E, type) == {e \in E : e.type = type}
Zero(x) == IF x = None THEN 0 ELSE x

(* sum(f): NULL of nothing but NULLs.                                       *)
SumOf(E, f) == IF With(E, f) = {} THEN None ELSE MapThenSumSet(LAMBDA e : e[f], With(E, f))

Starts(E) == Min({e.ts : e \in E})
Ends(E) == Max({e.ts : e \in E})
Before(a, b) == a.ts < b.ts \/ (a.ts = b.ts /\ a.id < b.id)
Earliest(E) == CHOOSE e \in E : \A o \in E \ {e} : Before(e, o)
------------------------------------------------------------------------------
(***************************************************************************)
(* resolved_source: links and refined clients are applied, not shown.         *)
(***************************************************************************)
Response(e) == <<e.host, e.session, e.key>>

LinksOf(raw, e) ==
  {l \in Of(raw, "message.usage.link") :
     /\ l.confidence = "content_match" /\ None \notin {l.session, l.turn}
     /\ <<l.host, l.parent, l.key>> = Response(e)
     /\ ~\E r \in Of(raw, "message.usage.link.rejected") : Response(r) = Response(e)}

Observed(raw, e) ==
  {c.client : c \in {c \in Of(raw, "session.client") :
                       <<c.host, c.session>> = <<e.host, e.session>> /\ c.confidence = "observed_originator"}}

Resolved(raw, e) ==
  LET targets == IF e.type = "api.request" /\ e.client = "claude_desktop"
                   THEN {<<l.session, l.turn>> : l \in LinksOf(raw, e)} ELSE {}
      clients == IF e.vendor = "codex" /\ e.client \in {None, "codex_desktop"} THEN Observed(raw, e) ELSE {}
      linked == IF Cardinality(targets) # 1 THEN e
                ELSE LET t == CHOOSE t \in targets : TRUE
                     IN  [e EXCEPT !.session = t[1], !.turn = t[2], !.confidence = "content_match"]
  IN  IF clients = {} THEN linked ELSE [linked EXCEPT !.client = CHOOSE c \in clients : TRUE]

ResolvedSource(raw) ==
  {Resolved(raw, e) : e \in {e \in raw : e.type \notin {"message.usage.link", "message.usage.link.rejected",
                                                         "session.client"}}}

(* ActivityFilter.predicate. A filter is [device, repo, without].            *)
ThisMac == 0   \* what the page calls "this-mac"
Passes(filter, e) ==
  /\ filter.device # None => e.host = IF filter.device = ThisMac THEN ThisHost ELSE filter.device
  /\ filter.without => e.repo = None
  /\ ~filter.without /\ filter.repo # None => e.repo = filter.repo

(* linked_event_source, from a day on.                                      *)
Everything == [device |-> None, repo |-> None, without |-> FALSE]
Source(filter, from) == {e \in ResolvedSource(ingested) : Passes(filter, e) /\ e.day >= from}
------------------------------------------------------------------------------
(***************************************************************************)
(* TOOL_RESULTS_CTE: of the reports of one result the OTel one, else the      *)
(* hook's; the earlier of two. A row without a key stands for itself.        *)
(***************************************************************************)
ReportRank(e) == CASE e.source = "otel" -> 0 [] e.source = "hook" -> 1 [] OTHER -> 2

Prefer(a, b) == ReportRank(a) < ReportRank(b) \/ (ReportRank(a) = ReportRank(b) /\ Before(a, b))

(* Mutant of ToolResults: the key alone names a call, whatever its session.     *)
ToolResultsByKey(E) ==
  LET results == Of(E, "tool.result")
      Same(e) == {o \in results : o.key = e.key}
  IN  {e \in results : e.key = None \/ \A o \in Same(e) \ {e} : Prefer(e, o)}

ToolResults(E) ==
  LET results == Of(E, "tool.result")
      Same(e) == {o \in results : o.session = e.session /\ o.key = e.key}
  IN  {e \in results : e.key = None \/ \A o \in Same(e) \ {e} : Prefer(e, o)}

Failed(E) == {e \in E : e.success = FALSE}
Failures(E) == Failed({e \in E : e.type # "tool.result"} \cup ToolResults(E))

Total(E) ==
  [events |-> Cardinality(E), calls |-> Cardinality(Of(E, "tool.call")),
   input |-> SumOf(E, "input"), output |-> SumOf(E, "output"), cost |-> SumOf(E, "cost")]

(* The failures of a group are those of the rows preferred among all.        *)
Overview(E) ==
  [d \in Values(E, "day") |->
     [total |-> Total({e \in E : e.day = d}), failures |-> Cardinality({e \in Failures(E) : e.day = d})]]

Today(E, today) ==
  LET D == {e \in E : e.day = today}
  IN  [failures |-> Cardinality(Failures(D)), models |-> [m \in {e.model : e \in D} |-> Total({e \in D : e.model = m})]]

Machines(E, from) ==
  [h \in Values(E, "host") |->
     [last |-> Ends({e \in E : e.host = h}), events |-> Cardinality({e \in E : e.host = h /\ e.day >= from})]]

(* tools, mcp and skills: by the name in a column, of the rows that have it.   *)
ByName(E, f) ==
  LET N == With(E, f)
  IN  [n \in Values(E, f) |->
         LET G == {e \in N : e[f] = n}
         IN  [calls |-> Cardinality(Of(G, "tool.call")),
              failures |-> Cardinality({e \in Failed(ToolResults(N)) : e[f] = n}),
              sessions |-> Cardinality(Values(G, "session")),
              last |-> Max(Values(G, "day"))]]

Tools(E) == ByName(E, "tool")
Mcp(E) == ByName(E, "server")
Skills(E) == ByName(E, "skill")

SessionRow(E, s) ==
  LET G == {e \in E : e.session = s}
  IN  [total |-> Total(G), started |-> Starts(G), client |-> Values(G, "client"), models |-> Values(G, "model"),
       failures |-> Cardinality({e \in Failures(With(E, "session")) : e.session = s})]

(* The newest sessions, up to the limit.                                     *)
Sessions(E, limit) ==
  LET rows == [s \in Values(E, "session") |-> SessionRow(E, s)]
      Newer(t, s) == \/ rows[t].started > rows[s].started
                     \/ rows[t].started = rows[s].started /\ t < s
  IN  [s \in {s \in DOMAIN rows : Cardinality({t \in DOMAIN rows : Newer(t, s)}) < limit} |-> rows[s]]
------------------------------------------------------------------------------
(***************************************************************************)
(* API_USAGE_CTE: in a session the requests of the best source it has.       *)
(***************************************************************************)
SourceRank(e) == CASE e.source = "otel" -> 0 [] e.source = "log" -> 1 [] OTHER -> 2

ApiUsage(E) ==
  LET requests == Of(E, "api.request")
      Best(s) == Min({SourceRank(e) : e \in {e \in requests : e.session = s}})
  IN  {e \in requests : SourceRank(e) = Best(e.session)}

OfSubagent(e) == e.agent # None \/ e.agentType # None \/ e.querySource = "agent"

Complete(e) ==
  /\ \A f \in {"input", "output", "cacheRead", "cacheWrite"} : e[f] # None
  /\ e.gpt => e.input >= e.cacheRead + e.cacheWrite

(* MODELS_USAGE_CTE and MODELS_FINAL_SQL: errors count where nothing was used. *)
ModelOf(e) == <<IF e.model = None THEN "unknown" ELSE e.model, e.effort>>

Models(E) ==
  LET usage == ApiUsage(E)
      errors == Of(E, "api.error")
  IN  [m \in {ModelOf(e) : e \in usage \cup errors} |->
         LET G == {e \in usage : ModelOf(e) = m}
             whole == {e \in G : Complete(e)}
         IN  [requests |-> Cardinality(G), errors |-> Cardinality({e \in errors : ModelOf(e) = m}),
              sessions |-> Cardinality(Values(G, "session")),
              subagents |-> Cardinality({e \in G : OfSubagent(e)}),
              input |-> SumOf(G, "input"), output |-> SumOf(G, "output"), cost |-> SumOf(G, "cost"),
              complete |-> Cardinality(whole), completeInput |-> SumOf(whole, "input")]]

Daily(E) ==
  LET usage == ApiUsage(E)
  IN  [k \in {<<e.day, ModelOf(e)[1]>> : e \in usage} |->
         LET G == {e \in usage : e.day = k[1] /\ ModelOf(e)[1] = k[2]}
         IN  [input |-> SumOf(G, "input"), output |-> SumOf(G, "output"), cost |-> SumOf(G, "cost")]]
------------------------------------------------------------------------------
(***************************************************************************)
(* session_detail: one session, of every day.                              *)
(***************************************************************************)
Minute == 60000
Steps == {m * Minute : m \in {1, 2, 5, 10, 15, 30, 60, 120, 360, 720, 1440}}

(* timeline_bucket_ms: the first step with about 240 buckets, or a day.        *)
BucketOf(ms) ==
  LET wide == {s \in Steps : s >= ms \div 240}
  IN  IF wide = {} THEN 1440 * Minute ELSE Min(wide)

Shown(G) == {e \in G : e.type # "tool.result"} \cup ToolResults(G)

Timeline(G) ==
  LET width == BucketOf(Ends(G) - Starts(G))
  IN  [b \in {e.ts \div width : e \in Shown(G)} |->
         LET B == {e \in Shown(G) : e.ts \div width = b}
         IN  [events |-> Cardinality(B), calls |-> Cardinality(Of(B, "tool.call")),
              failures |-> Cardinality(Failed(B)), requests |-> Cardinality(Of(B, "api.request")),
              subagents |-> Cardinality(With(B, "agent"))]]

DetailTools(G) ==
  [n \in Values(G, "tool") |->
     LET T == {e \in G : e.tool = n}
     IN  [calls |-> Cardinality(Of(T, "tool.call")), subagentCalls |-> Cardinality(With(Of(T, "tool.call"), "agent")),
          failures |-> Cardinality({e \in Failed(ToolResults(G)) : e.tool = n}),
          denied |-> Cardinality(Of(T, "tool.denied")),
          ms |-> SumOf({e \in ToolResults(G) : e.tool = n}, "ms")]]

(* The tokens of a subagent: of its requests, else the largest it stopped with. *)
Priced(A, type) == {e \in Of(A, type) : e.input # None \/ e.output # None}
Tokens(e) == Zero(e.input) + Zero(e.output)

AgentTokens(A) ==
  CASE Priced(A, "api.request") # {} -> MapThenSumSet(Tokens, Priced(A, "api.request"))
    [] Priced(A, "api.request") = {} /\ Priced(A, "subagent.stop") # {} ->
         Max({Tokens(e) : e \in Priced(A, "subagent.stop")})
    [] OTHER -> None

(* Its duration: what it stopped with, else what its rows span.               *)
AgentTime(A) ==
  LET stops == Values(Of(A, "subagent.stop"), "ms")
  IN  CASE stops # {} -> Max(stops)
        [] stops = {} /\ Ends(A) > Starts(A) -> Ends(A) - Starts(A)
        [] OTHER -> None

Window == 5000

(* Its models: of its own rows, else of the OTel requests of its type around it. *)
DetailAgents(G) ==
  [a \in Values(G, "agent") |->
     LET A == {e \in G : e.agent = a}
         around == {e \in Of(G, "api.request") :
                      /\ e.agent = None /\ e.agentType # None
                      /\ e.agentType = Max(Values(A, "agentType") \cup {0})
                      /\ e.ts \in Starts(A) - Window..Ends(A) + Window}
         own == Values(A, "model") \cup Values(A, "effort")
     IN  [calls |-> Cardinality(Of(A, "tool.call")), requests |-> Cardinality(Of(A, "api.request")),
          failures |-> Cardinality(Failed(A)), tokens |-> AgentTokens(A), time |-> AgentTime(A),
          models |-> IF Values(A, "model") # {} THEN Values(A, "model") ELSE Values(around, "model"),
          source |-> CASE own # {} -> "agent"
                       [] own = {} /\ Values(around, "model") \cup Values(around, "effort") # {} -> "otel_window"
                       [] OTHER -> None]]

SessionRows(s) == {e \in Source(Everything, 0) : e.session = s}

Detail(G) ==
  [total |-> Total(G), failures |-> Cardinality(Failures(G)), tools |-> DetailTools(G),
   agents |-> DetailAgents(G), models |-> Models(G), timeline |-> Timeline(G), events |-> Cardinality(Shown(G))]
------------------------------------------------------------------------------
(***************************************************************************)
(* subagents and coverage.                                                 *)
(***************************************************************************)
AgentsOf(E, s) ==
  LET G == {e \in E : e.session = s}
  IN  {{e \in G : e.agent = a} : a \in Values(G, "agent")}

Subagents(E) ==
  [s \in Values(With(E, "agent"), "session") |->
     LET G == {e \in E : e.session = s}
         agents == AgentsOf(E, s)
         otel == {e \in Of(G, "api.request") : e.source = "otel"}
         log == {e \in Of(G, "api.request") : e.source = "log"}
         priced == {A \in agents : AgentTokens(A) # None}
     IN  [agents |-> Cardinality(agents), calls |-> Cardinality(Of(With(G, "agent"), "tool.call")),
          sessionCalls |-> Cardinality(Of(G, "tool.call")),
          time |-> IF \E A \in agents : AgentTime(A) = None THEN None ELSE MapThenSumSet(AgentTime, agents),
          tokens |-> IF priced = {} THEN None ELSE MapThenSumSet(AgentTokens, priced),
          sessionTokens |-> CASE otel # {} -> MapThenSumSet(Tokens, otel)
                              [] otel = {} /\ log # {} -> MapThenSumSet(Tokens, log) [] OTHER -> None,
          priced |-> Cardinality(priced)]]

Coverage(E) ==
  LET keyed == With(Of(E, "tool.result"), "key")
      key(e) == <<e.session, e.key>>
      keys(source) == {key(e) : e \in {e \in keyed : e.source = source}}
      withUsage == Values(Priced(E, "api.request"), "session")
      agents == {<<e.session, e.agent>> : e \in With(Of(E, "api.request") \cup Of(E, "subagent.stop"), "agent")}
  IN  [events |-> Cardinality(E), sessions |-> Cardinality(Values(E, "session")),
       withoutUsage |-> Cardinality(Values(E, "session") \ withUsage),
       hook |-> Cardinality(keys("hook")), otel |-> Cardinality(keys("otel")),
       matched |-> Cardinality(keys("hook") \cap keys("otel")),
       raw |-> Cardinality(Of(E, "tool.result")),
       deduped |-> Cardinality(Of(E, "tool.result") \ keyed) + Cardinality({key(e) : e \in keyed}),
       subagents |-> Cardinality(agents), hosts |-> Cardinality(Values(E, "host"))]
------------------------------------------------------------------------------
(* What a page may be asked for: ActivityFilter.validate, and a window.       *)
FiltersShown ==
  {f \in [device : {None, ThisMac} \cup Values(ingested, "host"),
          repo : {None} \cup Values(ingested, "repo"), without : BOOLEAN] : f.without => f.repo = None}
Windows == Values(ingested, "day")
Pages == {[rows |-> Source(f, from), all |-> Source(f, 0)] : f \in FiltersShown, from \in Windows}

Sum(f) == MapThenSumSet(LAMBDA k : Zero(f[k]), DOMAIN f)
Each(f, c) == [k \in DOMAIN f |-> f[k][c]]

(* A result that the hook and the OTel exporter both reported is one result,   *)
(* under every filter, in every window and in the counts of the coverage page, *)
(* and a request that OTel and a transcript both reported is priced once;     *)
(* where both reported, the OTel row is shown.                              *)
ReportedOnce ==
  \A page \in Pages :
    LET E == page.rows
        Reported(S) == {e.real : e \in S}
        Once(S) == \A a, b \in S : a.real = b.real => a = b
    IN  /\ Once(ToolResults(E)) /\ Reported(ToolResults(E)) = Reported(Of(E, "tool.result"))
        /\ Coverage(E).deduped = Cardinality(ToolResults(E))
        /\ Once(ApiUsage(E))
        /\ \A e \in Of(E, "tool.result") \cup Of(E, "api.request") :
             e.source = "otel" => e \in ToolResults(E) \cup ApiUsage(E)

(* No request is reported by two sources, and nothing else carries tokens.    *)
OneSource(E) ==
  /\ \A a, b \in Of(E, "api.request") : a.session = b.session => SourceRank(a) = SourceRank(b)
  /\ \A e \in E \ Of(E, "api.request") : e.input = None /\ e.output = None /\ e.cost = None

(* The days of the overview and the sessions add up to the same; the models    *)
(* to the same as their days; and where each request is reported once, the    *)
(* three to the same tokens and cost. Where two sources report one, the models *)
(* count it once and the overview and the sessions every report of it.       *)
TotalsAgree(N) ==
  LET all == Sessions(N, Cardinality(N))
      days == Overview(N)
      models == Models(N)
      daily == Daily(N)
      Counted(rows, c) == Sum(Each(Each(rows, "total"), c))
  IN  /\ Sum(Each(days, "failures")) = Sum(Each(all, "failures"))
      /\ \A c \in {"events", "calls", "input", "output", "cost"} : Counted(days, c) = Counted(all, c)
      /\ \A day \in DOMAIN days :
           days[day].total.calls = Sum(Each(Today(N, day).models, "calls"))
      /\ \A c \in {"input", "output", "cost"} :
           /\ Sum(Each(models, c)) = Sum(Each(daily, c))
           /\ Counted(days, c) >= Sum(Each(models, c))
           /\ OneSource(N) => Counted(days, c) = Sum(Each(models, c))

(* A session of which no row is left out: its line in the list, its detail,    *)
(* the timeline and its subagents come to the same failures, events, calls and *)
(* tokens. A subagent's failures are counted over every report.              *)
SessionAgrees(row, G) ==
  LET d == Detail(G)
      s == Subagents(G)
  IN  /\ d.failures = row.failures /\ d.total = row.total
      /\ d.failures = Sum(Each(d.timeline, "failures"))
      /\ d.events = Sum(Each(d.timeline, "events"))
      /\ Sum(Each(d.agents, "failures")) >= Cardinality(With(Failures(G), "agent"))
      /\ \A k \in DOMAIN s :
           /\ s[k].calls = Sum(Each(d.agents, "calls"))
           /\ Zero(s[k].tokens) = Sum(Each(d.agents, "tokens"))

(* The pages tell one story, under every filter and in every window: the days  *)
(* of the overview, the sessions, their details, the tools and the models      *)
(* agree as above, and devices and repositories add up to all events. (The     *)
(* failures of today alone may be others than the overview's: a result that    *)
(* two sources reported on two days is one in the overview and one in each.)   *)
ViewsAgree ==
  /\ \A page \in Pages :
       LET N == With(page.rows, "session")
           all == Sessions(N, Cardinality(N))
           tools == Tools(N)
           G == [s \in DOMAIN all |-> {e \in page.all : e.session = s}]
           whole == {s \in DOMAIN all : G[s] \subseteq N}
       IN  /\ TotalsAgree(N)
           /\ \A s \in whole : SessionAgrees(all[s], G[s])
           /\ whole = DOMAIN all =>
                /\ \A t \in DOMAIN tools : \A c \in {"calls", "failures"} :
                     tools[t][c] = Sum([s \in whole |-> IF t \in Values(G[s], "tool") THEN DetailTools(G[s])[t][c] ELSE 0])
                /\ \A c \in {"input", "output", "cost"} :
                     Sum(Each(Models(N), c)) = Sum([s \in whole |-> Sum(Each(Models(G[s]), c))])
  /\ LET E == Source(Everything, 0)
         Events(filter) == Cardinality(Source(filter, 0))
     IN  /\ \A h \in Values(E, "host") :
              Machines(E, 0)[h].events = Events([Everything EXCEPT !.device = h])
         /\ Cardinality(E) = Sum(Each(Machines(E, 0), "events"))
         /\ Cardinality(E) = Events([Everything EXCEPT !.without = TRUE])
                              + Sum([r \in Values(E, "repo") |-> Events([Everything EXCEPT !.repo = r])])
==============================================================================

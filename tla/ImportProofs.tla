----------------------------- MODULE ImportProofs -----------------------------
(***************************************************************************)
(* What is proved of the import of transcripts, the part of MCCollectors   *)
(* that Backfill models, whatever the values of the constants: all other   *)
(* steps of CollectorsNext leave it alone. What its reader makes of a file *)
(* is proved in LinesProofs.                                               *)
(***************************************************************************)
EXTENDS LinesProofs

(* Backfill and Cowork translate by the same module.                       *)
LEMMA SameReader ==
  /\ B!NewNormalizer = V!NewNormalizer
  /\ \A c, line : B!Line(c, line) = V!Line(c, line)
  /\ \A c : B!Finish(c) = V!Finish(c)
<1>1. B!NewNormalizer = V!NewNormalizer
  BY DEF B!NewNormalizer, V!NewNormalizer
<1>2. ASSUME NEW c, NEW line
      PROVE  B!Line(c, line) = V!Line(c, line)
  <2>1. B!Carry(c, line) = V!Carry(c, line)
    BY Zenon DEF B!Carry, V!Carry, B!OfSubagent, V!OfSubagent
  <2>2. ASSUME NEW x
        PROVE  B!AsPrompted(x, line) = V!AsPrompted(x, line) /\ B!AsAnswered(x, line) = V!AsAnswered(x, line)
    BY Zenon DEF B!AsPrompted, V!AsPrompted, B!AsAnswered, V!AsAnswered, B!Counts, V!Counts, B!ToSet, V!ToSet
  <2>3. B!Learned(c, line) = V!Learned(c, line)
    BY <2>1, <2>2, Zenon DEF B!Learned, V!Learned, B!ByUser, V!ByUser, B!ToSet, V!ToSet
  <2>4. B!Opening(c, line) = V!Opening(c, line)
    BY <2>1, Zenon DEF B!Opening, V!Opening, B!OfSubagent, V!OfSubagent, B!BoundaryEvent, V!BoundaryEvent, B!Event, V!Event
  <2>5. ASSUME NEW x
        PROVE  /\ B!UserEvents(x, line) = V!UserEvents(x, line)
               /\ B!AssistantEvents(x, line) = V!AssistantEvents(x, line)
               /\ B!ErrorEvents(x, line) = V!ErrorEvents(x, line)
    <3>1. B!UserEvents(x, line) = V!UserEvents(x, line)
      BY Zenon DEF B!UserEvents, V!UserEvents, B!ResultEvent, V!ResultEvent, B!TurnEvent, V!TurnEvent, B!Event, V!Event
    <3>2. B!AssistantEvents(x, line) = V!AssistantEvents(x, line)
      BY Zenon DEF B!AssistantEvents, V!AssistantEvents, B!Counts, V!Counts, B!Event, V!Event
    <3>3. B!ErrorEvents(x, line) = V!ErrorEvents(x, line)
      BY Zenon DEF B!ErrorEvents, V!ErrorEvents, B!Event, V!Event
    <3>4. QED
      BY <3>1, <3>2, <3>3
  <2>6. B!Reported(c, line) = V!Reported(c, line)
    BY <2>1, <2>5, Zenon DEF B!Reported, V!Reported, B!ByUser, V!ByUser
  <2>7. QED
    BY <2>3, <2>4, <2>6, Zenon DEF B!Line, V!Line
<1>3. ASSUME NEW c
      PROVE  B!Finish(c) = V!Finish(c)
  BY Zenon DEF B!Finish, V!Finish, B!Event, V!Event, B!BoundaryEvent, V!BoundaryEvent
<1>4. QED
  BY <1>1, <1>2, <1>3

LEMMA SameMeaning ==
  /\ \A lines : B!Timed(lines) = V!Timed(lines)
  /\ \A S : B!Earliest(S) = V!Earliest(S) /\ B!Latest(S) = V!Latest(S)
  /\ \A lines : B!Meant(lines) = V!Meant(lines)
  /\ \A lines : B!MeantEnd(lines) = V!MeantEnd(lines)
<1>1. \A lines : B!Timed(lines) = V!Timed(lines)
  BY Zenon DEF B!Timed, V!Timed
<1>2. \A S : B!Earliest(S) = V!Earliest(S) /\ B!Latest(S) = V!Latest(S)
  BY Zenon DEF B!Earliest, V!Earliest, B!Latest, V!Latest
<1>3. ASSUME NEW lines
      PROVE  B!Meant(lines) = V!Meant(lines)
  <2>1. B!MeantCalls(lines) = V!MeantCalls(lines)
    BY Zenon DEF B!MeantCalls, V!MeantCalls, B!Event, V!Event, B!SessionAt, V!SessionAt, B!PromptAt, V!PromptAt,
       B!Timed, V!Timed, B!Latest, V!Latest, B!ToSet, V!ToSet
  <2>2. B!MeantResults(lines) = V!MeantResults(lines)
    BY Zenon DEF B!MeantResults, V!MeantResults, B!Event, V!Event, B!SessionAt, V!SessionAt,
       B!Timed, V!Timed, B!Latest, V!Latest, B!ToSet, V!ToSet, B!Calling, V!Calling
  <2>3. B!MeantRequests(lines) = V!MeantRequests(lines)
    BY Zenon DEF B!MeantRequests, V!MeantRequests, B!Event, V!Event, B!SessionAt, V!SessionAt,
       B!Timed, V!Timed, B!Latest, V!Latest, B!Earliest, V!Earliest
  <2>4. B!MeantTurns(lines) = V!MeantTurns(lines) /\ B!MeantErrors(lines) = V!MeantErrors(lines)
    BY Zenon DEF B!MeantTurns, V!MeantTurns, B!MeantErrors, V!MeantErrors, B!Event, V!Event,
       B!SessionAt, V!SessionAt, B!Timed, V!Timed, B!Latest, V!Latest
  <2>5. B!MeantStart(lines) = V!MeantStart(lines)
    BY Zenon DEF B!MeantStart, V!MeantStart, B!Event, V!Event, B!OfSubagent, V!OfSubagent,
       B!SessionAt, V!SessionAt, B!Timed, V!Timed, B!Latest, V!Latest, B!Earliest, V!Earliest
  <2>6. QED
    BY <2>1, <2>2, <2>3, <2>4, <2>5, Zenon DEF B!Meant, V!Meant
<1>4. ASSUME NEW lines
      PROVE  B!MeantEnd(lines) = V!MeantEnd(lines)
  BY Zenon DEF B!MeantEnd, V!MeantEnd, B!Event, V!Event, B!OfSubagent, V!OfSubagent, B!SessionAt, V!SessionAt,
     B!PromptAt, V!PromptAt, B!Timed, V!Timed, B!Latest, V!Latest, B!Earliest, V!Earliest, B!ToSet, V!ToSet
<1>5. QED
  BY <1>1, <1>2, <1>3, <1>4

-----------------------------------------------------------------------------
(* The invariant of the import. What a file says is what its lines tell,   *)
(* and the end of any beginning of it.                                     *)
ToldUpTo(t, n, e)  == \E m \in 1..n : TellsLine(t, m, e)
EndsAt(t, n, e) == Has(V!Finish(ContextOf(t, n)), e)
EndOf(t, e)      == \E n \in 1..Len(t) : EndsAt(t, n, e)
SaidBy(t, e)      == ToldUpTo(t, Len(t), e) \/ EndOf(t, e)

Spoken == HeldLines \cup {[line EXCEPT !.at = c] : line \in HeldLines, c \in ImportBegun..ImportUntil}

TimedIn(t, n) == n \in 1..Len(t) /\ t[n].at # None

IsGrown(f, t) ==
  LET old == HeldBefore[f]
  IN  /\ t \in Seq(Spoken) /\ Len(old) <= Len(t) /\ Len(t) <= Len(old) + Len(HeldLater[f])
      /\ \A n \in 1..Len(t) :
           /\ n <= Len(old) => t[n] = old[n]
           /\ n > Len(old) => /\ t[n].at \in ImportBegun..ImportUntil
                              /\ t[n] = [HeldLater[f][n - Len(old)] EXCEPT !.at = t[n].at]

InOrder(t, until) ==
  \A m \in 1..Len(t) :
    TimedIn(t, m) =>
      /\ t[m].at \in Nat /\ t[m].at <= until
      /\ \A n \in 1..Len(t) : TimedIn(t, n) /\ m <= n => t[m].at <= t[n].at

TextsOK ==
  /\ text \in [Imports -> Seq(Spoken)] /\ stamp \in [Imports -> Nat] /\ clock \in ImportBegun..ImportUntil
  /\ \A f \in Imports : IsGrown(f, text[f]) /\ InOrder(text[f], stamp[f]) /\ stamp[f] <= clock

BoundaryOK ==
  /\ kept \in Nat \cup {None} /\ importing \in BOOLEAN
  /\ importing => /\ boundary \in Nat /\ (kept # None => boundary = kept)
                  /\ kept = None => IF ImportArchive # None THEN boundary = ImportArchive ELSE boundary <= clock
  /\ ~importing => plan = {}

Outcomes == {None, "overlap", "backfilled"}

IsWhole(f) ==
  cursor.files[f].outcome = "backfilled" /\ cursor.files[f].size = Len(text[f]) /\ f \notin torn =>
    \A e : ToldUpTo(text[f], Len(text[f]), e) \/ EndsAt(text[f], Len(text[f]), e) => e \in imported

CursorOK ==
  /\ cursor \in [files : [Imports -> [size : Nat, stamp : Nat, outcome : Outcomes]],
                 progress : [Imports -> Nat]]
  /\ \A f \in Imports :
       /\ cursor.files[f].size <= Len(text[f]) /\ cursor.progress[f] <= Len(text[f])
       /\ \A e : ToldUpTo(text[f], cursor.progress[f], e) => e \in imported
       /\ IsWhole(f)

PlanOK ==
  /\ plan \subseteq [file : Imports, size : Nat, stamp : Nat,
                     outcome : {"overlap", "done", "backfill"}]
  /\ \A a, b \in plan : a.file = b.file => a = b
  /\ \A a \in plan :
       /\ a.size <= Len(text[a.file])
       /\ a.outcome = "backfill" /\ a.file \notin grown =>
            \A n \in 1..Len(text[a.file]) : TimedIn(text[a.file], n) => text[a.file][n].at < boundary

Sayings(t) == V!Meant(t) \cup UNION {V!MeantEnd(SubSeq(t, 1, n)) : n \in 1..Len(t)}

FileOK ==
  LET t == text[B!Now]
  IN  /\ importing /\ plan # {} /\ B!Turn.outcome = "backfill"
      /\ position \in 0..Len(t)
      /\ phase # "last" => context = ContextOf(t, position)
      /\ batch \in Seq(Sayings(t))
      /\ \A e : ToldUpTo(t, position, e) => e \in imported \/ Has(batch, e)
      /\ phase = "last" /\ B!Now \notin torn =>
           /\ B!Turn.size <= position
           /\ \A e : EndsAt(t, position, e) => e \in imported \/ Has(batch, e)

ReadingOK ==
  /\ phase \in {"next", "read", "send", "last"}
  /\ phase = "next" => position = 0 /\ batch = <<>>
  /\ phase # "next" => FileOK

Limit == IF importing THEN boundary ELSE B!BoundaryOf(kept)

LedgerOK ==
  /\ grown \subseteq Imports
  /\ \A e \in imported :
       /\ \E f \in Imports : SaidBy(text[f], e)
       /\ e.at < Limit \/ \E f \in grown : SaidBy(text[f], e)

(* The stamps: what the thread has read of the machine is no newer than    *)
(* the machine, a recorded stamp no newer than what was read.              *)
NoNewer(x, y) == x # None /\ y # None => x <= y

MarksOK ==
  /\ machine \in [remote : Nat, servers : Nat, client : Nat]
  /\ marked \in [remote : Nat \cup {None}, servers : Nat \cup {None}]
  /\ NoNewer(marked.remote, machine.remote) /\ NoNewer(marked.servers, machine.servers)
  /\ phase # "next" /\ position # 0 => marked.remote # None
  /\ phase # "next" /\ position = 0 => batch = <<>>
  /\ \A e : Has(batch, e) /\ e.type = "session.start" => marked.servers # None

StampOK(e) ==
  /\ stamps[e] \in [remote : Nat \cup {None}, servers : Nat \cup {None}, client : Nat]
  /\ stamps[e].remote = None <=> e.type \in B!EndTypes
  /\ stamps[e].servers = None <=> e.type # "session.start"
  /\ NoNewer(stamps[e].remote, marked.remote) /\ NoNewer(stamps[e].remote, machine.remote)
  /\ NoNewer(stamps[e].servers, marked.servers) /\ NoNewer(stamps[e].servers, machine.servers)
  /\ stamps[e].client <= machine.client

StampsOK == DOMAIN stamps = imported /\ \A e \in imported : StampOK(e)

RefusedOK == \A e \in refusedLines : (\E f \in Imports : EndOf(text[f], e)) \/ B!Restamped(e)

StampingOK == MarksOK /\ StampsOK /\ RefusedOK

ImportInv == TextsOK /\ BoundaryOK /\ CursorOK /\ PlanOK /\ ReadingOK /\ LedgerOK /\ StampingOK

LEMMA SpokenTools == \A line \in Spoken : line.tools \in Seq(V!ToSet(line.tools))
<1>1. ASSUME NEW line \in HeldLines
      PROVE  line.tools \in Seq(V!ToSet(line.tools)) /\ {"at", "tools"} \subseteq DOMAIN line
  BY ImportAssumption DEF IsSequence, V!ToSet, ToSet
<1>2. ASSUME NEW line \in HeldLines, NEW c
      PROVE  [line EXCEPT !.at = c].tools = line.tools
  BY <1>1
<1>3. QED
  BY <1>1, <1>2 DEF Spoken

LEMMA SpokenLines ==
  ASSUME NEW t \in Seq(Spoken)
  PROVE  /\ IsLines(t, Len(t)) /\ Len(t) \in Nat
         /\ \A n \in 1..Len(t) : t[n] \in Spoken /\ t[n].tools \in Seq(V!ToSet(t[n].tools))
BY SpokenTools DEF IsLines

LEMMA WiderSeq == ASSUME NEW X, NEW Y, X \subseteq Y, NEW s \in Seq(X) PROVE s \in Seq(Y)
  OBVIOUS

(* What the lines before a position say stays as it is when more follow.   *)
LEMMA MoreLines ==
  ASSUME NEW t \in Seq(Spoken), NEW u \in Seq(Spoken), Len(t) <= Len(u), Agree(t, u, Len(t)),
         NEW n \in 0..Len(t)
  PROVE  /\ n \in 0..Len(u) /\ ContextOf(t, n) = ContextOf(u, n)
         /\ \A e : ToldUpTo(t, n, e) <=> ToldUpTo(u, n, e)
         /\ \A e : EndsAt(t, n, e) <=> EndsAt(u, n, e)
<1> DEFINE j == Len(t)
           k == Len(u)
<1>1. IsLines(t, j) /\ IsLines(u, k) /\ j \in Nat /\ k \in Nat /\ j <= k
  BY SpokenLines
<1>2. n \in 0..j /\ n \in 0..k /\ n \in Nat
  BY <1>1
<1>3. \A m \in 0..n : Agree(t, u, m) /\ Agree(u, t, m)
  BY <1>1, <1>2 DEF Agree
<1> HIDE DEF j, k
<1>4. ContextOf(t, n) = ContextOf(u, n)
  BY <1>1, <1>2, <1>3, SameContext
<1>5. ASSUME NEW e, NEW m \in 1..n
      PROVE  TellsLine(t, m, e) <=> TellsLine(u, m, e)
  <2>1. m \in 1..j /\ m \in 1..k /\ Agree(t, u, m) /\ Agree(u, t, m)
    BY <1>1, <1>2, <1>3
  <2>2. TellsLine(t, m, e) => TellsLine(u, m, e)
    BY <1>1, <2>1, SameTelling
  <2>3. TellsLine(u, m, e) => TellsLine(t, m, e)
    BY <1>1, <2>1, SameTelling
  <2>4. QED
    BY <2>2, <2>3
<1>6. QED
  BY <1>2, <1>4, <1>5 DEF ToldUpTo, EndsAt, k

LEMMA MoreSaid ==
  ASSUME NEW t \in Seq(Spoken), NEW u \in Seq(Spoken), Len(t) <= Len(u), Agree(t, u, Len(t)), NEW e
  PROVE  (SaidBy(t, e) => SaidBy(u, e)) /\ (EndOf(t, e) => EndOf(u, e))
<1>1. Len(t) \in Nat /\ Len(u) \in Nat
  OBVIOUS
<1>2. Len(t) \in 0..Len(t)
  BY <1>1
<1>3. ToldUpTo(t, Len(t), e) => ToldUpTo(u, Len(u), e)
  <2>1. ToldUpTo(t, Len(t), e) <=> ToldUpTo(u, Len(t), e)
    BY <1>2, MoreLines
  <2>2. QED
    BY <1>1, <2>1 DEF ToldUpTo
<1>4. EndOf(t, e) => EndOf(u, e)
  <2> SUFFICES ASSUME NEW n \in 1..Len(t), EndsAt(t, n, e)
               PROVE  EndOf(u, e)
    BY DEF EndOf
  <2>1. n \in 0..Len(t) /\ n \in 1..Len(u)
    BY <1>1
  <2>2. EndsAt(u, n, e)
    BY <2>1, MoreLines
  <2>3. QED
    BY <2>1, <2>2 DEF EndOf
<1>5. QED
  BY <1>3, <1>4 DEF SaidBy

(* The end of a beginning of the file, as the reader makes it.             *)
LEMMA NoEnd == ASSUME NEW t, NEW k, IsLines(t, k), NEW e PROVE ~EndsAt(t, 0, e)
<1>1. ContextOf(t, 0).last = None
  BY UntilNone DEF V!NewNormalizer
<1>2. V!Finish(ContextOf(t, 0)) = <<>>
  BY <1>1 DEF V!Finish
<1>3. QED
  BY <1>2 DEF EndsAt, Has

LEMMA FinishIs ==
  ASSUME NEW X, NEW s \in Seq(X), NEW n \in Nat, Len(s) = n
  PROVE  \/ V!MeantEnd(s) = {} /\ V!Finish(ContextOf(s, n)) = <<>>
         \/ \E e : V!MeantEnd(s) = {e} /\ V!Finish(ContextOf(s, n)) = <<e>>
<1> DEFINE c == ContextOf(s, n)
           T == V!Timed(s)
           a == V!Earliest(T)
           z == V!Latest(T)
<1>1. DOMAIN s = 1..n /\ Until(s, n) = T /\ T \in SUBSET (1..n)
  BY DEF Until, V!Timed
<1>2. CASE T = {}
  <2>1. c.last = None
    BY <1>1, <1>2 DEF ContextOf
  <2>2. QED
    BY <1>2, <2>1 DEF V!Finish, V!MeantEnd
<1>3. CASE T # {}
  <2>1. z \in T
    BY <1>1, <1>3, LatestIn
  <2>2. s[z].at # None
    BY <2>1 DEF V!Timed
  <2>3. /\ c.session = V!SessionAt(s, n) /\ c.turn = V!PromptAt(s, n)
        /\ c.first = s[a].at /\ c.last = s[z].at /\ c.sidechain = V!OfSubagent(s[a])
        /\ V!OfSubagent(s[a]) => c.agent = s[a].agent
        /\ c.loaded = UNION {V!ToSet(s[k].tools) : k \in {j \in DOMAIN s : s[j].kind = "attachment"}}
    BY <1>1, <1>3 DEF ContextOf, FirstOf, LastOf, Loading
  <2>4. CASE V!OfSubagent(s[a])
    <3> DEFINE e == [V!Event("subagent.stop", <<c.session, c.agent>>, c.session, c.last, c.turn)
                       EXCEPT !.took = c.last - c.first]
    <3> HIDE DEF c
    <3>1. V!Finish(c) = <<e>>
      BY <2>2, <2>3, <2>4 DEF V!Finish
    <3>2. V!MeantEnd(s) = {e}
      BY <1>3, <2>3, <2>4 DEF V!MeantEnd
    <3> HIDE DEF e
    <3>3. QED
      BY <3>1, <3>2 DEF c
  <2>5. CASE ~V!OfSubagent(s[a])
    <3> DEFINE e == [V!BoundaryEvent("session.end", c, c.last) EXCEPT !.loaded = c.loaded]
    <3> HIDE DEF c
    <3>1. V!Finish(c) = <<e>>
      BY <2>2, <2>3, <2>5 DEF V!Finish
    <3>2. V!MeantEnd(s) = {e}
      BY <1>3, <2>3, <2>5 DEF V!MeantEnd, V!BoundaryEvent
    <3> HIDE DEF e
    <3>3. QED
      BY <3>1, <3>2 DEF c
  <2>6. QED
    BY <2>4, <2>5
<1>4. QED
  BY <1>2, <1>3

LEMMA EndIs ==
  ASSUME NEW t \in Seq(Spoken), NEW n \in 1..Len(t)
  PROVE  /\ V!Finish(ContextOf(t, n)) \in Seq(V!MeantEnd(SubSeq(t, 1, n)))
         /\ \A e : EndsAt(t, n, e) <=> e \in V!MeantEnd(SubSeq(t, 1, n))
<1> DEFINE s == SubSeq(t, 1, n)
<1>1. s \in Seq(Spoken) /\ Len(s) = n /\ n \in Nat /\ \A m \in 1..n : s[m] = t[m]
  OBVIOUS
<1>2. ContextOf(s, n) = ContextOf(t, n)
  <2>1. Len(s) <= Len(t) /\ Agree(s, t, Len(s)) /\ n \in 0..Len(s)
    BY <1>1 DEF Agree
  <2> HIDE DEF s
  <2>2. QED
    BY <1>1, <2>1, MoreLines
<1> HIDE DEF s
<1>3. \/ V!MeantEnd(s) = {} /\ V!Finish(ContextOf(s, n)) = <<>>
      \/ \E e : V!MeantEnd(s) = {e} /\ V!Finish(ContextOf(s, n)) = <<e>>
  BY <1>1, FinishIs
<1>4. CASE V!MeantEnd(s) = {} /\ V!Finish(ContextOf(s, n)) = <<>>
  BY <1>2, <1>4, Nothing DEF EndsAt, s
<1>5. ASSUME NEW e, V!MeantEnd(s) = {e}, V!Finish(ContextOf(s, n)) = <<e>>
      PROVE  /\ V!Finish(ContextOf(t, n)) \in Seq(V!MeantEnd(s))
             /\ \A x : EndsAt(t, n, x) <=> x \in V!MeantEnd(s)
  <2>1. e \in {e}
    OBVIOUS
  <2>2. <<e>> \in Seq({e}) /\ \A x : Has(<<e>>, x) <=> x = e
    BY <2>1, OneOrNone
  <2>3. QED
    BY <1>2, <1>5, <2>2 DEF EndsAt
<1>6. QED
  BY <1>3, <1>4, <1>5 DEF s

LEMMA SayingsAre ==
  ASSUME NEW t \in Seq(Spoken)
  PROVE  \A e : e \in Sayings(t) <=> SaidBy(t, e)
<1>1. IsLines(t, Len(t))
  BY SpokenLines
<1>2. \A e : e \in V!Meant(t) <=> ToldUpTo(t, Len(t), e)
  BY <1>1, MeantIs DEF ToldUpTo
<1>3. \A e : e \in UNION {V!MeantEnd(SubSeq(t, 1, n)) : n \in 1..Len(t)} <=> EndOf(t, e)
  <2> SUFFICES ASSUME NEW e
               PROVE  (\E n \in 1..Len(t) : e \in V!MeantEnd(SubSeq(t, 1, n))) <=> EndOf(t, e)
    OBVIOUS
  <2>1. QED
    BY EndIs DEF EndOf
<1>4. QED
  BY <1>2, <1>3 DEF Sayings, SaidBy

LineTypes == {"tool.call", "tool.result", "api.request", "turn", "api.error", "session.start"}

LEMMA TellingIs ==
  ASSUME NEW t, NEW n, NEW e, TellsLine(t, n, e)
  PROVE  e.at = t[n].at /\ e.type \in LineTypes
<1>1. CASE TellsCall(t, n, e)
  BY <1>1 DEF TellsCall, CallAt, V!Event, LineTypes
<1>2. CASE TellsResult(t, n, e)
  <2>1. PICK id : e = ResultAt(t, n, id)
    BY <1>2 DEF TellsResult
  <2>2. \A b, c : LET x == [V!Event("tool.result", <<id>>, V!SessionAt(t, n), t[n].at, t[n].prompt)
                              EXCEPT !.tool = b, !.took = c]
                  IN  x.at = t[n].at /\ x.type = "tool.result"
    BY DEF V!Event
  <2>3. QED
    BY <2>1, <2>2 DEF ResultAt, LineTypes
<1>3. CASE TellsRequest(t, n, e) \/ TellsTurn(t, n, e) \/ TellsError(t, n, e) \/ TellsStart(t, n, e)
  <2>1. \E y, k, i, p : e = V!Event(y, k, i, t[n].at, p) /\ y \in LineTypes
    BY <1>3 DEF TellsRequest, TellsTurn, TellsError, TellsStart, LineTypes
  <2>2. QED
    BY <2>1 DEF V!Event
<1>4. QED
  BY <1>1, <1>2, <1>3 DEF TellsLine

(* Each is said with the time of a line; an end is never told by a line.   *)
LEMMA SaidWhen ==
  ASSUME NEW t \in Seq(Spoken), NEW e, SaidBy(t, e)
  PROVE  \E n \in 1..Len(t) : TimedIn(t, n) /\ e.at = t[n].at
<1>1. CASE ToldUpTo(t, Len(t), e)
  <2>1. PICK n \in 1..Len(t) : TellsLine(t, n, e)
    BY <1>1 DEF ToldUpTo
  <2>2. e.at = t[n].at
    BY <2>1, TellingIs
  <2>3. QED
    BY <2>1, <2>2 DEF TimedIn, TellsLine
<1>2. CASE EndOf(t, e)
  <2>1. PICK n \in 1..Len(t) : EndsAt(t, n, e)
    BY <1>2 DEF EndOf
  <2> DEFINE s == SubSeq(t, 1, n)
             T == V!Timed(s)
             z == V!Latest(T)
  <2>2. e \in V!MeantEnd(s)
    BY <2>1, EndIs
  <2>3. T # {} /\ e.at = s[z].at
    BY <2>2 DEF V!MeantEnd, V!Event
  <2>4. s \in Seq(Spoken) /\ Len(s) = n /\ n \in Nat /\ n <= Len(t) /\ \A m \in 1..n : s[m] = t[m]
    OBVIOUS
  <2>5. T \in SUBSET (1..n)
    BY <2>4 DEF V!Timed
  <2> HIDE DEF s
  <2>6. z \in T
    BY <2>3, <2>4, <2>5, LatestIn
  <2>7. z \in 1..n /\ s[z].at # None
    BY <2>5, <2>6 DEF V!Timed
  <2>8. z \in 1..Len(t) /\ t[z] = s[z]
    BY <2>4, <2>7
  <2>9. QED
    BY <2>3, <2>7, <2>8 DEF TimedIn
<1>3. QED
  BY <1>1, <1>2 DEF SaidBy

LEMMA ToldTypes == ASSUME NEW t, NEW n, NEW e, ToldUpTo(t, n, e) PROVE e.type \in LineTypes
  BY TellingIs DEF ToldUpTo

LEMMA EndTypes == ASSUME NEW t \in Seq(Spoken), NEW e, EndOf(t, e) PROVE e.type \in {"subagent.stop", "session.end"}
<1>1. PICK n \in 1..Len(t) : EndsAt(t, n, e)
  BY DEF EndOf
<1>2. e \in V!MeantEnd(SubSeq(t, 1, n))
  BY <1>1, EndIs
<1>3. QED
  BY <1>2 DEF V!MeantEnd, V!Event

(* The lines before are read again for the context alone.                  *)
LEMMA ContextAfterIs ==
  ASSUME NEW f, text[f] \in Seq(Spoken), NEW n \in 0..Len(text[f])
  PROVE  B!ContextAfter(f, n) = ContextOf(text[f], n)
<1> DEFINE t == text[f]
           Fits(g) == g = [m \in 0..n |-> IF m = 0 THEN V!NewNormalizer ELSE V!Line(g[m - 1], t[m]).ctx]
           whole == [m \in 0..n |-> ContextOf(t, m)]
           g == CHOOSE h : Fits(h)
<1>0. n \in Nat /\ IsLines(t, Len(t)) /\ Len(t) \in Nat /\ n <= Len(t)
  BY SpokenLines
<1>1. Fits(whole)
  <2>1. ASSUME NEW m \in 0..n
        PROVE  whole[m] = IF m = 0 THEN V!NewNormalizer ELSE V!Line(whole[m - 1], t[m]).ctx
    <3>1. CASE m = 0
      BY <1>0, <3>1, UntilNone
    <3>2. CASE m # 0
      <4>1. m \in 1..Len(t) /\ m - 1 \in 0..n
        BY <1>0, <3>2
      <4>2. V!Line(ContextOf(t, m - 1), t[m]).ctx = ContextOf(t, m)
        BY <1>0, <4>1, ContextStep
      <4>3. QED
        BY <3>2, <4>1, <4>2
    <3>3. QED
      BY <3>1, <3>2
  <2>2. QED
    BY <2>1
<1>2. B!ContextAfter(f, n) = g[n]
  BY SameReader DEF B!ContextAfter
<1>3. Fits(g)
  <2> HIDE DEF whole, Fits
  <2>1. \E h : Fits(h)
    BY <1>1
  <2>2. QED
    BY <2>1
<1>4. \A m \in 0..n : g[m] = IF m = 0 THEN V!NewNormalizer ELSE V!Line(g[m - 1], t[m]).ctx
  <2> HIDE DEF g
  <2>1. QED
    BY <1>3
<1> HIDE DEF g
<1> DEFINE Wrong == {m \in 0..n : g[m] # ContextOf(t, m)}
<1>5. Wrong = {}
  <2> SUFFICES ASSUME Wrong # {}
               PROVE  FALSE
    OBVIOUS
  <2>1. Wrong \in SUBSET Nat
    OBVIOUS
  <2>2. PICK m \in Wrong : \A k \in Wrong : m <= k
    BY <2>1, LeastNumber
  <2>3. m # 0
    BY <1>0, <1>4, <2>2, UntilNone
  <2>4. m \in 1..Len(t) /\ m - 1 \in 0..n /\ m - 1 \notin Wrong
    BY <1>0, <2>2, <2>3
  <2>5. g[m - 1] = ContextOf(t, m - 1)
    BY <2>4
  <2>6. V!Line(ContextOf(t, m - 1), t[m]).ctx = ContextOf(t, m)
    BY <1>0, <2>4, ContextStep
  <2>7. g[m] = ContextOf(t, m)
    BY <1>4, <2>2, <2>3, <2>5, <2>6
  <2>8. QED
    BY <2>2, <2>7
<1>6. QED
  BY <1>0, <1>2, <1>5

(* The file in turn: the oldest, of two of one time the first by its path. *)
LEMMA TurnIs ==
  ASSUME PlanOK, plan # {}
  PROVE  B!Turn \in plan /\ B!Now = B!Turn.file /\ B!Now \in Imports
<1>1. \A a \in plan : a.stamp \in Nat /\ a.file \in Nat /\ a.file \in Imports
  BY ImportAssumption DEF PlanOK
<1> DEFINE S == {a.stamp : a \in plan}
<1>2. PICK x \in S : \A y \in S : x <= y
  <2>1. S \in SUBSET Nat /\ S # {}
    BY <1>1
  <2> HIDE DEF S
  <2>2. QED
    BY <2>1, LeastNumber
<1> DEFINE F == {a.file : a \in {b \in plan : b.stamp = x}}
<1>3. PICK z \in F : \A y \in F : z <= y
  <2>1. F \in SUBSET Nat /\ F # {}
    BY <1>1, <1>2
  <2> HIDE DEF F
  <2>2. QED
    BY <2>1, LeastNumber
<1>4. PICK a \in plan : a.stamp = x /\ a.file = z
  BY <1>3
<1>5. ASSUME NEW b \in plan \ {a}
      PROVE  B!Before(a, b)
  <2>1. b.file # a.file
    BY <1>4 DEF PlanOK
  <2>2. x <= b.stamp
    BY <1>2
  <2>3. b.stamp = x => z <= b.file
    BY <1>3
  <2>4. a.stamp \in Nat /\ b.stamp \in Nat /\ a.file \in Nat /\ b.file \in Nat
    BY <1>1, <1>4
  <2>5. QED
    BY <1>4, <2>1, <2>2, <2>3, <2>4 DEF B!Before
<1>6. B!Turn \in plan
  BY <1>4, <1>5 DEF B!Turn
<1>7. QED
  BY <1>1, <1>6 DEF B!Now

LEMMA SameTurn == ASSUME plan' = plan PROVE B!Turn' = B!Turn /\ B!Now' = B!Now
  BY DEF B!Turn, B!Now

LEMMA SpokenLater ==
  ASSUME NEW line \in HeldLines, NEW c \in ImportBegun..ImportUntil
  PROVE  [line EXCEPT !.at = c] \in Spoken
<1> DEFINE At(l, d) == [l EXCEPT !.at = d]
           later == {At(l, d) : l \in HeldLines, d \in ImportBegun..ImportUntil}
<1>1. Spoken = HeldLines \cup later
  BY DEF Spoken
<1> HIDE DEF At
<1>2. At(line, c) \in later
  OBVIOUS
<1> HIDE DEF later
<1>3. At(line, c) \in Spoken
  BY <1>1, <1>2
<1>4. QED
  BY <1>3 DEF At

LEMMA JoinedIs ==
  ASSUME NEW X, NEW s \in Seq(X), NEW t \in Seq(X)
  PROVE  /\ s \o t \in Seq(X) /\ Len(s \o t) = Len(s) + Len(t) /\ Len(s) \in Nat /\ Len(t) \in Nat
         /\ \A n \in 1..Len(s \o t) : (s \o t)[n] = IF n <= Len(s) THEN s[n] ELSE t[n - Len(s)]
OBVIOUS

(* A file is a beginning of what it is in the end.                         *)
LEMMA GrownInto ==
  ASSUME NEW h \in Imports, NEW t \in Seq(Spoken), IsGrown(h, t),
         NEW later, DOMAIN HeldLater[h] \subseteq later,
         NEW times, times[h] \in [later -> ImportBegun..ImportUntil],
         \A n \in DOMAIN HeldLater[h] :
           Len(HeldBefore[h]) + n \in 1..Len(t) => times[h][n] = t[Len(HeldBefore[h]) + n].at
  PROVE  LET u == HeldInAll(h, times)
         IN  u \in Seq(Spoken) /\ Len(t) <= Len(u) /\ Agree(t, u, Len(t))
<1> DEFINE old == HeldBefore[h]
           more == HeldLater[h]
           rest == [n \in DOMAIN more |-> [more[n] EXCEPT !.at = times[h][n]]]
           u == HeldInAll(h, times)
<1>1. old \in Seq(HeldLines) /\ more \in Seq(HeldLines)
  BY ImportAssumption
<1>2. u = old \o rest
  BY DEF HeldInAll
<1>3. /\ Len(t) <= Len(old) + Len(more)
      /\ \A n \in 1..Len(t) :
           /\ n <= Len(old) => t[n] = old[n]
           /\ n > Len(old) => t[n] = [more[n - Len(old)] EXCEPT !.at = t[n].at]
  BY DEF IsGrown
<1>4. \A n \in DOMAIN more : Len(old) + n \in 1..Len(t) => times[h][n] = t[Len(old) + n].at
  OBVIOUS
<1>5. \A n \in DOMAIN more : rest[n] = [more[n] EXCEPT !.at = times[h][n]] /\ times[h][n] \in ImportBegun..ImportUntil
  OBVIOUS
<1>6. DOMAIN rest = DOMAIN more /\ rest = [n \in DOMAIN more |-> rest[n]]
  OBVIOUS
<1> HIDE DEF old, more, rest, u
<1>7. Len(old) \in Nat /\ Len(more) \in Nat /\ DOMAIN more = 1..Len(more) /\ \A n \in 1..Len(more) : more[n] \in HeldLines
  BY <1>1
<1>8. \A n \in 1..Len(more) : rest[n] \in Spoken
  <2> SUFFICES ASSUME NEW n \in 1..Len(more)
               PROVE  rest[n] \in Spoken
    OBVIOUS
  <2>1. n \in DOMAIN more /\ more[n] \in HeldLines
    BY <1>7
  <2>2. rest[n] = [more[n] EXCEPT !.at = times[h][n]] /\ times[h][n] \in ImportBegun..ImportUntil
    BY <1>5, <2>1, Zenon
  <2>3. [more[n] EXCEPT !.at = times[h][n]] \in Spoken
    BY <2>1, <2>2, SpokenLater, Zenon
  <2>4. QED
    BY <2>2, <2>3, Zenon
<1>9. rest \in Seq(Spoken) /\ Len(rest) = Len(more)
  <2>1. rest \in [1..Len(more) -> Spoken]
    BY <1>6, <1>7, <1>8
  <2>2. QED
    BY <1>7, <2>1
<1>10. old \in Seq(Spoken)
  <2>1. HeldLines \subseteq Spoken
    BY DEF Spoken
  <2>2. QED
    BY <1>1, <2>1, WiderSeq
<1>11. /\ u \in Seq(Spoken) /\ Len(u) = Len(old) + Len(more)
       /\ \A n \in 1..Len(u) : u[n] = IF n <= Len(old) THEN old[n] ELSE rest[n - Len(old)]
  <2>1. /\ old \o rest \in Seq(Spoken) /\ Len(old \o rest) = Len(old) + Len(rest)
        /\ \A n \in 1..Len(old \o rest) : (old \o rest)[n] = IF n <= Len(old) THEN old[n] ELSE rest[n - Len(old)]
    BY <1>9, <1>10, JoinedIs, Zenon
  <2>2. QED
    BY <1>2, <1>9, <2>1, Zenon
<1>12. Len(t) \in Nat /\ Len(t) <= Len(u)
  BY <1>3, <1>11
<1>13. ASSUME NEW n \in 1..Len(t)
       PROVE  t[n] = u[n]
  <2>1. n \in 1..Len(u) /\ n \in Nat
    BY <1>7, <1>11, <1>12
  <2>2. CASE n <= Len(old)
    BY <1>3, <1>11, <2>1, <2>2
  <2>3. CASE n > Len(old)
    <3> DEFINE m == n - Len(old)
    <3>1. m \in Nat /\ m = n - Len(old)
      BY <1>7, <2>1, <2>3
    <3> HIDE DEF m
    <3>2. m \in 1..Len(more) /\ Len(old) + m = n
      BY <1>3, <1>7, <1>12, <2>1, <2>3, <3>1
    <3>3. times[h][m] = t[n].at
      BY <1>4, <1>7, <3>2
    <3>4. t[n] = [more[m] EXCEPT !.at = t[n].at]
      BY <1>3, <2>3, <3>1
    <3>5. u[n] = rest[m]
      BY <1>7, <1>11, <2>1, <2>3, <3>1
    <3>6. rest[m] = [more[m] EXCEPT !.at = times[h][m]]
      BY <1>5, <1>7, <3>2
    <3>7. QED
      BY <3>3, <3>4, <3>5, <3>6
  <2>4. QED
    BY <1>7, <2>1, <2>2, <2>3
<1>14. QED
  BY <1>11, <1>12, <1>13 DEF Agree, u

(* No two lines contradict each other: each file is a beginning of what it *)
(* may be in the end.                                                      *)
LEMMA NoContradiction ==
  ASSUME TextsOK, NEW f \in Imports, NEW g \in Imports, NEW e, NEW r,
         ToldUpTo(text[f], Len(text[f]), e), ToldUpTo(text[g], Len(text[g]), r),
         e.type = r.type, e.key = r.key
  PROVE  e = r
<1> DEFINE later == UNION {DOMAIN HeldLater[h] : h \in Imports}
           o(h) == Len(HeldBefore[h])
           times == [h \in Imports |-> [n \in later |->
                       IF o(h) + n \in 1..Len(text[h]) THEN text[h][o(h) + n].at ELSE ImportBegun]]
<1>0. /\ \A h \in Imports : HeldBefore[h] \in Seq(HeldLines) /\ HeldLater[h] \in Seq(HeldLines)
      /\ \A h \in Imports : text[h] \in Seq(Spoken) /\ IsGrown(h, text[h])
      /\ ImportBegun \in Nat /\ ImportUntil \in Nat /\ ImportBegun <= ImportUntil
  BY ImportAssumption DEF TextsOK
<1>1. times \in [Imports -> [later -> ImportBegun..ImportUntil]]
  <2>1. ASSUME NEW h \in Imports, NEW n \in later, o(h) + n \in 1..Len(text[h])
        PROVE  text[h][o(h) + n].at \in ImportBegun..ImportUntil
    <3>1. PICK i \in Imports : n \in DOMAIN HeldLater[i]
      OBVIOUS
    <3>2. n \in Nat /\ n > 0 /\ o(h) \in Nat
      BY <1>0, <3>1
    <3>3. o(h) + n > o(h)
      BY <3>2
    <3>4. QED
      BY <1>0, <2>1, <3>3 DEF IsGrown
  <2>2. ImportBegun \in ImportBegun..ImportUntil
    BY <1>0
  <2>3. QED
    BY <2>1, <2>2
<1>2. ASSUME NEW h \in Imports, NEW x, ToldUpTo(text[h], Len(text[h]), x)
      PROVE  x \in B!Meant(HeldInAll(h, times))
  <2> DEFINE u == HeldInAll(h, times)
             t == text[h]
  <2>1. /\ times[h] \in [later -> ImportBegun..ImportUntil] /\ DOMAIN HeldLater[h] \subseteq later
        /\ \A n \in DOMAIN HeldLater[h] : o(h) + n \in 1..Len(t) => times[h][n] = t[o(h) + n].at
    <3>1. \A n \in later : times[h][n] = IF o(h) + n \in 1..Len(t) THEN t[o(h) + n].at ELSE ImportBegun
      OBVIOUS
    <3>2. DOMAIN HeldLater[h] \subseteq later
      OBVIOUS
    <3> HIDE DEF times, later, o
    <3>3. QED
      BY <1>1, <3>1, <3>2
  <2>2. t \in Seq(Spoken) /\ IsGrown(h, t)
    BY <1>0
  <2> HIDE DEF times, later, o, t, u
  <2>3. u \in Seq(Spoken) /\ Len(t) <= Len(u) /\ Agree(t, u, Len(t))
    BY <2>1, <2>2, GrownInto DEF u, o
  <2>4. ToldUpTo(u, Len(u), x)
    <3>1. Len(t) \in 0..Len(t)
      BY <2>2
    <3>2. ToldUpTo(u, Len(t), x)
      BY <1>2, <2>2, <2>3, <3>1, MoreLines DEF t
    <3>3. QED
      BY <2>2, <2>3, <3>2 DEF ToldUpTo
  <2>5. IsLines(u, Len(u))
    BY <2>3, SpokenLines
  <2>6. x \in V!Meant(u)
    BY <2>4, <2>5, MeantIs DEF ToldUpTo
  <2>7. QED
    BY <2>6, SameMeaning DEF u
<1> HIDE DEF times, later
<1>3. e \in UNION {B!Meant(HeldInAll(h, times)) : h \in Imports} /\ r \in UNION {B!Meant(HeldInAll(h, times)) : h \in Imports}
  BY <1>2
<1>4. QED
  BY <1>1, <1>3, ImportAssumption DEF later

LEMMA ImportTold ==
  ASSUME TextsOK, NEW f \in Imports
  PROVE  /\ text[f] \in Seq(Spoken) /\ Sayings(text[f]) = B!Told(f) \cup B!PossibleEnds(f)
         /\ \A e : e \in B!Told(f) \cup B!PossibleEnds(f) <=> SaidBy(text[f], e)
         /\ \A e : e \in B!Told(f) <=> ToldUpTo(text[f], Len(text[f]), e)
         /\ \A e : e \in B!PossibleEnds(f) <=> EndOf(text[f], e)
         /\ \A e : e \in B!MeantEnd(text[f]) => EndsAt(text[f], Len(text[f]), e)
<1> DEFINE t == text[f]
<1>1. t \in Seq(Spoken) /\ IsLines(t, Len(t)) /\ Len(t) \in Nat
  BY SpokenLines DEF TextsOK
<1>2. B!Told(f) = V!Meant(t)
  BY SameMeaning DEF B!Told
<1>3. B!PossibleEnds(f) = UNION {V!MeantEnd(SubSeq(t, 1, n)) : n \in 1..Len(t)}
  BY SameMeaning DEF B!PossibleEnds
<1>4. Sayings(t) = B!Told(f) \cup B!PossibleEnds(f)
  BY <1>2, <1>3 DEF Sayings
<1>5. \A e : e \in Sayings(t) <=> SaidBy(t, e)
  BY <1>1, SayingsAre
<1>6. \A e : e \in V!Meant(t) <=> ToldUpTo(t, Len(t), e)
  BY <1>1, MeantIs DEF ToldUpTo
<1>7. \A e : e \in B!PossibleEnds(f) <=> EndOf(t, e)
  <2> SUFFICES ASSUME NEW e
               PROVE  (\E n \in 1..Len(t) : e \in V!MeantEnd(SubSeq(t, 1, n))) <=> EndOf(t, e)
    BY <1>3
  <2>1. QED
    BY <1>1, EndIs DEF EndOf
<1>8. ASSUME NEW e, e \in V!MeantEnd(t)
      PROVE  EndsAt(t, Len(t), e)
  <2> DEFINE o == V!Finish(ContextOf(t, Len(t)))
  <2>1. PICK x : V!MeantEnd(t) = {x} /\ o = <<x>>
    BY <1>1, <1>8, FinishIs
  <2> HIDE DEF o
  <2>2. x = e /\ x \in {x}
    BY <1>8, <2>1
  <2>3. Has(<<x>>, e)
    BY <2>2, OneOrNone
  <2>4. QED
    BY <2>1, <2>3 DEF EndsAt, o
<1>9. \A e : e \in B!MeantEnd(t) => EndsAt(t, Len(t), e)
  BY <1>8, SameMeaning
<1> HIDE DEF t
<1>10. QED
  BY <1>1, <1>2, <1>4, <1>5, <1>6, <1>7, <1>9 DEF t

LEMMA SaidAt ==
  ASSUME TextsOK, NEW f \in Imports, NEW e, SaidBy(text[f], e)
  PROVE  e.at \in Nat /\ \E n \in 1..Len(text[f]) : TimedIn(text[f], n) /\ e.at = text[f][n].at
<1>1. text[f] \in Seq(Spoken) /\ InOrder(text[f], stamp[f])
  BY DEF TextsOK
<1>2. QED
  BY <1>1, SaidWhen DEF InOrder

LEMMA ImportShows == ImportInv => ImportHolds
<1> SUFFICES ASSUME ImportInv
             PROVE  B!LedgerIsMeant /\ B!DoneIsWhole /\ B!NothingBeyondBoundary /\ B!OnlyEndsRefused
  BY DEF ImportHolds
<1>1. TextsOK /\ LedgerOK /\ CursorOK /\ BoundaryOK /\ RefusedOK
  BY DEF ImportInv, StampingOK
<1>2. B!LedgerIsMeant
  BY <1>1, ImportTold DEF B!LedgerIsMeant, LedgerOK
<1>3. B!DoneIsWhole
  <2> SUFFICES ASSUME NEW f \in Imports, cursor.files[f].outcome = "backfilled",
                      cursor.files[f].size = Len(text[f]), f \notin torn,
                      NEW e \in B!Told(f) \cup B!MeantEnd(text[f])
               PROVE  e \in imported
    BY DEF B!DoneIsWhole
  <2>1. ToldUpTo(text[f], Len(text[f]), e) \/ EndsAt(text[f], Len(text[f]), e)
    BY <1>1, ImportTold
  <2>2. IsWhole(f)
    BY <1>1 DEF CursorOK
  <2>3. QED
    BY <2>1, <2>2 DEF IsWhole
<1>4. B!NothingBeyondBoundary
  <2> SUFFICES ASSUME kept # None, NEW e \in imported, e.at >= kept
               PROVE  \E f \in grown : e \in B!Told(f) \cup B!PossibleEnds(f)
    BY DEF B!NothingBeyondBoundary
  <2>1. Limit = kept
    BY <1>1 DEF Limit, BoundaryOK, B!BoundaryOf
  <2>2. PICK f \in Imports : SaidBy(text[f], e)
    BY <1>1 DEF LedgerOK
  <2>3. e.at \in Nat /\ kept \in Nat
    BY <1>1, <2>2, SaidAt DEF BoundaryOK
  <2>4. ~(e.at < Limit)
    BY <2>1, <2>3
  <2>5. PICK g \in grown : SaidBy(text[g], e)
    BY <1>1, <2>4 DEF LedgerOK
  <2>6. g \in Imports
    BY <1>1 DEF LedgerOK
  <2>7. QED
    BY <1>1, <2>5, <2>6, ImportTold
<1>5. B!OnlyEndsRefused
  BY <1>1, ImportTold DEF B!OnlyEndsRefused, RefusedOK
<1>6. QED
  BY <1>2, <1>3, <1>4, <1>5

LEMMA ImportBegins == B!BackfillInit => ImportInv
<1> SUFFICES ASSUME B!BackfillInit
             PROVE  ImportInv
  OBVIOUS
<1> USE DEF B!BackfillInit
<1>1. TextsOK
  <2>1. text = HeldBefore /\ stamp = HeldSince /\ clock = ImportBegun
    OBVIOUS
  <2>2. HeldLines \subseteq Spoken
    BY DEF Spoken
  <2>3. \A f \in Imports : text[f] \in Seq(HeldLines) /\ text[f] \in Seq(Spoken)
    BY <2>1, <2>2, ImportAssumption, WiderSeq
  <2>4. text \in [Imports -> Seq(Spoken)]
    BY <2>1, <2>3, ImportAssumption
  <2>5. stamp \in [Imports -> Nat] /\ clock \in ImportBegun..ImportUntil /\ \A f \in Imports : stamp[f] <= clock
    BY <2>1, ImportAssumption
  <2>6. ASSUME NEW f \in Imports
        PROVE  IsGrown(f, text[f])
    BY <2>1, <2>3, ImportAssumption DEF IsGrown
  <2>7. ASSUME NEW f \in Imports
        PROVE  InOrder(text[f], stamp[f])
    <3> DEFINE t == text[f]
    <3>1. \A m : TimedIn(t, m) <=> m \in B!Timed(HeldBefore[f])
      BY <2>1, <2>3 DEF TimedIn, B!Timed
    <3>2. \A m \in B!Timed(HeldBefore[f]) :
            /\ t[m].at \in 0..stamp[f]
            /\ \A n \in B!Timed(HeldBefore[f]) : m <= n => t[m].at <= t[n].at
      BY <2>1, ImportAssumption
    <3>3. stamp[f] \in Nat
      BY <2>5
    <3> HIDE DEF t
    <3>4. QED
      BY <3>1, <3>2, <3>3 DEF InOrder, t
  <2>8. QED
    BY <2>4, <2>5, <2>6, <2>7 DEF TextsOK
<1>2. BoundaryOK
  BY DEF BoundaryOK
<1>3. CursorOK
  <2>1. cursor.files = [f \in Imports |-> B!NoFile] /\ cursor.progress = [f \in Imports |-> 0]
        /\ cursor \in [files : [Imports -> [size : Nat, stamp : Nat, outcome : Outcomes]], progress : [Imports -> Nat]]
    BY DEF B!NoFile, Outcomes
  <2>2. ASSUME NEW f \in Imports
        PROVE  /\ cursor.files[f].size <= Len(text[f]) /\ cursor.progress[f] <= Len(text[f])
               /\ \A e : ToldUpTo(text[f], cursor.progress[f], e) => e \in imported
               /\ IsWhole(f)
    <3>1. cursor.files[f].size = 0 /\ cursor.files[f].outcome = None /\ cursor.progress[f] = 0
      BY <2>1 DEF B!NoFile
    <3>2. Len(text[f]) \in Nat
      BY <1>1 DEF TextsOK
    <3>3. \A e : ~ToldUpTo(text[f], 0, e)
      BY DEF ToldUpTo
    <3>4. None # "backfilled"
      BY ImportAssumption
    <3>5. QED
      BY <3>1, <3>2, <3>3, <3>4 DEF IsWhole
  <2>3. QED
    BY <2>1, <2>2 DEF CursorOK
<1>4. PlanOK
  BY DEF PlanOK
<1>5. ReadingOK
  BY DEF ReadingOK
<1>6. LedgerOK
  BY DEF LedgerOK
<1>7. StampingOK
  <2>1. MarksOK
    <3>1. \A e : ~Has(batch, e)
      BY DEF Has
    <3>2. marked = B!Unread /\ machine = [remote |-> 0, servers |-> 0, client |-> 0]
      OBVIOUS
    <3>3. QED
      BY <3>1, <3>2 DEF MarksOK, B!Unread, NoNewer
  <2>2. StampsOK /\ RefusedOK
    BY DEF StampsOK, RefusedOK
  <2>3. QED
    BY <2>1, <2>2 DEF StampingOK
<1>8. QED
  BY <1>1, <1>2, <1>3, <1>4, <1>5, <1>6, <1>7 DEF ImportInv

-----------------------------------------------------------------------------
(* Its steps. What stays as it is where the files and the ledger do.       *)
LEMMA LedgerKept ==
  ASSUME LedgerOK, UNCHANGED <<text, imported, grown>>, BoundaryOK, TextsOK, Limit' = Limit
  PROVE  LedgerOK'
BY DEF LedgerOK

(* What is left of the run of an agent that ends. *)
LEMMA LimitDown ==
  ASSUME ImportInv, importing, importing' = FALSE, UNCHANGED <<kept, clock>>
  PROVE  Limit \in Nat /\ Limit' \in Nat /\ Limit <= Limit'
<1>1. BoundaryOK /\ clock \in Nat
  BY ImportAssumption DEF ImportInv, TextsOK
<1>2. Limit = boundary /\ boundary \in Nat
  BY <1>1 DEF Limit, BoundaryOK
<1>3. Limit' = IF kept # None THEN kept ELSE IF ImportArchive # None THEN ImportArchive ELSE clock
  BY DEF Limit, B!BoundaryOf
<1>4. CASE kept # None
  BY <1>1, <1>2, <1>3, <1>4 DEF BoundaryOK
<1>5. CASE kept = None /\ ImportArchive # None
  <2>1. boundary = ImportArchive /\ Limit' = ImportArchive
    BY <1>1, <1>3, <1>5 DEF BoundaryOK
  <2>2. QED
    BY <1>2, <2>1
<1>6. CASE kept = None /\ ImportArchive = None
  <2>1. boundary <= clock /\ Limit' = clock
    BY <1>1, <1>3, <1>6 DEF BoundaryOK
  <2>2. QED
    BY <1>1, <1>2, <2>1
<1>7. QED
  BY <1>4, <1>5, <1>6

LEMMA LedgerLater ==
  ASSUME LedgerOK, TextsOK, UNCHANGED <<text, imported, grown>>,
         Limit \in Nat, Limit' \in Nat, Limit <= Limit'
  PROVE  LedgerOK'
<1>1. ASSUME NEW e \in imported, e.at < Limit
      PROVE  e.at < Limit'
  <2>1. PICK f \in Imports : SaidBy(text[f], e)
    BY DEF LedgerOK
  <2>2. e.at \in Nat
    BY <2>1, SaidAt
  <2>3. QED
    BY <1>1, <2>2
<1>2. \A e \in imported :
        /\ \E f \in Imports : SaidBy(text[f], e)
        /\ e.at < Limit' \/ \E f \in grown : SaidBy(text[f], e)
  BY <1>1 DEF LedgerOK
<1>3. grown \subseteq Imports
  BY DEF LedgerOK
<1>4. QED
  BY <1>2, <1>3 DEF LedgerOK

(* What keeps the stamps as they are. *)
LEMMA RefusedKept ==
  ASSUME RefusedOK, StampsOK, UNCHANGED <<refusedLines, imported, stamps, machine>>,
         \A f \in Imports : \A e : EndOf(text[f], e) => EndOf(text'[f], e)
  PROVE  RefusedOK'
BY DEF RefusedOK, B!Restamped

LEMMA StampingRuns ==
  ASSUME StampingOK, UNCHANGED <<text, imported, stamps, machine, refusedLines, marked, position>>,
         phase # "next", \A e : Has(batch', e) => Has(batch, e) \/ e.type # "session.start",
         position = 0 => batch' = <<>>
  PROVE  StampingOK'
<1>1. MarksOK /\ StampsOK /\ RefusedOK
  BY DEF StampingOK
<1>2. MarksOK'
  BY <1>1 DEF MarksOK
<1>3. StampsOK'
  BY <1>1 DEF StampsOK, StampOK
<1>4. RefusedOK'
  BY <1>1, RefusedKept
<1>5. QED
  BY <1>2, <1>3, <1>4 DEF StampingOK

LEMMA StampingKept ==
  ASSUME StampingOK,
         UNCHANGED <<text, imported, stamps, machine, refusedLines, marked, phase, position, batch>>
  PROVE  StampingOK'
<1>1. MarksOK /\ StampsOK /\ RefusedOK
  BY DEF StampingOK
<1>2. MarksOK' /\ StampsOK'
  BY <1>1 DEF MarksOK, StampsOK, StampOK
<1>3. RefusedOK'
  BY <1>1, RefusedKept
<1>4. QED
  BY <1>2, <1>3 DEF StampingOK

LEMMA StampingRests ==
  ASSUME StampingOK, UNCHANGED <<imported, stamps, machine>>, RefusedOK',
         phase' = "next", batch' = <<>>, marked' = marked \/ marked' = B!Unread
  PROVE  StampingOK'
<1>1. MarksOK /\ StampsOK
  BY DEF StampingOK
<1>2. \A e : ~Has(batch', e)
  BY DEF Has
<1>3. MarksOK'
  BY <1>1, <1>2 DEF MarksOK, B!Unread, NoNewer
<1>4. StampsOK'
  BY <1>1 DEF StampsOK, StampOK, B!Unread, NoNewer
<1>5. QED
  BY <1>3, <1>4 DEF StampingOK

LEMMA TextsKept == ASSUME TextsOK, UNCHANGED <<text, stamp, clock>> PROVE TextsOK'
BY DEF TextsOK

LEMMA CursorKept == ASSUME CursorOK, UNCHANGED <<text, imported, cursor, torn>> PROVE CursorOK'
BY DEF CursorOK, IsWhole

LEMMA ReadingKept ==
  ASSUME ReadingOK, UNCHANGED <<text, imported, importing, plan, phase, position, context, batch, torn>>
  PROVE  ReadingOK'
<1>1. B!Turn' = B!Turn /\ B!Now' = B!Now
  BY SameTurn
<1>2. FileOK => FileOK'
  BY <1>1 DEF FileOK
<1>3. QED
  BY <1>2 DEF ReadingOK

LEMMA ReadingRests ==
  ASSUME phase' = "next", position' = 0, batch' = <<>>
  PROVE  ReadingOK'
BY DEF ReadingOK

LEMMA TickStep == ASSUME ImportInv, B!Tick PROVE ImportInv'
<1> USE DEF B!Tick, B!reading, B!importHistory, B!stamping
<1>1. TextsOK /\ BoundaryOK /\ CursorOK /\ PlanOK /\ ReadingOK /\ LedgerOK /\ StampingOK
  BY DEF ImportInv
<1>2. clock \in Nat /\ clock' = clock + 1 /\ clock' \in ImportBegun..ImportUntil
  BY <1>1, ImportAssumption DEF TextsOK
<1>3. TextsOK'
  <2>1. \A f \in Imports : stamp[f] \in Nat /\ stamp[f] <= clock'
    BY <1>1, <1>2 DEF TextsOK
  <2>2. QED
    BY <1>1, <1>2, <2>1 DEF TextsOK
<1>4. BoundaryOK'
  <2>1. importing => boundary \in Nat
    BY <1>1 DEF BoundaryOK
  <2>2. importing /\ boundary <= clock => boundary <= clock'
    BY <1>2, <2>1
  <2>3. QED
    BY <1>1, <2>1, <2>2 DEF BoundaryOK
<1>5. CursorOK' /\ ReadingOK'
  BY <1>1, CursorKept, ReadingKept
<1>6. PlanOK'
  BY <1>1 DEF PlanOK
<1>7. LedgerOK'
  <2>1. Limit \in Nat /\ Limit' \in Nat /\ Limit <= Limit'
    <3>1. CASE importing
      BY <1>1, <3>1 DEF Limit, BoundaryOK
    <3>2. CASE ~importing
      BY <1>1, <1>2, <3>2, ImportAssumption DEF Limit, BoundaryOK, B!BoundaryOf
    <3>3. QED
      BY <3>1, <3>2
  <2>2. QED
    BY <1>1, <2>1, LedgerLater
<1>8. StampingOK'
  BY <1>1, StampingKept
<1>9. QED
  BY <1>3, <1>4, <1>5, <1>6, <1>7, <1>8 DEF ImportInv

LEMMA TouchStep == ASSUME ImportInv, NEW f \in Imports, B!Touch(f) PROVE ImportInv'
<1> USE DEF B!Touch, B!reading, B!importHistory, B!stamping
<1>1. TextsOK /\ BoundaryOK /\ CursorOK /\ PlanOK /\ ReadingOK /\ LedgerOK /\ StampingOK
  BY DEF ImportInv
<1>2. TextsOK'
  <2>1. clock \in Nat /\ stamp' = [stamp EXCEPT ![f] = clock] /\ stamp' \in [Imports -> Nat]
    BY <1>1, ImportAssumption DEF TextsOK
  <2>2. ASSUME NEW g \in Imports
        PROVE  stamp'[g] <= clock /\ InOrder(text[g], stamp'[g])
    <3>1. stamp[g] \in Nat /\ stamp'[g] \in Nat /\ stamp[g] <= stamp'[g] /\ stamp'[g] <= clock
      BY <1>1, <2>1 DEF TextsOK
    <3>2. InOrder(text[g], stamp[g])
      BY <1>1 DEF TextsOK
    <3>3. QED
      BY <3>1, <3>2 DEF InOrder
  <2>3. QED
    BY <1>1, <2>1, <2>2 DEF TextsOK
<1>3. BoundaryOK'
  BY <1>1 DEF BoundaryOK
<1>4. CursorOK' /\ ReadingOK'
  BY <1>1, CursorKept, ReadingKept
<1>5. PlanOK'
  BY <1>1 DEF PlanOK
<1>6. LedgerOK'
  <2>1. Limit' = Limit
    BY DEF Limit, B!BoundaryOf
  <2>2. QED
    BY <1>1, <2>1, LedgerKept
<1>7. StampingOK'
  BY <1>1, StampingKept
<1>8. QED
  BY <1>2, <1>3, <1>4, <1>5, <1>6, <1>7 DEF ImportInv

LEMMA SaveStep == ASSUME ImportInv, B!SaveState PROVE ImportInv'
<1> USE DEF B!SaveState, B!transcripts, B!reading, B!importHistory, B!stamping
<1>1. TextsOK /\ BoundaryOK /\ CursorOK /\ PlanOK /\ ReadingOK /\ LedgerOK /\ StampingOK
  BY DEF ImportInv
<1>2. TextsOK' /\ CursorOK' /\ ReadingOK'
  BY <1>1, TextsKept, CursorKept, ReadingKept
<1>3. BoundaryOK'
  BY <1>1, PluginAssumption DEF BoundaryOK
<1>4. PlanOK'
  BY <1>1 DEF PlanOK
<1>5. LedgerOK'
  <2>1. Limit' = Limit
    BY DEF Limit
  <2>2. QED
    BY <1>1, <2>1, LedgerKept
<1>6. StampingOK'
  BY <1>1, StampingKept
<1>7. QED
  BY <1>2, <1>3, <1>4, <1>5, <1>6 DEF ImportInv

LEMMA CrashStep == ASSUME ImportInv, B!ImportCrash PROVE ImportInv'
<1> USE DEF B!ImportCrash, B!Down, B!Rest, B!transcripts
<1>1. TextsOK /\ BoundaryOK /\ CursorOK /\ PlanOK /\ ReadingOK /\ LedgerOK /\ StampingOK
  BY DEF ImportInv
<1>2. TextsOK' /\ CursorOK' /\ ReadingOK'
  BY <1>1, TextsKept, CursorKept, ReadingRests
<1>3. BoundaryOK' /\ PlanOK'
  BY <1>1 DEF BoundaryOK, PlanOK
<1>4. LedgerOK'
  BY <1>1, LimitDown, LedgerLater
<1>5. StampingOK'
  <2>1. RefusedOK'
    BY <1>1, RefusedKept DEF StampingOK
  <2>2. QED
    BY <1>1, <2>1, StampingRests
<1>6. QED
  BY <1>2, <1>3, <1>4, <1>5 DEF ImportInv

LEMMA LastRecordIs ==
  ASSUME TextsOK, NEW f \in Imports
  PROVE  /\ B!LastRecord(f) \in Nat
         /\ \A n \in 1..Len(text[f]) : TimedIn(text[f], n) => text[f][n].at <= B!LastRecord(f)
<1> DEFINE t == text[f]
           tail == {n \in B!Timed(t) : n > Len(t) - ImportTail}
           z == B!Latest(tail)
<1>1. /\ Len(t) \in Nat /\ DOMAIN t = 1..Len(t) /\ InOrder(t, stamp[f]) /\ stamp[f] \in Nat
      /\ ImportTail \in Nat
  BY ImportAssumption DEF TextsOK
<1>2. \A n : n \in B!Timed(t) <=> TimedIn(t, n)
  BY <1>1 DEF TimedIn, B!Timed
<1>3. CASE tail = {}
  <2>1. B!LastRecord(f) = stamp[f]
    BY <1>3 DEF B!LastRecord
  <2>2. QED
    BY <1>1, <2>1 DEF InOrder
<1>4. CASE tail # {}
  <2>1. B!LastRecord(f) = t[z].at
    BY <1>4 DEF B!LastRecord
  <2>2. tail \in SUBSET (1..Len(t))
    BY <1>2 DEF TimedIn
  <2>3. z \in tail /\ \A y \in tail : y <= z
    <3> HIDE DEF tail, t
    <3>1. QED
      BY <1>1, <1>4, <2>2, LatestIn, SameMeaning
  <2>4. z \in 1..Len(t) /\ TimedIn(t, z) /\ z > Len(t) - ImportTail
    BY <1>2, <2>2, <2>3
  <2>5. ASSUME NEW n \in 1..Len(t), TimedIn(t, n)
        PROVE  n <= z
    <3>1. CASE n > Len(t) - ImportTail
      BY <1>2, <2>3, <2>5, <3>1
    <3>2. CASE ~(n > Len(t) - ImportTail)
      BY <1>1, <2>4, <3>2
    <3>3. QED
      BY <3>1, <3>2
  <2> HIDE DEF tail, z, t
  <2>6. t[z].at \in Nat /\ \A n \in 1..Len(t) : TimedIn(t, n) => t[n].at <= t[z].at
    BY <1>1, <2>4, <2>5 DEF InOrder
  <2>7. QED
    BY <2>1, <2>6 DEF t
<1>5. QED
  BY <1>3, <1>4

LEMMA StartStep == ASSUME ImportInv, B!StartImport PROVE ImportInv'
<1> DEFINE from == B!BoundaryOf(kept)
<1>0. /\ ~importing /\ importing' = TRUE /\ boundary' = from /\ plan' = B!PlanOf(from)
      /\ UNCHANGED <<text, stamp, clock, kept, cursor, phase, position, context, batch, imported,
                     machine, marked, stamps, faults, refusedLines, torn, grown>>
  BY DEF B!StartImport, B!transcripts, B!reading, B!importHistory, B!stamping
<1>1. TextsOK /\ BoundaryOK /\ CursorOK /\ PlanOK /\ ReadingOK /\ LedgerOK /\ StampingOK
  BY DEF ImportInv
<1>2. TextsOK' /\ CursorOK'
  BY <1>0, <1>1, TextsKept, CursorKept
<1>3. ReadingOK'
  <2>1. phase = "next"
    BY <1>0, <1>1 DEF ReadingOK, FileOK
  <2>2. QED
    BY <1>0, <1>1, <2>1, ReadingRests DEF ReadingOK
<1>4. /\ from \in Nat /\ (kept # None => from = kept)
      /\ kept = None => from = IF ImportArchive # None THEN ImportArchive ELSE clock
  BY <1>1, ImportAssumption DEF BoundaryOK, TextsOK, B!BoundaryOf
<1>5. BoundaryOK'
  <2>1. clock \in Nat
    BY <1>1, ImportAssumption DEF TextsOK
  <2> HIDE DEF from
  <2>2. QED
    BY <1>0, <1>1, <1>4, <2>1 DEF BoundaryOK
<1>6. PlanOK'
  <2> DEFINE For(f) == [file |-> f, size |-> Len(text[f]), stamp |-> stamp[f], outcome |-> B!Outcome(f, from)]
  <2>1. plan' = {For(f) : f \in Imports}
    BY <1>0 DEF B!PlanOf
  <2>2. ASSUME NEW f \in Imports
        PROVE  /\ For(f) \in [file : Imports, size : Nat, stamp : Nat, outcome : {"overlap", "done", "backfill"}]
               /\ For(f).file = f /\ For(f).size = Len(text[f])
               /\ For(f).outcome = "backfill" =>
                    \A n \in 1..Len(text[f]) : TimedIn(text[f], n) => text[f][n].at < from
    <3>1. Len(text[f]) \in Nat /\ stamp[f] \in Nat /\ InOrder(text[f], stamp[f])
      BY <1>1 DEF TextsOK
    <3>2. B!Outcome(f, from) \in {"overlap", "done", "backfill"}
      BY DEF B!Outcome
    <3>3. B!Outcome(f, from) = "backfill" => ~(B!LastRecord(f) >= from)
      BY DEF B!Outcome
    <3> HIDE DEF from
    <3>4. B!Outcome(f, from) = "backfill" =>
            \A n \in 1..Len(text[f]) : TimedIn(text[f], n) => text[f][n].at < from
      <4>1. B!LastRecord(f) \in Nat /\ \A n \in 1..Len(text[f]) : TimedIn(text[f], n) => text[f][n].at <= B!LastRecord(f)
        BY <1>1, LastRecordIs
      <4>2. \A n \in 1..Len(text[f]) : TimedIn(text[f], n) => text[f][n].at \in Nat
        BY <3>1 DEF InOrder
      <4>3. QED
        BY <1>4, <3>3, <4>1, <4>2
    <3>5. QED
      BY <3>1, <3>2, <3>4
  <2> HIDE DEF For, from
  <2>3. plan' \subseteq [file : Imports, size : Nat, stamp : Nat, outcome : {"overlap", "done", "backfill"}]
    BY <2>1, <2>2
  <2>4. \A a, b \in plan' : a.file = b.file => a = b
    BY <2>1, <2>2
  <2>5. \A a \in plan' :
       /\ a.size <= Len(text[a.file])
       /\ a.outcome = "backfill" =>
            \A n \in 1..Len(text[a.file]) : TimedIn(text[a.file], n) => text[a.file][n].at < from
    <3>1. \A f \in Imports : Len(text[f]) <= Len(text[f])
      BY <1>1 DEF TextsOK
    <3>2. QED
      BY <2>1, <2>2, <3>1
  <2>6. QED
    BY <1>0, <2>3, <2>4, <2>5 DEF PlanOK
<1>7. LedgerOK'
  <2>1. Limit' = Limit
    BY <1>0 DEF Limit
  <2>2. QED
    BY <1>0, <1>1, <2>1, LedgerKept
<1>8. StampingOK'
  BY <1>0, <1>1, StampingKept
<1>9. QED
  BY <1>2, <1>3, <1>5, <1>6, <1>7, <1>8 DEF ImportInv

(* An outcome is written down. *)
LEMMA RecordedIs ==
  ASSUME CursorOK, PlanOK, plan # {}, NEW o \in Outcomes
  PROVE  LET c == B!Recorded(o)
         IN  /\ c \in [files : [Imports -> [size : Nat, stamp : Nat, outcome : Outcomes]],
                       progress : [Imports -> Nat]]
             /\ \A f \in Imports :
                  /\ c.files[f] = IF f = B!Now THEN [size |-> B!Turn.size, stamp |-> B!Turn.stamp, outcome |-> o]
                                  ELSE cursor.files[f]
                  /\ c.progress[f] = IF f = B!Now THEN 0 ELSE cursor.progress[f]
<1> DEFINE z == [size |-> B!Turn.size, stamp |-> B!Turn.stamp, outcome |-> o]
           E == [size : Nat, stamp : Nat, outcome : Outcomes]
<1>1. B!Turn \in plan /\ B!Now \in Imports
  BY TurnIs
<1>2. z \in E
  BY <1>1 DEF PlanOK
<1>3. cursor \in [files : [Imports -> E], progress : [Imports -> Nat]]
  BY DEF CursorOK
<1>4. B!Recorded(o) = [cursor EXCEPT !.files[B!Now] = z, !.progress[B!Now] = 0]
  BY DEF B!Recorded
<1> HIDE DEF z, E
<1>5. B!Recorded(o) = [files |-> [cursor.files EXCEPT ![B!Now] = z], progress |-> [cursor.progress EXCEPT ![B!Now] = 0]]
  BY <1>3, <1>4
<1>6. QED
  BY <1>1, <1>2, <1>3, <1>5 DEF z, E

LEMMA CursorRecorded ==
  ASSUME TextsOK, CursorOK, PlanOK, plan # {}, NEW o \in {"overlap", "backfilled"},
         cursor' = B!Recorded(o), UNCHANGED <<text, imported>>, torn \subseteq torn',
         o = "backfilled" /\ B!Turn.size = Len(text[B!Now]) /\ B!Now \notin torn' =>
           \A e : ToldUpTo(text[B!Now], Len(text[B!Now]), e) \/ EndsAt(text[B!Now], Len(text[B!Now]), e) => e \in imported
  PROVE  CursorOK'
<1>1. o \in Outcomes
  BY DEF Outcomes
<1>2. B!Turn \in plan /\ B!Now = B!Turn.file /\ B!Now \in Imports
  BY TurnIs
<1>3. /\ cursor' \in [files : [Imports -> [size : Nat, stamp : Nat, outcome : Outcomes]], progress : [Imports -> Nat]]
      /\ \A f \in Imports :
           /\ cursor'.files[f] = IF f = B!Now THEN [size |-> B!Turn.size, stamp |-> B!Turn.stamp, outcome |-> o]
                                 ELSE cursor.files[f]
           /\ cursor'.progress[f] = IF f = B!Now THEN 0 ELSE cursor.progress[f]
  BY <1>1, RecordedIs
<1>4. ASSUME NEW f \in Imports
      PROVE  /\ cursor'.files[f].size <= Len(text[f]) /\ cursor'.progress[f] <= Len(text[f])
             /\ \A e : ToldUpTo(text[f], cursor'.progress[f], e) => e \in imported
             /\ IsWhole(f)'
  <2>1. CASE f = B!Now
    <3>1. cursor'.files[f].size = B!Turn.size /\ cursor'.files[f].outcome = o /\ cursor'.progress[f] = 0
      BY <1>3, <2>1
    <3>2. B!Turn.size <= Len(text[f]) /\ Len(text[f]) \in Nat
      BY <1>2, <2>1 DEF PlanOK, TextsOK
    <3>3. \A e : ~ToldUpTo(text[f], 0, e)
      BY DEF ToldUpTo
    <3>4. IsWhole(f)'
      BY <2>1, <3>1 DEF IsWhole
    <3>5. QED
      BY <3>1, <3>2, <3>3, <3>4
  <2>2. CASE f # B!Now
    <3>1. cursor'.files[f] = cursor.files[f] /\ cursor'.progress[f] = cursor.progress[f]
      BY <1>3, <2>2
    <3>2. QED
      BY <3>1 DEF CursorOK, IsWhole
  <2>3. QED
    BY <2>1, <2>2
<1>5. QED
  BY <1>3, <1>4 DEF CursorOK

LEMMA PlanFewer ==
  ASSUME PlanOK, plan' \subseteq plan, UNCHANGED <<text, boundary, grown>>
  PROVE  PlanOK'
BY DEF PlanOK

LEMMA BoundaryRuns ==
  ASSUME BoundaryOK, importing, UNCHANGED <<kept, importing, boundary, clock>>
  PROVE  BoundaryOK' /\ Limit' = Limit
BY DEF BoundaryOK, Limit

LEMMA SkipStep == ASSUME ImportInv, B!Skip PROVE ImportInv'
<1> USE DEF B!Skip, B!transcripts, B!reading, B!importHistory, B!stamping
<1>1. TextsOK /\ BoundaryOK /\ CursorOK /\ PlanOK /\ ReadingOK /\ LedgerOK /\ StampingOK
  BY DEF ImportInv
<1>2. TextsOK'
  BY <1>1, TextsKept
<1>3. BoundaryOK' /\ Limit' = Limit
  BY <1>1, BoundaryRuns
<1>4. PlanOK'
  BY <1>1, PlanFewer
<1>5. CursorOK'
  <2>1. CASE B!Turn.outcome = "overlap"
    BY <1>1, <2>1, CursorRecorded
  <2>2. CASE B!Turn.outcome # "overlap"
    BY <1>1, <2>2, CursorKept
  <2>3. QED
    BY <2>1, <2>2
<1>6. ReadingOK'
  BY <1>1, ReadingRests DEF ReadingOK
<1>7. LedgerOK'
  BY <1>1, <1>3, LedgerKept
<1>8. StampingOK'
  BY <1>1, StampingKept
<1>9. QED
  BY <1>2, <1>3, <1>4, <1>5, <1>6, <1>7, <1>8 DEF ImportInv

LEMMA OpenFailsStep == ASSUME ImportInv, B!OpenFails PROVE ImportInv'
<1> USE DEF B!OpenFails, B!transcripts, B!reading, B!stamping
<1>1. TextsOK /\ BoundaryOK /\ CursorOK /\ PlanOK /\ ReadingOK /\ LedgerOK /\ StampingOK
  BY DEF ImportInv
<1>2. TextsOK'
  BY <1>1, TextsKept
<1>3. BoundaryOK' /\ Limit' = Limit
  BY <1>1, BoundaryRuns
<1>4. PlanOK'
  BY <1>1, PlanFewer
<1>5. CursorOK'
  BY <1>1, CursorRecorded
<1>6. ReadingOK'
  BY <1>1, ReadingRests DEF ReadingOK
<1>7. LedgerOK'
  BY <1>1, <1>3, LedgerKept
<1>8. StampingOK'
  BY <1>1, StampingKept
<1>9. QED
  BY <1>2, <1>3, <1>4, <1>5, <1>6, <1>7, <1>8 DEF ImportInv

LEMMA NothingBatched == ASSUME NEW X PROVE <<>> \in Seq(X)
  OBVIOUS

LEMMA OpenedAt ==
  ASSUME ImportInv, NEW n \in 0..cursor.progress[B!Now], B!OpenAt(n),
         UNCHANGED <<text, importing, plan, imported, torn>>
  PROVE  ReadingOK'
<1>1. TextsOK /\ CursorOK /\ PlanOK
  BY DEF ImportInv
<1>2. plan # {} /\ importing /\ B!Turn.outcome = "backfill" /\ phase' = "read" /\ position' = n
      /\ context' = B!ContextAfter(B!Now, n) /\ batch' = <<>>
  BY DEF B!OpenAt
<1>3. B!Now \in Imports /\ B!Turn' = B!Turn /\ B!Now' = B!Now
  BY <1>1, <1>2, TurnIs, SameTurn
<1> DEFINE f == B!Now
           p == cursor.progress[f]
<1>4. text[f] \in Seq(Spoken) /\ p \in Nat /\ p <= Len(text[f]) /\ \A e : ToldUpTo(text[f], p, e) => e \in imported
  BY <1>1, <1>3 DEF TextsOK, CursorOK
<1>5. n \in 0..Len(text[f]) /\ \A e : ToldUpTo(text[f], n, e) => e \in imported
  BY <1>4 DEF ToldUpTo
<1>6. context' = ContextOf(text[f], n)
  BY <1>2, <1>4, <1>5, ContextAfterIs
<1>7. batch' \in Seq(Sayings(text[f]))
  BY <1>2, NothingBatched
<1> HIDE DEF f, p
<1>8. FileOK'
  BY <1>2, <1>3, <1>5, <1>6, <1>7 DEF FileOK, f
<1>9. QED
  BY <1>2, <1>8 DEF ReadingOK

LEMMA OpenStep == ASSUME ImportInv, B!Open \/ B!ReplayFails PROVE ImportInv'
<1>1. TextsOK /\ BoundaryOK /\ CursorOK /\ PlanOK /\ ReadingOK /\ LedgerOK /\ StampingOK
  BY DEF ImportInv
<1>2. /\ \E n \in 0..cursor.progress[B!Now] : B!OpenAt(n)
      /\ importing /\ plan # {} /\ phase = "next"
      /\ UNCHANGED <<text, stamp, clock, kept, cursor, importing, boundary, plan, imported, machine, stamps,
                     refusedLines, torn, grown>>
  <2>1. plan # {}
    BY DEF B!Open, B!ReplayFails, B!OpenAt
  <2>2. cursor.progress[B!Now] \in Nat
    BY <1>1, <2>1, TurnIs DEF CursorOK
  <2>3. cursor.progress[B!Now] \in 0..cursor.progress[B!Now]
        /\ 0..(cursor.progress[B!Now] - 1) \subseteq 0..cursor.progress[B!Now]
    BY <2>2
  <2>4. QED
    BY <2>1, <2>3 DEF B!Open, B!ReplayFails, B!OpenAt, B!transcripts, B!importHistory
<1>3. ReadingOK'
  BY <1>2, OpenedAt
<1>4. TextsOK' /\ CursorOK' /\ PlanOK' /\ BoundaryOK' /\ LedgerOK'
  BY <1>1, <1>2, TextsKept, CursorKept, PlanFewer, BoundaryRuns, LedgerKept
<1>5. StampingOK'
  <2>1. MarksOK /\ StampsOK /\ RefusedOK
    BY <1>1 DEF StampingOK
  <2>2. PICK n \in 0..cursor.progress[B!Now] : B!OpenAt(n)
    BY <1>2
  <2>3. position' = n /\ batch' = <<>> /\ marked' = B!Marked(n > 0, FALSE) /\ n \in Nat
    <3>1. n \in Nat
      OBVIOUS
    <3>2. QED
      BY <2>2, <3>1 DEF B!OpenAt
  <2>4. /\ n # 0 => marked'.remote # None
        /\ marked' \in [remote : Nat \cup {None}, servers : Nat \cup {None}]
        /\ NoNewer(marked'.remote, machine.remote) /\ NoNewer(marked'.servers, machine.servers)
        /\ \A x : NoNewer(x, marked.remote) /\ NoNewer(x, machine.remote) => NoNewer(x, marked'.remote)
        /\ marked'.servers = marked.servers
    BY <2>1, <2>3, PluginAssumption DEF MarksOK, B!Marked, NoNewer
  <2>5. \A e : ~Has(batch', e)
    BY <2>3 DEF Has
  <2>6. MarksOK'
    BY <1>2, <2>1, <2>3, <2>4, <2>5 DEF MarksOK
  <2>7. StampsOK'
    BY <1>2, <2>1, <2>4 DEF StampsOK, StampOK
  <2>8. RefusedOK'
    BY <1>2, <2>1, RefusedKept
  <2>9. QED
    BY <2>6, <2>7, <2>8 DEF StampingOK
<1>6. QED
  BY <1>3, <1>4, <1>5 DEF ImportInv

LEMMA CursorMore ==
  ASSUME CursorOK, UNCHANGED <<text, cursor>>, imported \subseteq imported', torn \subseteq torn'
  PROVE  CursorOK'
BY DEF CursorOK, IsWhole

LEMMA TailIs ==
  ASSUME NEW X, NEW s \in Seq(X), s # <<>>
  PROVE  s[1] \in X /\ Tail(s) \in Seq(X) /\ \A e : Has(s, e) <=> e = s[1] \/ Has(Tail(s), e)
<1>1. /\ Len(s) \in Nat /\ Len(s) > 0 /\ s[1] \in X /\ Tail(s) \in Seq(X) /\ Len(Tail(s)) = Len(s) - 1
      /\ \A i \in 1..Len(Tail(s)) : Tail(s)[i] = s[i + 1]
  OBVIOUS
<1>2. ASSUME NEW e, Has(s, e), e # s[1]
      PROVE  Has(Tail(s), e)
  <2>1. PICK i \in 1..Len(s) : s[i] = e
    BY <1>2 DEF Has
  <2>2. i - 1 \in 1..Len(Tail(s)) /\ (i - 1) + 1 = i
    BY <1>1, <1>2, <2>1
  <2>3. Tail(s)[i - 1] = e
    BY <1>1, <2>1, <2>2
  <2>4. QED
    BY <2>2, <2>3 DEF Has
<1>3. ASSUME NEW e, e = s[1] \/ Has(Tail(s), e)
      PROVE  Has(s, e)
  <2>1. 1 \in 1..Len(s) /\ \A i \in 1..Len(Tail(s)) : i + 1 \in 1..Len(s)
    BY <1>1
  <2>2. QED
    BY <1>1, <1>3, <2>1 DEF Has
<1>4. QED
  BY <1>1, <1>2, <1>3

(* The file at the head of the plan.                                       *)
LEMMA NowIs ==
  ASSUME ImportInv, phase # "next"
  PROVE  /\ FileOK /\ B!Turn \in plan /\ B!Now = B!Turn.file /\ B!Now \in Imports
         /\ text[B!Now] \in Seq(Spoken) /\ IsLines(text[B!Now], Len(text[B!Now]))
         /\ Len(text[B!Now]) \in Nat /\ position \in Nat
<1>1. TextsOK /\ PlanOK /\ FileOK
  BY DEF ImportInv, ReadingOK
<1>2. B!Turn \in plan /\ B!Now = B!Turn.file /\ B!Now \in Imports
  BY <1>1, TurnIs DEF FileOK
<1>3. text[B!Now] \in Seq(Spoken)
  BY <1>1, <1>2 DEF TextsOK
<1>4. position \in Nat
  BY <1>1, <1>3 DEF FileOK
<1>5. QED
  BY <1>1, <1>2, <1>3, <1>4, SpokenLines

LEMMA ReadLineStep == ASSUME ImportInv, B!ReadLine PROVE ImportInv'
<1>1. TextsOK /\ BoundaryOK /\ CursorOK /\ PlanOK /\ ReadingOK /\ LedgerOK /\ StampingOK
  BY DEF ImportInv
<1> DEFINE t == text[B!Now]
           read == V!Line(context, t[position + 1])
<1>2. /\ importing /\ phase = "read" /\ position < Len(t) /\ context' = read.ctx /\ batch' = batch \o read.out
      /\ phase' \in {"read", "send"} /\ position' = position + 1 /\ marked' = B!Marked(TRUE, B!Begins(read.out))
      /\ UNCHANGED <<text, stamp, clock, kept, cursor, importing, boundary, plan, imported,
                     machine, stamps, faults, refusedLines, torn, grown>>
  BY SameReader DEF B!ReadLine, B!transcripts, B!importHistory
<1>3. /\ FileOK /\ B!Turn \in plan /\ B!Now \in Imports /\ t \in Seq(Spoken) /\ IsLines(t, Len(t))
      /\ Len(t) \in Nat /\ position \in Nat
  BY <1>2, NowIs
<1>4. /\ context = ContextOf(t, position) /\ batch \in Seq(Sayings(t)) /\ B!Turn.outcome = "backfill"
      /\ \A e : ToldUpTo(t, position, e) => e \in imported \/ Has(batch, e)
  BY <1>2, <1>3 DEF FileOK
<1>5. B!Turn' = B!Turn /\ B!Now' = B!Now
  BY <1>2, SameTurn
<1> HIDE DEF t, read
<1>6. position + 1 \in 1..Len(t) /\ (position + 1) - 1 = position /\ position + 1 \in 0..Len(t)
  BY <1>2, <1>3
<1>7. t[position + 1].tools \in Seq(V!ToSet(t[position + 1].tools))
  BY <1>3, <1>6, SpokenLines
<1>8. read.ctx = ContextOf(t, position + 1)
  BY <1>3, <1>4, <1>6, ContextStep DEF read
<1>9. read.out \in Seq(V!Meant(t)) /\ \A e : Has(read.out, e) <=> TellsLine(t, position + 1, e)
  <2>1. /\ V!Line(ContextOf(t, (position + 1) - 1), t[position + 1]).out \in Seq(V!Meant(t))
        /\ \A e : Has(V!Line(ContextOf(t, (position + 1) - 1), t[position + 1]).out, e) <=> TellsLine(t, position + 1, e)
    BY <1>3, <1>6, <1>7, LineTells, Zenon
  <2>2. read.out = V!Line(ContextOf(t, (position + 1) - 1), t[position + 1]).out
    BY <1>4, <1>6 DEF read
  <2>3. QED
    BY <2>1, <2>2, Zenon
<1>10. read.out \in Seq(Sayings(t))
  <2>1. V!Meant(t) \subseteq Sayings(t)
    BY DEF Sayings
  <2>2. QED
    BY <1>9, <2>1, WiderSeq, Zenon
<1>11. batch' \in Seq(Sayings(t)) /\ \A e : Has(batch', e) <=> Has(batch, e) \/ Has(read.out, e)
  <2>1. /\ batch \o read.out \in Seq(Sayings(t))
        /\ \A e : Has(batch \o read.out, e) <=> Has(batch, e) \/ Has(read.out, e)
    BY <1>4, <1>10, HasJoined, Zenon
  <2>2. QED
    BY <1>2, <2>1, Zenon
<1>12. ASSUME NEW e, ToldUpTo(t, position + 1, e)
       PROVE  e \in imported \/ Has(batch', e)
  <2>1. PICK m \in 1..(position + 1) : TellsLine(t, m, e)
    BY <1>12 DEF ToldUpTo
  <2>2. CASE m = position + 1
    BY <1>9, <1>11, <2>1, <2>2
  <2>3. CASE m # position + 1
    <3>1. m \in 1..position
      BY <1>3, <2>1, <2>3
    <3>2. ToldUpTo(t, position, e)
      BY <2>1, <3>1 DEF ToldUpTo
    <3>3. QED
      BY <1>4, <1>11, <3>2
  <2>4. QED
    BY <2>2, <2>3
<1>13. FileOK'
  <2>1. t' = t /\ text'[B!Now'] = t
    BY <1>2, <1>5 DEF t
  <2>2. importing' /\ plan' # {} /\ (B!Turn').outcome = "backfill" /\ position' \in 0..Len(t) /\ phase' # "last"
        /\ context' = ContextOf(t, position')
    BY <1>2, <1>3, <1>4, <1>5, <1>6, <1>8
  <2>3. \A e : ToldUpTo(t, position', e) => e \in imported' \/ Has(batch', e)
    BY <1>2, <1>12
  <2>4. QED
    BY <1>11, <2>1, <2>2, <2>3 DEF FileOK, t
<1>14. ReadingOK'
  BY <1>2, <1>13 DEF ReadingOK
<1>15. TextsOK' /\ CursorOK' /\ PlanOK' /\ BoundaryOK' /\ LedgerOK'
  BY <1>1, <1>2, TextsKept, CursorKept, PlanFewer, BoundaryRuns, LedgerKept
<1>16. StampingOK'
  <2>1. MarksOK /\ StampsOK /\ RefusedOK
    BY <1>1 DEF StampingOK
  <2>2. /\ marked' \in [remote : Nat \cup {None}, servers : Nat \cup {None}] /\ marked'.remote # None
        /\ NoNewer(marked'.remote, machine.remote) /\ NoNewer(marked'.servers, machine.servers)
        /\ \A x : NoNewer(x, marked.remote) /\ NoNewer(x, machine.remote) => NoNewer(x, marked'.remote)
        /\ \A x : NoNewer(x, marked.servers) /\ NoNewer(x, machine.servers) => NoNewer(x, marked'.servers)
        /\ B!Begins(read.out) \/ marked.servers # None => marked'.servers # None
    BY <1>2, <2>1, PluginAssumption DEF MarksOK, B!Marked, NoNewer
  <2>3. ASSUME NEW e, Has(batch', e), e.type = "session.start"
        PROVE  marked'.servers # None
    <3>1. Has(batch, e) \/ Has(read.out, e)
      BY <1>11, <2>3
    <3>2. Has(read.out, e) => B!Begins(read.out)
      BY <1>9, <2>3 DEF B!Begins, Has
    <3>3. QED
      BY <2>1, <2>2, <2>3, <3>1, <3>2 DEF MarksOK
  <2>4. position' # 0
    BY <1>2, <1>3
  <2>5. MarksOK'
    BY <1>2, <2>1, <2>2, <2>3, <2>4 DEF MarksOK
  <2>6. StampsOK'
    BY <1>2, <2>1, <2>2 DEF StampsOK, StampOK
  <2>7. RefusedOK'
    BY <1>2, <2>1, RefusedKept
  <2>8. QED
    BY <2>5, <2>6, <2>7 DEF StampingOK
<1>17. QED
  BY <1>14, <1>15, <1>16 DEF ImportInv

(* The end of the reading, or what is taken for it.                        *)
LEMMA FileEnds ==
  ASSUME ImportInv, phase = "read", phase' = "last", batch' = batch \o B!Finish(context),
         UNCHANGED <<text, importing, plan, position, imported>>, torn \subseteq torn',
         B!Now \notin torn' => position = Len(text[B!Now])
  PROVE  /\ ReadingOK' /\ (position = 0 /\ batch = <<>> => batch' = <<>>)
         /\ \A e : Has(batch', e) => Has(batch, e) \/ e.type # "session.start"
<1> DEFINE t == text[B!Now]
           end == V!Finish(ContextOf(t, position))
<1>1. /\ FileOK /\ B!Turn \in plan /\ B!Now = B!Turn.file /\ B!Now \in Imports /\ t \in Seq(Spoken)
      /\ IsLines(t, Len(t)) /\ Len(t) \in Nat /\ position \in Nat
  BY NowIs
<1>2. /\ context = ContextOf(t, position) /\ batch \in Seq(Sayings(t)) /\ position \in 0..Len(t)
      /\ importing /\ plan # {} /\ B!Turn.outcome = "backfill"
      /\ \A e : ToldUpTo(t, position, e) => e \in imported \/ Has(batch, e)
  BY <1>1 DEF FileOK
<1>3. B!Turn' = B!Turn /\ B!Now' = B!Now
  BY SameTurn
<1>4. batch' = batch \o end
  BY <1>2, SameReader
<1>5. B!Turn.size <= Len(t)
  BY <1>1 DEF ImportInv, PlanOK
<1>6. B!Now \notin torn' => position = Len(t)
  OBVIOUS
<1>7. text'[B!Now'] = t
  BY <1>3
<1> HIDE DEF t
<1>8. /\ end \in Seq(Sayings(t)) /\ (position = 0 => end = <<>>)
      /\ \A e : Has(end, e) => e.type # "session.start"
  <2>1. CASE position = 0
    <3>1. ContextOf(t, 0).last = None
      BY <1>1, UntilNone DEF V!NewNormalizer
    <3>2. end = <<>>
      BY <2>1, <3>1 DEF V!Finish
    <3>3. \A e : ~Has(end, e)
      BY <3>2 DEF Has
    <3> HIDE DEF end
    <3>4. end \in Seq(Sayings(t))
      BY <3>2, NothingBatched
    <3>5. QED
      BY <3>2, <3>3, <3>4
  <2>2. CASE position # 0
    <3>1. position \in 1..Len(t)
      BY <1>1, <1>2, <2>2
    <3>2. end \in Seq(V!MeantEnd(SubSeq(t, 1, position)))
      BY <1>1, <3>1, EndIs
    <3>3. V!MeantEnd(SubSeq(t, 1, position)) \subseteq Sayings(t)
      BY <3>1 DEF Sayings
    <3>4. ASSUME NEW e, Has(end, e)
          PROVE  e.type # "session.start"
      <4>1. EndOf(t, e)
        BY <3>1, <3>4 DEF EndOf, EndsAt
      <4>2. QED
        BY <1>1, <4>1, EndTypes
    <3> HIDE DEF end
    <3>5. end \in Seq(Sayings(t))
      BY <3>2, <3>3, WiderSeq, Zenon
    <3>6. QED
      BY <2>2, <3>4, <3>5
  <2>3. QED
    BY <2>1, <2>2
<1>9. \A e : EndsAt(t, position, e) <=> Has(end, e)
  BY DEF EndsAt
<1> HIDE DEF end
<1>10. batch' \in Seq(Sayings(t)) /\ \A e : Has(batch', e) <=> Has(batch, e) \/ Has(end, e)
  <2>1. batch \o end \in Seq(Sayings(t)) /\ \A e : Has(batch \o end, e) <=> Has(batch, e) \/ Has(end, e)
    BY <1>2, <1>8, HasJoined, Zenon
  <2>2. QED
    BY <1>4, <2>1, Zenon
<1>11. FileOK'
  <2>1. importing' /\ plan' # {} /\ (B!Turn').outcome = "backfill" /\ position' \in 0..Len(t)
    BY <1>2, <1>3
  <2>2. \A e : ToldUpTo(t, position', e) => e \in imported' \/ Has(batch', e)
    BY <1>2, <1>10
  <2>3. B!Now' \notin torn' =>
          /\ (B!Turn').size <= position'
          /\ \A e : EndsAt(t, position', e) => e \in imported' \/ Has(batch', e)
    BY <1>3, <1>5, <1>6, <1>9, <1>10
  <2>4. QED
    BY <1>7, <1>10, <2>1, <2>2, <2>3 DEF FileOK
<1>12. ReadingOK'
  BY <1>11 DEF ReadingOK
<1>13. position = 0 /\ batch = <<>> => batch' = <<>>
  BY <1>4, <1>8
<1>14. QED
  BY <1>8, <1>10, <1>12, <1>13

LEMMA EndStep == ASSUME ImportInv, B!EndOfFile \/ B!ReadFails PROVE ImportInv'
<1>1. TextsOK /\ BoundaryOK /\ CursorOK /\ PlanOK /\ ReadingOK /\ LedgerOK /\ StampingOK
  BY DEF ImportInv
<1>2. /\ importing /\ phase = "read" /\ phase' = "last" /\ batch' = batch \o B!Finish(context)
      /\ torn \subseteq torn' /\ (B!Now \notin torn' => position = Len(text[B!Now]))
      /\ UNCHANGED <<text, stamp, clock, kept, cursor, importing, boundary, plan, position, imported,
                     machine, marked, stamps, refusedLines, grown>>
  BY DEF B!EndOfFile, B!ReadFails, B!transcripts, B!importHistory, B!stamping
<1>3. /\ ReadingOK' /\ (position = 0 /\ batch = <<>> => batch' = <<>>)
      /\ \A e : Has(batch', e) => Has(batch, e) \/ e.type # "session.start"
  BY <1>2, FileEnds
<1>4. TextsOK' /\ CursorOK' /\ PlanOK' /\ BoundaryOK' /\ LedgerOK'
  BY <1>1, <1>2, TextsKept, CursorMore, PlanFewer, BoundaryRuns, LedgerKept
<1>5. StampingOK'
  <2>1. position = 0 => batch = <<>>
    BY <1>1, <1>2 DEF StampingOK, MarksOK
  <2>2. phase # "next"
    BY <1>2
  <2>3. QED
    BY <1>1, <1>2, <1>3, <2>1, <2>2, StampingRuns
<1>6. QED
  BY <1>3, <1>4, <1>5 DEF ImportInv

LEMMA AcknowledgeStep == ASSUME ImportInv, B!Acknowledge PROVE ImportInv'
<1>1. TextsOK /\ BoundaryOK /\ CursorOK /\ PlanOK /\ ReadingOK /\ LedgerOK /\ StampingOK
  BY DEF ImportInv
<1>2. /\ importing /\ phase = "send" /\ batch = <<>> /\ phase' = "read"
      /\ cursor' = [cursor EXCEPT !.progress[B!Now] = position]
      /\ UNCHANGED <<text, stamp, clock, kept, importing, boundary, plan, position, context, batch, imported,
                     machine, marked, stamps, faults, refusedLines, torn, grown>>
  BY DEF B!Acknowledge, B!transcripts, B!importHistory, B!stamping
<1>3. FileOK /\ B!Now \in Imports /\ position \in Nat
  BY <1>2, NowIs
<1>4. B!Turn' = B!Turn /\ B!Now' = B!Now
  BY <1>2, SameTurn
<1>5. ReadingOK'
  <2>1. FileOK'
    BY <1>2, <1>3, <1>4 DEF FileOK
  <2>2. QED
    BY <1>2, <2>1 DEF ReadingOK
<1>6. CursorOK'
  <2>1. \A e : ToldUpTo(text[B!Now], position, e) => e \in imported
    BY <1>2, <1>3 DEF FileOK, Has
  <2>2. position <= Len(text[B!Now])
    BY <1>3 DEF FileOK
  <2>3. /\ cursor' \in [files : [Imports -> [size : Nat, stamp : Nat, outcome : Outcomes]], progress : [Imports -> Nat]]
        /\ cursor'.files = cursor.files
        /\ \A f \in Imports : cursor'.progress[f] = IF f = B!Now THEN position ELSE cursor.progress[f]
    BY <1>1, <1>2, <1>3 DEF CursorOK
  <2>4. \A f \in Imports : IsWhole(f)'
    BY <1>1, <1>2, <2>3 DEF CursorOK, IsWhole
  <2>5. QED
    BY <1>1, <1>2, <2>1, <2>2, <2>3, <2>4 DEF CursorOK
<1>7. TextsOK' /\ PlanOK' /\ BoundaryOK' /\ LedgerOK'
  BY <1>1, <1>2, TextsKept, PlanFewer, BoundaryRuns, LedgerKept
<1>8. StampingOK'
  BY <1>1, <1>2, StampingRuns
<1>9. QED
  BY <1>5, <1>6, <1>7, <1>8 DEF ImportInv

LEMMA FinishedStep == ASSUME ImportInv, B!Finished PROVE ImportInv'
<1>1. TextsOK /\ BoundaryOK /\ CursorOK /\ PlanOK /\ ReadingOK /\ LedgerOK /\ StampingOK
  BY DEF ImportInv
<1>2. /\ importing /\ phase = "last" /\ batch = <<>> /\ cursor' = B!Recorded("backfilled")
      /\ plan' \subseteq plan /\ phase' = "next" /\ position' = 0 /\ batch' = <<>>
      /\ UNCHANGED <<text, stamp, clock, kept, importing, boundary, imported, machine, marked, stamps,
                     faults, refusedLines, torn, grown>>
  BY DEF B!Finished, B!Rest, B!transcripts, B!importHistory, B!stamping
<1> DEFINE t == text[B!Now]
<1>3. FileOK /\ B!Now \in Imports /\ position \in Nat /\ Len(t) \in Nat
  BY <1>2, NowIs
<1>4. position <= Len(t) /\ plan # {}
  BY <1>3 DEF FileOK
<1>5. \A e : ~Has(batch, e)
  BY <1>2 DEF Has
<1>6. B!Turn.size = Len(t) /\ B!Now \notin torn =>
        \A e : ToldUpTo(t, Len(t), e) \/ EndsAt(t, Len(t), e) => e \in imported
  <2> SUFFICES ASSUME B!Turn.size = Len(t), B!Now \notin torn,
                      NEW e, ToldUpTo(t, Len(t), e) \/ EndsAt(t, Len(t), e)
               PROVE  e \in imported
    OBVIOUS
  <2>1. B!Turn.size <= position
    BY <1>2, <1>3 DEF FileOK
  <2>2. position = Len(t)
    BY <1>3, <1>4, <2>1
  <2>3. QED
    BY <1>2, <1>3, <1>5, <2>2 DEF FileOK
<1>7. CursorOK'
  BY <1>1, <1>2, <1>4, <1>6, CursorRecorded
<1>8. ReadingOK'
  BY <1>2, ReadingRests
<1>9. TextsOK' /\ PlanOK' /\ BoundaryOK' /\ LedgerOK'
  BY <1>1, <1>2, TextsKept, PlanFewer, BoundaryRuns, LedgerKept
<1>10. StampingOK'
  <2>1. RefusedOK'
    BY <1>1, <1>2, RefusedKept DEF StampingOK
  <2>2. QED
    BY <1>1, <1>2, <2>1, StampingRests
<1>11. QED
  BY <1>7, <1>8, <1>9, <1>10 DEF ImportInv

LEMMA CommitsStep ==
  ASSUME ImportInv, B!CommitImported, ~B!Contradicts(batch[1])
  PROVE  ImportInv'
<1>1. TextsOK /\ BoundaryOK /\ CursorOK /\ PlanOK /\ ReadingOK /\ LedgerOK /\ StampingOK
  BY DEF ImportInv
<1>2. /\ importing /\ phase \in {"send", "last"} /\ batch # <<>>
      /\ imported' = imported \cup {batch[1]} /\ batch' = Tail(batch)
      /\ stamps' = [e \in imported' |-> IF e = batch[1] THEN B!Stamp(e) ELSE stamps[e]]
      /\ UNCHANGED <<text, stamp, clock, kept, cursor, importing, boundary, plan, phase, position, context,
                     machine, marked, faults, refusedLines, torn, grown>>
  BY DEF B!CommitImported, B!transcripts
<1> DEFINE t == text[B!Now]
           x == batch[1]
<1>3. FileOK /\ B!Turn \in plan /\ B!Now = B!Turn.file /\ B!Now \in Imports /\ t \in Seq(Spoken)
  BY <1>2, NowIs
<1>4. B!Turn' = B!Turn /\ B!Now' = B!Now
  BY <1>2, SameTurn
<1>5. batch \in Seq(Sayings(t)) /\ B!Turn.outcome = "backfill"
  BY <1>3 DEF FileOK
<1>6. x \in Sayings(t) /\ batch' \in Seq(Sayings(t)) /\ \A e : Has(batch, e) <=> e = x \/ Has(batch', e)
  <2>1. x \in Sayings(t) /\ Tail(batch) \in Seq(Sayings(t)) /\ \A e : Has(batch, e) <=> e = x \/ Has(Tail(batch), e)
    BY <1>2, <1>5, TailIs, Zenon
  <2>2. QED
    BY <1>2, <2>1, Zenon
<1> HIDE DEF t, x
<1>7. imported' = imported \cup {x}
  BY <1>2 DEF x
<1>8. \A e : e \in imported \/ Has(batch, e) => e \in imported' \/ Has(batch', e)
  BY <1>6, <1>7
<1>9. ReadingOK'
  <2>1. /\ importing' /\ plan' # {} /\ (B!Turn').outcome = "backfill" /\ position' \in 0..Len(t)
        /\ (phase' # "last" => context' = ContextOf(t, position'))
        /\ \A e : ToldUpTo(t, position', e) => e \in imported' \/ Has(batch', e)
        /\ phase' = "last" /\ B!Now' \notin torn' =>
             /\ (B!Turn').size <= position'
             /\ \A e : EndsAt(t, position', e) => e \in imported' \/ Has(batch', e)
    BY <1>2, <1>3, <1>4, <1>8 DEF FileOK, t
  <2>2. text'[B!Now'] = t
    BY <1>2, <1>4 DEF t
  <2>3. FileOK'
    BY <1>6, <2>1, <2>2 DEF FileOK
  <2>4. QED
    BY <1>2, <2>3 DEF ReadingOK
<1>10. SaidBy(t, x)
  BY <1>3, <1>6, SayingsAre
<1>11. Limit = boundary /\ boundary \in Nat
  BY <1>1, <1>2 DEF Limit, BoundaryOK
<1>12. B!Now \notin grown => x.at < boundary
  <2> SUFFICES ASSUME B!Now \notin grown
               PROVE  x.at < boundary
    OBVIOUS
  <2>0. \E n \in 1..Len(t) : TimedIn(t, n) /\ x.at = t[n].at
    BY <1>3, <1>10, SaidWhen, Zenon
  <2>1. PICK n \in 1..Len(t) : TimedIn(t, n) /\ x.at = t[n].at
    BY <2>0
  <2>2. t[n].at < boundary
    BY <1>1, <1>3, <1>5, <2>1 DEF PlanOK, t
  <2>3. QED
    BY <2>1, <2>2
<1>13. LedgerOK'
  <2>1. BoundaryOK' /\ Limit' = Limit
    BY <1>1, <1>2, BoundaryRuns
  <2>2. grown' = grown /\ text' = text
    BY <1>2
  <2>3. (\E f \in Imports : SaidBy(text[f], x)) /\ (x.at < Limit \/ \E f \in grown : SaidBy(text[f], x))
    BY <1>3, <1>10, <1>11, <1>12 DEF t
  <2>4. \A e \in imported' :
          /\ \E f \in Imports : SaidBy(text[f], e)
          /\ e.at < Limit \/ \E f \in grown : SaidBy(text[f], e)
    BY <1>1, <1>7, <2>3 DEF LedgerOK
  <2>5. grown \subseteq Imports
    BY <1>1 DEF LedgerOK
  <2>6. QED
    BY <2>1, <2>2, <2>4, <2>5 DEF LedgerOK
<1>14. CursorOK'
  <2>1. imported \subseteq imported'
    BY <1>7
  <2>2. QED
    BY <1>1, <1>2, <2>1, CursorMore
<1>15. TextsOK' /\ PlanOK' /\ BoundaryOK'
  BY <1>1, <1>2, TextsKept, PlanFewer, BoundaryRuns
<1>16. StampingOK'
  <2>1. MarksOK /\ StampsOK /\ RefusedOK /\ phase # "next"
    BY <1>1, <1>2 DEF StampingOK
  <2>2. position # 0 /\ marked.remote # None
    BY <1>2, <2>1 DEF MarksOK
  <2>3. Has(batch, x)
    BY <1>6
  <2>4. MarksOK'
    BY <1>2, <1>6, <2>1, <2>2 DEF MarksOK
  <2>5. LET z == B!Stamp(x)
        IN  /\ z \in [remote : Nat \cup {None}, servers : Nat \cup {None}, client : Nat]
            /\ z.remote = None <=> x.type \in B!EndTypes
            /\ z.servers = None <=> x.type # "session.start"
            /\ NoNewer(z.remote, marked.remote) /\ NoNewer(z.remote, machine.remote)
            /\ NoNewer(z.servers, marked.servers) /\ NoNewer(z.servers, machine.servers)
            /\ z.client <= machine.client
    BY <2>1, <2>2, <2>3 DEF MarksOK, B!Stamp, NoNewer
  <2>6. DOMAIN stamps' = imported' /\ \A e \in imported' : stamps'[e] = IF e = x THEN B!Stamp(x) ELSE stamps[e]
    BY <1>2 DEF x
  <2>7. ASSUME NEW e \in imported'
        PROVE  StampOK(e)'
    <3>1. CASE e = x
      BY <1>2, <2>5, <2>6, <3>1 DEF StampOK
    <3>2. CASE e # x
      <4>1. e \in imported /\ stamps'[e] = stamps[e]
        BY <1>7, <2>6, <3>2
      <4>2. QED
        BY <1>2, <2>1, <4>1 DEF StampsOK, StampOK
    <3>3. QED
      BY <3>1, <3>2
  <2>8. StampsOK'
    BY <2>6, <2>7 DEF StampsOK
  <2>9. \A e \in imported : e \in imported' /\ stamps'[e] = stamps[e]
    <3>1. x \in imported => stamps[x] = B!Stamp(x)
      BY DEF B!Contradicts, x
    <3>2. QED
      BY <1>7, <2>6, <3>1
  <2>10. RefusedOK'
    BY <1>2, <2>1, <2>9 DEF RefusedOK, B!Restamped
  <2>11. QED
    BY <2>4, <2>8, <2>10 DEF StampingOK
<1>17. QED
  BY <1>9, <1>13, <1>14, <1>15, <1>16 DEF ImportInv

(* Only the end of a file, which is named without its time, contradicts    *)
(* what is recorded, or a line of which the stamp was read anew.           *)
LEMMA RefusesStep ==
  ASSUME ImportInv, B!CommitImported, B!Contradicts(batch[1])
  PROVE  ImportInv'
<1>1. TextsOK /\ BoundaryOK /\ CursorOK /\ PlanOK /\ ReadingOK /\ LedgerOK /\ StampingOK
  BY DEF ImportInv
<1>2. /\ importing /\ phase \in {"send", "last"} /\ batch # <<>>
      /\ refusedLines' = refusedLines \cup {batch[1]}
      /\ importing' = FALSE /\ plan' = {} /\ phase' = "next" /\ position' = 0 /\ batch' = <<>>
      /\ marked' = B!Unread
      /\ UNCHANGED <<text, stamp, clock, kept, cursor, imported, machine, stamps, faults, torn, grown>>
  BY DEF B!CommitImported, B!transcripts, B!Down, B!Rest
<1> DEFINE t == text[B!Now]
           x == batch[1]
<1>3. FileOK /\ B!Now \in Imports /\ t \in Seq(Spoken)
  BY <1>2, NowIs
<1>4. batch \in Seq(Sayings(t))
  BY <1>3 DEF FileOK
<1>5. x \in Sayings(t)
  BY <1>2, <1>4, TailIs
<1>6. PICK r \in imported : r.type = x.type /\ r.key = x.key /\ (r # x \/ stamps[r] # B!Stamp(x))
  BY DEF B!Contradicts
<1>7. PICK f \in Imports : SaidBy(text[f], r)
  BY <1>1, <1>6 DEF LedgerOK
<1>8. text[f] \in Seq(Spoken)
  BY <1>1, <1>7 DEF TextsOK
<1>9. SaidBy(t, x)
  BY <1>3, <1>5, SayingsAre
<1> HIDE DEF x
<1>10. MarksOK /\ StampsOK /\ RefusedOK /\ phase # "next"
  BY <1>1, <1>2 DEF StampingOK
<1>11. EndOf(t, x) \/ (x \in imported /\ stamps[x] # B!Stamp(x) /\ x.type \notin B!EndTypes)
  <2> SUFFICES ASSUME ~EndOf(t, x)
               PROVE  x \in imported /\ stamps[x] # B!Stamp(x) /\ x.type \notin B!EndTypes
    OBVIOUS
  <2>1. ToldUpTo(t, Len(t), x)
    BY <1>9 DEF SaidBy
  <2>2. x.type \in LineTypes
    BY <2>1, ToldTypes
  <2>3. "subagent.stop" \notin LineTypes /\ "session.end" \notin LineTypes
    BY DEF LineTypes
  <2>4. ~EndOf(text[f], r)
    <3>1. EndOf(text[f], r) => r.type \in {"subagent.stop", "session.end"}
      BY <1>8, EndTypes
    <3>2. QED
      BY <1>6, <2>2, <2>3, <3>1
  <2>5. ToldUpTo(text[f], Len(text[f]), r)
    BY <1>7, <2>4 DEF SaidBy
  <2>6. r = x
    BY <1>1, <1>3, <1>6, <1>7, <2>1, <2>5, NoContradiction
  <2>7. QED
    BY <1>6, <2>2, <2>3, <2>6 DEF B!EndTypes
<1>12. ASSUME x \in imported, stamps[x] # B!Stamp(x), x.type \notin B!EndTypes
       PROVE  B!Restamped(x)
  <2> DEFINE z == B!Stamp(x)
             y == stamps[x]
  <2>1. Has(batch, x)
    BY <1>2, <1>4, TailIs DEF x
  <2>2. marked.remote # None /\ (x.type = "session.start" => marked.servers # None)
    BY <1>2, <1>10, <2>1 DEF MarksOK
  <2>3. /\ z = [remote |-> marked.remote, servers |-> IF x.type = "session.start" THEN marked.servers ELSE None,
                client |-> machine.client]
    BY <1>12 DEF B!Stamp
  <2>4. StampOK(x)
    BY <1>10, <1>12 DEF StampsOK
  <2>5. /\ y \in [remote : Nat \cup {None}, servers : Nat \cup {None}, client : Nat]
        /\ y.remote # None /\ (y.servers = None <=> x.type # "session.start")
        /\ y.remote <= marked.remote /\ y.client <= machine.client
        /\ x.type = "session.start" => y.servers <= marked.servers
    BY <1>12, <2>2, <2>4 DEF StampOK, NoNewer
  <2>6. /\ marked.remote \in Nat /\ marked.remote <= machine.remote /\ machine.remote \in Nat
        /\ machine.client \in Nat /\ machine.servers \in Nat
        /\ x.type = "session.start" => marked.servers \in Nat /\ marked.servers <= machine.servers
    <3>1. /\ machine.remote \in Nat /\ machine.client \in Nat /\ machine.servers \in Nat
          /\ marked.remote \in Nat \cup {None} /\ marked.servers \in Nat \cup {None}
          /\ NoNewer(marked.remote, machine.remote) /\ NoNewer(marked.servers, machine.servers)
      BY <1>10 DEF MarksOK
    <3>2. machine.remote # None /\ machine.servers # None
      BY <3>1, PluginAssumption
    <3>3. QED
      BY <2>2, <3>1, <3>2 DEF NoNewer
  <2>7. y = [remote |-> y.remote, servers |-> y.servers, client |-> y.client]
    BY <2>5
  <2>8. y.remote # z.remote \/ y.servers # z.servers \/ y.client # z.client
    BY <1>12, <2>3, <2>7
  <2> HIDE DEF y, z
  <2>9. \/ y.remote # None /\ y.remote < machine.remote
        \/ y.servers # None /\ y.servers < machine.servers
        \/ y.client # None /\ y.client < machine.client
    <3>1. y.remote \in Nat /\ y.client \in Nat /\ y.client # None
      BY <2>5, PluginAssumption
    <3>2. CASE y.remote # z.remote
      <4>1. y.remote # marked.remote
        BY <2>3, <3>2
      <4>2. QED
        BY <2>5, <2>6, <3>1, <4>1
    <3>3. CASE y.client # z.client
      BY <2>3, <2>5, <2>6, <3>1, <3>3
    <3>4. CASE y.servers # z.servers
      <4>1. x.type = "session.start" /\ y.servers # marked.servers /\ y.servers # None
        BY <2>3, <2>5, <3>4
      <4>2. y.servers \in Nat
        BY <2>5, <4>1
      <4>3. QED
        BY <2>5, <2>6, <4>1, <4>2
    <3>5. QED
      BY <2>8, <3>2, <3>3, <3>4
  <2>10. QED
    BY <1>12, <2>9 DEF B!Restamped, y
<1>13. StampingOK'
  <2>1. EndOf(t, x) \/ B!Restamped(x)
    BY <1>11, <1>12
  <2>2. \A e : B!Restamped(e) => B!Restamped(e)'
    BY <1>2 DEF B!Restamped
  <2>3. RefusedOK'
    BY <1>2, <1>3, <1>10, <2>1, <2>2 DEF RefusedOK, x
  <2>4. QED
    BY <1>1, <1>2, <2>3, StampingRests
<1>14. LedgerOK'
  <2>1. Limit \in Nat /\ Limit' \in Nat /\ Limit <= Limit'
    BY <1>2, LimitDown
  <2>2. QED
    BY <1>1, <1>2, <2>1, LedgerLater
<1>15. BoundaryOK' /\ PlanOK'
  BY <1>1, <1>2 DEF BoundaryOK, PlanOK
<1>16. TextsOK' /\ CursorOK' /\ ReadingOK'
  BY <1>1, <1>2, TextsKept, CursorKept, ReadingRests
<1>17. QED
  BY <1>13, <1>14, <1>15, <1>16 DEF ImportInv

-----------------------------------------------------------------------------
(* Claude Code writes on.                                                  *)
LEMMA GrowsBy ==
  ASSUME TextsOK, NEW f \in Imports, B!WriteLine(f)
  PROVE  /\ TextsOK' /\ Len(text'[f]) = Len(text[f]) + 1
         /\ \A g \in Imports : /\ text[g] \in Seq(Spoken) /\ text'[g] \in Seq(Spoken)
                               /\ Len(text[g]) \in Nat /\ Len(text[g]) <= Len(text'[g])
                               /\ Agree(text[g], text'[g], Len(text[g]))
                               /\ g # f => text'[g] = text[g]
<1> DEFINE t == text[f]
           old == HeldBefore[f]
           more == HeldLater[f]
           k == Len(t) - Len(old) + 1
           l == [more[k] EXCEPT !.at = clock]
           u == Append(t, l)
<1>1. /\ old \in Seq(HeldLines) /\ more \in Seq(HeldLines) /\ ImportBegun \in Nat /\ ImportUntil \in Nat
  BY ImportAssumption
<1>2. /\ text \in [Imports -> Seq(Spoken)] /\ stamp \in [Imports -> Nat] /\ clock \in ImportBegun..ImportUntil
      /\ \A g \in Imports : IsGrown(g, text[g]) /\ InOrder(text[g], stamp[g]) /\ stamp[g] <= clock
  BY DEF TextsOK
<1>3. Len(t) < Len(old) + Len(more) /\ text' = [text EXCEPT ![f] = u] /\ stamp' = [stamp EXCEPT ![f] = clock]
      /\ clock' = clock
  BY DEF B!WriteLine
<1>4. t \in Seq(Spoken) /\ IsGrown(f, t) /\ InOrder(t, stamp[f]) /\ stamp[f] <= clock /\ stamp[f] \in Nat
  BY <1>2
<1>5. /\ Len(t) \in Nat /\ Len(old) \in Nat /\ Len(more) \in Nat /\ clock \in Nat /\ Len(old) <= Len(t)
      /\ \A n \in 1..Len(t) :
           /\ n <= Len(old) => t[n] = old[n]
           /\ n > Len(old) => /\ t[n].at \in ImportBegun..ImportUntil
                              /\ t[n] = [more[n - Len(old)] EXCEPT !.at = t[n].at]
  BY <1>1, <1>2, <1>4 DEF IsGrown
<1> HIDE DEF t, old, more
<1>6. k \in 1..Len(more)
  BY <1>3, <1>5
<1> HIDE DEF k
<1>7. more[k] \in HeldLines
  BY <1>1, <1>6
<1>8. l \in Spoken /\ l.at = clock
  <2>1. l \in Spoken
    BY <1>2, <1>7, SpokenLater
  <2>2. "at" \in DOMAIN more[k]
    BY <1>7, ImportAssumption
  <2>3. QED
    BY <2>1, <2>2
<1>9. l = [more[k] EXCEPT !.at = clock]
  OBVIOUS
<1> HIDE DEF l
<1>10. /\ u \in Seq(Spoken) /\ Len(u) = Len(t) + 1 /\ u[Len(t) + 1] = l
       /\ \A n \in 1..Len(t) : u[n] = t[n]
  BY <1>4, <1>8
<1> HIDE DEF u
<1>11. IsGrown(f, u)
  <2>1. ASSUME NEW n \in 1..Len(u)
        PROVE  /\ n <= Len(old) => u[n] = old[n]
               /\ n > Len(old) => /\ u[n].at \in ImportBegun..ImportUntil
                                  /\ u[n] = [more[n - Len(old)] EXCEPT !.at = u[n].at]
    <3>1. CASE n = Len(t) + 1
      <4>1. u[n] = l /\ u[n].at = clock /\ n - Len(old) = k /\ ~(n <= Len(old))
        BY <1>5, <1>8, <1>10, <3>1 DEF k
      <4>2. QED
        BY <1>2, <1>9, <4>1
    <3>2. CASE n # Len(t) + 1
      <4>1. n \in 1..Len(t) /\ u[n] = t[n]
        BY <1>5, <1>10, <3>2
      <4>2. QED
        BY <1>5, <4>1
    <3>3. QED
      BY <3>1, <3>2
  <2>2. Len(old) <= Len(u) /\ Len(u) <= Len(old) + Len(more)
    BY <1>3, <1>5, <1>10
  <2>3. QED
    BY <1>10, <2>1, <2>2 DEF IsGrown, old, more
<1>12. InOrder(u, clock)
  <2> SUFFICES ASSUME NEW m \in 1..Len(u), TimedIn(u, m)
               PROVE  /\ u[m].at \in Nat /\ u[m].at <= clock
                      /\ \A n \in 1..Len(u) : TimedIn(u, n) /\ m <= n => u[m].at <= u[n].at
    BY DEF InOrder
  <2>1. CASE m = Len(t) + 1
    <3>1. u[m].at = clock /\ \A n \in 1..Len(u) : m <= n => n = m
      BY <1>5, <1>8, <1>10, <2>1
    <3>2. QED
      BY <1>5, <3>1
  <2>2. CASE m # Len(t) + 1
    <3>1. m \in 1..Len(t) /\ u[m] = t[m] /\ TimedIn(t, m)
      BY <1>5, <1>10, <2>2 DEF TimedIn
    <3>2. t[m].at \in Nat /\ t[m].at <= stamp[f] /\ \A n \in 1..Len(t) : TimedIn(t, n) /\ m <= n => t[m].at <= t[n].at
      BY <1>4, <3>1 DEF InOrder
    <3>3. t[m].at <= clock
      BY <1>4, <1>5, <3>2
    <3>4. ASSUME NEW n \in 1..Len(u), TimedIn(u, n), m <= n
          PROVE  t[m].at <= u[n].at
      <4>1. CASE n = Len(t) + 1
        BY <1>8, <1>10, <3>3, <4>1
      <4>2. CASE n # Len(t) + 1
        <5>1. n \in 1..Len(t) /\ u[n] = t[n] /\ TimedIn(t, n)
          BY <1>5, <1>10, <3>4, <4>2 DEF TimedIn
        <5>2. QED
          BY <3>2, <3>4, <5>1
      <4>3. QED
        BY <4>1, <4>2
    <3>5. QED
      BY <3>1, <3>2, <3>3, <3>4
  <2>3. QED
    BY <2>1, <2>2
<1>13. text' \in [Imports -> Seq(Spoken)] /\ \A g \in Imports : text'[g] = IF g = f THEN u ELSE text[g]
  BY <1>2, <1>3, <1>10
<1>14. stamp' \in [Imports -> Nat] /\ \A g \in Imports : stamp'[g] = IF g = f THEN clock ELSE stamp[g]
  BY <1>2, <1>3, <1>5
<1>15. TextsOK'
  <2>1. \A g \in Imports : IsGrown(g, text'[g]) /\ InOrder(text'[g], stamp'[g]) /\ stamp'[g] <= clock'
    BY <1>2, <1>3, <1>5, <1>11, <1>12, <1>13, <1>14
  <2>2. QED
    BY <1>2, <1>3, <1>13, <1>14, <2>1 DEF TextsOK
<1>16. ASSUME NEW g \in Imports
       PROVE  /\ text[g] \in Seq(Spoken) /\ text'[g] \in Seq(Spoken)
              /\ Len(text[g]) \in Nat /\ Len(text[g]) <= Len(text'[g])
              /\ Agree(text[g], text'[g], Len(text[g]))
              /\ g # f => text'[g] = text[g]
  <2>1. CASE g = f
    <3>1. text[g] = t /\ text'[g] = u
      BY <1>13, <2>1 DEF t
    <3>2. Len(t) <= Len(u)
      BY <1>5, <1>10
    <3>3. QED
      BY <1>4, <1>5, <1>10, <2>1, <3>1, <3>2 DEF Agree
  <2>2. CASE g # f
    <3>1. text'[g] = text[g] /\ text[g] \in Seq(Spoken)
      BY <1>2, <1>13, <2>2
    <3>2. Len(text[g]) \in Nat
      BY <3>1
    <3>3. QED
      BY <3>1, <3>2 DEF Agree
  <2>3. QED
    BY <2>1, <2>2
<1>17. Len(text'[f]) = Len(text[f]) + 1
  BY <1>10, <1>13 DEF t
<1>18. QED
  BY <1>15, <1>16, <1>17

LEMMA WriteStep == ASSUME ImportInv, NEW f \in Imports, B!WriteLine(f) PROVE ImportInv'
<1>1. TextsOK /\ BoundaryOK /\ CursorOK /\ PlanOK /\ ReadingOK /\ LedgerOK /\ StampingOK
  BY DEF ImportInv
<1>2. /\ grown \subseteq grown' /\ grown' \subseteq grown \cup {f}
      /\ (\E a \in plan : a.file = f /\ a.outcome = "backfill") => f \in grown'
      /\ UNCHANGED <<clock, kept, cursor, importing, boundary, plan, phase, position, context, batch, imported,
                     machine, marked, stamps, faults, refusedLines, torn>>
  BY DEF B!WriteLine, B!reading, B!stamping
<1>3. /\ TextsOK' /\ Len(text'[f]) = Len(text[f]) + 1
      /\ \A g \in Imports : /\ text[g] \in Seq(Spoken) /\ text'[g] \in Seq(Spoken)
                            /\ Len(text[g]) \in Nat /\ Len(text[g]) <= Len(text'[g])
                            /\ Agree(text[g], text'[g], Len(text[g]))
                            /\ g # f => text'[g] = text[g]
  BY <1>1, GrowsBy
<1>4. ASSUME NEW g \in Imports, NEW n \in 0..Len(text[g])
      PROVE  /\ n \in 0..Len(text'[g]) /\ ContextOf(text[g], n) = ContextOf(text'[g], n)
             /\ \A e : ToldUpTo(text[g], n, e) <=> ToldUpTo(text'[g], n, e)
             /\ \A e : EndsAt(text[g], n, e) <=> EndsAt(text'[g], n, e)
  <2>1. text[g] \in Seq(Spoken) /\ text'[g] \in Seq(Spoken) /\ Len(text[g]) <= Len(text'[g])
        /\ Agree(text[g], text'[g], Len(text[g]))
    BY <1>3
  <2>2. QED
    BY <1>4, <2>1, MoreLines, Zenon
<1>5. ASSUME NEW g \in Imports, NEW e
      PROVE  (SaidBy(text[g], e) => SaidBy(text'[g], e)) /\ (EndOf(text[g], e) => EndOf(text'[g], e))
  <2>1. text[g] \in Seq(Spoken) /\ text'[g] \in Seq(Spoken) /\ Len(text[g]) <= Len(text'[g])
        /\ Agree(text[g], text'[g], Len(text[g]))
    BY <1>3
  <2>2. QED
    BY <2>1, MoreSaid, Zenon
<1>6. BoundaryOK' /\ Limit' = Limit
  BY <1>1, <1>2 DEF BoundaryOK, Limit, B!BoundaryOf
<1>7. CursorOK'
  <2>1. ASSUME NEW g \in Imports
        PROVE  /\ cursor.files[g].size <= Len(text'[g]) /\ cursor.progress[g] <= Len(text'[g])
               /\ \A e : ToldUpTo(text'[g], cursor.progress[g], e) => e \in imported
               /\ IsWhole(g)'
    <3>1. /\ cursor.files[g].size \in Nat /\ cursor.progress[g] \in Nat
          /\ cursor.files[g].size <= Len(text[g]) /\ cursor.progress[g] <= Len(text[g])
          /\ \A e : ToldUpTo(text[g], cursor.progress[g], e) => e \in imported
          /\ IsWhole(g)
      BY <1>1 DEF CursorOK
    <3>2. Len(text[g]) \in Nat /\ Len(text'[g]) \in Nat /\ Len(text[g]) <= Len(text'[g])
      BY <1>3
    <3>3. cursor.progress[g] \in 0..Len(text[g])
      BY <3>1, <3>2
    <3>4. \A e : ToldUpTo(text'[g], cursor.progress[g], e) => e \in imported
      BY <1>4, <3>1, <3>3
    <3>5. IsWhole(g)'
      <4>1. CASE g = f
        <5>1. cursor.files[g].size # Len(text'[g])
          BY <1>3, <3>1, <3>2, <4>1
        <5>2. QED
          BY <1>2, <5>1 DEF IsWhole
      <4>2. CASE g # f
        <5>1. text'[g] = text[g]
          BY <1>3, <4>2
        <5>2. QED
          BY <1>2, <3>1, <5>1 DEF IsWhole
      <4>3. QED
        BY <4>1, <4>2
    <3>6. cursor.files[g].size <= Len(text'[g]) /\ cursor.progress[g] <= Len(text'[g])
      BY <3>1, <3>2
    <3>7. QED
      BY <3>4, <3>5, <3>6
  <2>2. cursor \in [files : [Imports -> [size : Nat, stamp : Nat, outcome : Outcomes]], progress : [Imports -> Nat]]
    BY <1>1 DEF CursorOK
  <2>3. QED
    BY <1>2, <2>1, <2>2 DEF CursorOK
<1>8. PlanOK'
  <2>1. ASSUME NEW a \in plan
        PROVE  /\ a.size <= Len(text'[a.file])
               /\ a.outcome = "backfill" /\ a.file \notin grown' =>
                    \A n \in 1..Len(text'[a.file]) : TimedIn(text'[a.file], n) => text'[a.file][n].at < boundary
    <3>1. /\ a.file \in Imports /\ a.size \in Nat /\ a.size <= Len(text[a.file])
          /\ a.outcome = "backfill" /\ a.file \notin grown =>
               \A n \in 1..Len(text[a.file]) : TimedIn(text[a.file], n) => text[a.file][n].at < boundary
      BY <1>1 DEF PlanOK
    <3>2. a.size <= Len(text'[a.file])
      <4>1. Len(text[a.file]) \in Nat /\ Len(text'[a.file]) \in Nat /\ Len(text[a.file]) <= Len(text'[a.file])
        BY <1>3, <3>1
      <4>2. QED
        BY <3>1, <4>1
    <3>3. CASE a.outcome = "backfill" /\ a.file \notin grown'
      <4>1. a.file # f /\ a.file \notin grown
        BY <1>2, <3>3
      <4>2. text'[a.file] = text[a.file]
        BY <1>3, <3>1, <4>1
      <4>3. QED
        BY <3>1, <3>2, <3>3, <4>1, <4>2
    <3>4. QED
      BY <3>2, <3>3
  <2>2. plan' = plan /\ boundary' = boundary
    BY <1>2
  <2>3. /\ plan \subseteq [file : Imports, size : Nat, stamp : Nat, outcome : {"overlap", "done", "backfill"}]
        /\ \A a, b \in plan : a.file = b.file => a = b
    BY <1>1 DEF PlanOK
  <2>4. QED
    BY <2>1, <2>2, <2>3 DEF PlanOK
<1>9. ReadingOK'
  <2>1. CASE phase = "next"
    BY <1>1, <1>2, <2>1 DEF ReadingOK
  <2>2. CASE phase # "next"
    <3> DEFINE t == text[B!Now]
               u == text'[B!Now]
    <3>1. FileOK /\ B!Now \in Imports
      BY <2>2, NowIs
    <3>2. B!Turn' = B!Turn /\ B!Now' = B!Now
      BY <1>2, SameTurn
    <3>3. position \in 0..Len(t)
      BY <3>1 DEF FileOK
    <3>4. /\ position \in 0..Len(u) /\ ContextOf(t, position) = ContextOf(u, position)
          /\ \A e : ToldUpTo(t, position, e) <=> ToldUpTo(u, position, e)
          /\ \A e : EndsAt(t, position, e) <=> EndsAt(u, position, e)
      BY <1>4, <3>1, <3>3
    <3>5. batch \in Seq(Sayings(u))
      <4>1. t \in Seq(Spoken) /\ u \in Seq(Spoken)
        BY <1>3, <3>1
      <4>2. \A e : e \in Sayings(t) => e \in Sayings(u)
        BY <1>5, <3>1, <4>1, SayingsAre
      <4>3. batch \in Seq(Sayings(t))
        BY <3>1 DEF FileOK
      <4> HIDE DEF t, u
      <4>4. Sayings(t) \subseteq Sayings(u)
        BY <4>2
      <4>5. QED
        BY <4>3, <4>4, WiderSeq, Zenon
    <3>6. text'[B!Now'] = u
      BY <3>2
    <3>7. /\ importing' /\ plan' # {} /\ (B!Turn').outcome = "backfill" /\ position' \in 0..Len(u)
          /\ (phase' # "last" => context' = ContextOf(u, position'))
          /\ batch' \in Seq(Sayings(u))
          /\ \A e : ToldUpTo(u, position', e) => e \in imported' \/ Has(batch', e)
          /\ phase' = "last" /\ B!Now' \notin torn' =>
               /\ (B!Turn').size <= position'
               /\ \A e : EndsAt(u, position', e) => e \in imported' \/ Has(batch', e)
      BY <1>2, <3>1, <3>2, <3>4, <3>5 DEF FileOK
    <3> HIDE DEF u
    <3>8. FileOK'
      BY <3>6, <3>7 DEF FileOK
    <3>9. QED
      BY <1>1, <1>2, <2>2, <3>8 DEF ReadingOK
  <2>3. QED
    BY <2>1, <2>2
<1>10. LedgerOK'
  <2>1. grown \subseteq Imports /\ grown' \subseteq Imports
    BY <1>1, <1>2 DEF LedgerOK
  <2>2. ASSUME NEW e \in imported
        PROVE  /\ \E g \in Imports : SaidBy(text'[g], e)
               /\ e.at < Limit \/ \E g \in grown' : SaidBy(text'[g], e)
    <3>1. /\ \E g \in Imports : SaidBy(text[g], e)
          /\ e.at < Limit \/ \E g \in grown : SaidBy(text[g], e)
      BY <1>1 DEF LedgerOK
    <3>2. QED
      BY <1>2, <1>5, <2>1, <3>1
  <2>3. QED
    BY <1>2, <1>6, <2>1, <2>2 DEF LedgerOK
<1>11. StampingOK'
  <2>1. MarksOK /\ StampsOK /\ RefusedOK
    BY <1>1 DEF StampingOK
  <2>2. MarksOK' /\ StampsOK'
    BY <1>2, <2>1 DEF MarksOK, StampsOK, StampOK
  <2>3. RefusedOK'
    BY <1>2, <1>5, <2>1, RefusedKept
  <2>4. QED
    BY <2>2, <2>3 DEF StampingOK
<1>12. QED
  BY <1>3, <1>6, <1>7, <1>8, <1>9, <1>10, <1>11 DEF ImportInv

(* What the machine says becomes another.                                  *)
LEMMA AltersStep == ASSUME ImportInv, NEW part \in ImportParts, B!Alters(part) PROVE ImportInv'
<1>1. TextsOK /\ BoundaryOK /\ CursorOK /\ PlanOK /\ ReadingOK /\ LedgerOK /\ StampingOK
  BY DEF ImportInv
<1>2. /\ machine' = [machine EXCEPT ![part] = @ + 1]
      /\ UNCHANGED <<text, stamp, clock, kept, cursor, importing, boundary, plan, phase, position, context, batch,
                     imported, marked, stamps, faults, refusedLines, torn, grown>>
  BY DEF B!Alters, B!transcripts, B!reading, B!importHistory
<1>3. TextsOK' /\ CursorOK' /\ ReadingOK'
  BY <1>1, <1>2, TextsKept, CursorKept, ReadingKept
<1>4. BoundaryOK' /\ PlanOK'
  BY <1>1, <1>2 DEF BoundaryOK, PlanOK
<1>5. LedgerOK'
  <2>1. Limit' = Limit
    BY <1>2 DEF Limit, B!BoundaryOf
  <2>2. QED
    BY <1>1, <1>2, <2>1, LedgerKept
<1>6. StampingOK'
  <2>1. MarksOK /\ StampsOK /\ RefusedOK
    BY <1>1 DEF StampingOK
  <2>2. part \in {"remote", "servers", "client"} /\ machine \in [remote : Nat, servers : Nat, client : Nat]
    BY <2>1, ImportAssumption DEF MarksOK
  <2>3. /\ machine' \in [remote : Nat, servers : Nat, client : Nat]
        /\ machine.remote <= machine'.remote /\ machine.servers <= machine'.servers
        /\ machine.client <= machine'.client
    BY <1>2, <2>2
  <2>4. ASSUME NEW x \in Nat \cup {None}
        PROVE  /\ NoNewer(x, machine.remote) => NoNewer(x, machine'.remote)
               /\ NoNewer(x, machine.servers) => NoNewer(x, machine'.servers)
               /\ x # None /\ x <= machine.client => x <= machine'.client
    <3>1. machine.remote # None /\ machine.servers # None /\ (x # None => x \in Nat)
      BY <2>2, PluginAssumption
    <3>2. /\ machine.remote \in Nat /\ machine.servers \in Nat /\ machine.client \in Nat
          /\ machine'.remote \in Nat /\ machine'.servers \in Nat /\ machine'.client \in Nat
      BY <2>2, <2>3
    <3> HIDE DEF NoNewer
    <3>3. NoNewer(x, machine.remote) /\ x # None => x <= machine'.remote
      BY <2>3, <3>1, <3>2 DEF NoNewer
    <3>4. NoNewer(x, machine.servers) /\ x # None => x <= machine'.servers
      BY <2>3, <3>1, <3>2 DEF NoNewer
    <3>5. x # None /\ x <= machine.client => x <= machine'.client
      BY <2>3, <3>1, <3>2
    <3>6. QED
      BY <3>3, <3>4, <3>5 DEF NoNewer
  <2>5. MarksOK'
    <3>1. marked.remote \in Nat \cup {None} /\ marked.servers \in Nat \cup {None}
      BY <2>1 DEF MarksOK
    <3>2. NoNewer(marked.remote, machine'.remote) /\ NoNewer(marked.servers, machine'.servers)
      BY <2>1, <2>4, <3>1 DEF MarksOK
    <3>3. QED
      BY <1>2, <2>1, <2>3, <3>2 DEF MarksOK
  <2>6. StampsOK'
    <3>1. ASSUME NEW e \in imported
          PROVE  StampOK(e)'
      <4>1. StampOK(e)
        BY <2>1 DEF StampsOK
      <4>2. /\ stamps[e].remote \in Nat \cup {None} /\ stamps[e].servers \in Nat \cup {None}
            /\ stamps[e].client \in Nat /\ stamps[e].client # None
        BY <4>1, PluginAssumption DEF StampOK
      <4>3. /\ NoNewer(stamps[e].remote, machine'.remote) /\ NoNewer(stamps[e].servers, machine'.servers)
            /\ stamps[e].client <= machine'.client
        BY <2>4, <4>1, <4>2 DEF StampOK
      <4>4. QED
        BY <1>2, <4>1, <4>3 DEF StampOK
    <3>2. QED
      BY <1>2, <2>1, <3>1 DEF StampsOK
  <2>7. ASSUME NEW e, B!Restamped(e)
        PROVE  B!Restamped(e)'
    <3>1. e \in imported /\ StampOK(e)
      BY <2>1, <2>7 DEF StampsOK, B!Restamped
    <3>2. stamps[e] \in [remote : Nat \cup {None}, servers : Nat \cup {None}, client : Nat]
      BY <3>1 DEF StampOK
    <3>3. \/ stamps[e].remote # None /\ stamps[e].remote < machine.remote
          \/ stamps[e].servers # None /\ stamps[e].servers < machine.servers
          \/ stamps[e].client # None /\ stamps[e].client < machine.client
      BY <2>7 DEF B!Restamped
    <3>4. \/ stamps[e].remote # None /\ stamps[e].remote < machine'.remote
          \/ stamps[e].servers # None /\ stamps[e].servers < machine'.servers
          \/ stamps[e].client # None /\ stamps[e].client < machine'.client
      BY <2>2, <2>3, <3>2, <3>3
    <3>5. QED
      BY <1>2, <3>1, <3>4 DEF B!Restamped
  <2>8. RefusedOK'
    BY <1>2, <2>1, <2>7 DEF RefusedOK
  <2>9. QED
    BY <2>5, <2>6, <2>8 DEF StampingOK
<1>7. QED
  BY <1>3, <1>4, <1>5, <1>6 DEF ImportInv

LEMMA ImportRests == ASSUME ImportInv, UNCHANGED backfill PROVE ImportInv'
<1>1. TextsOK /\ BoundaryOK /\ CursorOK /\ PlanOK /\ ReadingOK /\ LedgerOK /\ StampingOK
  BY DEF ImportInv
<1>2. UNCHANGED <<text, stamp, clock, kept, cursor, importing, boundary, plan,
             phase, position, context, batch, machine, marked, imported, stamps, refusedLines, torn, grown>>
  BY DEF backfill
<1>3. Limit' = Limit
  BY <1>2 DEF Limit, B!BoundaryOf
<1>4. BoundaryOK' /\ PlanOK'
  BY <1>1, <1>2 DEF BoundaryOK, PlanOK
<1>5. TextsOK' /\ CursorOK' /\ ReadingOK' /\ LedgerOK'
  BY <1>1, <1>2, <1>3, TextsKept, CursorKept, ReadingKept, LedgerKept
<1>6. StampingOK'
  BY <1>1, <1>2, StampingKept
<1>7. QED
  BY <1>4, <1>5, <1>6 DEF ImportInv

LEMMA ImportStep == ImportInv /\ [B!BackfillNext]_backfill => ImportInv'
<1> SUFFICES ASSUME ImportInv, [B!BackfillNext]_backfill
             PROVE  ImportInv'
  OBVIOUS
<1>1. CASE B!StartImport \/ B!SaveState \/ B!Skip \/ B!Open \/ B!ReplayFails \/ B!OpenFails
  BY <1>1, StartStep, SaveStep, SkipStep, OpenStep, OpenFailsStep
<1>2. CASE B!ReadLine \/ B!EndOfFile \/ B!ReadFails
  BY <1>2, ReadLineStep, EndStep
<1>3. CASE B!CommitImported
  BY <1>3, CommitsStep, RefusesStep
<1>4. CASE B!Acknowledge \/ B!Finished \/ B!ImportCrash \/ B!Tick
  BY <1>4, AcknowledgeStep, FinishedStep, CrashStep, TickStep
<1>5. CASE \E f \in Imports : B!WriteLine(f) \/ B!Touch(f)
  BY <1>5, WriteStep, TouchStep
<1>6. CASE \E part \in ImportParts : B!Alters(part)
  BY <1>6, AltersStep
<1>7. CASE UNCHANGED backfill
  BY <1>7, ImportRests
<1>8. QED
  BY <1>1, <1>2, <1>3, <1>4, <1>5, <1>6, <1>7 DEF B!BackfillNext

(* What is imported is what the transcripts say before the boundary, as    *)
(* one reading without an interruption has it, and a file noted as done is *)
(* in the database whole, whatever is written meanwhile, fails to be read  *)
(* or is read again after a crash. The agent is ended by nothing but the   *)
(* end of a session that is told at another line, or a line that is        *)
(* recorded word for word, and whose repository, servers or client were    *)
(* others when it was (claude_backfill.rs, client_source.rs).              *)
THEOREM CollectorsImportHolds == CollectorsSpec => []ImportHolds
<1>1. CollectorsInit => ImportInv
  BY ImportBegins DEF CollectorsInit
<1>2. ImportInv /\ [CollectorsNext]_collectorsVars => ImportInv'
  <2>1. [CollectorsNext]_collectorsVars => [B!BackfillNext]_backfill
    BY DEF CollectorsNext, collectorsVars
  <2>2. QED
    BY <2>1, ImportStep
<1>3. ImportInv => ImportHolds
  BY ImportShows
<1>4. QED
  BY <1>1, <1>2, <1>3, PTL DEF CollectorsSpec
==============================================================================

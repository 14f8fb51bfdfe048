---------------------------- MODULE LinesProofs ----------------------------
(***************************************************************************)
(* The collectors that read files line by line record what one reading of  *)
(* each from its beginning makes: the session files of Codex, and the      *)
(* transcripts of a Cowork VM.                                             *)
(***************************************************************************)
EXTENDS MCCollectors, WellFoundedInduction, TLAPS

LEMMA LeastNumber == ASSUME NEW T \in SUBSET Nat, T # {} PROVE \E x \in T : \A y \in T : x <= y
<1>1. \E x \in T : \A y \in T : ~ (<<y, x>> \in OpToRel(<, Nat))
  BY WFMin, NatLessThanWellFounded
<1>2. \A x, y \in T : <<y, x>> \notin OpToRel(<, Nat) => x <= y
  BY DEF OpToRel
<1>3. QED
  BY <1>1, <1>2

(* So has a bounded one a last.                                            *)
LEMMA LastNumber ==
  ASSUME NEW b \in Nat, NEW T \in SUBSET (1..b), T # {}
  PROVE  Max(T) \in T /\ \A y \in T : Max(T) >= y
<1> DEFINE Back == {b - y : y \in T}
<1>0. \A y \in T : b - y \in Nat
  OBVIOUS
<1>1. Back \in SUBSET Nat /\ Back # {}
  BY <1>0
<1>2. PICK x \in Back : \A y \in Back : x <= y
  BY <1>1, LeastNumber
<1>3. PICK z \in T : x = b - z
  BY <1>2
<1>4. \A y \in T : z >= y
  <2> SUFFICES ASSUME NEW y \in T
               PROVE  z >= y
    OBVIOUS
  <2>1. b - y \in Back
    OBVIOUS
  <2>2. x <= b - y
    BY <1>2, <2>1
  <2>3. QED
    BY <1>3, <2>2
<1>5. QED
  BY <1>3, <1>4 DEF Max

-----------------------------------------------------------------------------
(* Of the lines after the first a, up to the n-th, those that tell a field. *)
Tellers(p, a, n, f) == {m \in (a + 1)..n : Tells(Script[p][m], f)}

(* The context after n lines, read from c after the first a: of each field, *)
(* what the last line since says that tells it.                            *)
After(c, p, a, n) ==
  [f \in Fields |->
     IF Tellers(p, a, n, f) = {} THEN c[f] ELSE Script[p][Max(Tellers(p, a, n, f))][f]]

IsContext(c) == c = [f \in Fields |-> c[f]]

LEMMA AfterIsContext == ASSUME NEW c, NEW p, NEW a, NEW n PROVE IsContext(After(c, p, a, n))
BY DEF After, IsContext

LEMMA AfterNone ==
  ASSUME NEW c, IsContext(c), NEW p, NEW a \in Nat
  PROVE  After(c, p, a, a) = c
<1>1. \A f : Tellers(p, a, a, f) = {}
  BY DEF Tellers
<1>2. QED
  BY <1>1 DEF After, IsContext

LEMMA AfterOneMore ==
  ASSUME NEW c, NEW p, NEW a \in Nat, NEW n \in Nat, n > a
  PROVE  After(c, p, a, n) = Told(After(c, p, a, n - 1), Script[p][n])
<1>1. ASSUME NEW f \in Fields, Tells(Script[p][n], f)
      PROVE  After(c, p, a, n)[f] = Script[p][n][f]
  <2>1. n \in Tellers(p, a, n, f) /\ Tellers(p, a, n, f) \in SUBSET (1..n)
    BY <1>1 DEF Tellers
  <2>2. Max(Tellers(p, a, n, f)) \in 1..n /\ Max(Tellers(p, a, n, f)) >= n
    BY <2>1, LastNumber
  <2>3. Max(Tellers(p, a, n, f)) = n
    BY <2>2
  <2>4. QED
    BY <2>1, <2>3 DEF After
<1>2. ASSUME NEW f \in Fields, ~Tells(Script[p][n], f)
      PROVE  After(c, p, a, n)[f] = After(c, p, a, n - 1)[f]
  <2>1. Tellers(p, a, n, f) = Tellers(p, a, n - 1, f)
    BY <1>2 DEF Tellers
  <2>2. QED
    BY <2>1 DEF After
<1>3. QED
  BY <1>1, <1>2 DEF Told, After

LEMMA ContextIs ==
  ASSUME NEW p \in Paths, NEW n \in 0..Len(Script[p])
  PROVE  /\ IsContext(ContextAt[p][n])
         /\ \A f \in Fields : ContextAt[p][n][f] =
              IF Tellers(p, 0, n, f) = {} THEN None ELSE Script[p][Max(Tellers(p, 0, n, f))][f]
<1>1. \A f : Tellers(p, 0, n, f) = {m \in 1..n : Tells(Script[p][m], f)}
  BY DEF Tellers
<1>2. ContextAt[p][n] =
        [f \in Fields |-> IF Tellers(p, 0, n, f) = {} THEN None
                          ELSE Script[p][Max(Tellers(p, 0, n, f))][f]]
  BY <1>1 DEF ContextAt
<1>3. QED
  BY <1>2 DEF IsContext

LEMMA LastOfMore ==
  ASSUME NEW a \in Nat, NEW n \in Nat, NEW T, NEW S, S # {},
         \A m \in T : m \in 1..n, \A m \in S : m \in T /\ m > a, \A m \in T : m \in S \/ m <= a
  PROVE  Max(T) = Max(S)
<1>1. T \in SUBSET (1..n) /\ S \in SUBSET (1..n) /\ T # {}
  OBVIOUS
<1>2. Max(S) \in S /\ \A m \in S : Max(S) >= m
  BY <1>1, LastNumber
<1>3. Max(T) \in T /\ \A m \in T : Max(T) >= m
  BY <1>1, LastNumber
<1> DEFINE x == Max(T)
           y == Max(S)
<1>4. x \in 1..n /\ y \in 1..n /\ x \in T /\ y \in S /\ x >= y /\ (x \in S => y >= x)
  BY <1>1, <1>2, <1>3
<1> HIDE DEF x, y
<1>5. x = y
  BY <1>4
<1>6. QED
  BY <1>5 DEF x, y

(* What was read to the first a lines may be read on.                      *)
LEMMA AfterAfter ==
  ASSUME NEW p \in Paths, NEW a \in 0..Len(Script[p]), NEW n \in a..Len(Script[p])
  PROVE  After(ContextAt[p][a], p, a, n) = ContextAt[p][n]
<1>0. a \in Nat /\ n \in Nat /\ a <= n /\ n \in 0..Len(Script[p])
  BY RolloutAssumption
<1>1. ASSUME NEW f \in Fields
      PROVE  After(ContextAt[p][a], p, a, n)[f] = ContextAt[p][n][f]
  <2>1. /\ Tellers(p, 0, n, f) = Tellers(p, 0, a, f) \cup Tellers(p, a, n, f)
        /\ Tellers(p, 0, a, f) \in SUBSET (1..a) /\ Tellers(p, a, n, f) \in SUBSET ((a + 1)..n)
    BY <1>0 DEF Tellers
  <2>2. ASSUME Tellers(p, a, n, f) # {}
        PROVE  /\ Tellers(p, 0, n, f) # {}
               /\ Max(Tellers(p, 0, n, f)) = Max(Tellers(p, a, n, f))
    <3> DEFINE all  == Tellers(p, 0, n, f)
               late == Tellers(p, a, n, f)
    <3>0. /\ late # {} /\ \A m \in all : m \in 1..n
          /\ \A m \in late : m \in all /\ m > a
          /\ \A m \in all : m \in late \/ m <= a
      BY <1>0, <2>2 DEF Tellers
    <3> HIDE DEF all, late
    <3>1. Max(all) = Max(late)
      BY <1>0, <3>0, LastOfMore
    <3>2. QED
      BY <2>1, <2>2, <3>1 DEF all, late
  <2>3. After(ContextAt[p][a], p, a, n)[f] =
          IF Tellers(p, a, n, f) = {} THEN ContextAt[p][a][f] ELSE Script[p][Max(Tellers(p, a, n, f))][f]
    BY DEF After
  <2>4. /\ ContextAt[p][a][f] =
             IF Tellers(p, 0, a, f) = {} THEN None ELSE Script[p][Max(Tellers(p, 0, a, f))][f]
        /\ ContextAt[p][n][f] =
             IF Tellers(p, 0, n, f) = {} THEN None ELSE Script[p][Max(Tellers(p, 0, n, f))][f]
    BY <1>0, ContextIs
  <2>5. CASE Tellers(p, a, n, f) = {}
    <3>1. Tellers(p, 0, n, f) = Tellers(p, 0, a, f)
      BY <2>1, <2>5
    <3>2. QED
      BY <2>3, <2>4, <2>5, <3>1
  <2>6. QED
    BY <2>2, <2>3, <2>4, <2>5
<1>2. IsContext(ContextAt[p][n]) /\ IsContext(After(ContextAt[p][a], p, a, n))
  BY <1>0, ContextIs, AfterIsContext
<1>3. QED
  BY <1>1, <1>2 DEF IsContext

-----------------------------------------------------------------------------
(* A function defined by recursion over an interval is the one that fits.  *)
LEMMA ContextsAre ==
  ASSUME NEW c, IsContext(c), NEW p, NEW a \in Nat, NEW b \in Nat
  PROVE  \A n \in a..b : Contexts(c, p, a, b)[n] = After(c, p, a, n)
<1> DEFINE Fits(g) == g = [n \in a..b |-> IF n = a THEN c ELSE Told(g[n - 1], Script[p][n])]
           whole == [n \in a..b |-> After(c, p, a, n)]
           g == Contexts(c, p, a, b)
<1>1. Fits(whole)
  <2>1. ASSUME NEW n \in a..b
        PROVE  whole[n] = IF n = a THEN c ELSE Told(whole[n - 1], Script[p][n])
    <3>1. CASE n = a
      BY <3>1, AfterNone
    <3>2. CASE n # a
      <4>1. n \in Nat /\ n > a /\ n - 1 \in a..b
        BY <2>1, <3>2
      <4>2. QED
        BY <3>2, <4>1, AfterOneMore
    <3>3. QED
      BY <3>1, <3>2
  <2>2. QED
    BY <2>1
<1>2. g = CHOOSE h : Fits(h)
  BY DEF Contexts
<1>3. Fits(g)
  <2> HIDE DEF whole, Fits, g
  <2>1. \E h : Fits(h)
    BY <1>1
  <2>2. QED
    BY <1>2, <2>1
<1>4. \A n \in a..b : g[n] = IF n = a THEN c ELSE Told(g[n - 1], Script[p][n])
  <2> HIDE DEF g
  <2>1. QED
    BY <1>3
<1> HIDE DEF g
<1> DEFINE Wrong == {n \in a..b : g[n] # After(c, p, a, n)}
<1>5. Wrong = {}
  <2> SUFFICES ASSUME Wrong # {}
               PROVE  FALSE
    OBVIOUS
  <2>1. Wrong \in SUBSET Nat
    OBVIOUS
  <2>2. PICK n \in Wrong : \A m \in Wrong : n <= m
    BY <2>1, LeastNumber
  <2>3. n # a
    BY <1>4, <2>2, AfterNone
  <2>4. n - 1 \in a..b /\ n - 1 \notin Wrong /\ n \in Nat /\ n > a
    BY <2>2, <2>3
  <2>5. g[n - 1] = After(c, p, a, n - 1)
    BY <2>4
  <2>6. g[n] = After(c, p, a, n)
    BY <1>4, <2>2, <2>3, <2>4, <2>5, AfterOneMore
  <2>7. QED
    BY <2>2, <2>6
<1>6. QED
  BY <1>5 DEF g

-----------------------------------------------------------------------------
(* An element of a sequence.                                               *)
Has(s, e) == \E i \in 1..Len(s) : s[i] = e

LEMMA HasToSet == ASSUME NEW X, NEW s \in Seq(X) PROVE \A e : e \in ToSet(s) <=> Has(s, e)
BY DEF ToSet, Has

LEMMA HasJoined ==
  ASSUME NEW X, NEW s \in Seq(X), NEW t \in Seq(X)
  PROVE  s \o t \in Seq(X) /\ \A e : Has(s \o t, e) <=> Has(s, e) \/ Has(t, e)
<1>1. /\ s \o t \in Seq(X) /\ Len(s \o t) = Len(s) + Len(t) /\ Len(s) \in Nat /\ Len(t) \in Nat
      /\ \A i \in 1..Len(s \o t) : (s \o t)[i] = IF i <= Len(s) THEN s[i] ELSE t[i - Len(s)]
  OBVIOUS
<1>2. ASSUME NEW e, Has(s, e)
      PROVE  Has(s \o t, e)
  BY <1>1, <1>2 DEF Has
<1>3. ASSUME NEW e, Has(t, e)
      PROVE  Has(s \o t, e)
  <2>1. PICK i \in 1..Len(t) : t[i] = e
    BY <1>3 DEF Has
  <2>2. i + Len(s) \in 1..Len(s \o t) /\ ~(i + Len(s) <= Len(s)) /\ i + Len(s) - Len(s) = i
    BY <1>1
  <2>3. (s \o t)[i + Len(s)] = e
    BY <1>1, <2>1, <2>2
  <2>4. QED
    BY <2>2, <2>3 DEF Has
<1>4. ASSUME NEW e, Has(s \o t, e)
      PROVE  Has(s, e) \/ Has(t, e)
  <2>1. PICK i \in 1..Len(s \o t) : (s \o t)[i] = e
    BY <1>4 DEF Has
  <2>2. CASE i <= Len(s)
    BY <1>1, <2>1, <2>2 DEF Has
  <2>3. CASE ~(i <= Len(s))
    <3>1. i - Len(s) \in 1..Len(t)
      BY <1>1, <2>3
    <3>2. t[i - Len(s)] = e
      BY <1>1, <2>1, <2>3
    <3>3. QED
      BY <3>1, <3>2 DEF Has
  <2>4. QED
    BY <2>2, <2>3
<1>5. QED
  BY <1>1, <1>2, <1>3, <1>4

(* The sequences one after the other, of any number of them.               *)
LEMMA FlattenedSteps ==
  ASSUME NEW s, Len(s) \in Nat, Len(s) # 0
  PROVE  \E g : /\ FlattenSeq(s) = g[Len(s)]
                /\ \A i \in 1..Len(s) : g[i] = IF i = 1 THEN s[i] ELSE g[i - 1] \o s[i]
<1> DEFINE k == Len(s)
           Fits(m, g) == g = [i \in 1..m |-> IF i = 1 THEN s[i] ELSE g[i - 1] \o s[i]]
           Unfit == {m \in Nat : ~\E g : Fits(m, g)}
<1>1. Unfit = {}
  <2> SUFFICES ASSUME Unfit # {}
               PROVE  FALSE
    OBVIOUS
  <2>1. Unfit \in SUBSET Nat
    OBVIOUS
  <2>2. PICK m \in Unfit : \A n \in Unfit : m <= n
    BY <2>1, LeastNumber
  <2>3. m # 0
    <3>1. Fits(0, [i \in 1..0 |-> s[i]])
      OBVIOUS
    <3>2. \E g : Fits(0, g)
      <4> HIDE DEF Fits
      <4>1. QED
        BY <3>1
    <3>3. ~\E g : Fits(m, g)
      BY <2>2
    <3> HIDE DEF Fits
    <3>4. QED
      BY <3>2, <3>3
  <2>a. m \in Nat /\ m - 1 \in Nat /\ ~(m <= m - 1)
    BY <2>2, <2>3
  <2>4. m - 1 \notin Unfit
    <3> HIDE DEF Unfit
    <3>1. QED
      BY <2>a, <2>2
  <2>5. PICK g : Fits(m - 1, g)
    BY <2>4, <2>a
  <2>6. \A i \in 1..(m - 1) : g[i] = IF i = 1 THEN s[i] ELSE g[i - 1] \o s[i]
    BY <2>a, <2>5
  <2> DEFINE h == [i \in 1..m |-> IF i = m THEN IF i = 1 THEN s[i] ELSE g[i - 1] \o s[i] ELSE g[i]]
  <2>7. ASSUME NEW i \in 1..m
        PROVE  h[i] = IF i = 1 THEN s[i] ELSE h[i - 1] \o s[i]
    <3>1. i # 1 => i - 1 \in 1..m /\ i - 1 # m
      BY <2>a
    <3>2. i # 1 => h[i - 1] = g[i - 1]
      BY <3>1
    <3>3. h[i] = IF i = m THEN IF i = 1 THEN s[i] ELSE g[i - 1] \o s[i] ELSE g[i]
      OBVIOUS
    <3>4. i # m => i \in 1..(m - 1)
      BY <2>a
    <3> HIDE DEF h
    <3>5. QED
      BY <2>6, <3>2, <3>3, <3>4
  <2>8. Fits(m, h)
    BY <2>7
  <2>9. \E f : Fits(m, f)
    <3> HIDE DEF Fits, h
    <3>1. QED
      BY <2>8
  <2>10. QED
    BY <2>2, <2>9
<1> DEFINE g == CHOOSE f : Fits(k, f)
<1>2. FlattenSeq(s) = g[k]
  BY DEF FlattenSeq
<1>3. Fits(k, g)
  <2>1. k \in Nat
    OBVIOUS
  <2> HIDE DEF Fits, k
  <2>2. \E f : Fits(k, f)
    BY <1>1, <2>1
  <2>3. QED
    BY <2>2
<1> HIDE DEF g
<1>4. \A i \in 1..k : g[i] = IF i = 1 THEN s[i] ELSE g[i - 1] \o s[i]
  BY <1>3
<1>5. QED
  BY <1>2, <1>4

LEMMA Flattened ==
  ASSUME NEW X, NEW k \in Nat, NEW s \in [1..k -> Seq(X)]
  PROVE  /\ FlattenSeq(s) \in Seq(X)
         /\ \A e : Has(FlattenSeq(s), e) <=> \E i \in 1..k : Has(s[i], e)
<1>1. Len(s) = k /\ DOMAIN s = 1..k
  OBVIOUS
<1>2. CASE k = 0
  <2>1. FlattenSeq(s) = s
    BY <1>1, <1>2 DEF FlattenSeq
  <2>2. s \in Seq(X) /\ Len(s) = 0
    BY <1>1, <1>2
  <2>3. QED
    BY <1>2, <2>1, <2>2 DEF Has
<1>3. CASE k # 0
  <2>1. PICK g : FlattenSeq(s) = g[k] /\ \A i \in 1..k : g[i] = IF i = 1 THEN s[i] ELSE g[i - 1] \o s[i]
    <3>1. Len(s) \in Nat /\ Len(s) # 0
      BY <1>1, <1>3
    <3>2. \E g : /\ FlattenSeq(s) = g[Len(s)]
                 /\ \A i \in 1..Len(s) : g[i] = IF i = 1 THEN s[i] ELSE g[i - 1] \o s[i]
      BY <3>1, FlattenedSteps, Zenon
    <3>3. QED
      BY <1>1, <3>2
  <2> DEFINE Good(i) == g[i] \in Seq(X) /\ \A e : Has(g[i], e) <=> \E j \in 1..i : Has(s[j], e)
             Wrong == {i \in 1..k : ~Good(i)}
  <2>4. Wrong = {}
    <3> SUFFICES ASSUME Wrong # {}
                 PROVE  FALSE
      OBVIOUS
    <3>1. Wrong \in SUBSET Nat
      OBVIOUS
    <3>2. PICK i \in Wrong : \A j \in Wrong : i <= j
      BY <3>1, LeastNumber
    <3>3. i \in 1..k /\ s[i] \in Seq(X)
      OBVIOUS
    <3>4. CASE i = 1
      <4>1. g[i] = s[i] /\ 1..i = {i}
        BY <2>1, <3>3, <3>4
      <4>2. Good(i)
        BY <3>3, <4>1
      <4>3. QED
        BY <4>2
    <3>5. CASE i # 1
      <4>1. i - 1 \in 1..k /\ ~(i <= i - 1)
        BY <3>3, <3>5
      <4>a. i - 1 \notin Wrong
        <5> HIDE DEF Wrong
        <5>1. QED
          BY <3>2, <4>1
      <4>2. Good(i - 1)
        <5> HIDE DEF Good
        <5>1. QED
          BY <4>1, <4>a
      <4>3. g[i] = g[i - 1] \o s[i]
        BY <2>1, <3>3, <3>5
      <4>4. g[i] \in Seq(X) /\ \A e : Has(g[i], e) <=> Has(g[i - 1], e) \/ Has(s[i], e)
        BY <3>3, <4>2, <4>3, HasJoined
      <4>5. 1..i = 1..(i - 1) \cup {i}
        BY <3>3
      <4>6. Good(i)
        BY <4>2, <4>4, <4>5
      <4>7. QED
        BY <4>6
    <3>6. QED
      BY <3>4, <3>5
  <2>5. Good(k)
    <3> HIDE DEF Good
    <3>1. k \in 1..k
      BY <1>3
    <3>2. QED
      BY <3>1, <2>4
  <2>6. QED
    BY <2>1, <2>5
<1>4. QED
  BY <1>2, <1>3

(* A line makes one event or none.                                         *)
LEMMA TranslationIs ==
  ASSUME NEW c, NEW line
  PROVE  Translation(c, line) = <<>> \/ \E e : Translation(c, line) = <<e>>
<1> DEFINE now == Told(c, line)
           E(kind, turn, model, usage) == Body("log", kind, now, turn, model, usage, line.at)
<1>1. CASE line.kind = "meta"
  <2>1. Translation(c, line) = <<Metadata(E("session.start", None, None, None))>>
    BY <1>1 DEF Translation
  <2>2. QED
    BY <2>1
<1>2. CASE line.kind = "turn"
  <2>1. Translation(c, line) = <<Metadata(E("turn", now.turn, now.model, None))>>
    BY <1>2 DEF Translation
  <2>2. QED
    BY <2>1
<1>3. CASE line.kind = "tokens" /\ ~Repeats(c, line)
  <2> DEFINE body == E("api.request", now.turn, now.model, line.usage)
  <2>1. Translation(c, line) =
          IF line.usage # None /\ now.session # None
            THEN <<[id |-> UsageId(now.session, line.usage), body |-> body]>>
            ELSE <<Metadata(body)>>
    BY <1>3 DEF Translation
  <2>2. QED
    BY <2>1
<1>4. CASE line.kind = "command"
  <2>1. Translation(c, line) =
          <<[id |-> <<"command", now.session, line.ordinal>>,
             body |-> E("tool", line.turn, None, None)]>>
    BY <1>4 DEF Translation
  <2>2. QED
    BY <2>1
<1>5. CASE line.kind = "tool"
  <2>1. Translation(c, line) =
          <<[id |-> <<"item", now.session, now.turn, line.item>>,
             body |-> E("tool", now.turn, None, None)]>>
    BY <1>5 DEF Translation
  <2>2. QED
    BY <2>1
<1>6. CASE /\ line.kind \notin {"meta", "turn", "command", "tool"}
           /\ ~(line.kind = "tokens" /\ ~Repeats(c, line))
  <2>1. Translation(c, line) = <<>>
    BY <1>6 DEF Translation
  <2>2. QED
    BY <2>1
<1>7. QED
  BY <1>1, <1>2, <1>3, <1>4, <1>5, <1>6

LEMMA ShortSequence ==
  ASSUME NEW X, NEW s, s = <<>> \/ \E e : s = <<e>>, \A e : Has(s, e) => e \in X
  PROVE  s \in Seq(X)
<1>1. CASE s = <<>>
  BY <1>1
<1>2. ASSUME NEW e, s = <<e>>
      PROVE  s \in Seq(X)
  <2>1. Len(s) = 1 /\ s[1] = e
    BY <1>2
  <2>2. Has(s, e)
    BY <2>1 DEF Has
  <2>3. QED
    BY <1>2, <2>2
<1>3. QED
  BY <1>1, <1>2

-----------------------------------------------------------------------------
(* What a reading makes of the lines, in the context it begins with.       *)
LEMMA ReadContext ==
  ASSUME NEW p, NEW from \in Nat, NEW to \in Nat, from <= to, NEW c, IsContext(c)
  PROVE  Read(c, p, from, to).ctx = After(c, p, LinesIn(from), LinesIn(to))
<1>1. LinesIn(from) \in Nat /\ LinesIn(to) \in Nat /\ LinesIn(from) <= LinesIn(to)
  BY DEF LinesIn
<1>2. Read(c, p, from, to).ctx = Contexts(c, p, LinesIn(from), LinesIn(to))[LinesIn(to)]
  BY DEF Read
<1>3. QED
  BY <1>1, <1>2, ContextsAre

(* An event that the lines a+1 to b make, in the context c before them.     *)
MadeOf(c, p, a, b, e) ==
  \E n \in (a + 1)..b : Has(Translation(After(c, p, a, n - 1), Script[p][n]), e)

LEMMA ReadIs ==
  ASSUME NEW p, NEW from \in Nat, NEW to \in Nat, from <= to, NEW c, IsContext(c)
  PROVE  /\ LinesIn(from) \in Nat /\ LinesIn(to) \in Nat /\ LinesIn(from) <= LinesIn(to)
         /\ Read(c, p, from, to).ctx = After(c, p, LinesIn(from), LinesIn(to))
         /\ \E X : Read(c, p, from, to).events \in Seq(X)
         /\ \A e : Has(Read(c, p, from, to).events, e) <=> MadeOf(c, p, LinesIn(from), LinesIn(to), e)
<1> DEFINE a == LinesIn(from)
           b == LinesIn(to)
           told == Contexts(c, p, a, b)
           s == [i \in 1..(b - a) |-> Translation(told[a + i - 1], Script[p][a + i])]
           X == UNION {{e[1], e[Len(e)]} : e \in {s[i] : i \in 1..(b - a)}}
<1>1. a \in Nat /\ b \in Nat /\ a <= b
  BY DEF LinesIn
<1>2. Read(c, p, from, to).ctx = told[b] /\ Read(c, p, from, to).events = FlattenSeq(s)
  BY DEF Read
<1> HIDE DEF a, b
<1>3. \A n \in a..b : told[n] = After(c, p, a, n)
  BY <1>1, ContextsAre
<1>4. told[b] = After(c, p, a, b)
  BY <1>1, <1>3
<1>5. \A i \in 1..(b - a) : s[i] = Translation(After(c, p, a, a + i - 1), Script[p][a + i])
  <2> SUFFICES ASSUME NEW i \in 1..(b - a)
               PROVE  s[i] = Translation(After(c, p, a, a + i - 1), Script[p][a + i])
    OBVIOUS
  <2>1. a + i - 1 \in a..b
    BY <1>1
  <2>2. told[a + i - 1] = After(c, p, a, a + i - 1)
    BY <1>3, <2>1
  <2> HIDE DEF told
  <2>3. QED
    BY <2>2
<1>6. ASSUME NEW i \in 1..(b - a)
      PROVE  s[i] \in Seq(X)
  <2>1. s[i] = <<>> \/ \E e : s[i] = <<e>>
    BY <1>5, TranslationIs
  <2>2. \A e : Has(s[i], e) => e \in X
    <3> SUFFICES ASSUME NEW e, Has(s[i], e)
                 PROVE  e \in X
      OBVIOUS
    <3>1. s[i][1] = e
      BY <2>1 DEF Has
    <3> HIDE DEF s
    <3>2. QED
      BY <3>1
  <2> HIDE DEF s, X
  <2>3. QED
    BY <2>1, <2>2, ShortSequence
<1>7. s \in [1..(b - a) -> Seq(X)] /\ b - a \in Nat
  <2>1. b - a \in Nat
    BY <1>1
  <2>2. s = [i \in 1..(b - a) |-> s[i]]
    OBVIOUS
  <2> HIDE DEF s, X
  <2>3. QED
    BY <1>6, <2>1, <2>2
<1> HIDE DEF s, X, told
<1>8. /\ FlattenSeq(s) \in Seq(X)
      /\ \A e : Has(FlattenSeq(s), e) <=> \E i \in 1..(b - a) : Has(s[i], e)
  BY <1>7, Flattened
<1>9. ASSUME NEW e
      PROVE  (\E i \in 1..(b - a) : Has(s[i], e)) <=>
             \E n \in (a + 1)..b : Has(Translation(After(c, p, a, n - 1), Script[p][n]), e)
  <2>1. ASSUME NEW i \in 1..(b - a), Has(s[i], e)
        PROVE  \E n \in (a + 1)..b : Has(Translation(After(c, p, a, n - 1), Script[p][n]), e)
    <3> DEFINE n == a + i
    <3>1. n \in (a + 1)..b
      BY <1>1
    <3>a. s[i] = Translation(After(c, p, a, n - 1), Script[p][n])
      <4>1. s[i] = Translation(After(c, p, a, a + i - 1), Script[p][a + i])
        BY <1>5
      <4>2. a + i - 1 = n - 1 /\ a + i = n
        BY <1>1
      <4>3. QED
        BY <4>1, <4>2
    <3>2. Has(Translation(After(c, p, a, n - 1), Script[p][n]), e)
      <4> HIDE DEF n
      <4>1. QED
        BY <2>1, <3>a
    <3> HIDE DEF n
    <3>3. QED
      BY <3>1, <3>2
  <2>2. ASSUME NEW n \in (a + 1)..b, Has(Translation(After(c, p, a, n - 1), Script[p][n]), e)
        PROVE  \E i \in 1..(b - a) : Has(s[i], e)
    <3>1. n - a \in 1..(b - a) /\ a + (n - a) = n /\ a + (n - a) - 1 = n - 1
      BY <1>1
    <3>2. s[n - a] = Translation(After(c, p, a, n - 1), Script[p][n])
      BY <1>5, <3>1
    <3>3. Has(s[n - a], e)
      BY <2>2, <3>2
    <3>4. QED
      BY <3>1, <3>3
  <2>3. QED
    BY <2>1, <2>2
<1>10. QED
  <2>1. \A e : Has(FlattenSeq(s), e) <=> MadeOf(c, p, a, b, e)
    BY <1>8, <1>9 DEF MadeOf
  <2>2. QED
    BY <1>1, <1>2, <1>4, <1>8, <2>1 DEF a, b

LEMMA ReadSequence ==
  ASSUME NEW p, NEW from \in Nat, NEW to \in Nat, from <= to, NEW c, IsContext(c)
  PROVE  \E X : Read(c, p, from, to).events \in Seq(X)
BY ReadIs

(* The identity of an event says what it is made of.                       *)
LEMMA EventForms ==
  ASSUME NEW c, NEW line, NEW e, Translation(c, line) = <<e>>
  PROVE  /\ e.id[1] \in {"metadata", "usage", "command", "item"}
         /\ e.id[1] = "metadata" => e = Metadata(e.body)
         /\ e.id[1] = "usage" => e.body.kind = "api.request"
         /\ e.body.kind = "api.request" =>
              /\ line.kind = "tokens" /\ e.body.usage = line.usage
              /\ line.usage # None /\ c.session # None => e.id = UsageId(c.session, line.usage)
<1> DEFINE now == Told(c, line)
           E(kind, turn, model, usage) == Body("log", kind, now, turn, model, usage, line.at)
<1>0. /\ \A b : Metadata(b).id[1] = "metadata" /\ Metadata(b).body = b
      /\ \A s, u : UsageId(s, u)[1] = "usage"
      /\ \A k, t, m, u : E(k, t, m, u).kind = k /\ E(k, t, m, u).usage = u
  BY DEF Metadata, UsageId, Body
<1>e. \A x, y : <<x>> = <<y>> => x = y
  OBVIOUS
<1>1. CASE line.kind = "meta"
  <2>1. Translation(c, line) = <<Metadata(E("session.start", None, None, None))>>
    BY <1>1 DEF Translation
  <2>2. e = Metadata(E("session.start", None, None, None))
    BY <1>e, <2>1
  <2> HIDE DEF E
  <2>3. QED
    BY <1>0, <2>2
<1>2. CASE line.kind = "turn"
  <2>1. Translation(c, line) = <<Metadata(E("turn", now.turn, now.model, None))>>
    BY <1>2 DEF Translation
  <2>2. e = Metadata(E("turn", now.turn, now.model, None))
    BY <1>e, <2>1
  <2> HIDE DEF E
  <2>3. QED
    BY <1>0, <2>2
<1>3. CASE line.kind = "tokens" /\ ~Repeats(c, line)
  <2> DEFINE body == E("api.request", now.turn, now.model, line.usage)
  <2>1. Translation(c, line) =
          IF line.usage # None /\ now.session # None
            THEN <<[id |-> UsageId(now.session, line.usage), body |-> body]>>
            ELSE <<Metadata(body)>>
    BY <1>3 DEF Translation
  <2>2. now.session = c.session
    BY <1>3 DEF Told, Tells, Fields
  <2>3. body.kind = "api.request" /\ body.usage = line.usage
    BY <1>0
  <2> HIDE DEF body, now
  <2>4. CASE line.usage # None /\ now.session # None
    <3>1. e = [id |-> UsageId(c.session, line.usage), body |-> body]
      BY <1>e, <2>1, <2>2, <2>4
    <3>2. e.id = UsageId(c.session, line.usage) /\ e.body = body
      BY <3>1
    <3>3. QED
      BY <1>0, <1>3, <2>3, <3>2
  <2>5. CASE ~(line.usage # None /\ now.session # None)
    <3>1. e = Metadata(body)
      BY <1>e, <2>1, <2>5
    <3>2. QED
      BY <1>0, <1>3, <2>2, <2>3, <2>5, <3>1
  <2>6. QED
    BY <2>4, <2>5
<1>4. CASE line.kind = "command"
  <2>1. Translation(c, line) =
          <<[id |-> <<"command", now.session, line.ordinal>>,
             body |-> E("tool", line.turn, None, None)]>>
    BY <1>4 DEF Translation
  <2>2. e = [id |-> <<"command", now.session, line.ordinal>>, body |-> E("tool", line.turn, None, None)]
    BY <1>e, <2>1
  <2> HIDE DEF E, now
  <2>3. e.id[1] = "command" /\ e.body.kind = "tool"
    BY <1>0, <2>2
  <2>4. QED
    BY <2>3
<1>5. CASE line.kind = "tool"
  <2>1. Translation(c, line) =
          <<[id |-> <<"item", now.session, now.turn, line.item>>,
             body |-> E("tool", now.turn, None, None)]>>
    BY <1>5 DEF Translation
  <2>2. e = [id |-> <<"item", now.session, now.turn, line.item>>, body |-> E("tool", now.turn, None, None)]
    BY <1>e, <2>1
  <2> HIDE DEF E, now
  <2>3. e.id[1] = "item" /\ e.body.kind = "tool"
    BY <1>0, <2>2
  <2>4. QED
    BY <2>3
<1>6. CASE /\ line.kind \notin {"meta", "turn", "command", "tool"}
           /\ ~(line.kind = "tokens" /\ ~Repeats(c, line))
  <2>1. Translation(c, line) = <<>>
    BY <1>6 DEF Translation
  <2>2. FALSE
    BY <2>1
  <2>3. QED
    BY <2>2
<1>7. QED
  BY <1>1, <1>2, <1>3, <1>4, <1>5, <1>6

LEMMA HasOne == ASSUME NEW c, NEW line, NEW e PROVE Has(Translation(c, line), e) <=> Translation(c, line) = <<e>>
<1>1. CASE Translation(c, line) = <<>>
  BY <1>1 DEF Has
<1>2. ASSUME NEW x, Translation(c, line) = <<x>>
      PROVE  Has(Translation(c, line), e) <=> Translation(c, line) = <<e>>
  <2>1. Has(<<x>>, e) <=> x = e
    BY DEF Has
  <2>2. <<x>> = <<e>> => x = e
    OBVIOUS
  <2>3. QED
    BY <1>2, <2>1, <2>2
<1>3. QED
  BY <1>1, <1>2, TranslationIs

LEMMA EventsAre ==
  ASSUME NEW p \in Paths, NEW n \in 1..Len(Script[p]), NEW e
  PROVE  e \in EventsOf[p][n] <=> Has(Translation(ContextAt[p][n - 1], Script[p][n]), e)
<1> DEFINE t == Translation(ContextAt[p][n - 1], Script[p][n])
<1>1. EventsOf[p][n] = ToSet(t)
  BY RolloutAssumption DEF EventsOf
<1>2. t = <<>> \/ \E x : t = <<x>>
  BY TranslationIs
<1> HIDE DEF t
<1>a. \A x : Has(t, x) => x \in {t[1]}
  BY <1>2 DEF Has
<1>3. t \in Seq({t[1]})
  BY <1>2, <1>a, ShortSequence
<1>4. e \in ToSet(t) <=> Has(t, e)
  BY <1>3, HasToSet
<1>5. QED
  BY <1>1, <1>4 DEF t

(* A number tells of a command what it is, and of an edit or a call of a   *)
(* tool what it is: in versions of Codex that number the lines.            *)
NumbersTell ==
  \A p, q \in Paths : \A m \in DOMAIN Script[p], n \in DOMAIN Script[q] :
    \A e \in EventsOf[p][m], f \in EventsOf[q][n] :
      e.id = f.id /\ e.id[1] \in {"command", "item"} => e = f

PendingIsReading == faulted = {} => \A i \in 1..Len(pending) : FromRollout(pending[i])

LEMMA RolloutForms ==
  ASSUME NEW e, FromRollout(e)
  PROVE  /\ e.id[1] \in {"metadata", "usage", "command", "item"}
         /\ e.id[1] = "metadata" => e = Metadata(e.body)
         /\ e.id[1] = "usage" => e.body.kind = "api.request"
         /\ e.body.kind = "api.request" /\ e.body.usage # None =>
              \E p \in Paths : e.body.usage \in Calls(p) /\ e.id = UsageId(p, e.body.usage)
<1>0. PICK p \in Paths : \E n \in DOMAIN Script[p] : e \in EventsOf[p][n]
  BY DEF FromRollout
<1>1. PICK n \in DOMAIN Script[p] : e \in EventsOf[p][n]
  BY <1>0
<1>2. n \in 1..Len(Script[p])
  BY <1>1, RolloutAssumption
<1> DEFINE c == ContextAt[p][n - 1]
           line == Script[p][n]
<1>3. Translation(c, line) = <<e>>
  BY <1>1, <1>2, EventsAre, HasOne
<1>4. line.kind = "tokens" /\ line.usage # None => c.session = p /\ c.session # None /\ line.usage \in Calls(p)
  <2>1. SUFFICES ASSUME line.kind = "tokens", line.usage # None
                 PROVE  c.session = p /\ c.session # None /\ line.usage \in Calls(p)
    OBVIOUS
  <2>2. c.session = p
    BY <1>1, <2>1, CallsAssumption
  <2>3. line \in ToSet(Script[p])
    BY <1>1 DEF ToSet
  <2> HIDE DEF line
  <2>4. line.usage \in Calls(p)
    BY <2>1, <2>3 DEF Calls
  <2>5. QED
    BY <2>2, <2>4, CallsAssumption
<1> HIDE DEF c, line
<1>5. QED
  BY <1>3, <1>4, EventForms

LEMMA ExportForms ==
  ASSUME NEW e, FromExport(e)
  PROVE  /\ e.id[1] = "usage" /\ e.body.kind = "api.request"
         /\ \E p \in Paths : e.body.usage \in Calls(p) /\ e.id = UsageId(p, e.body.usage)
<1>0. PICK p \in Paths : \E n \in 0..Len(Script[p]), u \in Calls(p) :
        LET c == ContextAt[p][n]
        IN e = [id |-> UsageId(p, u),
                body |-> Body("otel", "api.request", [c EXCEPT !.session = p], c.turn, c.model, u, None)]
  BY DEF FromExport
<1>1. PICK n \in 0..Len(Script[p]), u \in Calls(p) :
        LET c == ContextAt[p][n]
        IN e = [id |-> UsageId(p, u),
                body |-> Body("otel", "api.request", [c EXCEPT !.session = p], c.turn, c.model, u, None)]
  BY <1>0
<1>2. e.id = UsageId(p, u) /\ e.body.kind = "api.request" /\ e.body.usage = u
  BY <1>1 DEF Body
<1>3. e.id[1] = "usage"
  BY <1>2 DEF UsageId
<1>4. QED
  BY <1>2, <1>3

LEMMA NothingContradicts ==
  ASSUME NumbersTell, faulted = {}, LedgerIsReading, NEW e, FromRollout(e)
  PROVE  ~Contradicts(e)
<1> SUFFICES ASSUME ~PassedOver(e), NEW f \in ledger, f.id = e.id, f # e
             PROVE  FALSE
  BY DEF Contradicts
<1>1. FromRollout(f) \/ FromExport(f)
  BY DEF LedgerIsReading
<1>2. CASE e.id[1] = "metadata"
  <2>1. FromRollout(f)
    BY <1>1, <1>2, ExportForms
  <2>2. e = Metadata(e.body) /\ f = Metadata(f.body)
    BY <1>2, <2>1, RolloutForms
  <2>3. Metadata(e.body).id = Metadata(f.body).id => e.body = f.body
    BY DEF Metadata
  <2>4. QED
    BY <2>2, <2>3
<1>3. CASE e.id[1] = "usage"
  <2>1. e.body.kind = "api.request"
    BY <1>3, RolloutForms
  <2>2. QED
    BY <2>1 DEF PassedOver, Recorded
<1>4. CASE e.id[1] \in {"command", "item"}
  <2>1. FromRollout(f)
    BY <1>1, <1>4, ExportForms
  <2>2. QED
    BY <1>4, <2>1 DEF FromRollout, NumbersTell
<1>5. QED
  BY <1>2, <1>3, <1>4, RolloutForms

OneEach == \A e, f \in ledger : e.id = f.id => e = f

LEMMA CountedOnce == LedgerIsReading /\ OneEach => CallsCountedOnce
<1> SUFFICES ASSUME LedgerIsReading, OneEach, faulted = {}, NEW e \in ledger, NEW f \in ledger,
                    e.body.kind = "api.request", f.body.kind = "api.request",
                    e.body.usage = f.body.usage, e.body.usage # None
             PROVE  e = f
  BY DEF CallsCountedOnce
<1>1. (FromRollout(e) \/ FromExport(e)) /\ (FromRollout(f) \/ FromExport(f))
  BY DEF LedgerIsReading
<1>2. PICK p \in Paths : e.body.usage \in Calls(p) /\ e.id = UsageId(p, e.body.usage)
  BY <1>1, RolloutForms, ExportForms
<1>3. PICK q \in Paths : f.body.usage \in Calls(q) /\ f.id = UsageId(q, f.body.usage)
  BY <1>1, RolloutForms, ExportForms
<1>4. p = q
  BY <1>2, <1>3, CallsAssumption
<1>5. QED
  BY <1>2, <1>3, <1>4 DEF OneEach

RolloutTypeOK ==
  /\ length \in [Paths -> Nat] /\ packed \in [Paths -> Nat]
  /\ offset \in [Paths -> Nat] /\ saved.offset \in [Paths -> Nat]
  /\ \A p \in Paths :
       /\ length[p] \in Offsets(p) /\ packed[p] \in Offsets(p)
       /\ offset[p] \in Offsets(p) /\ saved.offset[p] \in Offsets(p)
  /\ ctx = [p \in Paths |-> ctx[p]] /\ live = [p \in Paths |-> live[p]]
  /\ \A p \in Paths : ctx[p] # None => IsContext(ctx[p])
  /\ \A p \in Paths : live[p] # None => live[p].offset \in Offsets(p)
  /\ \E X : pending \in Seq(X)

(* What the cursor in memory counts as read is recorded, or about to be.   *)
ReadIsKept ==
  \A p \in Paths \ faulted : \A n \in 1..LinesIn(offset[p]) :
    \A e \in EventsOf[p][n] : Recorded(e.id) \/ Has(pending, e)

RolloutInv ==
  /\ RolloutTypeOK
  /\ ContextIsPrefix /\ PendingIsReading /\ LedgerIsReading
  /\ ReadIsKept /\ SavedIsRecorded /\ OneEach

LEMMA LinesOfOffset ==
  ASSUME NEW p \in Paths, NEW n \in Offsets(p)
  PROVE  n \in Nat /\ LinesIn(n) \in 0..Len(Script[p])
<1>1. Len(Script[p]) \in Nat /\ n \in Nat /\ n <= 2 * Len(Script[p])
  BY RolloutAssumption DEF Offsets
<1>2. QED
  BY <1>1 DEF LinesIn

LEMMA NoLines == ASSUME NEW p \in Paths PROVE ContextAt[p][0] = NoContext /\ IsContext(NoContext) /\ LinesIn(0) = 0
<1>1. 0 \in 0..Len(Script[p])
  BY RolloutAssumption
<1>2. \A f : Tellers(p, 0, 0, f) = {}
  BY DEF Tellers
<1>3. IsContext(ContextAt[p][0]) /\ \A f \in Fields : ContextAt[p][0][f] = None
  BY <1>1, <1>2, ContextIs
<1>4. QED
  BY <1>3 DEF IsContext, NoContext, LinesIn

(* Reading on in the right context makes what one reading makes.           *)
LEMMA ReadOnIs ==
  ASSUME NEW p \in Paths, NEW from \in Offsets(p), NEW to \in Offsets(p), from <= to
  PROVE  /\ Read(ContextAt[p][LinesIn(from)], p, from, to).ctx = ContextAt[p][LinesIn(to)]
         /\ \A e : Has(Read(ContextAt[p][LinesIn(from)], p, from, to).events, e) <=>
              \E n \in (LinesIn(from) + 1)..LinesIn(to) : e \in EventsOf[p][n]
<1> DEFINE a == LinesIn(from)
           b == LinesIn(to)
           c == ContextAt[p][a]
           r == Read(c, p, from, to)
<1>1. from \in Nat /\ to \in Nat /\ a \in 0..Len(Script[p]) /\ b \in 0..Len(Script[p]) /\ Len(Script[p]) \in Nat
  BY LinesOfOffset, RolloutAssumption
<1>2. IsContext(c)
  BY <1>1, ContextIs
<1>3. /\ a <= b /\ r.ctx = After(c, p, a, b)
      /\ \A e : Has(r.events, e) <=> MadeOf(c, p, a, b, e)
  <2> HIDE DEF c, r
  <2>1. from \in Nat /\ to \in Nat /\ from <= to /\ IsContext(c) /\ r = Read(c, p, from, to)
    BY <1>1, <1>2 DEF r
  <2>2. /\ LinesIn(from) <= LinesIn(to) /\ Read(c, p, from, to).ctx = After(c, p, LinesIn(from), LinesIn(to))
        /\ \A e : Has(Read(c, p, from, to).events, e) <=> MadeOf(c, p, LinesIn(from), LinesIn(to), e)
    BY <2>1, ReadIs
  <2>3. QED
    BY <2>1, <2>2
<1>4. \A n \in a..b : After(c, p, a, n) = ContextAt[p][n]
  <2> SUFFICES ASSUME NEW n \in a..b
               PROVE  After(c, p, a, n) = ContextAt[p][n]
    OBVIOUS
  <2>1. n \in a..Len(Script[p])
    BY <1>1
  <2>2. QED
    BY <1>1, <2>1, AfterAfter
<1>5. r.ctx = ContextAt[p][b]
  BY <1>1, <1>3, <1>4
<1> HIDE DEF a, b, c, r
<1>6. ASSUME NEW n \in (a + 1)..b, NEW e
      PROVE  Has(Translation(After(c, p, a, n - 1), Script[p][n]), e) <=> e \in EventsOf[p][n]
  <2>1. n - 1 \in a..b /\ n \in 1..Len(Script[p])
    BY <1>1
  <2>2. After(c, p, a, n - 1) = ContextAt[p][n - 1]
    BY <1>4, <2>1
  <2>3. QED
    BY <2>1, <2>2, EventsAre
<1>7. \A e : Has(r.events, e) <=> \E n \in (a + 1)..b : e \in EventsOf[p][n]
  BY <1>3, <1>6 DEF MadeOf
<1>8. QED
  BY <1>5, <1>7 DEF a, b, c, r

-----------------------------------------------------------------------------
(* The steps.                                                              *)
readVars == <<offset, ctx, live, pending, ledger, faulted, saved.offset>>

LEMMA RolloutFrame ==
  ASSUME RolloutInv, UNCHANGED readVars,
         length' \in [Paths -> Nat], packed' \in [Paths -> Nat],
         \A p \in Paths : length'[p] \in Offsets(p) /\ packed'[p] \in Offsets(p)
  PROVE  RolloutInv'
<1>0. /\ offset' = offset /\ ctx' = ctx /\ live' = live /\ pending' = pending /\ ledger' = ledger
      /\ faulted' = faulted /\ saved'.offset = saved.offset
  BY DEF readVars
<1>1. RolloutTypeOK'
  BY <1>0 DEF RolloutInv, RolloutTypeOK
<1>2. ContextIsPrefix'
  BY <1>0 DEF RolloutInv, ContextIsPrefix
<1>3. PendingIsReading'
  BY <1>0 DEF RolloutInv, PendingIsReading
<1>4. LedgerIsReading'
  BY <1>0 DEF RolloutInv, LedgerIsReading
<1>5. ReadIsKept'
  BY <1>0 DEF RolloutInv, ReadIsKept, Recorded
<1>6. SavedIsRecorded'
  BY <1>0 DEF RolloutInv, SavedIsRecorded, LineRecorded, Recorded
<1>7. OneEach'
  BY <1>0 DEF RolloutInv, OneEach
<1>8. QED
  BY <1>1, <1>2, <1>3, <1>4, <1>5, <1>6, <1>7 DEF RolloutInv

LEMMA CodexStep ==
  ASSUME RolloutInv, NEW p \in Paths, Codex(p) \/ LagElapses(p) \/ RetryUnknown(p) \/ Defer(p) \/ SkipDone(p)
  PROVE  RolloutInv'
<1>0. /\ length \in [Paths -> Nat] /\ packed \in [Paths -> Nat]
      /\ \A q \in Paths : length[q] \in Offsets(q) /\ packed[q] \in Offsets(q)
  BY DEF RolloutInv, RolloutTypeOK
<1>1. UNCHANGED readVars
  BY DEF Codex, Write, Rest, Compress, RemovePlain, Unpack, LagElapses, RetryUnknown, Defer, SkipDone, PassBy,
         readVars, codexVars, cursorVars, memoryVars, drainVars
<1>2. Len(Script[p]) \in Nat /\ length[p] \in Nat
  BY <1>0, RolloutAssumption
<1>3. CASE Write(p)
  <2>1. length[p] + 1 \in Offsets(p) /\ length' = [length EXCEPT ![p] = @ + 1] /\ packed' = packed
    BY <1>2, <1>3 DEF Write, Offsets
  <2>2. length' \in [Paths -> Nat] /\ \A q \in Paths : length'[q] \in Offsets(q)
    BY <1>0, <2>1
  <2>3. QED
    BY <1>0, <1>1, <2>1, <2>2, RolloutFrame
<1>4. CASE Compress(p)
  <2>1. packed' = [packed EXCEPT ![p] = length[p]] /\ length' = length
    BY <1>4 DEF Compress
  <2>2. packed' \in [Paths -> Nat] /\ \A q \in Paths : packed'[q] \in Offsets(q)
    BY <1>0, <2>1
  <2>3. QED
    BY <1>0, <1>1, <2>1, <2>2, RolloutFrame
<1>5. CASE RemovePlain(p)
  <2>1. length' = [length EXCEPT ![p] = 0] /\ packed' = packed
    BY <1>5 DEF RemovePlain
  <2>2. 0 \in Offsets(p)
    BY <1>2 DEF Offsets
  <2>3. length' \in [Paths -> Nat] /\ \A q \in Paths : length'[q] \in Offsets(q)
    BY <1>0, <2>1, <2>2
  <2>4. QED
    BY <1>0, <1>1, <2>1, <2>3, RolloutFrame
<1>6. CASE Rest(p) \/ Unpack(p) \/ LagElapses(p) \/ RetryUnknown(p) \/ Defer(p) \/ SkipDone(p)
  <2>1. length' = length /\ packed' = packed
    BY <1>6 DEF Rest, Unpack, LagElapses, RetryUnknown, Defer, SkipDone, PassBy, codexVars
  <2>2. QED
    BY <1>0, <1>1, <2>1, RolloutFrame
<1>7. QED
  BY <1>3, <1>4, <1>5, <1>6 DEF Codex

LEMMA QuietStep ==
  ASSUME RolloutInv, Tick \/ \E q \in Reconciling : Configure(q)
  PROVE  RolloutInv'
<1>1. UNCHANGED <<readVars, length, packed>>
  BY DEF Tick, Configure, readVars, codexVars, cursorVars, memoryVars, drainVars
<1>2. QED
  BY <1>1, RolloutFrame DEF RolloutInv, RolloutTypeOK

LEMMA ReadOnStep ==
  ASSUME RolloutInv, NEW p \in Paths, NEW opens \in BOOLEAN, NEW over \in BOOLEAN,
         NEW upTo \in Offsets(p), NEW fails \in BOOLEAN,
         ReadOn(p, opens, over, upTo, fails), UNCHANGED <<length, packed, saved, live, ledger>>
  PROVE  RolloutInv'
<1> DEFINE from == IF over THEN 0 ELSE offset[p]
           before == Held(p, over)
           start == CASE before # None -> before
                      [] before = None /\ from > 0 /\ ~fails -> Restored(p, from)
                      [] OTHER -> NoContext
           r == Read(start, p, from, upTo)
<1>0. /\ upTo >= from
      /\ fails => from > 0 /\ before = None /\ opens
      /\ IF fails THEN faulted' = faulted \cup {p} ELSE faulted' = faulted
      /\ ctx' = [ctx EXCEPT ![p] = IF opens \/ before # None \/ from > 0 THEN r.ctx ELSE None]
      /\ offset' = [offset EXCEPT ![p] = upTo]
      /\ pending' = pending \o r.events
      /\ length' = length /\ packed' = packed /\ saved' = saved /\ live' = live /\ ledger' = ledger
  BY DEF ReadOn
<1>t. RolloutTypeOK
  BY DEF RolloutInv
<1>1. from \in Offsets(p) /\ from \in Nat /\ upTo \in Nat /\ LinesIn(from) \in 0..Len(Script[p])
      /\ LinesIn(upTo) \in 0..Len(Script[p]) /\ Len(Script[p]) \in Nat /\ from <= upTo
  <2>1. 0 \in Offsets(p)
    BY RolloutAssumption DEF Offsets
  <2>2. from \in Offsets(p)
    BY <1>t, <2>1 DEF RolloutTypeOK
  <2> HIDE DEF from
  <2>3. QED
    BY <1>0, <2>2, LinesOfOffset, RolloutAssumption
<1>2. before # None => ~over /\ before = ctx[p] /\ from = offset[p]
  BY DEF Held
<1>3. /\ before # None => start = before
      /\ before = None /\ from > 0 /\ ~fails => start = Restored(p, from)
      /\ before = None /\ ~(from > 0 /\ ~fails) => start = NoContext
  <2> HIDE DEF from, before
  <2>1. QED
    OBVIOUS
<1> HIDE DEF from, before, start, r
<1>4. IsContext(start)
  <2>1. CASE before # None
    BY <1>2, <1>3, <1>t, <2>1 DEF RolloutTypeOK
  <2>2. CASE before = None /\ from > 0 /\ ~fails
    <3>0. IsContext(NoContext) /\ 0 \in Nat /\ 0 <= from /\ from \in Nat
      BY <1>1, NoLines
    <3>1. Read(NoContext, p, 0, from).ctx = After(NoContext, p, LinesIn(0), LinesIn(from))
      BY <3>0, ReadContext
    <3>2. QED
      BY <1>3, <2>2, <3>1, AfterIsContext DEF Restored
  <2>3. CASE before = None /\ ~(from > 0 /\ ~fails)
    BY <1>3, <2>3, NoLines
  <2>4. QED
    BY <2>1, <2>2, <2>3
<1>5. ASSUME p \notin faulted'
      PROVE  start = ContextAt[p][LinesIn(from)]
  <2>0. p \notin faulted /\ ~fails
    BY <1>0, <1>5
  <2>1. CASE before # None
    BY <1>2, <1>3, <2>0, <2>1 DEF RolloutInv, ContextIsPrefix
  <2>2. CASE before = None /\ from > 0
    <3>1. 0 \in Offsets(p) /\ 0 <= from
      BY <1>1 DEF Offsets
    <3>2. Read(ContextAt[p][LinesIn(0)], p, 0, from).ctx = ContextAt[p][LinesIn(from)]
      BY <1>1, <3>1, ReadOnIs
    <3>3. ContextAt[p][LinesIn(0)] = NoContext
      BY NoLines
    <3>4. QED
      BY <1>3, <2>0, <2>2, <3>2, <3>3 DEF Restored
  <2>3. CASE before = None /\ ~(from > 0)
    <3>1. from = 0
      BY <1>1, <2>3
    <3>2. QED
      BY <1>3, <2>3, <3>1, NoLines
  <2>4. QED
    BY <2>1, <2>2, <2>3
<1>6. ASSUME p \notin faulted'
      PROVE  /\ r.ctx = ContextAt[p][LinesIn(upTo)]
             /\ \A e : Has(r.events, e) <=> \E n \in (LinesIn(from) + 1)..LinesIn(upTo) : e \in EventsOf[p][n]
  BY <1>1, <1>5, <1>6, ReadOnIs DEF r
<1>7. r.ctx = After(start, p, LinesIn(from), LinesIn(upTo)) /\ \E X : r.events \in Seq(X)
  <2>1. /\ Read(start, p, from, upTo).ctx = After(start, p, LinesIn(from), LinesIn(upTo))
        /\ \E X : Read(start, p, from, upTo).events \in Seq(X)
    BY <1>1, <1>4, ReadContext, ReadSequence
  <2>2. QED
    BY <2>1 DEF r
<1>8. /\ \E X : pending' \in Seq(X)
      /\ \A e : Has(pending', e) <=> Has(pending, e) \/ Has(r.events, e)
  <2>1. PICK X : pending \in Seq(X)
    BY <1>t DEF RolloutTypeOK
  <2>2. PICK Y : r.events \in Seq(Y)
    BY <1>7
  <2>3. pending \in Seq(X \cup Y) /\ r.events \in Seq(X \cup Y)
    BY <2>1, <2>2
  <2>4. pending \o r.events \in Seq(X \cup Y)
        /\ \A e : Has(pending \o r.events, e) <=> Has(pending, e) \/ Has(r.events, e)
    <3> DEFINE Z == X \cup Y
    <3> HIDE DEF Z
    <3>1. pending \in Seq(Z) /\ r.events \in Seq(Z)
      BY <2>3 DEF Z
    <3>2. QED
      BY <3>1, HasJoined DEF Z
  <2>5. QED
    BY <1>0, <2>4
<1>9. \A q \in Paths : /\ offset'[q] = IF q = p THEN upTo ELSE offset[q]
                       /\ q # p => ctx'[q] = ctx[q]
  BY <1>0, <1>t DEF RolloutTypeOK
<1>10. ctx'[p] = IF opens \/ before # None \/ from > 0 THEN r.ctx ELSE None
  BY <1>0, <1>t DEF RolloutTypeOK
<1>11. RolloutTypeOK'
  <2>1. offset' \in [Paths -> Nat] /\ \A q \in Paths : offset'[q] \in Offsets(q)
    BY <1>0, <1>1, <1>9, <1>t DEF RolloutTypeOK
  <2>2. ctx' = [q \in Paths |-> ctx'[q]]
    BY <1>0, <1>t DEF RolloutTypeOK
  <2>3. \A q \in Paths : ctx'[q] # None => IsContext(ctx'[q])
    <3>1. ctx'[p] # None => IsContext(ctx'[p])
      BY <1>7, <1>10, AfterIsContext
    <3>2. QED
      BY <1>9, <1>t, <3>1 DEF RolloutTypeOK
  <2>4. QED
    BY <1>0, <1>8, <1>t, <2>1, <2>2, <2>3 DEF RolloutTypeOK
<1>12. ContextIsPrefix'
  <2>1. p \notin faulted' /\ ctx'[p] # None => ctx'[p] = ContextAt[p][LinesIn(offset'[p])]
    BY <1>6, <1>9, <1>10
  <2>2. \A q \in Paths \ {p} : q \notin faulted' => q \notin faulted
    BY <1>0
  <2>3. QED
    BY <1>0, <1>9, <2>1, <2>2 DEF RolloutInv, ContextIsPrefix
<1>13. PendingIsReading'
  <2> SUFFICES ASSUME faulted' = {}, NEW i \in 1..Len(pending')
               PROVE  FromRollout(pending'[i])
    BY DEF PendingIsReading
  <2>1. Has(pending', pending'[i])
    BY DEF Has
  <2>2. faulted = {} /\ p \notin faulted'
    BY <1>0
  <2>3. CASE Has(pending, pending'[i])
    BY <2>2, <2>3 DEF RolloutInv, PendingIsReading, Has
  <2>4. CASE Has(r.events, pending'[i])
    <3>1. PICK n \in (LinesIn(from) + 1)..LinesIn(upTo) : pending'[i] \in EventsOf[p][n]
      BY <1>6, <2>2, <2>4
    <3>2. n \in DOMAIN Script[p]
      BY <1>1, <3>1, RolloutAssumption
    <3>3. QED
      BY <3>1, <3>2 DEF FromRollout
  <2>5. QED
    BY <1>8, <2>1, <2>3, <2>4
<1>14. LedgerIsReading'
  BY <1>0 DEF RolloutInv, LedgerIsReading
<1>15. ReadIsKept'
  <2> SUFFICES ASSUME NEW q \in Paths \ faulted', NEW n \in 1..LinesIn(offset'[q]),
                      NEW e \in EventsOf[q][n]
               PROVE  Recorded(e.id)' \/ Has(pending', e)
    BY DEF ReadIsKept
  <2>1. q \notin faulted /\ (Recorded(e.id)' <=> Recorded(e.id))
    BY <1>0 DEF Recorded
  <2>2. CASE q # p \/ (n <= LinesIn(from) /\ ~over)
    <3>1. n \in 1..LinesIn(offset[q])
      <4>1. CASE q # p
        BY <1>9, <4>1
      <4>2. CASE q = p
        BY <1>1, <2>2, <4>2 DEF from
      <4>3. QED
        BY <4>1, <4>2
    <3>2. Recorded(e.id) \/ Has(pending, e)
      BY <2>1, <3>1 DEF RolloutInv, ReadIsKept
    <3>3. QED
      BY <1>8, <2>1, <3>2
  <2>3. CASE ~(q # p \/ (n <= LinesIn(from) /\ ~over))
    <3>1. over => LinesIn(from) = 0
      BY NoLines DEF from
    <3>2. n \in 1..LinesIn(upTo)
      BY <1>9, <2>3
    <3>3. n \in (LinesIn(from) + 1)..LinesIn(upTo)
      BY <1>1, <2>3, <3>1, <3>2
    <3>4. Has(r.events, e)
      BY <1>6, <2>3, <3>3
    <3>5. QED
      BY <1>8, <3>4
  <2>4. QED
    BY <2>2, <2>3
<1>16. SavedIsRecorded'
  <2>1. faulted \subseteq faulted'
    BY <1>0
  <2>2. QED
    BY <1>0, <2>1 DEF RolloutInv, SavedIsRecorded, LineRecorded, Recorded
<1>17. OneEach'
  BY <1>0 DEF RolloutInv, OneEach
<1>18. QED
  BY <1>11, <1>12, <1>13, <1>14, <1>15, <1>16, <1>17 DEF RolloutInv

LEMMA DrainStep ==
  ASSUME RolloutInv, NEW p \in Paths, NEW upTo \in Offsets(p), NEW fails \in BOOLEAN,
         DrainPlain(p, upTo, fails) \/ \E over \in BOOLEAN : DrainPacked(p, over, upTo, fails)
  PROVE  RolloutInv'
<1>1. CASE DrainPlain(p, upTo, fails)
  <2> DEFINE over == offset[p] > length[p]
             opens == over \/ length[p] > offset[p]
  <2>1. over \in BOOLEAN /\ opens \in BOOLEAN
    OBVIOUS
  <2>2. ReadOn(p, opens, over, upTo, fails) /\ UNCHANGED <<length, packed, saved, live, ledger>>
    BY <1>1 DEF DrainPlain, codexVars
  <2> HIDE DEF over, opens
  <2>3. QED
    BY <2>1, <2>2, ReadOnStep
<1>2. ASSUME NEW over \in BOOLEAN, DrainPacked(p, over, upTo, fails)
      PROVE  RolloutInv'
  <2>1. ReadOn(p, TRUE, over, upTo, fails) /\ UNCHANGED <<length, packed, saved, live, ledger>>
    BY <1>2 DEF DrainPacked, codexVars
  <2>2. QED
    BY <1>2, <2>1, ReadOnStep
<1>3. QED
  BY <1>1, <1>2

LEMMA CommitStep == ASSUME RolloutInv, Commit PROVE RolloutInv'
<1>e. PICK e : e = Head(pending)
  OBVIOUS
<1>0. /\ offset' = offset /\ ctx' = ctx /\ live' = live /\ length' = length /\ packed' = packed
      /\ faulted' = faulted /\ saved' = saved
      /\ pending # <<>> /\ ~Contradicts(e) /\ pending' = Tail(pending)
      /\ ledger' = IF PassedOver(e) THEN ledger ELSE ledger \cup {e}
  BY <1>e DEF Commit, codexVars, cursorVars, memoryVars
<1>1. PICK X : pending \in Seq(X)
  BY DEF RolloutInv, RolloutTypeOK
<1>2. /\ pending' \in Seq(X) /\ Len(pending) \in Nat /\ Len(pending) # 0 /\ Len(pending') = Len(pending) - 1
      /\ e = pending[1] /\ \A i \in 1..Len(pending') : pending'[i] = pending[i + 1]
  BY <1>0, <1>1, <1>e
<1>3. \A x : Has(pending, x) => x = e \/ Has(pending', x)
  <2> SUFFICES ASSUME NEW x, NEW i \in 1..Len(pending), pending[i] = x, x # e
               PROVE  Has(pending', x)
    BY DEF Has
  <2>1. i - 1 \in 1..Len(pending') /\ i - 1 + 1 = i
    BY <1>2
  <2>2. pending'[i - 1] = x
    BY <1>2, <2>1
  <2>3. QED
    BY <2>1, <2>2 DEF Has
<1>4. \A i \in 1..Len(pending') : i + 1 \in 1..Len(pending)
  BY <1>2
<1>5. 1 \in 1..Len(pending)
  BY <1>2
<1>6. Recorded(e.id)' /\ \A id : Recorded(id) => Recorded(id)'
  BY <1>0 DEF Recorded, PassedOver
<1>7. RolloutTypeOK'
  BY <1>0, <1>2 DEF RolloutInv, RolloutTypeOK
<1>8. ContextIsPrefix'
  BY <1>0 DEF RolloutInv, ContextIsPrefix
<1>9. PendingIsReading'
  BY <1>0, <1>2, <1>4 DEF RolloutInv, PendingIsReading
<1>10. LedgerIsReading'
  <2> SUFFICES ASSUME faulted = {}, NEW f \in ledger'
               PROVE  FromRollout(f) \/ FromExport(f)
    BY <1>0 DEF LedgerIsReading
  <2>1. CASE f \in ledger
    BY <2>1 DEF RolloutInv, LedgerIsReading
  <2>2. CASE f = e
    BY <1>2, <1>5, <2>2 DEF RolloutInv, PendingIsReading
  <2>3. QED
    BY <1>0, <2>1, <2>2
<1>11. ReadIsKept'
  <2> SUFFICES ASSUME NEW q \in Paths \ faulted, NEW n \in 1..LinesIn(offset[q]), NEW f \in EventsOf[q][n]
               PROVE  Recorded(f.id)' \/ Has(pending', f)
    BY <1>0 DEF ReadIsKept
  <2>1. Recorded(f.id) \/ Has(pending, f)
    BY DEF RolloutInv, ReadIsKept
  <2>2. QED
    BY <1>3, <1>6, <2>1
<1>12. SavedIsRecorded'
  <2> SUFFICES ASSUME NEW q \in Paths \ faulted, NEW n \in 1..LinesIn(saved.offset[q]), NEW f \in EventsOf[q][n]
               PROVE  Recorded(f.id)'
    BY <1>0 DEF SavedIsRecorded, LineRecorded
  <2>1. Recorded(f.id)
    BY DEF RolloutInv, SavedIsRecorded, LineRecorded
  <2>2. QED
    BY <1>6, <2>1
<1>13. OneEach'
  <2>1. ~PassedOver(e) => \A f \in ledger : f.id = e.id => f = e
    BY <1>0 DEF Contradicts
  <2>2. QED
    BY <1>0, <2>1 DEF RolloutInv, OneEach
<1>14. QED
  BY <1>7, <1>8, <1>9, <1>10, <1>11, <1>12, <1>13 DEF RolloutInv

LEMMA CheckpointStep == ASSUME RolloutInv, Checkpoint PROVE RolloutInv'
<1>0. /\ offset' = offset /\ ctx' = ctx /\ live' = live /\ length' = length /\ packed' = packed
      /\ faulted' = faulted /\ saved' = Cursors
      /\ pending = <<>> /\ pending' = pending /\ ledger' = ledger
  BY DEF Checkpoint, codexVars, cursorVars, memoryVars
<1>1. saved'.offset = offset
  BY <1>0 DEF Cursors
<1>2. \A x : ~Has(pending, x)
  BY <1>0 DEF Has
<1>3. RolloutTypeOK'
  BY <1>0, <1>1 DEF RolloutInv, RolloutTypeOK
<1>4. SavedIsRecorded'
  BY <1>0, <1>1, <1>2 DEF RolloutInv, SavedIsRecorded, ReadIsKept, LineRecorded, Recorded
<1>5. ContextIsPrefix'
  BY <1>0 DEF RolloutInv, ContextIsPrefix
<1>6. PendingIsReading'
  BY <1>0 DEF RolloutInv, PendingIsReading
<1>7. LedgerIsReading'
  BY <1>0 DEF RolloutInv, LedgerIsReading
<1>8. ReadIsKept'
  BY <1>0 DEF RolloutInv, ReadIsKept, Recorded
<1>9. OneEach'
  BY <1>0 DEF RolloutInv, OneEach
<1>10. QED
  BY <1>3, <1>4, <1>5, <1>6, <1>7, <1>8, <1>9 DEF RolloutInv

LEMMA StopStep == ASSUME RolloutInv, Stop PROVE RolloutInv'
<1>0. /\ offset' = saved.offset /\ length' = length /\ packed' = packed
      /\ ctx' = [p \in Paths |-> None] /\ live' = [p \in Paths |-> None]
      /\ faulted' = faulted /\ saved' = saved /\ pending' = <<>> /\ ledger' = ledger
  BY DEF Stop, codexVars, Forgotten
<1>1. (\A p \in Paths : ctx'[p] = None /\ live'[p] = None) /\ Len(pending') = 0
  BY <1>0
<1>2. RolloutTypeOK'
  <2>1. pending' \in Seq({})
    BY <1>0
  <2>2. ctx' = [p \in Paths |-> ctx'[p]] /\ live' = [p \in Paths |-> live'[p]]
    BY <1>0
  <2>3. QED
    BY <1>0, <1>1, <2>1, <2>2 DEF RolloutInv, RolloutTypeOK
<1>3. SavedIsRecorded'
  BY <1>0 DEF RolloutInv, SavedIsRecorded, LineRecorded, Recorded
<1>4. ContextIsPrefix'
  BY <1>1 DEF ContextIsPrefix
<1>5. PendingIsReading'
  BY <1>1 DEF PendingIsReading
<1>6. LedgerIsReading'
  BY <1>0 DEF RolloutInv, LedgerIsReading
<1>7. ReadIsKept'
  BY <1>0 DEF RolloutInv, ReadIsKept, SavedIsRecorded, LineRecorded, Recorded
<1>8. OneEach'
  BY <1>0 DEF RolloutInv, OneEach
<1>9. QED
  BY <1>2, <1>3, <1>4, <1>5, <1>6, <1>7, <1>8 DEF RolloutInv

(* The second reading of a session goes on from where it was.              *)
LEMMA FollowedIs ==
  ASSUME RolloutInv, NEW p \in Paths
  PROVE  /\ Followed(p) = [q \in Paths |-> Followed(p)[q]]
         /\ \A q \in Paths : q # p => Followed(p)[q] = live[q]
         /\ Followed(p)[p].offset \in Offsets(p)
         /\ Followed(p)[p].ctx = ContextAt[p][LinesIn(Followed(p)[p].offset)]
<1> DEFINE last == IF live[p] # None THEN live[p] ELSE [offset |-> 0, ctx |-> NoContext]
           upTo == 2 * (length[p] \div 2)
           next == IF plain[p] /\ upTo > last.offset
                     THEN [offset |-> upTo, ctx |-> Read(last.ctx, p, last.offset, upTo).ctx]
                     ELSE last
<1>t. RolloutTypeOK
  BY DEF RolloutInv
<1>1. Followed(p) = [live EXCEPT ![p] = next]
  BY DEF Followed
<1>2. upTo \in Offsets(p)
  <2>1. Len(Script[p]) \in Nat /\ length[p] \in 0..(2 * Len(Script[p]))
    BY <1>t, RolloutAssumption DEF RolloutTypeOK, Offsets
  <2>2. QED
    BY <2>1 DEF Offsets
<1>3. last.offset \in Offsets(p) /\ last.ctx = ContextAt[p][LinesIn(last.offset)]
  <2>1. CASE live[p] # None
    BY <1>t, <2>1 DEF RolloutInv, RolloutTypeOK, ContextIsPrefix
  <2>2. CASE live[p] = None
    <3>1. last.offset = 0 /\ last.ctx = NoContext /\ 0 \in Offsets(p)
      BY <2>2, RolloutAssumption DEF Offsets
    <3> HIDE DEF last
    <3>2. QED
      BY <3>1, NoLines
  <2>3. QED
    BY <2>1, <2>2
<1> HIDE DEF last, upTo
<1>4. next.offset \in Offsets(p) /\ next.ctx = ContextAt[p][LinesIn(next.offset)]
  <2>1. CASE plain[p] /\ upTo > last.offset
    <3>1. last.offset \in Nat /\ upTo \in Nat
      BY <1>2, <1>3, LinesOfOffset
    <3>2. Read(last.ctx, p, last.offset, upTo).ctx = ContextAt[p][LinesIn(upTo)]
      BY <1>2, <1>3, <2>1, <3>1, ReadOnIs
    <3>3. next.offset = upTo /\ next.ctx = Read(last.ctx, p, last.offset, upTo).ctx
      BY <2>1
    <3>4. QED
      BY <1>2, <3>2, <3>3
  <2>2. CASE ~(plain[p] /\ upTo > last.offset)
    BY <1>3, <2>2
  <2>3. QED
    BY <2>1, <2>2
<1> HIDE DEF next
<1>5. QED
  BY <1>1, <1>4, <1>t DEF RolloutTypeOK

LEMMA ReportStep ==
  ASSUME RolloutInv, NEW p \in Paths, NEW usage \in Calls(p), Report(p, usage)
  PROVE  RolloutInv'
<1>c. PICK c : c = IF Found(p) /\ plain[p] THEN Followed(p)[p].ctx ELSE NoContext
  OBVIOUS
<1>e. PICK e : e = [id |-> UsageId(p, usage),
                    body |-> Body("otel", "api.request", [c EXCEPT !.session = p],
                                  c.turn, c.model, usage, None)]
  OBVIOUS
<1>0. /\ offset' = offset /\ ctx' = ctx /\ length' = length /\ packed' = packed
      /\ faulted' = faulted /\ saved' = saved /\ pending' = pending
      /\ live' = IF Found(p) THEN Followed(p) ELSE live
      /\ ledger' = IF PassedOver(e) THEN ledger ELSE ledger \cup {e}
  BY <1>c, <1>e DEF Report, cursorVars, drainVars
<1>1. /\ live' = [q \in Paths |-> live'[q]]
      /\ \A q \in Paths : live'[q] # None =>
           live'[q].offset \in Offsets(q) /\ live'[q].ctx = ContextAt[q][LinesIn(live'[q].offset)]
  <2>1. CASE Found(p)
    <3>1. live' = Followed(p)
      BY <1>0, <2>1
    <3>2. live' = [q \in Paths |-> live'[q]]
      BY <3>1, FollowedIs
    <3>3. ASSUME NEW q \in Paths, live'[q] # None
          PROVE  live'[q].offset \in Offsets(q) /\ live'[q].ctx = ContextAt[q][LinesIn(live'[q].offset)]
      <4>1. CASE q = p
        BY <3>1, <4>1, FollowedIs
      <4>2. CASE q # p
        <5>1. live'[q] = live[q]
          BY <3>1, <4>2, FollowedIs
        <5>2. QED
          BY <3>3, <5>1 DEF RolloutInv, RolloutTypeOK, ContextIsPrefix
      <4>3. QED
        BY <4>1, <4>2
    <3>4. QED
      BY <3>2, <3>3
  <2>2. CASE ~Found(p)
    <3>1. live' = live
      BY <1>0, <2>2
    <3>2. QED
      BY <3>1 DEF RolloutInv, RolloutTypeOK, ContextIsPrefix
  <2>3. QED
    BY <2>1, <2>2
<1>2. FromExport(e)
  <2>1. \E n \in 0..Len(Script[p]) : c = ContextAt[p][n]
    <3>1. CASE Found(p) /\ plain[p]
      BY <1>c, <3>1, FollowedIs, LinesOfOffset
    <3>2. CASE ~(Found(p) /\ plain[p])
      BY <1>c, <3>2, NoLines, RolloutAssumption
    <3>3. QED
      BY <3>1, <3>2
  <2>2. QED
    BY <1>e, <2>1 DEF FromExport
<1>3. e.body.kind = "api.request"
  BY <1>e DEF Body
<1>4. ~PassedOver(e) => \A f \in ledger : f.id # e.id
  BY <1>3 DEF PassedOver, Recorded
<1>5. \A id : Recorded(id) => Recorded(id)'
  BY <1>0 DEF Recorded
<1>6. RolloutTypeOK'
  BY <1>0, <1>1 DEF RolloutInv, RolloutTypeOK
<1>7. ContextIsPrefix'
  BY <1>0, <1>1 DEF RolloutInv, ContextIsPrefix
<1>8. PendingIsReading'
  BY <1>0 DEF RolloutInv, PendingIsReading
<1>9. LedgerIsReading'
  BY <1>0, <1>2 DEF RolloutInv, LedgerIsReading
<1>10. ReadIsKept'
  BY <1>0, <1>5 DEF RolloutInv, ReadIsKept
<1>11. SavedIsRecorded'
  BY <1>0, <1>5 DEF RolloutInv, SavedIsRecorded, LineRecorded
<1>12. OneEach'
  BY <1>0, <1>4 DEF RolloutInv, OneEach
<1>13. QED
  BY <1>6, <1>7, <1>8, <1>9, <1>10, <1>11, <1>12 DEF RolloutInv

-----------------------------------------------------------------------------
LEMMA RolloutBegins == RolloutInit => RolloutInv
<1> SUFFICES ASSUME RolloutInit
             PROVE  RolloutInv
  OBVIOUS
<1>1. \A p \in Paths : 0 \in Offsets(p) /\ LinesIn(0) = 0
  BY RolloutAssumption DEF Offsets, LinesIn
<1>2. RolloutTypeOK
  <2>1. pending \in Seq({})
    BY DEF RolloutInit
  <2>2. saved.offset = [p \in Paths |-> 0]
    BY DEF RolloutInit, Cursors
  <2>3. QED
    BY <1>1, <2>1, <2>2 DEF RolloutInit, RolloutTypeOK
<1>3. ContextIsPrefix
  BY DEF RolloutInit, ContextIsPrefix
<1>4. PendingIsReading
  BY DEF RolloutInit, PendingIsReading
<1>5. LedgerIsReading /\ OneEach
  BY DEF RolloutInit, LedgerIsReading, OneEach
<1>6. ReadIsKept
  BY <1>1 DEF RolloutInit, ReadIsKept
<1>7. SavedIsRecorded
  BY <1>1 DEF RolloutInit, SavedIsRecorded, Cursors
<1>8. QED
  BY <1>2, <1>3, <1>4, <1>5, <1>6, <1>7 DEF RolloutInv

LEMMA RolloutStep == RolloutInv /\ [RolloutNext]_rolloutVars => RolloutInv'
<1> SUFFICES ASSUME RolloutInv, [RolloutNext]_rolloutVars
             PROVE  RolloutInv'
  OBVIOUS
<1>1. ASSUME NEW p \in Paths, Codex(p) \/ LagElapses(p) \/ RetryUnknown(p) \/ Drain(p)
      PROVE  RolloutInv'
  <2>1. CASE Codex(p) \/ LagElapses(p) \/ RetryUnknown(p) \/ Defer(p) \/ SkipDone(p)
    BY <2>1, CodexStep
  <2>2. ASSUME NEW upTo \in Offsets(p), NEW fails \in BOOLEAN,
               DrainPlain(p, upTo, fails) \/ \E over \in BOOLEAN : DrainPacked(p, over, upTo, fails)
        PROVE  RolloutInv'
    BY <2>2, DrainStep
  <2>3. QED
    BY <1>1, <2>1, <2>2 DEF Drain
<1>2. ASSUME NEW p \in Paths, NEW u \in Calls(p), Report(p, u)
      PROVE  RolloutInv'
  BY <1>2, ReportStep
<1>3. CASE Tick \/ \E q \in Reconciling : Configure(q)
  BY <1>3, QuietStep
<1>4. CASE Commit
  BY <1>4, CommitStep
<1>5. CASE Checkpoint
  BY <1>5, CheckpointStep
<1>6. CASE Stop
  BY <1>6, StopStep
<1>7. CASE UNCHANGED rolloutVars
  <2>1. UNCHANGED <<readVars, length, packed>>
    BY <1>7 DEF rolloutVars, codexVars, cursorVars, memoryVars, drainVars, readVars
  <2>2. QED
    BY <2>1, RolloutFrame DEF RolloutInv, RolloutTypeOK
<1>8. QED
  BY <1>1, <1>2, <1>3, <1>4, <1>5, <1>6, <1>7 DEF RolloutNext

LEMMA RolloutInvariant == CollectorsSpec => []RolloutInv
<1>1. CollectorsInit => RolloutInv
  BY RolloutBegins DEF CollectorsInit
<1>2. RolloutInv /\ [CollectorsNext]_collectorsVars => RolloutInv'
  <2> SUFFICES ASSUME RolloutInv, [CollectorsNext]_collectorsVars
               PROVE  RolloutInv'
    OBVIOUS
  <2>1. [RolloutNext]_rolloutVars
    BY DEF CollectorsNext, collectorsVars
  <2>2. QED
    BY <2>1, RolloutStep
<1>3. QED
  BY <1>1, <1>2, PTL DEF CollectorsSpec

LEMMA RolloutShows == NumbersTell /\ RolloutInv => RolloutHolds
<1> SUFFICES ASSUME NumbersTell, RolloutInv
             PROVE  RolloutHolds
  OBVIOUS
<1>1. LedgerIsReading /\ ContextIsPrefix /\ SavedIsRecorded
  BY DEF RolloutInv
<1>2. CallsCountedOnce
  BY CountedOnce DEF RolloutInv
<1>3. NeverRefused
  <2> SUFFICES ASSUME faulted = {}, pending # <<>>, Contradicts(Head(pending))
               PROVE  FALSE
    BY DEF NeverRefused, Refused
  <2>1. PICK X : pending \in Seq(X)
    BY DEF RolloutInv, RolloutTypeOK
  <2>2. Head(pending) = pending[1] /\ 1 \in 1..Len(pending)
    BY <2>1
  <2>3. FromRollout(Head(pending))
    BY <2>2 DEF RolloutInv, PendingIsReading
  <2>4. QED
    BY <1>1, <2>3, NothingContradicts
<1>4. QED
  BY <1>1, <1>2, <1>3 DEF RolloutHolds

(* The records of a session file are what one reading of it makes, each    *)
(* line in the context of those before it, once, and what a saved cursor   *)
(* lies behind is recorded: for every file, however the readings were cut  *)
(* up, through compression, reports of the export, reloads and kills; and  *)
(* none is refused, where a number tells a command. The run                *)
(* rollout_ordinals shows what happens where it does not.                  *)
THEOREM CollectorsRolloutHolds ==
  ASSUME NumbersTell
  PROVE  CollectorsSpec => []RolloutHolds
<1>1. NumbersTell
  OBVIOUS
<1>2. RolloutInv => RolloutHolds
  BY <1>1, RolloutShows
<1>3. QED
  BY <1>2, RolloutInvariant, PTL

-----------------------------------------------------------------------------
(* Transcripts: the context after n lines, of each field what the lines tell *)
(* of it, without a reader.                                                *)
Until(lines, n)      == {m \in V!Timed(lines) : m <= n}
Answers(lines, n)    == {m \in Until(lines, n) : lines[m].kind = "assistant"}
CallsUntil(lines, n, id) == {m \in Answers(lines, n) : id \in V!ToSet(lines[m].tools)}
Counting(lines, n)   == {m \in Answers(lines, n) : lines[m].usage /\ lines[m].request # None}
Loading(lines, n)    == {m \in 1..n : lines[m].kind = "attachment"}

FirstOf(lines, n) == V!Earliest(Until(lines, n))
LastOf(lines, n)  == V!Latest(Until(lines, n))

ContextOf(lines, n) ==
  [session   |-> V!SessionAt(lines, n),
   first     |-> IF Until(lines, n) = {} THEN None ELSE lines[FirstOf(lines, n)].at,
   last      |-> IF Until(lines, n) = {} THEN None ELSE lines[LastOf(lines, n)].at,
   turn      |-> V!PromptAt(lines, n),
   agent     |-> IF Until(lines, n) = {} THEN None
                 ELSE IF V!OfSubagent(lines[FirstOf(lines, n)]) THEN lines[FirstOf(lines, n)].agent
                 ELSE None,
   sidechain |-> IF Until(lines, n) = {} THEN FALSE ELSE V!OfSubagent(lines[FirstOf(lines, n)]),
   calls     |-> [id \in UNION {V!ToSet(lines[m].tools) : m \in Answers(lines, n)} |->
                    lines[V!Latest(CallsUntil(lines, n, id))].at],
   counted   |-> {lines[m].request : m \in Counting(lines, n)},
   loaded    |-> UNION {V!ToSet(lines[m].tools) : m \in Loading(lines, n)}]

LEMMA LatestIs ==
  ASSUME NEW T \in SUBSET Nat, NEW x \in T, \A y \in T : y <= x
  PROVE  V!Latest(T) = x
<1> DEFINE z == V!Latest(T)
<1>1. z \in T /\ \A y \in T : y <= z
  BY DEF V!Latest
<1>2. z <= x /\ x <= z /\ z \in Nat /\ x \in Nat
  BY <1>1
<1>3. QED
  BY <1>2

LEMMA EarliestIs ==
  ASSUME NEW T \in SUBSET Nat, NEW x \in T, \A y \in T : x <= y
  PROVE  V!Earliest(T) = x
<1> DEFINE z == V!Earliest(T)
<1>1. z \in T /\ \A y \in T : z <= y
  BY DEF V!Earliest
<1>2. z <= x /\ x <= z /\ z \in Nat /\ x \in Nat
  BY <1>1
<1>3. QED
  BY <1>2

LEMMA EarliestOf ==
  ASSUME NEW T \in SUBSET Nat, T # {}
  PROVE  V!Earliest(T) \in T /\ \A y \in T : V!Earliest(T) <= y
<1>1. \E x \in T : \A y \in T : x <= y
  BY LeastNumber
<1>2. QED
  BY <1>1 DEF V!Earliest

(* One line more: what it adds to each of the sets.                        *)
IsLines(lines, k) == k \in Nat /\ DOMAIN lines = 1..k

LEMMA UntilNone ==
  ASSUME NEW k, NEW lines, IsLines(lines, k)
  PROVE  ContextOf(lines, 0) = V!NewNormalizer
<1>1. Until(lines, 0) = {}
  BY DEF Until, V!Timed, IsLines
<1>2. Answers(lines, 0) = {} /\ Counting(lines, 0) = {} /\ Loading(lines, 0) = {}
  BY <1>1 DEF Answers, Counting, Loading
<1>3. V!SessionAt(lines, 0) = None
  BY DEF V!SessionAt
<1>4. V!PromptAt(lines, 0) = None
  BY DEF V!PromptAt, V!Timed, IsLines
<1>5. [id \in UNION {V!ToSet(lines[m].tools) : m \in Answers(lines, 0)} |->
                    lines[V!Latest(CallsUntil(lines, 0, id))].at] = [id \in {} |-> 0]
  BY <1>2
<1>6. QED
  BY <1>1, <1>2, <1>3, <1>4, <1>5 DEF ContextOf, V!NewNormalizer

LEMMA UntilMore ==
  ASSUME NEW k, NEW lines, IsLines(lines, k), NEW n \in 1..k
  PROVE  /\ Until(lines, n) = Until(lines, n - 1) \cup (IF lines[n].at # None THEN {n} ELSE {})
         /\ Until(lines, n) \in SUBSET Nat /\ Until(lines, n - 1) \in SUBSET Nat
         /\ n \notin Until(lines, n - 1) /\ n \in Nat /\ n - 1 \in Nat
         /\ \A m \in Until(lines, n - 1) : m <= n /\ m <= n - 1 /\ m \in 1..k
<1>1. n \in Nat /\ n - 1 \in Nat /\ k \in Nat
  BY DEF IsLines
<1>2. \A m \in 1..k : m <= n <=> m <= n - 1 \/ m = n
  BY <1>1
<1>3. QED
  BY <1>1, <1>2 DEF Until, V!Timed, IsLines

LEMMA SessionMore ==
  ASSUME NEW k, NEW lines, IsLines(lines, k), NEW n \in 1..k
  PROVE  V!SessionAt(lines, n) =
           IF lines[n].session = None THEN V!SessionAt(lines, n - 1) ELSE lines[n].session
<1> DEFINE Telling(i) == {m \in 1..i : lines[m].session # None}
<1>1. n \in Nat /\ n - 1 \in Nat /\ 1..n = 1..(n - 1) \cup {n}
  BY DEF IsLines
<1>2. CASE lines[n].session = None
  <2>1. Telling(n) = Telling(n - 1)
    BY <1>1, <1>2
  <2>2. QED
    BY <1>2, <2>1 DEF V!SessionAt
<1>3. CASE lines[n].session # None
  <2>1. Telling(n) \in SUBSET Nat /\ n \in Telling(n) /\ \A m \in Telling(n) : m <= n
    BY <1>1, <1>3
  <2> HIDE DEF Telling
  <2>2. V!Latest(Telling(n)) = n
    BY <2>1, LatestIs
  <2> USE DEF Telling
  <2>3. QED
    BY <1>3, <2>1, <2>2 DEF V!SessionAt
<1>4. QED
  BY <1>2, <1>3

LEMMA PromptMore ==
  ASSUME NEW k, NEW lines, IsLines(lines, k), NEW n \in 1..k
  PROVE  V!PromptAt(lines, n) =
           IF lines[n].at # None /\ lines[n].kind \in {"prompt", "result", "meta"} /\ lines[n].prompt # None
           THEN lines[n].prompt ELSE V!PromptAt(lines, n - 1)
<1> DEFINE Speaks(m) == lines[m].kind \in {"prompt", "result", "meta"} /\ lines[m].prompt # None
           Telling(i) == {m \in V!Timed(lines) : m <= i /\ Speaks(m)}
           Telling0(i) == {m \in V!Timed(lines) : m <= i /\ lines[m].kind \in {"prompt", "result", "meta"}
                                      /\ lines[m].prompt # None}
<1>0. \A i : V!PromptAt(lines, i) = IF Telling(i) = {} THEN None ELSE lines[V!Latest(Telling(i))].prompt
  <2>1. \A i : Telling(i) = Telling0(i)
    OBVIOUS
  <2>2. QED
    BY <2>1 DEF V!PromptAt
<1>1. Telling(n) = {m \in Until(lines, n) : Speaks(m)} /\ Telling(n - 1) = {m \in Until(lines, n - 1) : Speaks(m)}
  BY DEF Until
<1>2. CASE ~(lines[n].at # None /\ Speaks(n))
  <2>1. Telling(n) = Telling(n - 1)
    BY <1>1, <1>2, UntilMore
  <2>2. QED
    BY <1>0, <1>2, <2>1
<1>3. CASE lines[n].at # None /\ Speaks(n)
  <2>1. Telling(n) \in SUBSET Nat /\ n \in Telling(n) /\ \A m \in Telling(n) : m <= n
    BY <1>1, <1>3, UntilMore
  <2> HIDE DEF Telling
  <2>2. V!Latest(Telling(n)) = n
    BY <2>1, LatestIs
  <2>3. QED
    BY <1>0, <1>3, <2>1, <2>2
<1>4. QED
  BY <1>2, <1>3

LEMMA FirstMore ==
  ASSUME NEW k, NEW lines, IsLines(lines, k), NEW n \in 1..k
  PROVE  /\ lines[n].at = None => Until(lines, n) = Until(lines, n - 1)
         /\ lines[n].at # None => Until(lines, n) # {} /\ LastOf(lines, n) = n
         /\ lines[n].at # None /\ Until(lines, n - 1) = {} => FirstOf(lines, n) = n
         /\ lines[n].at # None /\ Until(lines, n - 1) # {} => FirstOf(lines, n) = FirstOf(lines, n - 1)
         /\ Until(lines, n - 1) # {} =>
              FirstOf(lines, n - 1) \in Until(lines, n - 1) /\ lines[FirstOf(lines, n - 1)].at # None
<1> DEFINE a == Until(lines, n - 1)
           b == Until(lines, n)
<1>1. /\ b = a \cup (IF lines[n].at # None THEN {n} ELSE {})
      /\ a \in SUBSET Nat /\ b \in SUBSET Nat /\ n \notin a /\ n \in Nat
      /\ \A m \in a : m <= n
  BY UntilMore
<1>2. \A m \in a : lines[m].at # None
  BY DEF Until, V!Timed
<1>3. a # {} => V!Earliest(a) \in a /\ \A y \in a : V!Earliest(a) <= y
  <2> HIDE DEF a, b
  <2>1. QED
    BY <1>1, EarliestOf
<1>4. lines[n].at # None => V!Latest(b) = n
  <2> HIDE DEF a, b
  <2>1. SUFFICES ASSUME lines[n].at # None PROVE V!Latest(b) = n
    OBVIOUS
  <2>2. n \in b /\ \A y \in b : y <= n
    BY <1>1, <2>1
  <2>3. QED
    BY <1>1, <2>2, LatestIs
<1>5. lines[n].at # None /\ a = {} => V!Earliest(b) = n
  <2> HIDE DEF a, b
  <2>1. SUFFICES ASSUME lines[n].at # None, a = {} PROVE V!Earliest(b) = n
    OBVIOUS
  <2>2. n \in b /\ \A y \in b : n <= y
    BY <1>1, <2>1
  <2>3. QED
    BY <1>1, <2>2, EarliestIs
<1>6. lines[n].at # None /\ a # {} => V!Earliest(b) = V!Earliest(a)
  <2> HIDE DEF a, b
  <2>1. SUFFICES ASSUME lines[n].at # None, a # {} PROVE V!Earliest(b) = V!Earliest(a)
    OBVIOUS
  <2>2. V!Earliest(a) \in b /\ V!Earliest(a) <= n
    BY <1>1, <1>3, <2>1
  <2>3. \A y \in b : V!Earliest(a) <= y
    BY <1>1, <1>3, <2>1, <2>2
  <2>4. QED
    BY <1>1, <2>2, <2>3, EarliestIs
<1>7. QED
  BY <1>1, <1>2, <1>3, <1>4, <1>5, <1>6 DEF FirstOf, LastOf

(* A line takes the context of the lines before it to that of those up to it. *)
LEMMA CarryIs ==
  ASSUME NEW k, NEW lines, IsLines(lines, k), NEW n \in 1..k
  PROVE  V!Carry(ContextOf(lines, n - 1), lines[n]) =
           [session |-> ContextOf(lines, n).session, first |-> ContextOf(lines, n).first,
            last |-> ContextOf(lines, n).last, turn |-> ContextOf(lines, n - 1).turn,
            agent |-> ContextOf(lines, n).agent, sidechain |-> ContextOf(lines, n).sidechain,
            calls |-> ContextOf(lines, n - 1).calls, counted |-> ContextOf(lines, n - 1).counted,
            loaded |-> ContextOf(lines, n - 1).loaded]
<1> DEFINE c == ContextOf(lines, n - 1)
           d == ContextOf(lines, n)
           x == V!Carry(c, lines[n])
           line == lines[n]
           begins == c.first = None /\ line.at # None
<1>0. x = [c EXCEPT !.session = IF line.session = None THEN c.session ELSE line.session,
                    !.first = IF begins THEN line.at ELSE c.first,
                    !.last = IF line.at = None THEN c.last ELSE line.at,
                    !.sidechain = IF begins THEN V!OfSubagent(line) ELSE c.sidechain,
                    !.agent = IF begins /\ V!OfSubagent(line) THEN line.agent ELSE c.agent]
  BY DEF V!Carry
<1>1. /\ c.session = V!SessionAt(lines, n - 1)
      /\ c.first = IF Until(lines, n - 1) = {} THEN None ELSE lines[FirstOf(lines, n - 1)].at
      /\ c.last = IF Until(lines, n - 1) = {} THEN None ELSE lines[LastOf(lines, n - 1)].at
      /\ c.turn = V!PromptAt(lines, n - 1)
      /\ c.agent = IF Until(lines, n - 1) = {} THEN None
                 ELSE IF V!OfSubagent(lines[FirstOf(lines, n - 1)]) THEN lines[FirstOf(lines, n - 1)].agent
                 ELSE None
      /\ c.sidechain = IF Until(lines, n - 1) = {} THEN FALSE ELSE V!OfSubagent(lines[FirstOf(lines, n - 1)])
  BY DEF ContextOf
<1>2. /\ d.session = V!SessionAt(lines, n)
      /\ d.first = IF Until(lines, n) = {} THEN None ELSE lines[FirstOf(lines, n)].at
      /\ d.last = IF Until(lines, n) = {} THEN None ELSE lines[LastOf(lines, n)].at
      /\ d.agent = IF Until(lines, n) = {} THEN None
                 ELSE IF V!OfSubagent(lines[FirstOf(lines, n)]) THEN lines[FirstOf(lines, n)].agent
                 ELSE None
      /\ d.sidechain = IF Until(lines, n) = {} THEN FALSE ELSE V!OfSubagent(lines[FirstOf(lines, n)])
  BY DEF ContextOf
<1>3. c = [session |-> c.session, first |-> c.first, last |-> c.last, turn |-> c.turn, agent |-> c.agent,
           sidechain |-> c.sidechain, calls |-> c.calls, counted |-> c.counted, loaded |-> c.loaded]
  BY DEF ContextOf
<1>4. d = [session |-> d.session, first |-> d.first, last |-> d.last, turn |-> d.turn, agent |-> d.agent,
           sidechain |-> d.sidechain, calls |-> d.calls, counted |-> d.counted, loaded |-> d.loaded]
  BY DEF ContextOf
<1>5. begins <=> Until(lines, n - 1) = {} /\ line.at # None
  BY <1>1, FirstMore
<1>6. d.session = IF line.session = None THEN c.session ELSE line.session
  BY <1>1, <1>2, SessionMore
<1>a. /\ line.at = None => Until(lines, n) = Until(lines, n - 1) /\ FirstOf(lines, n) = FirstOf(lines, n - 1)
      /\ line.at # None => Until(lines, n) # {}
      /\ begins => FirstOf(lines, n) = n
      /\ line.at # None /\ ~begins => Until(lines, n - 1) # {} /\ FirstOf(lines, n) = FirstOf(lines, n - 1)
  BY <1>5, FirstMore DEF FirstOf
<1>7. d.first = IF begins THEN line.at ELSE c.first
  <2>1. CASE begins
    <3>1. Until(lines, n) # {} /\ FirstOf(lines, n) = n
      BY <1>5, <1>a, <2>1
    <3> HIDE DEF begins, c, d
    <3>2. QED
      BY <1>2, <2>1, <3>1
  <2>2. CASE ~begins
    <3>1. /\ Until(lines, n) = {} <=> Until(lines, n - 1) = {}
          /\ Until(lines, n) # {} => FirstOf(lines, n) = FirstOf(lines, n - 1)
      BY <1>5, <1>a, <2>2
    <3> HIDE DEF begins, c, d
    <3>2. QED
      BY <1>1, <1>2, <2>2, <3>1
  <2>3. QED
    BY <2>1, <2>2
<1>8. d.last = IF line.at = None THEN c.last ELSE line.at
  <2>1. CASE line.at = None
    <3>1. LastOf(lines, n) = LastOf(lines, n - 1) /\ Until(lines, n) = Until(lines, n - 1)
      BY <2>1, FirstMore DEF LastOf
    <3>2. QED
      BY <1>1, <1>2, <2>1, <3>1
  <2>2. CASE line.at # None
    BY <1>2, <2>2, FirstMore
  <2>3. QED
    BY <2>1, <2>2
<1>10. d.sidechain = IF begins THEN V!OfSubagent(line) ELSE c.sidechain
  BY <1>1, <1>2, <1>5, <1>a, Zenon
<1>11. d.agent = IF begins /\ V!OfSubagent(line) THEN line.agent ELSE c.agent
  <2>1. CASE begins
    <3>1. Until(lines, n) # {} /\ FirstOf(lines, n) = n /\ Until(lines, n - 1) = {}
      BY <1>5, <1>a, <2>1
    <3> HIDE DEF begins, c, d
    <3>2. QED
      BY <1>1, <1>2, <2>1, <3>1
  <2>2. CASE ~begins
    <3>1. /\ Until(lines, n) = {} <=> Until(lines, n - 1) = {}
          /\ Until(lines, n) # {} => FirstOf(lines, n) = FirstOf(lines, n - 1)
      BY <1>5, <1>a, <2>2
    <3> HIDE DEF begins, c, d
    <3>2. QED
      BY <1>1, <1>2, <2>2, <3>1
  <2>3. QED
    BY <2>1, <2>2
<1> HIDE DEF begins, line, c, d
<1>b. /\ x = [f \in {"session", "first", "last", "turn", "agent", "sidechain", "calls", "counted", "loaded"} |-> x[f]]
      /\ x.turn = c.turn /\ x.calls = c.calls /\ x.counted = c.counted /\ x.loaded = c.loaded
  <2> HIDE DEF x
  <2>1. QED
    BY <1>0, <1>3
<1>c. /\ x.session = d.session /\ x.first = d.first /\ x.last = d.last
      /\ x.agent = d.agent /\ x.sidechain = d.sidechain
  <2> HIDE DEF x
  <2>1. QED
    BY <1>0, <1>3, <1>6, <1>7, <1>8, <1>10, <1>11
<1>12. x = [session |-> d.session, first |-> d.first, last |-> d.last, turn |-> c.turn, agent |-> d.agent,
            sidechain |-> d.sidechain, calls |-> c.calls, counted |-> c.counted, loaded |-> c.loaded]
  <2> HIDE DEF x
  <2>1. QED
    BY <1>b, <1>c
<1>13. QED
  BY <1>12 DEF c, d, line

LEMMA AnswersMore ==
  ASSUME NEW k, NEW lines, IsLines(lines, k), NEW n \in 1..k
  PROVE  /\ Answers(lines, n) = Answers(lines, n - 1) \cup
              (IF lines[n].at # None /\ lines[n].kind = "assistant" THEN {n} ELSE {})
         /\ Counting(lines, n) = Counting(lines, n - 1) \cup
              (IF lines[n].at # None /\ lines[n].kind = "assistant" /\ lines[n].usage /\ lines[n].request # None
               THEN {n} ELSE {})
         /\ Loading(lines, n) = Loading(lines, n - 1) \cup
              (IF lines[n].kind = "attachment" THEN {n} ELSE {})
<1>1. 1..n = 1..(n - 1) \cup {n}
  BY DEF IsLines
<1>2. Until(lines, n) = Until(lines, n - 1) \cup (IF lines[n].at # None THEN {n} ELSE {})
  BY UntilMore
<1>3. QED
  BY <1>1, <1>2 DEF Answers, Counting, Loading

LEMMA CallsMore ==
  ASSUME NEW k, NEW lines, IsLines(lines, k), NEW n \in 1..k
  PROVE  ContextOf(lines, n).calls =
           IF lines[n].at # None /\ lines[n].kind = "assistant"
           THEN [id \in V!ToSet(lines[n].tools) \cup DOMAIN ContextOf(lines, n - 1).calls |->
                   IF id \in V!ToSet(lines[n].tools) THEN lines[n].at ELSE ContextOf(lines, n - 1).calls[id]]
           ELSE ContextOf(lines, n - 1).calls
<1> DEFINE Ids(i) == UNION {V!ToSet(lines[m].tools) : m \in Answers(lines, i)}
           At(i, id) == lines[V!Latest(CallsUntil(lines, i, id))].at
<1>1. \A i : ContextOf(lines, i).calls = [id \in Ids(i) |-> At(i, id)]
  BY DEF ContextOf
<1>2. CASE ~(lines[n].at # None /\ lines[n].kind = "assistant")
  <2>0. Answers(lines, n) = Answers(lines, n - 1) \cup
          (IF lines[n].at # None /\ lines[n].kind = "assistant" THEN {n} ELSE {})
    BY AnswersMore
  <2>1. Answers(lines, n) = Answers(lines, n - 1)
    BY <1>2, <2>0
  <2>2. \A id : CallsUntil(lines, n, id) = CallsUntil(lines, n - 1, id)
    BY <2>1 DEF CallsUntil
  <2>a. Ids(n) = Ids(n - 1) /\ \A id : At(n, id) = At(n - 1, id)
    BY <2>1, <2>2
  <2>b. [id \in Ids(n) |-> At(n, id)] = [id \in Ids(n - 1) |-> At(n - 1, id)]
    <3> HIDE DEF Ids, At
    <3>1. QED
      BY <2>a
  <2>3. ContextOf(lines, n).calls = ContextOf(lines, n - 1).calls
    <3> HIDE DEF Ids, At
    <3>1. QED
      BY <1>1, <2>b
  <2>4. QED
    BY <1>2, <2>3
<1>3. CASE lines[n].at # None /\ lines[n].kind = "assistant"
  <2> DEFINE S == V!ToSet(lines[n].tools)
  <2>1. Answers(lines, n) = Answers(lines, n - 1) \cup {n} /\ n \notin Answers(lines, n - 1)
    BY <1>3, AnswersMore, UntilMore DEF Answers
  <2>2. Ids(n) = Ids(n - 1) \cup S
    BY <2>1
  <2>3. ASSUME NEW id, id \notin S
        PROVE  At(n, id) = At(n - 1, id)
    <3>1. CallsUntil(lines, n, id) = CallsUntil(lines, n - 1, id)
      BY <2>1, <2>3 DEF CallsUntil
    <3>2. QED
      BY <3>1
  <2>4. ASSUME NEW id \in S
        PROVE  At(n, id) = lines[n].at
    <3>1. /\ n \in CallsUntil(lines, n, id) /\ CallsUntil(lines, n, id) \in SUBSET Nat
          /\ \A y \in CallsUntil(lines, n, id) : y <= n
      BY <2>1, <2>4, UntilMore DEF CallsUntil, Answers
    <3>2. V!Latest(CallsUntil(lines, n, id)) = n
      BY <3>1, LatestIs
    <3>3. QED
      BY <3>2
  <2> HIDE DEF Ids, At, S
  <2> DEFINE F == [id \in S |-> lines[n].at]
             G == [id \in Ids(n - 1) |-> At(n - 1, id)]
  <2>b. \A x \in Ids(n) : At(n, x) = IF x \in S THEN F[x] ELSE G[x]
    BY <2>2, <2>3, <2>4
  <2>c. DOMAIN F = S /\ DOMAIN G = Ids(n - 1)
    OBVIOUS
  <2>5. [id \in Ids(n) |-> At(n, id)] = [id \in S \cup DOMAIN G |-> IF id \in S THEN lines[n].at ELSE G[id]]
    BY <2>2, <2>b, <2>c
  <2>d. G = ContextOf(lines, n - 1).calls /\ ContextOf(lines, n).calls = [id \in Ids(n) |-> At(n, id)]
    BY <1>1
  <2> HIDE DEF G
  <2>6. QED
    BY <1>3, <2>5, <2>d DEF S
<1>4. QED
  BY <1>2, <1>3

LEMMA CountedMore ==
  ASSUME NEW k, NEW lines, IsLines(lines, k), NEW n \in 1..k
  PROVE  /\ ContextOf(lines, n).counted =
              IF /\ lines[n].at # None /\ lines[n].kind = "assistant"
                 /\ V!Counts(ContextOf(lines, n - 1), lines[n])
              THEN ContextOf(lines, n - 1).counted \cup {lines[n].request}
              ELSE ContextOf(lines, n - 1).counted
         /\ ContextOf(lines, n).loaded =
              IF lines[n].kind = "attachment"
              THEN ContextOf(lines, n - 1).loaded \cup V!ToSet(lines[n].tools)
              ELSE ContextOf(lines, n - 1).loaded
<1>1. \A i : /\ ContextOf(lines, i).counted = {lines[m].request : m \in Counting(lines, i)}
             /\ ContextOf(lines, i).loaded = UNION {V!ToSet(lines[m].tools) : m \in Loading(lines, i)}
  BY DEF ContextOf
<1> DEFINE c == ContextOf(lines, n - 1)
           counts == lines[n].at # None /\ lines[n].kind = "assistant" /\ lines[n].usage /\ lines[n].request # None
<1>2. Counting(lines, n) = Counting(lines, n - 1) \cup (IF counts THEN {n} ELSE {})
  BY AnswersMore
<1>3. ContextOf(lines, n).counted = c.counted \cup (IF counts THEN {lines[n].request} ELSE {})
  <2> HIDE DEF counts
  <2>1. QED
    BY <1>1, <1>2
<1>4. V!Counts(c, lines[n]) <=> lines[n].usage /\ lines[n].request # None /\ lines[n].request \notin c.counted
  BY DEF V!Counts
<1>5. Loading(lines, n) = Loading(lines, n - 1) \cup (IF lines[n].kind = "attachment" THEN {n} ELSE {})
  BY AnswersMore
<1> HIDE DEF c
<1>6. ContextOf(lines, n).loaded = c.loaded \cup (IF lines[n].kind = "attachment" THEN V!ToSet(lines[n].tools) ELSE {})
  BY <1>1, <1>5 DEF c
<1>7. ContextOf(lines, n).counted =
        IF lines[n].at # None /\ lines[n].kind = "assistant" /\ V!Counts(c, lines[n])
        THEN c.counted \cup {lines[n].request} ELSE c.counted
  BY <1>3, <1>4
<1>8. QED
  BY <1>6, <1>7 DEF c

LEMMA ContextStep ==
  ASSUME NEW k, NEW lines, IsLines(lines, k), NEW n \in 1..k
  PROVE  V!Line(ContextOf(lines, n - 1), lines[n]).ctx = ContextOf(lines, n)
<1> DEFINE c == ContextOf(lines, n - 1)
           d == ContextOf(lines, n)
           line == lines[n]
           now == V!Carry(c, line)
           user == line.kind \in {"prompt", "result", "meta"}
           Called(f) == [id \in V!ToSet(line.tools) \cup DOMAIN f |-> IF id \in V!ToSet(line.tools) THEN line.at ELSE f[id]]
<1>1. V!Line(c, line).ctx =
        IF line.kind = "attachment" THEN [now EXCEPT !.loaded = now.loaded \cup V!ToSet(line.tools)]
        ELSE IF line.at = None THEN now
        ELSE IF user THEN V!AsPrompted(now, line)
        ELSE IF line.kind = "assistant" THEN V!AsAnswered(now, line)
        ELSE now
  BY DEF V!Line, V!Learned, V!ByUser
<1>2. now = [session |-> d.session, first |-> d.first, last |-> d.last, turn |-> c.turn, agent |-> d.agent,
            sidechain |-> d.sidechain, calls |-> c.calls, counted |-> c.counted, loaded |-> c.loaded]
  BY CarryIs, Zenon
<1>3. d = [session |-> d.session, first |-> d.first, last |-> d.last, turn |-> d.turn, agent |-> d.agent,
           sidechain |-> d.sidechain, calls |-> d.calls, counted |-> d.counted, loaded |-> d.loaded]
  BY DEF ContextOf
<1>4. d.turn = IF line.at # None /\ user /\ line.prompt # None THEN line.prompt ELSE c.turn
  <2>1. d.turn = V!PromptAt(lines, n) /\ c.turn = V!PromptAt(lines, n - 1)
    BY DEF ContextOf
  <2>2. QED
    BY <2>1, PromptMore
<1>5. d.calls = IF line.at # None /\ line.kind = "assistant"
                THEN Called(c.calls) ELSE c.calls
  BY CallsMore
<1>6. d.counted = IF line.at # None /\ line.kind = "assistant" /\ V!Counts(c, line)
                  THEN c.counted \cup {line.request} ELSE c.counted
  BY CountedMore
<1>7. d.loaded = IF line.kind = "attachment" THEN c.loaded \cup V!ToSet(line.tools) ELSE c.loaded
  BY CountedMore
<1>8. V!Counts(now, line) <=> V!Counts(c, line)
  <2> HIDE DEF c, d, now
  <2>1. QED
    BY <1>2 DEF V!Counts
<1> HIDE DEF c, d, now, line
<1>9. CASE line.kind = "attachment"
  <2>1. V!Line(c, line).ctx = [now EXCEPT !.loaded = now.loaded \cup V!ToSet(line.tools)]
    BY <1>1, <1>9
  <2>2. d.turn = c.turn /\ d.calls = c.calls /\ d.counted = c.counted /\ d.loaded = c.loaded \cup V!ToSet(line.tools)
    BY <1>4, <1>5, <1>6, <1>7, <1>9
  <2>3. QED
    BY <1>2, <1>3, <2>1, <2>2 DEF c, d, line
<1>10. CASE line.kind # "attachment" /\ line.at = None
  BY <1>1, <1>2, <1>3, <1>4, <1>5, <1>6, <1>7, <1>10 DEF c, d, line
<1>11. CASE line.at # None /\ user
  <2>1. V!Line(c, line).ctx = IF line.prompt = None THEN now ELSE [now EXCEPT !.turn = line.prompt]
    BY <1>1, <1>11 DEF V!AsPrompted
  <2>2. d.calls = c.calls /\ d.counted = c.counted /\ d.loaded = c.loaded
    BY <1>5, <1>6, <1>7, <1>11
  <2>3. d.turn = IF line.prompt = None THEN c.turn ELSE line.prompt
    BY <1>4, <1>11
  <2>4. QED
    BY <1>2, <1>3, <2>1, <2>2, <2>3 DEF c, d, line
<1>12. CASE line.at # None /\ line.kind = "assistant"
  <2>1. V!Line(c, line).ctx =
          [now EXCEPT !.counted = IF V!Counts(now, line) THEN now.counted \cup {line.request} ELSE now.counted,
                      !.calls = Called(now.calls)]
    <3> HIDE DEF c, now, Called
    <3>1. V!Line(c, line).ctx = V!AsAnswered(now, line)
      BY <1>1, <1>12
    <3>2. QED
      BY <3>1 DEF V!AsAnswered, Called
  <2>2. d.turn = c.turn /\ d.loaded = c.loaded
    BY <1>4, <1>7, <1>12
  <2>3. /\ d.calls = Called(c.calls)
        /\ d.counted = IF V!Counts(now, line) THEN c.counted \cup {line.request} ELSE c.counted
    BY <1>5, <1>6, <1>8, <1>12
  <2> HIDE DEF Called
  <2>4. QED
    BY <1>2, <1>3, <2>1, <2>2, <2>3 DEF c, d, line
<1>13. CASE line.at # None /\ line.kind # "attachment" /\ ~user /\ line.kind # "assistant"
  <2>1. V!Line(c, line).ctx = now
    BY <1>1, <1>13
  <2>2. d.turn = c.turn /\ d.calls = c.calls /\ d.counted = c.counted /\ d.loaded = c.loaded
    BY <1>4, <1>5, <1>6, <1>7, <1>13
  <2>3. QED
    BY <1>2, <1>3, <2>1, <2>2 DEF c, d, line
<1>14. QED
  BY <1>9, <1>10, <1>11, <1>12, <1>13

-----------------------------------------------------------------------------
(* What the n-th line of a transcript tells, by the kinds of event.        *)
CallAt(lines, n, id) ==
  [V!Event("tool.call", <<id>>, V!SessionAt(lines, n), lines[n].at, V!PromptAt(lines, n)) EXCEPT !.tool = id]

ResultAt(lines, n, id) ==
  LET called == {m \in V!Calling(lines, id) : m < n}
      since  == lines[V!Latest(called)].at
  IN  [V!Event("tool.result", <<id>>, V!SessionAt(lines, n), lines[n].at, lines[n].prompt)
         EXCEPT !.tool = IF called = {} THEN None ELSE id,
                !.took = IF called # {} /\ lines[n].at >= since THEN lines[n].at - since ELSE None]

TellsCall(lines, n, e) ==
  lines[n].kind = "assistant" /\ \E id \in V!ToSet(lines[n].tools) : e = CallAt(lines, n, id)

TellsResult(lines, n, e) ==
  lines[n].kind = "result" /\ \E id \in V!ToSet(lines[n].tools) : e = ResultAt(lines, n, id)

Requesting(lines, r) ==
  {m \in V!Timed(lines) : lines[m].kind = "assistant" /\ lines[m].usage /\ lines[m].request = r}

TellsRequest(lines, n, e) ==
  /\ lines[n].kind = "assistant" /\ lines[n].usage /\ lines[n].request # None
  /\ \A m \in Requesting(lines, lines[n].request) : ~ m < n
  /\ e = V!Event("api.request", <<lines[n].request>>, V!SessionAt(lines, n), lines[n].at, None)

TellsTurn(lines, n, e) ==
  /\ lines[n].kind = "prompt" /\ ~lines[n].side /\ {lines[n].prompt, lines[n].uuid} # {None}
  /\ e = V!Event("turn", <<IF lines[n].prompt = None THEN lines[n].uuid ELSE lines[n].prompt>>,
                 V!SessionAt(lines, n), lines[n].at, lines[n].prompt)

TellsError(lines, n, e) ==
  /\ lines[n].kind = "error" /\ lines[n].request # None
  /\ e = V!Event("api.error", <<lines[n].request>>, V!SessionAt(lines, n), lines[n].at, None)

TellsStart(lines, n, e) ==
  /\ Until(lines, n - 1) = {} /\ ~V!OfSubagent(lines[n])
  /\ e = V!Event("session.start", <<V!SessionAt(lines, n)>>, V!SessionAt(lines, n), lines[n].at, None)

TellsLine(lines, n, e) ==
  /\ lines[n].at # None
  /\ \/ TellsCall(lines, n, e) \/ TellsResult(lines, n, e) \/ TellsRequest(lines, n, e)
     \/ TellsTurn(lines, n, e) \/ TellsError(lines, n, e) \/ TellsStart(lines, n, e)

LEMMA MeantIs ==
  ASSUME NEW k, NEW lines, IsLines(lines, k), NEW e
  PROVE  e \in V!Meant(lines) <=> \E n \in 1..k : TellsLine(lines, n, e)
<1>0. \A n : n \in V!Timed(lines) <=> n \in 1..k /\ lines[n].at # None
  BY DEF V!Timed, IsLines
<1>a. k \in Nat /\ 1..k \subseteq Nat
  BY DEF IsLines
<1>1. e \in V!MeantCalls(lines) <=> \E n \in V!Timed(lines) : TellsCall(lines, n, e)
  <2>1. V!MeantCalls(lines) =
          UNION {{CallAt(lines, n, id) : id \in V!ToSet(lines[n].tools)} :
                 n \in {m \in V!Timed(lines) : lines[m].kind = "assistant"}}
    BY DEF V!MeantCalls, CallAt
  <2>2. QED
    BY <2>1 DEF TellsCall
<1>2. e \in V!MeantResults(lines) <=> \E n \in V!Timed(lines) : TellsResult(lines, n, e)
  <2>1. V!MeantResults(lines) =
          UNION {{ResultAt(lines, n, id) : id \in V!ToSet(lines[n].tools)} :
                 n \in {m \in V!Timed(lines) : lines[m].kind = "result"}}
    BY DEF V!MeantResults, ResultAt
  <2>2. QED
    BY <2>1 DEF TellsResult
<1>3. e \in V!MeantRequests(lines) <=> \E n \in V!Timed(lines) : TellsRequest(lines, n, e)
  <2> DEFINE Of(r) == V!Event("api.request", <<r>>, V!SessionAt(lines, V!Earliest(Requesting(lines, r))),
                              lines[V!Earliest(Requesting(lines, r))].at, None)
  <2>1. e \in V!MeantRequests(lines) <=>
          \E n \in 1..k : lines[n].request # None /\ Requesting(lines, lines[n].request) # {} /\ e = Of(lines[n].request)
    BY DEF V!MeantRequests, Requesting, IsLines
  <2>2. ASSUME NEW r, Requesting(lines, r) # {}
        PROVE  /\ V!Earliest(Requesting(lines, r)) \in Requesting(lines, r)
               /\ \A m \in Requesting(lines, r) : ~ m < V!Earliest(Requesting(lines, r))
    <3>1. Requesting(lines, r) \in SUBSET Nat
      BY <1>0, <1>a DEF Requesting
    <3>2. /\ V!Earliest(Requesting(lines, r)) \in Requesting(lines, r)
          /\ \A m \in Requesting(lines, r) : V!Earliest(Requesting(lines, r)) <= m
      BY <2>2, <3>1, EarliestOf
    <3>3. QED
      BY <3>1, <3>2
  <2>3. ASSUME NEW n \in 1..k, lines[n].request # None, Requesting(lines, lines[n].request) # {}, e = Of(lines[n].request)
        PROVE  \E m \in V!Timed(lines) : TellsRequest(lines, m, e)
    <3> DEFINE m == V!Earliest(Requesting(lines, lines[n].request))
    <3>1. m \in Requesting(lines, lines[n].request) /\ \A i \in Requesting(lines, lines[n].request) : ~ i < m
      BY <2>2, <2>3
    <3>2. m \in V!Timed(lines) /\ lines[m].kind = "assistant" /\ lines[m].usage /\ lines[m].request = lines[n].request
      BY <3>1 DEF Requesting
    <3>3. TellsRequest(lines, m, e)
      BY <2>3, <3>1, <3>2 DEF TellsRequest
    <3>4. QED
      BY <3>2, <3>3
  <2>4. ASSUME NEW n \in V!Timed(lines), TellsRequest(lines, n, e)
        PROVE  n \in 1..k /\ lines[n].request # None /\ Requesting(lines, lines[n].request) # {} /\ e = Of(lines[n].request)
    <3> DEFINE R == Requesting(lines, lines[n].request)
    <3>1. n \in R
      BY <2>4 DEF Requesting, TellsRequest
    <3>2. R \in SUBSET Nat /\ n \in 1..k
      BY <1>0, <1>a DEF Requesting
    <3>3. \A i \in R : n <= i
      BY <2>4, <3>2 DEF TellsRequest
    <3> HIDE DEF R
    <3>4. V!Earliest(R) = n
      BY <3>1, <3>2, <3>3, EarliestIs
    <3>5. QED
      BY <2>4, <3>1, <3>2, <3>4 DEF TellsRequest, R
  <2> HIDE DEF Of
  <2>5. QED
    BY <2>1, <2>3, <2>4
<1>4. e \in V!MeantTurns(lines) <=> \E n \in V!Timed(lines) : TellsTurn(lines, n, e)
  BY DEF V!MeantTurns, TellsTurn
<1>5. e \in V!MeantErrors(lines) <=> \E n \in V!Timed(lines) : TellsError(lines, n, e)
  BY DEF V!MeantErrors, TellsError
<1>6. e \in V!MeantStart(lines) <=> \E n \in V!Timed(lines) : TellsStart(lines, n, e)
  <2>1. ASSUME NEW n \in V!Timed(lines)
        PROVE  n = V!Earliest(V!Timed(lines)) <=> Until(lines, n - 1) = {}
    <3>1. V!Timed(lines) \in SUBSET Nat /\ n \in Nat
      BY <1>0, <1>a
    <3>2. CASE Until(lines, n - 1) = {}
      <4>1. \A y \in V!Timed(lines) : n <= y
        BY <3>1, <3>2 DEF Until
      <4>2. QED
        BY <3>1, <3>2, <4>1, EarliestIs
    <3>3. CASE n = V!Earliest(V!Timed(lines))
      <4>1. \A y \in V!Timed(lines) : n <= y
        BY <3>1, <3>3, EarliestOf
      <4>2. QED
        BY <3>1, <3>3, <4>1 DEF Until
    <3>4. QED
      BY <3>2, <3>3
  <2>2. QED
    BY <2>1 DEF V!MeantStart, TellsStart
<1>7. QED
  BY <1>0, <1>1, <1>2, <1>3, <1>4, <1>5, <1>6 DEF V!Meant, TellsLine

(* The events of the line, as the reader in the context before makes them.  *)
LEMMA OneOrNone ==
  ASSUME NEW M, NEW e \in M
  PROVE  <<e>> \in Seq(M) /\ \A x : Has(<<e>>, x) <=> x = e
<1>1. Len(<<e>>) = 1 /\ <<e>>[1] = e
  OBVIOUS
<1>2. QED
  BY <1>1 DEF Has

LEMMA Nothing == ASSUME NEW M PROVE <<>> \in Seq(M) /\ \A x : ~Has(<<>>, x)
<1>1. Len(<<>>) = 0
  OBVIOUS
<1>2. QED
  BY <1>1 DEF Has

LEMMA MappedIs ==
  ASSUME NEW M, NEW n \in Nat, NEW s \in [1..n -> M]
  PROVE  s \in Seq(M) /\ \A e : Has(s, e) <=> \E i \in 1..n : s[i] = e
<1>1. s \in Seq(M) /\ Len(s) = n
  OBVIOUS
<1>2. QED
  BY <1>1 DEF Has

LEMMA CarryKeeps ==
  ASSUME NEW k, NEW lines, IsLines(lines, k), NEW n \in 1..k
  PROVE  LET now == V!Carry(ContextOf(lines, n - 1), lines[n])
         IN  /\ now.session = V!SessionAt(lines, n) /\ now.turn = V!PromptAt(lines, n - 1)
             /\ now.calls = ContextOf(lines, n - 1).calls /\ now.counted = ContextOf(lines, n - 1).counted
<1> DEFINE c == ContextOf(lines, n - 1)
           d == ContextOf(lines, n)
           now == V!Carry(c, lines[n])
<1>1. d.session = V!SessionAt(lines, n) /\ c.turn = V!PromptAt(lines, n - 1)
  BY DEF ContextOf
<1>2. now = [session |-> d.session, first |-> d.first, last |-> d.last, turn |-> c.turn, agent |-> d.agent,
             sidechain |-> d.sidechain, calls |-> c.calls, counted |-> c.counted, loaded |-> c.loaded]
  BY CarryIs, Zenon
<1> HIDE DEF c, d, now
<1>3. now.session = d.session /\ now.turn = c.turn /\ now.calls = c.calls /\ now.counted = c.counted
  BY <1>2
<1>4. QED
  BY <1>1, <1>3 DEF now, c

LEMMA CalledBefore ==
  ASSUME NEW k, NEW lines, IsLines(lines, k), NEW n \in 1..k, NEW id
  PROVE  /\ {m \in V!Calling(lines, id) : m < n} = CallsUntil(lines, n - 1, id)
         /\ CallsUntil(lines, n - 1, id) # {} <=> id \in DOMAIN ContextOf(lines, n - 1).calls
<1>1. ContextOf(lines, n - 1).calls =
        [i \in UNION {V!ToSet(lines[m].tools) : m \in Answers(lines, n - 1)} |->
                    lines[V!Latest(CallsUntil(lines, n - 1, i))].at]
  BY DEF ContextOf
<1>2. n \in Nat /\ 1..k \subseteq Nat /\ V!Timed(lines) \subseteq 1..k
  BY DEF IsLines, V!Timed
<1>3. \A m \in Nat : m < n <=> m <= n - 1
  BY <1>2
<1>4. {m \in V!Calling(lines, id) : m < n} = CallsUntil(lines, n - 1, id)
  BY <1>2, <1>3 DEF V!Calling, CallsUntil, Answers, Until
<1>5. CallsUntil(lines, n - 1, id) # {} <=> id \in DOMAIN ContextOf(lines, n - 1).calls
  BY <1>1 DEF CallsUntil
<1>6. QED
  BY <1>4, <1>5

LEMMA CalledAt ==
  ASSUME NEW lines, NEW n, NEW id \in DOMAIN ContextOf(lines, n).calls
  PROVE  ContextOf(lines, n).calls[id] = lines[V!Latest(CallsUntil(lines, n, id))].at
BY DEF ContextOf

LEMMA CountedBefore ==
  ASSUME NEW k, NEW lines, IsLines(lines, k), NEW n \in 1..k, NEW r, r # None
  PROVE  r \notin ContextOf(lines, n - 1).counted <=> \A m \in Requesting(lines, r) : ~ m < n
<1>1. ContextOf(lines, n - 1).counted = {lines[m].request : m \in Counting(lines, n - 1)}
  BY DEF ContextOf
<1>2. n \in Nat /\ 1..k \subseteq Nat /\ V!Timed(lines) \subseteq 1..k
  BY DEF IsLines, V!Timed
<1>3. \A m \in Nat : m < n <=> m <= n - 1
  BY <1>2
<1>4. \A m \in V!Timed(lines) :
        m \in Counting(lines, n - 1) /\ lines[m].request = r <=> m \in Requesting(lines, r) /\ m < n
  BY <1>2, <1>3 DEF Counting, Answers, Until, Requesting
<1>5. Counting(lines, n - 1) \subseteq V!Timed(lines) /\ Requesting(lines, r) \subseteq V!Timed(lines)
  BY DEF Counting, Answers, Until, Requesting
<1>6. QED
  BY <1>1, <1>4, <1>5

LEMMA OpeningIs ==
  ASSUME NEW k, NEW lines, IsLines(lines, k), NEW n \in 1..k
  PROVE  LET o == V!Opening(ContextOf(lines, n - 1), lines[n])
         IN  o \in Seq(V!Meant(lines)) /\ \A e : Has(o, e) <=> lines[n].at # None /\ TellsStart(lines, n, e)
<1> DEFINE c == ContextOf(lines, n - 1)
           line == lines[n]
           o == V!Opening(c, line)
           s == V!Event("session.start", <<V!SessionAt(lines, n)>>, V!SessionAt(lines, n), line.at, None)
<1>1. c.first = None <=> Until(lines, n - 1) = {}
  BY FirstMore DEF ContextOf
<1>2. V!Carry(c, line).session = V!SessionAt(lines, n)
  BY CarryKeeps
<1>3. V!BoundaryEvent("session.start", V!Carry(c, line), line.at) = s
  BY <1>2 DEF V!BoundaryEvent
<1>4. CASE c.first = None /\ line.at # None /\ ~V!OfSubagent(line)
  <2>1. o = <<s>>
    BY <1>3, <1>4 DEF V!Opening
  <2>2. \A e : line.at # None /\ TellsStart(lines, n, e) <=> e = s
    BY <1>1, <1>4 DEF TellsStart
  <2>3. TellsLine(lines, n, s)
    BY <2>2 DEF TellsLine
  <2>4. s \in V!Meant(lines)
    BY <2>3, MeantIs
  <2> DEFINE M == V!Meant(lines)
  <2> HIDE DEF s, o, c, line, M
  <2>5. o \in Seq(M) /\ \A e : Has(o, e) <=> e = s
    BY <2>1, <2>4, OneOrNone DEF M
  <2>6. QED
    BY <2>2, <2>5 DEF o, c, line, M
<1>5. CASE ~(c.first = None /\ line.at # None /\ ~V!OfSubagent(line))
  <2>1. o = <<>>
    BY <1>5 DEF V!Opening
  <2>2. \A e : ~(line.at # None /\ TellsStart(lines, n, e))
    BY <1>1, <1>5 DEF TellsStart
  <2> HIDE DEF s, o, c, line
  <2>3. QED
    BY <2>1, <2>2, Nothing DEF o, c, line
<1>6. QED
  BY <1>4, <1>5

LEMMA UserEventsAre ==
  ASSUME NEW k, NEW lines, IsLines(lines, k), NEW n \in 1..k,
         lines[n].tools \in Seq(V!ToSet(lines[n].tools)), V!ByUser(lines[n]), lines[n].at # None
  PROVE  LET o == V!UserEvents(V!Carry(ContextOf(lines, n - 1), lines[n]), lines[n])
         IN  /\ o \in Seq(V!Meant(lines))
             /\ \A e : Has(o, e) <=> TellsResult(lines, n, e) \/ TellsTurn(lines, n, e)
<1> DEFINE c == ContextOf(lines, n - 1)
           line == lines[n]
           now == V!Carry(c, line)
           o == V!UserEvents(now, line)
<1>1. now.session = V!SessionAt(lines, n) /\ now.calls = c.calls
  BY CarryKeeps
<1>2. \A e : TellsResult(lines, n, e) \/ TellsTurn(lines, n, e) => e \in V!Meant(lines)
  BY MeantIs DEF TellsLine
<1>3. CASE line.kind = "result"
  <2> DEFINE L == Len(line.tools)
  <2>1. L \in Nat /\ DOMAIN line.tools = 1..L /\ V!ToSet(line.tools) = {line.tools[i] : i \in 1..L}
    BY DEF V!ToSet
  <2>2. o = [i \in 1..L |-> V!ResultEvent(now, line, line.tools[i])]
    BY <1>3, <2>1 DEF V!UserEvents
  <2>3. ASSUME NEW id
        PROVE  V!ResultEvent(now, line, id) = ResultAt(lines, n, id)
    <3> HIDE DEF c, now, line, L, o
    <3> DEFINE called == {m \in V!Calling(lines, id) : m < n}
               t == V!Event("tool.result", <<id>>, V!SessionAt(lines, n), line.at, line.prompt)
    <3>1. called = CallsUntil(lines, n - 1, id)
      BY CalledBefore
    <3>a. CallsUntil(lines, n - 1, id) # {} <=> id \in DOMAIN ContextOf(lines, n - 1).calls
      BY CalledBefore
    <3>2. called # {} <=> id \in DOMAIN c.calls
      <4> HIDE DEF called
      <4>1. QED
        BY <3>1, <3>a DEF c
    <3>b. id \in DOMAIN ContextOf(lines, n - 1).calls =>
            ContextOf(lines, n - 1).calls[id] = lines[V!Latest(CallsUntil(lines, n - 1, id))].at
      BY CalledAt
    <3>3. id \in DOMAIN c.calls => c.calls[id] = lines[V!Latest(called)].at
      <4> HIDE DEF called
      <4>1. QED
        BY <3>1, <3>b DEF c
    <3>4. V!ResultEvent(now, line, id) =
            [t EXCEPT !.tool = IF id \in DOMAIN c.calls THEN id ELSE None,
                      !.took = IF id \in DOMAIN c.calls /\ line.at >= c.calls[id] THEN line.at - c.calls[id] ELSE None]
      BY <1>1 DEF V!ResultEvent
    <3>5. ResultAt(lines, n, id) =
            [t EXCEPT !.tool = IF called = {} THEN None ELSE id,
                      !.took = IF called # {} /\ line.at >= lines[V!Latest(called)].at
                               THEN line.at - lines[V!Latest(called)].at ELSE None]
      BY DEF ResultAt, line
    <3> HIDE DEF called, t
    <3>6. CASE called = {}
      <4>1. V!ResultEvent(now, line, id) = [t EXCEPT !.tool = None, !.took = None]
        BY <3>2, <3>4, <3>6
      <4>2. ResultAt(lines, n, id) = [t EXCEPT !.tool = None, !.took = None]
        BY <3>5, <3>6
      <4>3. QED
        BY <4>1, <4>2
    <3>7. CASE called # {}
      <4> DEFINE x == c.calls[id]
                 u == [t EXCEPT !.tool = id, !.took = IF line.at >= x THEN line.at - x ELSE None]
      <4>1. V!ResultEvent(now, line, id) = u
        BY <3>2, <3>4, <3>7
      <4>2. ResultAt(lines, n, id) = u
        BY <3>2, <3>3, <3>5, <3>7
      <4> HIDE DEF u
      <4>3. QED
        BY <4>1, <4>2
    <3>8. QED
      BY <3>6, <3>7
  <2>4. \A e : TellsResult(lines, n, e) <=> \E i \in 1..L : ResultAt(lines, n, line.tools[i]) = e
    BY <1>3, <2>1 DEF TellsResult
  <2>5. \A e : ~TellsTurn(lines, n, e)
    BY <1>3 DEF TellsTurn
  <2> HIDE DEF c, now, line, L, o
  <2>6. \A i \in 1..L : ResultAt(lines, n, line.tools[i]) \in V!Meant(lines)
    BY <1>2, <2>4
  <2>7. o \in [1..L -> V!Meant(lines)]
    BY <2>2, <2>3, <2>6
  <2>8. \A i \in 1..L : o[i] = ResultAt(lines, n, line.tools[i])
    BY <2>2, <2>3
  <2>9. o \in Seq(V!Meant(lines)) /\ \A e : Has(o, e) <=> \E i \in 1..L : o[i] = e
    BY <2>1, <2>7, MappedIs
  <2>10. QED
    BY <2>4, <2>5, <2>8, <2>9 DEF o, now, c, line
<1>4. CASE line.kind # "result" /\ (line.kind = "meta" \/ line.side)
  <2>1. o = <<>>
    BY <1>4 DEF V!UserEvents
  <2>2. \A e : ~(TellsResult(lines, n, e) \/ TellsTurn(lines, n, e))
    BY <1>4 DEF TellsResult, TellsTurn
  <2> HIDE DEF c, now, line, o
  <2>3. QED
    BY <2>1, <2>2, Nothing DEF o, now, c, line
<1>5. CASE line.kind = "prompt" /\ ~line.side
  <2> DEFINE key == IF line.prompt = None THEN line.uuid ELSE line.prompt
             t == V!Event("turn", <<key>>, V!SessionAt(lines, n), line.at, line.prompt)
  <2>1. o = IF key = None THEN <<>> ELSE <<t>>
    BY <1>1, <1>5 DEF V!UserEvents, V!TurnEvent
  <2>2. key = None <=> {line.prompt, line.uuid} = {None}
    <3>1. key = None <=> line.prompt = None /\ line.uuid = None
      OBVIOUS
    <3> HIDE DEF key, line
    <3>2. QED
      BY <3>1
  <2>3. \A e : TellsTurn(lines, n, e) <=> key # None /\ e = t
    BY <1>5, <2>2 DEF TellsTurn
  <2>4. \A e : ~TellsResult(lines, n, e)
    BY <1>5 DEF TellsResult
  <2>5. key # None => t \in V!Meant(lines)
    BY <1>2, <2>3
  <2> HIDE DEF c, now, line, o, t, key
  <2>6. CASE key = None
    BY <2>1, <2>3, <2>4, <2>6, Nothing DEF o, now, c, line
  <2>7. CASE key # None
    BY <2>1, <2>3, <2>4, <2>5, <2>7, OneOrNone DEF o, now, c, line
  <2>8. QED
    BY <2>6, <2>7
<1>6. QED
  BY <1>3, <1>4, <1>5 DEF V!ByUser

LEMMA AssistantEventsAre ==
  ASSUME NEW k, NEW lines, IsLines(lines, k), NEW n \in 1..k,
         lines[n].tools \in Seq(V!ToSet(lines[n].tools)), lines[n].kind = "assistant", lines[n].at # None
  PROVE  LET o == V!AssistantEvents(V!Carry(ContextOf(lines, n - 1), lines[n]), lines[n])
         IN  /\ o \in Seq(V!Meant(lines))
             /\ \A e : Has(o, e) <=> TellsCall(lines, n, e) \/ TellsRequest(lines, n, e)
<1> DEFINE c == ContextOf(lines, n - 1)
           line == lines[n]
           now == V!Carry(c, line)
           o == V!AssistantEvents(now, line)
           M == V!Meant(lines)
           r == V!Event("api.request", <<line.request>>, V!SessionAt(lines, n), line.at, None)
           a == IF V!Counts(now, line) THEN <<r>> ELSE <<>>
           L == Len(line.tools)
           b == [i \in 1..L |-> CallAt(lines, n, line.tools[i])]
<1>1. now.session = V!SessionAt(lines, n) /\ now.counted = c.counted /\ now.turn = V!PromptAt(lines, n - 1)
  BY CarryKeeps
<1>2. \A e : TellsCall(lines, n, e) \/ TellsRequest(lines, n, e) => e \in M
  BY MeantIs DEF TellsLine
<1>3. now.turn = V!PromptAt(lines, n)
  <2>1. V!PromptAt(lines, n) = V!PromptAt(lines, n - 1)
    BY PromptMore
  <2>2. QED
    BY <1>1, <2>1
<1>4. L \in Nat /\ DOMAIN line.tools = 1..L /\ V!ToSet(line.tools) = {line.tools[i] : i \in 1..L}
  BY DEF V!ToSet
<1>5. o = a \o b
  BY <1>1, <1>3, <1>4 DEF V!AssistantEvents, CallAt
<1>6. \A e : TellsRequest(lines, n, e) <=> V!Counts(now, line) /\ e = r
  <2>1. line.request # None =>
          (line.request \notin c.counted <=> \A m \in Requesting(lines, line.request) : ~ m < n)
    BY CountedBefore
  <2>2. V!Counts(now, line) <=> line.usage /\ line.request # None /\ line.request \notin c.counted
    BY <1>1 DEF V!Counts
  <2> HIDE DEF c, now
  <2>3. QED
    BY <2>1, <2>2 DEF TellsRequest
<1>7. \A e : TellsCall(lines, n, e) <=> \E i \in 1..L : CallAt(lines, n, line.tools[i]) = e
  BY <1>4 DEF TellsCall
<1> HIDE DEF c, now, o, M, r, L
<1>8. a \in Seq(M) /\ \A e : Has(a, e) <=> TellsRequest(lines, n, e)
  <2>1. CASE V!Counts(now, line)
    <3>1. r \in M
      BY <1>2, <1>6, <2>1
    <3>2. QED
      BY <1>6, <2>1, <3>1, OneOrNone
  <2>2. CASE ~V!Counts(now, line)
    BY <1>6, <2>2, Nothing
  <2>3. QED
    BY <2>1, <2>2
<1>9. b \in Seq(M) /\ \A e : Has(b, e) <=> TellsCall(lines, n, e)
  <2>1. b \in [1..L -> M]
    BY <1>2, <1>7
  <2>2. \A i \in 1..L : b[i] = CallAt(lines, n, line.tools[i])
    OBVIOUS
  <2> HIDE DEF b
  <2>3. b \in Seq(M) /\ \A e : Has(b, e) <=> \E i \in 1..L : b[i] = e
    BY <1>4, <2>1, MappedIs
  <2>4. QED
    BY <1>7, <2>2, <2>3
<1> HIDE DEF a, b
<1>10. a \o b \in Seq(M) /\ \A e : Has(a \o b, e) <=> Has(a, e) \/ Has(b, e)
  BY <1>8, <1>9, HasJoined
<1>11. QED
  BY <1>5, <1>8, <1>9, <1>10 DEF o, now, c, M

LEMMA LineTells ==
  ASSUME NEW k, NEW lines, IsLines(lines, k), NEW n \in 1..k,
         lines[n].tools \in Seq(V!ToSet(lines[n].tools))
  PROVE  /\ V!Line(ContextOf(lines, n - 1), lines[n]).out \in Seq(V!Meant(lines))
         /\ \A e : Has(V!Line(ContextOf(lines, n - 1), lines[n]).out, e) <=> TellsLine(lines, n, e)
<1> DEFINE c == ContextOf(lines, n - 1)
           line == lines[n]
           now == V!Carry(c, line)
           M == V!Meant(lines)
           a == V!Opening(c, line)
           b == V!Reported(c, line)
<1>1. V!Line(c, line).out = a \o b
  BY DEF V!Line
<1>2. a \in Seq(M) /\ \A e : Has(a, e) <=> line.at # None /\ TellsStart(lines, n, e)
  BY OpeningIs
<1>3. b = IF line.at = None THEN <<>>
          ELSE IF V!ByUser(line) THEN V!UserEvents(now, line)
          ELSE IF line.kind = "assistant" THEN V!AssistantEvents(now, line)
          ELSE IF line.kind = "error" THEN V!ErrorEvents(now, line)
          ELSE <<>>
  BY DEF V!Reported
<1> DEFINE Other(e) == TellsCall(lines, n, e) \/ TellsResult(lines, n, e) \/ TellsRequest(lines, n, e)
                      \/ TellsTurn(lines, n, e) \/ TellsError(lines, n, e)
<1>4. \A e : /\ TellsCall(lines, n, e) => line.kind = "assistant"
             /\ TellsRequest(lines, n, e) => line.kind = "assistant"
             /\ TellsResult(lines, n, e) => line.kind = "result"
             /\ TellsTurn(lines, n, e) => line.kind = "prompt"
             /\ TellsError(lines, n, e) => line.kind = "error"
  BY DEF TellsCall, TellsRequest, TellsResult, TellsTurn, TellsError
<1> HIDE DEF c, a, b, M
<1>5. b \in Seq(M) /\ \A e : Has(b, e) <=> line.at # None /\ Other(e)
  <2>1. CASE line.at = None
    BY <1>3, <2>1, Nothing
  <2>2. CASE line.at # None /\ V!ByUser(line)
    <3>1. b = V!UserEvents(now, line)
      BY <1>3, <2>2
    <3>2. b \in Seq(M) /\ \A e : Has(b, e) <=> TellsResult(lines, n, e) \/ TellsTurn(lines, n, e)
      BY <2>2, <3>1, UserEventsAre DEF c, M
    <3>3. line.kind # "assistant" /\ line.kind # "error"
      BY <2>2 DEF V!ByUser
    <3>4. QED
      BY <1>4, <2>2, <3>2, <3>3
  <2>3. CASE line.at # None /\ line.kind = "assistant"
    <3>1. b = V!AssistantEvents(now, line)
      BY <1>3, <2>3 DEF V!ByUser
    <3>2. b \in Seq(M) /\ \A e : Has(b, e) <=> TellsCall(lines, n, e) \/ TellsRequest(lines, n, e)
      BY <2>3, <3>1, AssistantEventsAre DEF c, M
    <3>3. QED
      BY <1>4, <2>3, <3>2
  <2>4. CASE line.at # None /\ line.kind = "error"
    <3> DEFINE x == V!Event("api.error", <<line.request>>, V!SessionAt(lines, n), line.at, None)
    <3>1. now.session = V!SessionAt(lines, n)
      BY CarryKeeps DEF c
    <3>2. b = IF line.request = None THEN <<>> ELSE <<x>>
      BY <1>3, <2>4, <3>1 DEF V!ByUser, V!ErrorEvents
    <3>3. \A e : Other(e) <=> line.request # None /\ e = x
      BY <1>4, <2>4 DEF TellsError
    <3>4. line.request # None => x \in M
      <4>1. line.request # None => TellsLine(lines, n, x)
        BY <2>4 DEF TellsLine, TellsError
      <4>2. QED
        BY <4>1, MeantIs DEF M
    <3> HIDE DEF x, Other
    <3>5. CASE line.request = None
      BY <2>4, <3>2, <3>3, <3>5, Nothing
    <3>6. CASE line.request # None
      BY <2>4, <3>2, <3>3, <3>4, <3>6, OneOrNone
    <3>7. QED
      BY <3>5, <3>6
  <2>5. CASE line.at # None /\ ~V!ByUser(line) /\ line.kind # "assistant" /\ line.kind # "error"
    <3>1. b = <<>>
      BY <1>3, <2>5
    <3>2. \A e : ~Other(e)
      BY <1>4, <2>5 DEF V!ByUser
    <3> HIDE DEF Other
    <3>3. QED
      BY <3>1, <3>2, Nothing
  <2>6. QED
    BY <2>1, <2>2, <2>3, <2>4, <2>5
<1>6. a \o b \in Seq(M) /\ \A e : Has(a \o b, e) <=> Has(a, e) \/ Has(b, e)
  BY <1>2, <1>5, HasJoined
<1>7. \A e : TellsLine(lines, n, e) <=> (line.at # None /\ TellsStart(lines, n, e)) \/ (line.at # None /\ Other(e))
  BY DEF TellsLine
<1>8. QED
  BY <1>1, <1>2, <1>5, <1>6, <1>7 DEF c, M

(* What a line tells, and the context after it, depend on the lines up to it. *)
Agree(a, b, n) == \A m \in 1..n : a[m] = b[m]

LEMMA SameUntil ==
  ASSUME NEW j, NEW a, IsLines(a, j), NEW k, NEW b, IsLines(b, k),
         NEW n \in 0..j, n \in 0..k, Agree(a, b, n)
  PROVE  /\ Until(a, n) = Until(b, n) /\ Until(a, n) \subseteq 1..n
         /\ Answers(a, n) = Answers(b, n) /\ Counting(a, n) = Counting(b, n) /\ Loading(a, n) = Loading(b, n)
         /\ \A id : CallsUntil(a, n, id) = CallsUntil(b, n, id)
<1>1. n \in Nat /\ j \in Nat /\ k \in Nat /\ DOMAIN a = 1..j /\ DOMAIN b = 1..k
  BY DEF IsLines
<1>2. \A m : m \in Until(a, n) <=> m \in 1..n /\ a[m].at # None
  BY <1>1 DEF Until, V!Timed
<1>3. \A m : m \in Until(b, n) <=> m \in 1..n /\ b[m].at # None
  BY <1>1 DEF Until, V!Timed
<1>4. \A m \in 1..n : a[m] = b[m]
  BY DEF Agree
<1>5. Until(a, n) = Until(b, n) /\ Until(a, n) \subseteq 1..n
  BY <1>2, <1>3, <1>4
<1>6. Answers(a, n) = Answers(b, n) /\ Answers(a, n) \subseteq 1..n
  BY <1>4, <1>5 DEF Answers
<1>7. Counting(a, n) = Counting(b, n)
  BY <1>4, <1>6 DEF Counting
<1>8. Loading(a, n) = Loading(b, n)
  BY <1>4 DEF Loading
<1>9. \A id : CallsUntil(a, n, id) = CallsUntil(b, n, id)
  BY <1>4, <1>6 DEF CallsUntil
<1>10. QED
  BY <1>5, <1>6, <1>7, <1>8, <1>9

LEMMA LatestIn ==
  ASSUME NEW n \in Nat, NEW T \in SUBSET (1..n), T # {}
  PROVE  V!Latest(T) \in T /\ \A y \in T : y <= V!Latest(T)
<1>1. Max(T) \in T /\ \A y \in T : Max(T) >= y
  BY LastNumber
<1>2. \A y \in T : y <= Max(T)
  BY <1>1
<1>3. QED
  BY <1>1, <1>2 DEF V!Latest

LEMMA SameSession ==
  ASSUME NEW a, NEW b, NEW n \in Nat, Agree(a, b, n)
  PROVE  V!SessionAt(a, n) = V!SessionAt(b, n)
<1> DEFINE T(x) == {m \in 1..n : x[m].session # None}
<1>1. T(a) = T(b)
  BY DEF Agree
<1>2. T(a) # {} => V!Latest(T(a)) \in 1..n
  <2>1. T(a) \in SUBSET (1..n)
    OBVIOUS
  <2> HIDE DEF T
  <2>2. QED
    BY <2>1, LatestIn
<1>3. \A x : V!SessionAt(x, n) = IF T(x) = {} THEN None ELSE x[V!Latest(T(x))].session
  BY DEF V!SessionAt
<1> HIDE DEF T
<1>4. QED
  BY <1>1, <1>2, <1>3 DEF Agree

LEMMA SamePrompt ==
  ASSUME NEW j, NEW a, IsLines(a, j), NEW k, NEW b, IsLines(b, k),
         NEW n \in 0..j, n \in 0..k, Agree(a, b, n)
  PROVE  V!PromptAt(a, n) = V!PromptAt(b, n)
<1> DEFINE T(x) == {m \in V!Timed(x) : m <= n /\ x[m].kind \in {"prompt", "result", "meta"} /\ x[m].prompt # None}
<1>0. n \in Nat
  BY DEF IsLines
<1>1. /\ T(a) = {m \in Until(a, n) : a[m].kind \in {"prompt", "result", "meta"} /\ a[m].prompt # None}
      /\ T(b) = {m \in Until(b, n) : b[m].kind \in {"prompt", "result", "meta"} /\ b[m].prompt # None}
  BY DEF Until
<1>2. Until(a, n) = Until(b, n) /\ Until(a, n) \subseteq 1..n
  BY SameUntil
<1>3. \A x : V!PromptAt(x, n) = IF T(x) = {} THEN None ELSE x[V!Latest(T(x))].prompt
  BY DEF V!PromptAt
<1> HIDE DEF T
<1>4. T(a) = T(b) /\ T(a) \in SUBSET (1..n)
  BY <1>1, <1>2 DEF Agree
<1>5. T(a) # {} => V!Latest(T(a)) \in 1..n
  BY <1>0, <1>4, LatestIn
<1>6. QED
  BY <1>3, <1>4, <1>5 DEF Agree

LEMMA SameTelling ==
  ASSUME NEW j, NEW a, IsLines(a, j), NEW k, NEW b, IsLines(b, k),
         NEW n \in 1..j, n \in 1..k, Agree(a, b, n), NEW e, TellsLine(a, n, e)
  PROVE  TellsLine(b, n, e)
<1>1. n \in Nat /\ n - 1 \in Nat /\ n \in 0..j /\ n \in 0..k /\ n - 1 \in 0..j /\ n - 1 \in 0..k
      /\ j \in Nat /\ k \in Nat
  BY DEF IsLines
<1>2. a[n] = b[n] /\ Agree(a, b, n - 1)
  BY <1>1 DEF Agree
<1>3. V!SessionAt(a, n) = V!SessionAt(b, n)
  BY <1>1, SameSession
<1>4. V!PromptAt(a, n) = V!PromptAt(b, n)
  BY <1>1, SamePrompt
<1>5. Until(a, n - 1) = Until(b, n - 1) /\ Until(a, n - 1) \subseteq 1..(n - 1)
  BY <1>1, <1>2, SameUntil
<1>6. ASSUME NEW id
      PROVE  ResultAt(a, n, id) = ResultAt(b, n, id)
  <2> DEFINE A == {m \in V!Calling(a, id) : m < n}
             B0 == {m \in V!Calling(b, id) : m < n}
  <2>1. A = CallsUntil(a, n - 1, id) /\ B0 = CallsUntil(b, n - 1, id)
    BY CalledBefore
  <2>2. CallsUntil(a, n - 1, id) = CallsUntil(b, n - 1, id)
    BY <1>1, <1>2, SameUntil
  <2>3. A \subseteq 1..(n - 1)
    BY <1>5, <2>1 DEF CallsUntil, Answers
  <2>4. A = B0
    BY <2>1, <2>2
  <2>5. A # {} => V!Latest(A) \in 1..(n - 1)
    <3> HIDE DEF A
    <3>1. QED
      BY <1>1, <2>3, LatestIn
  <2>6. A # {} => a[V!Latest(A)].at = b[V!Latest(A)].at
    <3> HIDE DEF A
    <3>1. QED
      BY <1>2, <2>5 DEF Agree
  <2> DEFINE R(x, S) == [V!Event("tool.result", <<id>>, V!SessionAt(x, n), x[n].at, x[n].prompt)
         EXCEPT !.tool = IF S = {} THEN None ELSE id,
                !.took = IF S # {} /\ x[n].at >= x[V!Latest(S)].at THEN x[n].at - x[V!Latest(S)].at ELSE None]
  <2>7. ResultAt(a, n, id) = R(a, A) /\ ResultAt(b, n, id) = R(b, B0)
    BY DEF ResultAt
  <2>8. R(a, A) = R(b, B0)
    <3> HIDE DEF A, B0
    <3>1. CASE A = {}
      BY <1>2, <1>3, <2>4, <3>1
    <3>2. CASE A # {}
      BY <1>2, <1>3, <2>4, <2>6, <3>2
    <3>3. QED
      BY <3>1, <3>2
  <2>9. QED
    BY <2>7, <2>8
<1>7. ASSUME NEW r
      PROVE  (\A m \in Requesting(a, r) : ~ m < n) <=> (\A m \in Requesting(b, r) : ~ m < n)
  <2>1. \A m : m \in Requesting(a, r) /\ m < n <=> m \in 1..(n - 1) /\ a[m].at # None /\ a[m].kind = "assistant" /\ a[m].usage /\ a[m].request = r
    BY <1>1 DEF Requesting, V!Timed, IsLines
  <2>2. \A m : m \in Requesting(b, r) /\ m < n <=> m \in 1..(n - 1) /\ b[m].at # None /\ b[m].kind = "assistant" /\ b[m].usage /\ b[m].request = r
    BY <1>1 DEF Requesting, V!Timed, IsLines
  <2>3. \A m \in 1..(n - 1) : a[m] = b[m]
    BY <1>2 DEF Agree
  <2>4. QED
    BY <2>1, <2>2, <2>3
<1>8. \A id : CallAt(a, n, id) = CallAt(b, n, id)
  BY <1>2, <1>3, <1>4 DEF CallAt
<1>9. CASE TellsCall(a, n, e)
  BY <1>2, <1>8, <1>9 DEF TellsCall, TellsLine
<1>10. CASE TellsResult(a, n, e)
  BY <1>2, <1>6, <1>10 DEF TellsResult, TellsLine
<1>11. CASE TellsRequest(a, n, e)
  BY <1>2, <1>3, <1>7, <1>11 DEF TellsRequest, TellsLine
<1>12. CASE TellsTurn(a, n, e)
  BY <1>2, <1>3, <1>12 DEF TellsTurn, TellsLine
<1>13. CASE TellsError(a, n, e)
  BY <1>2, <1>3, <1>13 DEF TellsError, TellsLine
<1>14. CASE TellsStart(a, n, e)
  BY <1>2, <1>3, <1>5, <1>14 DEF TellsStart, TellsLine
<1>15. QED
  BY <1>9, <1>10, <1>11, <1>12, <1>13, <1>14 DEF TellsLine

LEMMA SameContext ==
  ASSUME NEW j, NEW a, IsLines(a, j), NEW k, NEW b, IsLines(b, k),
         NEW n \in 0..j, n \in 0..k, Agree(a, b, n)
  PROVE  ContextOf(a, n) = ContextOf(b, n)
<1>1. n \in Nat
  BY DEF IsLines
<1>2. /\ Until(a, n) = Until(b, n) /\ Until(a, n) \subseteq 1..n
      /\ Answers(a, n) = Answers(b, n) /\ Counting(a, n) = Counting(b, n) /\ Loading(a, n) = Loading(b, n)
      /\ \A id : CallsUntil(a, n, id) = CallsUntil(b, n, id)
  BY SameUntil
<1>3. V!SessionAt(a, n) = V!SessionAt(b, n) /\ V!PromptAt(a, n) = V!PromptAt(b, n)
  BY <1>1, SameSession, SamePrompt
<1>4. /\ Answers(a, n) \subseteq Until(a, n) /\ Counting(a, n) \subseteq Until(a, n) /\ Loading(a, n) \subseteq 1..n
      /\ \A id : CallsUntil(a, n, id) \subseteq Until(a, n)
  BY DEF Answers, Counting, Loading, CallsUntil
<1>5. \A m \in 1..n : a[m] = b[m]
  BY DEF Agree
<1>6. Until(a, n) # {} => FirstOf(a, n) \in 1..n /\ LastOf(a, n) \in 1..n
  <2>1. Until(a, n) \in SUBSET (1..n) /\ Until(a, n) \in SUBSET Nat
    BY <1>1, <1>2
  <2>2. QED
    BY <1>1, <2>1, LatestIn, EarliestOf DEF FirstOf, LastOf
<1>7. FirstOf(a, n) = FirstOf(b, n) /\ LastOf(a, n) = LastOf(b, n)
  BY <1>2 DEF FirstOf, LastOf
<1>8. Until(a, n) # {} => a[FirstOf(a, n)] = b[FirstOf(b, n)] /\ a[LastOf(a, n)] = b[LastOf(b, n)]
  BY <1>5, <1>6, <1>7
<1>9. ContextOf(a, n).calls = ContextOf(b, n).calls
  <2> DEFINE Ids(x) == UNION {V!ToSet(x[m].tools) : m \in Answers(x, n)}
  <2>1. Ids(a) = Ids(b)
    BY <1>2, <1>4, <1>5
  <2>2. ASSUME NEW id \in Ids(a)
        PROVE  a[V!Latest(CallsUntil(a, n, id))].at = b[V!Latest(CallsUntil(b, n, id))].at
    <3>1. CallsUntil(a, n, id) # {} /\ CallsUntil(a, n, id) \in SUBSET (1..n)
      BY <1>2, <1>4 DEF CallsUntil
    <3>2. V!Latest(CallsUntil(a, n, id)) \in 1..n
      BY <1>1, <3>1, LatestIn
    <3>3. QED
      BY <1>2, <1>5, <3>2
  <2> DEFINE At(x, id) == x[V!Latest(CallsUntil(x, n, id))].at
  <2>3. \A x : ContextOf(x, n).calls = [id \in Ids(x) |-> At(x, id)]
    BY DEF ContextOf
  <2>a. \A id \in Ids(a) : At(a, id) = At(b, id)
    BY <2>2
  <2> HIDE DEF Ids, At
  <2>4. [id \in Ids(a) |-> At(a, id)] = [id \in Ids(b) |-> At(b, id)]
    BY <2>1, <2>a
  <2>5. QED
    BY <2>3, <2>4
<1>10. ContextOf(a, n).counted = ContextOf(b, n).counted /\ ContextOf(a, n).loaded = ContextOf(b, n).loaded
  <2> DEFINE K == Counting(a, n)
             L == Loading(a, n)
  <2>1. /\ ContextOf(a, n).counted = {a[m].request : m \in K}
        /\ ContextOf(b, n).counted = {b[m].request : m \in K}
    BY <1>2 DEF ContextOf
  <2>2. /\ ContextOf(a, n).loaded = UNION {V!ToSet(a[m].tools) : m \in L}
        /\ ContextOf(b, n).loaded = UNION {V!ToSet(b[m].tools) : m \in L}
    BY <1>2 DEF ContextOf
  <2>3. K \subseteq 1..n /\ L \subseteq 1..n
    BY <1>2, <1>4
  <2> HIDE DEF K, L
  <2>4. /\ \A m \in K : a[m].request = b[m].request
        /\ \A m \in L : V!ToSet(a[m].tools) = V!ToSet(b[m].tools)
    BY <1>5, <2>3
  <2>5. {a[m].request : m \in K} = {b[m].request : m \in K}
    BY <2>4
  <2>6. {V!ToSet(a[m].tools) : m \in L} = {V!ToSet(b[m].tools) : m \in L}
    BY <2>4
  <2>7. QED
    BY <2>1, <2>2, <2>5, <2>6
<1>11. /\ ContextOf(a, n).session = ContextOf(b, n).session /\ ContextOf(a, n).turn = ContextOf(b, n).turn
       /\ ContextOf(a, n).first = ContextOf(b, n).first /\ ContextOf(a, n).last = ContextOf(b, n).last
       /\ ContextOf(a, n).agent = ContextOf(b, n).agent /\ ContextOf(a, n).sidechain = ContextOf(b, n).sidechain
  <2>1. CASE Until(a, n) = {}
    BY <1>2, <1>3, <2>1 DEF ContextOf
  <2>2. CASE Until(a, n) # {}
    BY <1>2, <1>3, <1>8, <2>2 DEF ContextOf
  <2>3. QED
    BY <2>1, <2>2
<1>12. \A x : ContextOf(x, n) =
         [session |-> ContextOf(x, n).session, first |-> ContextOf(x, n).first, last |-> ContextOf(x, n).last,
          turn |-> ContextOf(x, n).turn, agent |-> ContextOf(x, n).agent, sidechain |-> ContextOf(x, n).sidechain,
          calls |-> ContextOf(x, n).calls, counted |-> ContextOf(x, n).counted, loaded |-> ContextOf(x, n).loaded]
  BY DEF ContextOf
<1>13. QED
  BY <1>9, <1>10, <1>11, <1>12

-----------------------------------------------------------------------------
(* The units of a VM's transcript: the pieces of what is no finished line  *)
(* tell nothing and leave the context as it is.                            *)
Pieces == {V!Piece(kind) : kind \in {"part", "big", "more", "bigend"}}

IsUnits(u, k) ==
  /\ IsLines(u, k)
  /\ \A n \in 1..k : (V!IsLine(u[n]) /\ u[n].tools \in Seq(V!ToSet(u[n].tools))) \/ u[n] \in Pieces
  /\ \A n \in 1..k : n + 1 \in 1..k /\ u[n].kind \in {"big", "more"} => u[n + 1].kind \in {"more", "bigend"}

Within(u, n) == n # 0 /\ u[n].kind \in {"big", "more"}

LEMMA PieceSilent ==
  ASSUME NEW k, NEW u, IsLines(u, k), NEW n \in 1..k, u[n] \in Pieces
  PROVE  /\ ContextOf(u, n) = ContextOf(u, n - 1) /\ \A e : ~TellsLine(u, n, e)
         /\ u[n].kind \in {"part", "big", "more", "bigend"}
<1> DEFINE c == ContextOf(u, n - 1)
<1>1. u[n].at = None /\ u[n].session = None /\ u[n].kind \in {"part", "big", "more", "bigend"}
  BY DEF Pieces, V!Piece
<1>2. V!Line(c, u[n]).ctx = V!Carry(c, u[n])
  BY <1>1 DEF V!Line, V!Learned
<1>3. c = [session |-> c.session, first |-> c.first, last |-> c.last, turn |-> c.turn, agent |-> c.agent,
           sidechain |-> c.sidechain, calls |-> c.calls, counted |-> c.counted, loaded |-> c.loaded]
  BY DEF ContextOf
<1>4. V!Carry(c, u[n]) = c
  <2> DEFINE d == V!Carry(c, u[n])
  <2>1. d = [c EXCEPT !.session = c.session, !.first = c.first, !.last = c.last,
                      !.sidechain = c.sidechain, !.agent = c.agent]
    BY <1>1 DEF V!Carry
  <2> HIDE DEF c, d
  <2>2. QED
    BY <1>3, <2>1 DEF d
<1>5. V!Line(c, u[n]).ctx = ContextOf(u, n)
  BY ContextStep
<1>6. QED
  BY <1>1, <1>2, <1>4, <1>5 DEF TellsLine

(* A function defined by recursion over the units is one that steps.       *)
Unread(st) == [state |-> st, said |-> <<>>, over |-> FALSE]

LEMMA ReadingSteps ==
  ASSUME NEW st, NEW units, Len(units) \in Nat
  PROVE  \E g : /\ V!ReadUnits(st, units) = g[Len(units)] /\ g[0] = Unread(st)
                /\ \A n \in 1..Len(units) : g[n] = V!ReadUnit(g[n - 1], units[n])
<1> DEFINE k == Len(units)
           Fits(m, g) == g = [n \in 0..m |-> IF n = 0 THEN Unread(st) ELSE V!ReadUnit(g[n - 1], units[n])]
           Unfit == {m \in Nat : ~\E g : Fits(m, g)}
<1>1. Unfit = {}
  <2> SUFFICES ASSUME Unfit # {}
               PROVE  FALSE
    OBVIOUS
  <2>1. Unfit \in SUBSET Nat
    OBVIOUS
  <2>2. PICK m \in Unfit : \A n \in Unfit : m <= n
    BY <2>1, LeastNumber
  <2>3. m # 0
    <3> DEFINE g == [n \in 0..0 |-> Unread(st)]
    <3>1. Fits(0, g)
      OBVIOUS
    <3>2. \E f : Fits(0, f)
      <4> HIDE DEF Fits, g
      <4>1. QED
        BY <3>1
    <3>3. QED
      BY <2>2, <3>2
  <2>a. m \in Nat /\ m - 1 \in Nat /\ ~(m <= m - 1)
    BY <2>2, <2>3
  <2>4. m - 1 \notin Unfit
    <3> HIDE DEF Unfit
    <3>1. QED
      BY <2>a, <2>2
  <2>5. PICK g : Fits(m - 1, g)
    BY <2>4, <2>a
  <2>6. \A n \in 0..(m - 1) : g[n] = IF n = 0 THEN Unread(st) ELSE V!ReadUnit(g[n - 1], units[n])
    BY <2>a, <2>5
  <2> DEFINE h == [n \in 0..m |-> IF n = m THEN V!ReadUnit(g[n - 1], units[n]) ELSE g[n]]
  <2>7. ASSUME NEW n \in 0..m
        PROVE  h[n] = IF n = 0 THEN Unread(st) ELSE V!ReadUnit(h[n - 1], units[n])
    <3>1. n # 0 => n - 1 \in 0..m /\ n - 1 # m
      BY <2>a
    <3>2. n # 0 => h[n - 1] = g[n - 1]
      BY <3>1
    <3>3. h[n] = IF n = m THEN V!ReadUnit(g[n - 1], units[n]) ELSE g[n]
      OBVIOUS
    <3>4. n # m => n \in 0..(m - 1)
      BY <2>a
    <3> HIDE DEF h
    <3>5. CASE n = m
      BY <2>3, <3>2, <3>3, <3>5
    <3>6. CASE n # m
      BY <2>6, <3>2, <3>3, <3>4, <3>6
    <3>7. QED
      BY <3>5, <3>6
  <2>8. Fits(m, h)
    BY <2>7
  <2>9. \E f : Fits(m, f)
    <3> HIDE DEF Fits, h
    <3>1. QED
      BY <2>8
  <2>10. QED
    BY <2>2, <2>9
<1> DEFINE g == CHOOSE f : Fits(k, f)
<1>2. V!ReadUnits(st, units) = g[k]
  BY DEF V!ReadUnits, Unread
<1>3. Fits(k, g)
  <2>1. \E f : Fits(k, f)
    BY <1>1
  <2> HIDE DEF Fits
  <2>2. QED
    BY <2>1
<1> HIDE DEF g
<1>4. \A n \in 0..k : g[n] = IF n = 0 THEN Unread(st) ELSE V!ReadUnit(g[n - 1], units[n])
  BY <1>3
<1>5. g[0] = Unread(st) /\ \A n \in 1..k : g[n] = V!ReadUnit(g[n - 1], units[n])
  BY <1>4
<1>6. QED
  BY <1>2, <1>5

(* What a reading that began after o units has made, after n of them.      *)
StateAt(u, n, i) == [inode |-> i, offset |-> n, context |-> ContextOf(u, n), discarding |-> Within(u, n)]

ToldBy(u, o, n, s) ==
  s \in Seq(V!Meant(u)) /\ \A e : Has(s, e) <=> \E m \in (o + 1)..n : TellsLine(u, m, e)

IsReading(u, o, n, i, r) ==
  /\ r = [state |-> StateAt(u, n, i), said |-> r.said, over |-> r.over] /\ r.over \in BOOLEAN
  /\ ToldBy(u, o, n, r.said)

(* What is left of a record where some of its fields change.               *)
LEMMA ReadOver ==
  ASSUME NEW r, NEW S, NEW s, NEW b,
         r = [state |-> S, said |-> s, over |-> b]
  PROVE  [r EXCEPT !.over = TRUE] = [state |-> S, said |-> s, over |-> TRUE]
<1> DEFINE x == [r EXCEPT !.over = TRUE]
<1>1. x = [f \in {"state", "said", "over"} |-> x[f]]
  OBVIOUS
<1>2. x.state = S /\ x.said = s /\ x.over = TRUE
  OBVIOUS
<1> HIDE DEF x
<1>3. x = [state |-> S, said |-> s, over |-> TRUE]
  BY <1>1, <1>2
<1>4. QED
  BY <1>3 DEF x

LEMMA UnitRead ==
  ASSUME NEW k, NEW u, IsUnits(u, k), NEW o \in 0..k, NEW n \in o..k, n + 1 \in 1..k,
         NEW i, NEW r, IsReading(u, o, n, i, r), ~r.over
  PROVE  LET x == V!ReadUnit(r, u[n + 1])
         IN  \/ IsReading(u, o, n, i, x) /\ x.over
             \/ IsReading(u, o, n + 1, i, x) /\ ~x.over /\ u[n + 1].kind # "part"
<1> DEFINE c == ContextOf(u, n)
           y == u[n + 1]
           x == V!ReadUnit(r, y)
<1>1. /\ n \in Nat /\ k \in Nat /\ (n + 1) - 1 = n /\ o \in Nat /\ (n # 0 => n \in 1..k)
      /\ (o + 1)..(n + 1) = ((o + 1)..n) \cup {n + 1}
  <2>1. k \in Nat
    BY DEF IsUnits, IsLines
  <2>2. n \in Nat /\ o \in Nat /\ o <= n /\ n <= k
    BY <2>1
  <2>3. QED
    BY <2>1, <2>2
<1>2. r = [state |-> StateAt(u, n, i), said |-> r.said, over |-> FALSE] /\ ToldBy(u, o, n, r.said)
  BY DEF IsReading
<1>3. r.state = StateAt(u, n, i) /\ r.state.discarding = Within(u, n) /\ r.state.context = c /\ r.state.offset = n
  <2>1. r.state = StateAt(u, n, i)
    BY <1>2
  <2>2. QED
    BY <2>1 DEF StateAt
<1>4. Within(u, n) => y.kind \in {"more", "bigend"}
  BY <1>1 DEF Within, IsUnits
<1>5. CASE y.kind = "part"
  <2>1. x = [r EXCEPT !.over = TRUE]
    BY <1>3, <1>4, <1>5 DEF V!ReadUnit
  <2>2. x = [state |-> StateAt(u, n, i), said |-> r.said, over |-> TRUE]
    <3> HIDE DEF x
    <3>1. QED
      BY <1>2, <2>1, ReadOver
  <2> HIDE DEF x
  <2>3. IsReading(u, o, n, i, x) /\ x.over
    BY <1>2, <2>2 DEF IsReading
  <2>4. QED
    BY <2>3 DEF x
<1>6. CASE y.kind # "part" /\ ~V!IsLine(y)
  <2>1. y \in Pieces
    BY <1>6 DEF IsUnits
  <2>2. ContextOf(u, n + 1) = c /\ (\A e : ~TellsLine(u, n + 1, e)) /\ y.kind \in {"part", "big", "more", "bigend"}
    BY <1>1, <2>1, PieceSilent DEF IsUnits
  <2> DEFINE st == r.state
             to == st.offset + 1
             d  == y.kind # "bigend"
             T  == [st EXCEPT !.offset = to, !.discarding = d]
  <2>3. x = [r EXCEPT !.state = T]
    BY <1>2, <1>6 DEF V!ReadUnit
  <2>4. d = Within(u, n + 1) /\ to = n + 1
    BY <1>1, <1>3, <1>6, <2>2 DEF Within
  <2>5. T = StateAt(u, n + 1, i)
    <3>1. st = [inode |-> i, offset |-> n, context |-> c, discarding |-> Within(u, n)]
      BY <1>3 DEF StateAt
    <3> HIDE DEF st, to, d, c
    <3>2. /\ T = [f \in {"inode", "offset", "context", "discarding"} |-> T[f]]
          /\ T.inode = i /\ T.offset = to /\ T.context = c /\ T.discarding = d
      BY <3>1
    <3> HIDE DEF T
    <3>3. T = [inode |-> i, offset |-> to, context |-> c, discarding |-> d]
      BY <3>2
    <3>4. QED
      BY <2>2, <2>4, <3>3 DEF StateAt
  <2>6. x = [state |-> StateAt(u, n + 1, i), said |-> r.said, over |-> FALSE]
    <3> HIDE DEF x, T, st
    <3>1. x = [f \in {"state", "said", "over"} |-> x[f]]
      BY <1>2, <2>3
    <3>2. x.state = T /\ x.said = r.said /\ x.over = FALSE
      BY <1>2, <2>3
    <3>3. QED
      BY <2>5, <3>1, <3>2
  <2>7. ToldBy(u, o, n + 1, r.said)
    BY <1>1, <1>2, <2>2 DEF ToldBy
  <2> HIDE DEF x
  <2>8. IsReading(u, o, n + 1, i, x) /\ ~x.over
    BY <2>6, <2>7 DEF IsReading
  <2>9. QED
    BY <1>6, <2>8 DEF x
<1>7. CASE V!IsLine(y)
  <2>1. y.kind \notin {"part", "big", "more", "bigend"} /\ y.tools \in Seq(V!ToSet(y.tools))
    BY <1>7, PieceSilent DEF V!IsLine, IsUnits
  <2>2. ~Within(u, n) /\ ~Within(u, n + 1)
    BY <1>1, <1>4, <2>1 DEF Within
  <2> DEFINE told == V!Line(c, y)
  <2>3. told.ctx = ContextOf(u, n + 1)
    BY <1>1, ContextStep DEF IsUnits
  <2>4. told.out \in Seq(V!Meant(u)) /\ \A e : Has(told.out, e) <=> TellsLine(u, n + 1, e)
    BY <1>1, <2>1, LineTells DEF IsUnits
  <2> DEFINE st == r.state
             to == st.offset + 1
             T  == [st EXCEPT !.offset = to, !.context = told.ctx]
             t  == r.said \o told.out
  <2>5. x = [r EXCEPT !.state = T, !.said = t]
    BY <1>2, <1>3, <1>7, <2>1, <2>2 DEF V!ReadUnit
  <2>6. T = StateAt(u, n + 1, i)
    <3>1. st = [inode |-> i, offset |-> n, context |-> c, discarding |-> Within(u, n)]
      BY <1>3 DEF StateAt
    <3>2. Within(u, n) = Within(u, n + 1) /\ to = n + 1
      BY <1>3, <2>2 DEF Within
    <3> HIDE DEF st, to, c, told
    <3> DEFINE d == Within(u, n)
    <3>b. st = [inode |-> i, offset |-> n, context |-> c, discarding |-> d]
      BY <3>1
    <3> HIDE DEF d
    <3>3. /\ T = [f \in {"inode", "offset", "context", "discarding"} |-> T[f]]
          /\ T.inode = i /\ T.offset = to /\ T.context = told.ctx /\ T.discarding = d
      BY <3>b
    <3> HIDE DEF T
    <3>4. T = [inode |-> i, offset |-> to, context |-> told.ctx, discarding |-> d]
      BY <3>3
    <3>5. QED
      BY <2>3, <3>2, <3>4 DEF StateAt, d
  <2>7. x = [state |-> StateAt(u, n + 1, i), said |-> r.said \o told.out, over |-> FALSE]
    <3> HIDE DEF x, T, st, t, told
    <3>1. x = [f \in {"state", "said", "over"} |-> x[f]]
      BY <1>2, <2>5
    <3>2. x.state = T /\ x.said = t /\ x.over = FALSE
      BY <1>2, <2>5
    <3>3. x = [state |-> T, said |-> t, over |-> FALSE]
      BY <3>1, <3>2
    <3>4. QED
      BY <2>6, <3>3 DEF t
  <2> HIDE DEF told
  <2>8. ToldBy(u, o, n + 1, r.said \o told.out)
    <3>1. r.said \in Seq(V!Meant(u)) /\ \A e : Has(r.said, e) <=> \E m \in (o + 1)..n : TellsLine(u, m, e)
      BY <1>2 DEF ToldBy
    <3>2. /\ r.said \o told.out \in Seq(V!Meant(u))
          /\ \A e : Has(r.said \o told.out, e) <=> Has(r.said, e) \/ Has(told.out, e)
      BY <2>4, <3>1, HasJoined
    <3>3. QED
      BY <1>1, <2>4, <3>1, <3>2 DEF ToldBy
  <2> HIDE DEF x
  <2>9. IsReading(u, o, n + 1, i, x) /\ ~x.over
    BY <2>7, <2>8 DEF IsReading
  <2>10. QED
    BY <2>1, <2>9 DEF x
<1>8. QED
  BY <1>5, <1>6, <1>7

LEMMA ReadTold ==
  ASSUME NEW X, NEW u \in Seq(X), IsUnits(u, Len(u)), NEW o \in 0..Len(u), NEW to \in o..Len(u), NEW i,
         o # 0 => u[o].kind # "part"
  PROVE  LET r == V!ReadUnits(StateAt(u, o, i), SubSeq(u, o + 1, to))
         IN  \E m \in o..to : IsReading(u, o, m, i, r) /\ (m # 0 => u[m].kind # "part")
<1> DEFINE k == Len(u)
           st == StateAt(u, o, i)
           units == SubSeq(u, o + 1, to)
           b == to - o
<1>1. k \in Nat /\ o \in Nat /\ to \in Nat /\ o <= to /\ to <= k /\ b \in Nat
  OBVIOUS
<1>2. Len(units) = b /\ \A n \in 1..b : units[n] = u[o + n] /\ o + n \in 1..k
  BY <1>1
<1>3. PICK g : /\ V!ReadUnits(st, units) = g[Len(units)] /\ g[0] = Unread(st)
               /\ \A n \in 1..Len(units) : g[n] = V!ReadUnit(g[n - 1], units[n])
  <2>1. Len(units) \in Nat
    BY <1>1, <1>2
  <2> HIDE DEF st, units
  <2>2. QED
    BY <2>1, ReadingSteps, Zenon
<1> DEFINE Good(n) == \E m \in o..(o + n) : /\ IsReading(u, o, m, i, g[n]) /\ (m # 0 => u[m].kind # "part")
                                            /\ ~g[n].over => m = o + n
           Wrong == {n \in 0..b : ~Good(n)}
<1>4. Good(0)
  <2>1. ToldBy(u, o, o, <<>>)
    <3>1. (o + 1)..o = {}
      BY <1>1
    <3>2. QED
      BY <3>1, Nothing DEF ToldBy
  <2>2. IsReading(u, o, o, i, g[0])
    BY <1>3, <2>1 DEF IsReading, Unread
  <2>3. o \in o..(o + 0) /\ o = o + 0
    BY <1>1
  <2>4. QED
    BY <2>2, <2>3
<1>5. ASSUME NEW n \in 1..b, Good(n - 1)
      PROVE  Good(n)
  <2>1. n \in Nat /\ n - 1 \in Nat /\ o + (n - 1) + 1 = o + n
    BY <1>1
  <2>2. PICK m \in o..(o + (n - 1)) : /\ IsReading(u, o, m, i, g[n - 1]) /\ (m # 0 => u[m].kind # "part")
                                      /\ ~g[n - 1].over => m = o + (n - 1)
    BY <1>5
  <2>3. g[n] = V!ReadUnit(g[n - 1], u[o + n])
    BY <1>2, <1>3
  <2>4. CASE g[n - 1].over
    <3> DEFINE r == g[n - 1]
               x == [r EXCEPT !.over = TRUE]
    <3>1. g[n] = x
      BY <2>3, <2>4 DEF V!ReadUnit
    <3>2. r = [state |-> StateAt(u, m, i), said |-> r.said, over |-> r.over] /\ ToldBy(u, o, m, r.said)
      BY <2>2 DEF IsReading
    <3> HIDE DEF r
    <3>3. x = [state |-> StateAt(u, m, i), said |-> r.said, over |-> TRUE]
      BY <3>2, ReadOver
    <3> HIDE DEF x
    <3>4. IsReading(u, o, m, i, x) /\ x.over
      BY <3>2, <3>3 DEF IsReading
    <3>5. m \in o..(o + n)
      BY <1>1, <2>1
    <3>6. QED
      BY <2>2, <3>1, <3>4, <3>5
  <2>5. CASE ~g[n - 1].over
    <3>1. m = o + (n - 1) /\ m \in o..k /\ m + 1 = o + n /\ m + 1 \in 1..k
      BY <1>1, <1>2, <2>1, <2>2, <2>5
    <3>2. \/ IsReading(u, o, m, i, g[n]) /\ g[n].over
          \/ IsReading(u, o, m + 1, i, g[n]) /\ ~g[n].over /\ u[m + 1].kind # "part"
      BY <2>2, <2>3, <2>5, <3>1, UnitRead
    <3>3. m \in o..(o + n) /\ m + 1 \in o..(o + n)
      BY <1>1, <2>1, <3>1
    <3>4. QED
      BY <2>2, <3>1, <3>2, <3>3
  <2>6. QED
    BY <2>4, <2>5
<1>6. Wrong = {}
  <2> SUFFICES ASSUME Wrong # {}
               PROVE  FALSE
    OBVIOUS
  <2>1. Wrong \in SUBSET Nat
    OBVIOUS
  <2>2. PICK n \in Wrong : \A m \in Wrong : n <= m
    BY <2>1, LeastNumber
  <2> HIDE DEF Good
  <2>3. n \in 1..b /\ n - 1 \in 0..b /\ ~(n <= n - 1)
    BY <1>1, <1>4, <2>2
  <2>4. Good(n - 1)
    BY <2>2, <2>3
  <2>5. QED
    BY <1>5, <2>2, <2>3, <2>4
<1>7. Good(b)
  <2> HIDE DEF Good
  <2>1. b \in 0..b
    BY <1>1
  <2>2. QED
    BY <1>6, <2>1
<1>8. PICK m \in o..(o + b) : IsReading(u, o, m, i, g[b]) /\ (m # 0 => u[m].kind # "part")
  BY <1>7
<1>9. g[b] = V!ReadUnits(st, units) /\ o + b = to
  BY <1>1, <1>2, <1>3
<1> HIDE DEF b, units, st
<1>10. \E n \in o..to : IsReading(u, o, n, i, V!ReadUnits(st, units)) /\ (n # 0 => u[n].kind # "part")
  BY <1>8, <1>9
<1>11. QED
  BY <1>10 DEF units, st

-----------------------------------------------------------------------------
(* Sequences no two elements of which have the same identity.              *)
Apart(s) == \A m, n \in 1..Len(s) : V!Identity(s[m]) = V!Identity(s[n]) => m = n

LEMMA JoinedApart ==
  ASSUME NEW X, NEW s \in Seq(X), NEW t \in Seq(X), Apart(s), Apart(t),
         \A d, e : Has(s, d) /\ Has(t, e) => V!Identity(d) # V!Identity(e)
  PROVE  Apart(s \o t)
<1>1. /\ Len(s \o t) = Len(s) + Len(t) /\ Len(s) \in Nat /\ Len(t) \in Nat
      /\ \A i \in 1..Len(s \o t) : (s \o t)[i] = IF i <= Len(s) THEN s[i] ELSE t[i - Len(s)]
  OBVIOUS
<1>2. \A i \in 1..Len(s \o t) : /\ i <= Len(s) => i \in 1..Len(s) /\ Has(s, (s \o t)[i])
                                /\ ~(i <= Len(s)) => i - Len(s) \in 1..Len(t) /\ Has(t, (s \o t)[i])
  BY <1>1 DEF Has
<1> DEFINE j == s \o t
<1>3. ASSUME NEW m \in 1..Len(j), NEW n \in 1..Len(j), V!Identity(j[m]) = V!Identity(j[n])
      PROVE  m = n
  <2>1. m <= Len(s) <=> n <= Len(s)
    <3> HIDE DEF j
    <3>1. /\ Has(s, j[m]) /\ Has(t, j[n]) => FALSE
          /\ Has(s, j[n]) /\ Has(t, j[m]) => FALSE
      BY <1>3
    <3>2. QED
      BY <1>2, <1>3, <3>1 DEF j
  <2>2. CASE m <= Len(s)
    <3>1. j[m] = s[m] /\ j[n] = s[n] /\ m \in 1..Len(s) /\ n \in 1..Len(s)
      BY <1>1, <1>2, <1>3, <2>1, <2>2
    <3> HIDE DEF j
    <3>2. QED
      BY <1>3, <3>1 DEF Apart
  <2>3. CASE ~(m <= Len(s))
    <3>1. j[m] = t[m - Len(s)] /\ j[n] = t[n - Len(s)] /\ m - Len(s) \in 1..Len(t) /\ n - Len(s) \in 1..Len(t)
      BY <1>1, <1>2, <1>3, <2>1, <2>3
    <3> HIDE DEF j
    <3>2. m - Len(s) = n - Len(s)
      BY <1>3, <3>1 DEF Apart
    <3>3. QED
      BY <1>1, <1>3, <3>2 DEF j
  <2>4. QED
    BY <2>2, <2>3
<1>4. QED
  BY <1>3 DEF Apart

LEMMA FlattenedApart ==
  ASSUME NEW X, NEW k \in Nat, NEW s \in [1..k -> Seq(X)], \A i \in 1..k : Apart(s[i]),
         \A i, j \in 1..k : i < j => \A d, e : Has(s[i], d) /\ Has(s[j], e) => V!Identity(d) # V!Identity(e)
  PROVE  Apart(FlattenSeq(s))
<1>1. Len(s) = k
  OBVIOUS
<1>2. CASE k = 0
  <2>1. FlattenSeq(s) = s
    BY <1>1, <1>2 DEF FlattenSeq
  <2>2. QED
    BY <1>1, <1>2, <2>1 DEF Apart
<1>3. CASE k # 0
  <2>1. PICK g : FlattenSeq(s) = g[k] /\ \A i \in 1..k : g[i] = IF i = 1 THEN s[i] ELSE g[i - 1] \o s[i]
    <3>1. Len(s) \in Nat /\ Len(s) # 0
      BY <1>1, <1>3
    <3>2. \E g : /\ FlattenSeq(s) = g[Len(s)]
                 /\ \A i \in 1..Len(s) : g[i] = IF i = 1 THEN s[i] ELSE g[i - 1] \o s[i]
      BY <3>1, FlattenedSteps, Zenon
    <3>3. QED
      BY <1>1, <3>2
  <2> DEFINE Good(i) == g[i] \in Seq(X) /\ (\A e : Has(g[i], e) => \E j \in 1..i : Has(s[j], e)) /\ Apart(g[i])
             Wrong == {i \in 1..k : ~Good(i)}
  <2>2. k >= 1 => Good(1)
    <3>1. k >= 1 => g[1] = s[1] /\ 1 \in 1..k /\ 1 \in 1..1
      BY <2>1
    <3>2. QED
      BY <3>1
  <2>3. ASSUME NEW i \in 1..k, i # 1, Good(i - 1)
        PROVE  Good(i)
    <3>1. g[i] = g[i - 1] \o s[i] /\ s[i] \in Seq(X) /\ Apart(s[i])
      BY <2>1, <2>3
    <3>2. g[i] \in Seq(X) /\ \A e : Has(g[i], e) <=> Has(g[i - 1], e) \/ Has(s[i], e)
      BY <2>3, <3>1, HasJoined
    <3>3. \A j \in 1..(i - 1) : j \in 1..i /\ j \in 1..k /\ j < i
      OBVIOUS
    <3>4. \A d, e : Has(g[i - 1], d) /\ Has(s[i], e) => V!Identity(d) # V!Identity(e)
      BY <2>3, <3>3
    <3>5. Apart(g[i])
      BY <2>3, <3>1, <3>4, JoinedApart
    <3>6. i \in 1..i
      OBVIOUS
    <3>7. QED
      BY <2>3, <3>2, <3>3, <3>5, <3>6
  <2>4. Wrong = {}
    <3> SUFFICES ASSUME Wrong # {}
                 PROVE  FALSE
      OBVIOUS
    <3>1. Wrong \in SUBSET Nat
      OBVIOUS
    <3>2. PICK i \in Wrong : \A j \in Wrong : i <= j
      BY <3>1, LeastNumber
    <3> HIDE DEF Good
    <3>3. i \in 1..k /\ i # 1
      BY <2>2, <3>2
    <3>4. i - 1 \in 1..k /\ ~(i <= i - 1)
      BY <3>3
    <3>5. Good(i - 1)
      BY <3>2, <3>4
    <3>6. QED
      BY <2>3, <3>2, <3>3, <3>5
  <2>5. Good(k)
    <3> HIDE DEF Good
    <3>1. k \in 1..k
      BY <1>3
    <3>2. QED
      BY <3>1, <2>4
  <2>6. QED
    BY <2>1, <2>5
<1>4. QED
  BY <1>2, <1>3

(* Of what was said, the first event of each identity not known before.    *)
LEMMA NewIs ==
  ASSUME NEW X, NEW said \in Seq(X)
  PROVE  /\ V!New(said) \in Seq(X) /\ Apart(V!New(said))
         /\ \A e : Has(V!New(said), e) => Has(said, e) /\ V!Identity(e) \notin seen
         /\ \A e : Has(said, e) /\ V!Identity(e) \notin seen =>
              \E d : Has(V!New(said), d) /\ V!Identity(d) = V!Identity(e)
<1> DEFINE k == Len(said)
           Met(n) == seen \cup {V!Identity(said[m]) : m \in 1..(n - 1)}
           One(n) == IF V!Identity(said[n]) \in Met(n) THEN <<>> ELSE <<said[n]>>
           s == [n \in 1..k |-> One(n)]
<1>1. k \in Nat /\ DOMAIN said = 1..k /\ \A n \in 1..k : said[n] \in X
  OBVIOUS
<1>2. V!New(said) = V!FlattenSeq(s)
  BY <1>1 DEF V!New
<1>3. V!FlattenSeq(s) = FlattenSeq(s)
  <2> HIDE DEF s
  <2>1. QED
    BY DEF V!FlattenSeq, FlattenSeq
<1>4. \A n \in 1..k : s[n] = One(n)
  OBVIOUS
<1>5. ASSUME NEW n \in 1..k
      PROVE  s[n] \in Seq(X) /\ Apart(s[n])
             /\ \A e : Has(s[n], e) <=> e = said[n] /\ V!Identity(said[n]) \notin Met(n)
  <2>1. CASE V!Identity(said[n]) \in Met(n)
    <3>1. s[n] = <<>>
      BY <1>4, <2>1
    <3> HIDE DEF s, Met
    <3>2. QED
      BY <2>1, <3>1, Nothing DEF Apart
  <2>2. CASE V!Identity(said[n]) \notin Met(n)
    <3>1. s[n] = <<said[n]>> /\ said[n] \in X
      BY <1>1, <1>4, <2>2
    <3>2. Len(s[n]) = 1
      BY <3>1
    <3> HIDE DEF s, Met
    <3>3. s[n] \in Seq(X) /\ \A e : Has(s[n], e) <=> e = said[n]
      BY <3>1, OneOrNone
    <3>4. Apart(s[n])
      BY <3>2 DEF Apart
    <3>5. QED
      BY <2>2, <3>3, <3>4
  <2>3. QED
    BY <2>1, <2>2
<1>6. s \in [1..k -> Seq(X)]
  <2>1. s = [n \in 1..k |-> s[n]]
    OBVIOUS
  <2> HIDE DEF s
  <2>2. QED
    BY <1>5, <2>1
<1>7. ASSUME NEW i \in 1..k, NEW j \in 1..k, i < j, NEW d, NEW e, Has(s[i], d), Has(s[j], e)
      PROVE  V!Identity(d) # V!Identity(e)
  <2> HIDE DEF s
  <2>1. d = said[i] /\ e = said[j] /\ V!Identity(said[j]) \notin Met(j)
    BY <1>5, <1>7
  <2>2. i \in 1..(j - 1)
    BY <1>7
  <2>3. QED
    BY <2>1, <2>2
<1> HIDE DEF s
<1>8. FlattenSeq(s) \in Seq(X) /\ \A e : Has(FlattenSeq(s), e) <=> \E i \in 1..k : Has(s[i], e)
  BY <1>1, <1>6, Flattened
<1>9. Apart(FlattenSeq(s))
  BY <1>1, <1>5, <1>6, <1>7, FlattenedApart
<1>10. ASSUME NEW e, Has(FlattenSeq(s), e)
       PROVE  Has(said, e) /\ V!Identity(e) \notin seen
  <2>1. PICK i \in 1..k : Has(s[i], e)
    BY <1>8, <1>10
  <2>2. e = said[i] /\ V!Identity(said[i]) \notin Met(i)
    BY <1>5, <2>1
  <2>3. QED
    BY <1>1, <2>2 DEF Has
<1>11. ASSUME NEW e, Has(said, e), V!Identity(e) \notin seen
       PROVE  \E d : Has(FlattenSeq(s), d) /\ V!Identity(d) = V!Identity(e)
  <2> DEFINE T == {n \in 1..k : V!Identity(said[n]) = V!Identity(e)}
  <2>1. T \in SUBSET Nat /\ T # {}
    BY <1>11 DEF Has
  <2>2. PICK n \in T : \A m \in T : n <= m
    BY <2>1, LeastNumber
  <2>3. ASSUME V!Identity(said[n]) \in Met(n)
        PROVE  FALSE
    <3>1. PICK m \in 1..(n - 1) : V!Identity(said[m]) = V!Identity(said[n])
      BY <1>11, <2>2, <2>3
    <3>2. m \in T /\ ~(n <= m)
      BY <1>1, <2>2, <3>1
    <3>3. QED
      BY <2>2, <3>2
  <2>4. Has(s[n], said[n])
    BY <1>5, <2>2, <2>3
  <2>5. QED
    BY <1>8, <2>2, <2>4
<1>12. QED
  BY <1>2, <1>3, <1>8, <1>9, <1>10, <1>11

-----------------------------------------------------------------------------
(* The files of the VM: each a script to where it was written, the last    *)
(* line perhaps unfinished.                                                *)
VmText   == (UNION {V!ToSet(VmScripts[p]) : p \in VmPaths}) \cup {V!Piece("part")}
VmEvents == UNION {V!Meant(VmScripts[p]) : p \in VmPaths}

Follows(units, script) ==
  /\ Len(units) <= Len(script)
  /\ \A n \in 1..Len(units) :
       units[n] = script[n] \/ (n = Len(units) /\ units[n] = V!Piece("part") /\ V!IsLine(script[n]))

LEMMA ScriptUnits ==
  ASSUME NEW p \in VmPaths
  PROVE  /\ VmScripts[p] \in Seq(VmText) /\ IsUnits(VmScripts[p], Len(VmScripts[p]))
         /\ \A n \in 1..Len(VmScripts[p]) : VmScripts[p][n].kind # "part"
<1> DEFINE s == VmScripts[p]
<1>1. s \in Seq(ToSet(s)) /\ DOMAIN s = 1..Len(s) /\ Len(s) \in Nat
  BY VmAssumption DEF IsSequence
<1>2. ToSet(s) = V!ToSet(s)
  BY DEF ToSet, V!ToSet
<1>3. s \in Seq(VmText)
  BY <1>1, <1>2 DEF VmText
<1>4. ASSUME NEW n \in 1..Len(s)
      PROVE  ((V!IsLine(s[n]) /\ s[n].tools \in Seq(V!ToSet(s[n].tools))) \/ s[n] \in Pieces) /\ s[n].kind # "part"
  <2>1. CASE V!IsLine(s[n])
    <3>1. IsSequence(s[n].tools)
      BY <1>1, <2>1, VmAssumption
    <3>2. s[n].tools \in Seq(V!ToSet(s[n].tools))
      BY <3>1 DEF IsSequence, ToSet, V!ToSet
    <3>3. QED
      BY <2>1, <3>2 DEF V!IsLine
  <2>2. CASE ~V!IsLine(s[n])
    <3>1. s[n] \in {V!Piece(k) : k \in {"big", "more", "bigend"}}
      BY <1>1, <2>2, VmAssumption
    <3>2. QED
      BY <3>1 DEF Pieces, V!Piece
  <2>3. QED
    BY <2>1, <2>2
<1>5. \A n \in 1..Len(s) : n + 1 \in 1..Len(s) /\ s[n].kind \in {"big", "more"} => s[n + 1].kind \in {"more", "bigend"}
  BY <1>1, VmAssumption
<1> HIDE DEF s
<1>6. IsUnits(s, Len(s))
  BY <1>1, <1>4, <1>5 DEF IsUnits, IsLines
<1>7. QED
  BY <1>3, <1>4, <1>6 DEF s

LEMMA PartIs == V!Piece("part").kind = "part" /\ V!Piece("part") \in Pieces /\ V!Piece("part") \in VmText
<1>1. V!Piece("part").kind = "part"
  BY DEF V!Piece
<1>2. V!Piece("part") \in Pieces
  BY DEF Pieces
<1>3. V!Piece("part") \in VmText
  BY DEF VmText
<1>4. QED
  BY <1>1, <1>2, <1>3

LEMMA FollowsUnits ==
  ASSUME NEW p \in VmPaths, NEW units \in Seq(VmText), Follows(units, VmScripts[p])
  PROVE  IsUnits(units, Len(units)) /\ V!Meant(units) \subseteq VmEvents
<1> DEFINE s == VmScripts[p]
<1>1. s \in Seq(VmText) /\ IsUnits(s, Len(s)) /\ \A n \in 1..Len(s) : s[n].kind # "part"
  BY ScriptUnits
<1> HIDE DEF s
<1>2. /\ Len(units) \in Nat /\ DOMAIN units = 1..Len(units) /\ Len(s) \in Nat /\ DOMAIN s = 1..Len(s)
      /\ Len(units) <= Len(s) /\ \A n \in 1..Len(units) : n \in 1..Len(s)
  BY <1>1 DEF Follows, s
<1>3. IsLines(units, Len(units)) /\ IsLines(s, Len(s))
  BY <1>2 DEF IsLines
<1>4. \A n \in 1..Len(units) :
        units[n] = s[n] \/ (n = Len(units) /\ units[n] = V!Piece("part") /\ V!IsLine(s[n]))
  BY DEF Follows, s
<1>5. \A n \in 1..Len(units) : (V!IsLine(units[n]) /\ units[n].tools \in Seq(V!ToSet(units[n].tools))) \/ units[n] \in Pieces
  BY <1>1, <1>2, <1>4, PartIs DEF IsUnits
<1>6. ASSUME NEW n \in 1..Len(units), n + 1 \in 1..Len(units), units[n].kind \in {"big", "more"}
      PROVE  units[n + 1].kind \in {"more", "bigend"}
  <2>0. n # Len(units)
    <3>1. Len(units) \in Nat
      BY <1>2
    <3>2. QED
      BY <1>6, <3>1
  <2>1. units[n] = s[n]
    BY <1>4, <2>0
  <2>2. s[n + 1].kind \in {"more", "bigend"}
    BY <1>1, <1>2, <1>6, <2>1 DEF IsUnits
  <2>3. QED
    BY <1>4, <1>6, <2>2 DEF V!IsLine
<1>7. ASSUME NEW e \in V!Meant(units)
      PROVE  e \in VmEvents
  <2>1. PICK n \in 1..Len(units) : TellsLine(units, n, e)
    BY <1>3, MeantIs
  <2>2. units[n] = s[n]
    <3>1. units[n] # V!Piece("part")
      BY <1>3, <2>1, PartIs, PieceSilent
    <3>2. QED
      BY <1>4, <3>1
  <2>3. \A m \in 1..n : m \in 1..Len(units) /\ (m = n \/ m # Len(units))
    <3>1. n \in Nat /\ n <= Len(units) /\ Len(units) \in Nat
      BY <1>2
    <3>2. QED
      BY <3>1
  <2>4. Agree(units, s, n)
    BY <1>4, <2>2, <2>3 DEF Agree
  <2>5. n \in 1..Len(s) /\ TellsLine(s, n, e)
    BY <1>2, <1>3, <2>1, <2>4, SameTelling
  <2>6. e \in V!Meant(s)
    BY <1>3, <2>5, MeantIs
  <2>7. QED
    BY <2>6 DEF VmEvents, s
<1>8. IsUnits(units, Len(units))
  BY <1>3, <1>5, <1>6 DEF IsUnits
<1>9. QED
  BY <1>7, <1>8

(* What was read stays read where the file is the same up to there.        *)
LEMMA ReadStays ==
  ASSUME NEW X, NEW a \in Seq(X), NEW b \in Seq(X), NEW n \in 0..Len(a), n \in 0..Len(b), Agree(a, b, n), NEW i
  PROVE  /\ StateAt(a, n, i) = StateAt(b, n, i)
         /\ \A m \in 1..n : \A e : TellsLine(a, m, e) <=> TellsLine(b, m, e)
<1>1. IsLines(a, Len(a)) /\ IsLines(b, Len(b)) /\ Len(a) \in Nat /\ Len(b) \in Nat
  BY DEF IsLines
<1>2. ContextOf(a, n) = ContextOf(b, n)
  BY <1>1, SameContext
<1>3. Within(a, n) = Within(b, n)
  <2>1. n # 0 => a[n] = b[n]
    BY <1>1 DEF Agree
  <2>2. QED
    BY <2>1 DEF Within
<1>4. StateAt(a, n, i) = StateAt(b, n, i)
  BY <1>2, <1>3 DEF StateAt
<1>5. ASSUME NEW m \in 1..n, NEW e
      PROVE  TellsLine(a, m, e) <=> TellsLine(b, m, e)
  <2>1. Agree(a, b, m) /\ Agree(b, a, m) /\ m \in 1..Len(a) /\ m \in 1..Len(b)
    BY <1>1 DEF Agree
  <2>2. TellsLine(a, m, e) => TellsLine(b, m, e)
    BY <1>1, <2>1, SameTelling
  <2>3. TellsLine(b, m, e) => TellsLine(a, m, e)
    BY <1>1, <2>1, SameTelling
  <2>4. QED
    BY <2>2, <2>3
<1>6. QED
  BY <1>4, <1>5

LEMMA FinishedIs ==
  ASSUME NEW X, NEW units \in Seq(X)
  PROVE  LET whole == V!Finished(units)
         IN  /\ whole \in Seq(X) /\ Len(whole) <= Len(units) /\ \A n \in 1..Len(whole) : whole[n] = units[n]
             /\ \A n \in 1..Len(units) : n \in 1..Len(whole) \/ (n = Len(units) /\ units[n].kind = "part")
             /\ \A n \in 1..Len(whole) : n # Len(units) \/ units[n].kind # "part"
<1>0. Len(units) \in Nat
  OBVIOUS
<1>1. CASE V!Unfinished(units)
  <2>1. units # <<>> /\ units[Len(units)].kind = "part" /\ V!Finished(units) = SubSeq(units, 1, Len(units) - 1)
    BY <1>1 DEF V!Unfinished, V!Finished, V!Last, V!Front
  <2>2. Len(units) - 1 \in Nat
    BY <1>0, <2>1
  <2> DEFINE whole == SubSeq(units, 1, Len(units) - 1)
  <2> DEFINE b == Len(units) - 1
  <2>a. b \in Nat /\ b <= Len(units)
    BY <1>0, <2>2
  <2>b. SubSeq(units, 1, b) \in Seq(X) /\ Len(SubSeq(units, 1, b)) = b /\ \A n \in 1..b : SubSeq(units, 1, b)[n] = units[n]
    <3> HIDE DEF b
    <3>1. QED
      BY <1>0, <2>a
  <2>3. whole \in Seq(X) /\ Len(whole) = Len(units) - 1 /\ \A n \in 1..Len(whole) : whole[n] = units[n]
    BY <2>a, <2>b
  <2> HIDE DEF whole
  <2>4. /\ \A n \in 1..Len(units) : n \in 1..Len(whole) \/ (n = Len(units) /\ units[n].kind = "part")
        /\ \A n \in 1..Len(whole) : n # Len(units)
    BY <1>0, <2>1, <2>2, <2>3
  <2>5. QED
    BY <1>0, <2>1, <2>3, <2>4 DEF whole
<1>2. CASE ~V!Unfinished(units)
  <2>1. V!Finished(units) = units
    BY <1>2 DEF V!Finished
  <2>2. units # <<>> => units[Len(units)].kind # "part"
    BY <1>2 DEF V!Unfinished, V!Last
  <2>3. QED
    BY <1>0, <2>1, <2>2
<1>3. QED
  BY <1>1, <1>2

-----------------------------------------------------------------------------
(* The invariant of the Cowork tailer: a file that is still the one read   *)
(* was read, line by line, to the position, in the context of its lines,   *)
(* and what it told is known; what is known is what was handed on.         *)
Known == V!Identities(recorded \cup V!ToSet(handed))

VmFilesOK ==
  /\ disk \in [VmPaths -> [inode : Nat, script : VmPaths \cup {0}, units : Seq(VmText), anew : BOOLEAN]]
  /\ inodes \in Nat /\ \A p \in VmPaths : disk[p].inode <= inodes
  /\ \A p \in VmPaths : disk[p].inode # 0 =>
       disk[p].script \in VmPaths /\ Follows(disk[p].units, VmScripts[disk[p].script])

TailedOK ==
  /\ DOMAIN tailed \subseteq VmPaths
  /\ \A p \in DOMAIN tailed :
       /\ tailed[p].offset \in Nat /\ tailed[p].inode \in Nat /\ tailed[p].inode <= inodes
       /\ tailed[p].offset = 0 => tailed[p] = StateAt(<<>>, 0, tailed[p].inode)

Same(p) ==
  disk[p].inode # 0 /\ tailed[p].inode = disk[p].inode /\ tailed[p].offset <= Len(disk[p].units)

IsReadTo(p) ==
  LET units == disk[p].units
      n     == tailed[p].offset
  IN  /\ tailed[p] = StateAt(units, n, tailed[p].inode)
      /\ n # 0 => units[n].kind # "part"
      /\ \A m \in 1..n : \A e : TellsLine(units, m, e) => V!Identity(e) \in Known

ReadIsSound ==
  \A p \in DOMAIN tailed :
    (Same(p) => IsReadTo(p)) /\ (disk[p].inode # 0 /\ ~disk[p].anew => Same(p))

KnownIs ==
  /\ todo # None \/ handed # <<>> \/ seen # None \/ DOMAIN tailed # {} => seen = Known
  /\ todo = None \/ todo \in SUBSET VmPaths
  /\ todo = None => handed = <<>>

HandedApart == Apart(handed) /\ V!Identities(V!ToSet(handed)) \cap V!Identities(recorded) = {}
MeantOnly   == handed \in Seq(VmEvents) /\ recorded \subseteq VmEvents

CoworkInv == VmFilesOK /\ TailedOK /\ ReadIsSound /\ KnownIs /\ HandedApart /\ MeantOnly

LEMMA ReadNothing ==
  ASSUME NEW X, NEW u \in Seq(X), NEW i
  PROVE  /\ StateAt(u, 0, i) = StateAt(<<>>, 0, i)
         /\ StateAt(<<>>, 0, i) = [V!Untailed EXCEPT !.inode = i]
<1>1. /\ <<>> \in Seq(X) /\ Len(<<>>) = 0 /\ Agree(u, <<>>, 0) /\ 0 \in 0..Len(u) /\ 0 \in 0..Len(<<>>)
      /\ IsLines(<<>>, 0)
  BY DEF Agree, IsLines
<1>2. StateAt(u, 0, i) = StateAt(<<>>, 0, i)
  <2> DEFINE none == <<>>
             z == 0
  <2>1. none \in Seq(X) /\ z \in 0..Len(u) /\ z \in 0..Len(none) /\ Agree(u, none, z)
    BY <1>1
  <2> HIDE DEF none, z
  <2>2. StateAt(u, z, i) = StateAt(none, z, i)
    BY <2>1, ReadStays
  <2>3. QED
    BY <2>2 DEF none, z
<1>3. ContextOf(<<>>, 0) = V!NewNormalizer /\ Within(<<>>, 0) = FALSE
  BY <1>1, UntilNone DEF Within
<1> DEFINE x == [V!Untailed EXCEPT !.inode = i]
<1>4. /\ x = [f \in {"inode", "offset", "context", "discarding"} |-> x[f]]
      /\ x.inode = i /\ x.offset = 0 /\ x.context = V!NewNormalizer /\ x.discarding = FALSE
  BY DEF V!Untailed
<1> HIDE DEF x
<1>5. x = [inode |-> i, offset |-> 0, context |-> V!NewNormalizer, discarding |-> FALSE]
  BY <1>4
<1>6. QED
  BY <1>2, <1>3, <1>5 DEF StateAt, x

LEMMA StateFields ==
  ASSUME NEW u, NEW n, NEW i
  PROVE  /\ StateAt(u, n, i).inode = i /\ StateAt(u, n, i).offset = n
         /\ StateAt(u, n, i).context = ContextOf(u, n) /\ StateAt(u, n, i).discarding = Within(u, n)
BY DEF StateAt

LEMMA CoworkShows == CoworkInv => V!CoworkIsMeant /\ V!HandedOnce /\ V!ReadIsRecorded /\ V!PositionIsSound
<1> SUFFICES ASSUME CoworkInv
             PROVE  V!CoworkIsMeant /\ V!HandedOnce /\ V!ReadIsRecorded /\ V!PositionIsSound
  OBVIOUS
<1>1. /\ VmFilesOK /\ TailedOK /\ ReadIsSound /\ KnownIs /\ HandedApart /\ MeantOnly
      /\ DOMAIN handed = 1..Len(handed) /\ DOMAIN tailed \subseteq VmPaths
  BY DEF CoworkInv, MeantOnly, TailedOK
<1>2. V!CoworkIsMeant
  <2>1. V!ToSet(handed) \subseteq VmEvents /\ recorded \subseteq VmEvents
    BY <1>1 DEF MeantOnly, V!ToSet
  <2>2. QED
    BY <2>1 DEF V!CoworkIsMeant, VmEvents
<1>3. V!HandedOnce
  BY <1>1 DEF V!HandedOnce, HandedApart, Apart
<1>4. ASSUME NEW p \in DOMAIN tailed, disk[p].inode # 0, ~disk[p].anew
      PROVE  IsReadTo(p) /\ tailed[p].offset \in 0..Len(disk[p].units) /\ disk[p].units \in Seq(VmText)
  <2>1. Same(p) /\ IsReadTo(p)
    BY <1>1, <1>4 DEF ReadIsSound
  <2>2. tailed[p].offset \in Nat /\ disk[p].units \in Seq(VmText)
    BY <1>1 DEF TailedOK, VmFilesOK
  <2>3. QED
    BY <2>1, <2>2 DEF Same
<1>5. ASSUME todo = None, NEW p \in DOMAIN tailed, disk[p].inode # 0, ~disk[p].anew
      PROVE  V!Identities(V!Meant(SubSeq(disk[p].units, 1, tailed[p].offset))) \subseteq V!Identities(recorded)
  <2> DEFINE u == disk[p].units
             n == tailed[p].offset
             s == SubSeq(u, 1, n)
  <2>1. IsReadTo(p) /\ n \in 0..Len(u) /\ u \in Seq(VmText)
    BY <1>4, <1>5
  <2>2. handed = <<>> /\ Known = V!Identities(recorded)
    <3>1. handed = <<>>
      BY <1>1, <1>5 DEF KnownIs
    <3>2. V!ToSet(handed) = {}
      BY <3>1 DEF V!ToSet
    <3>3. QED
      BY <3>1, <3>2 DEF Known
  <2>3. \A m \in 1..n : \A e : TellsLine(u, m, e) => V!Identity(e) \in Known
    BY <2>1 DEF IsReadTo
  <2> HIDE DEF u, n
  <2>4. s \in Seq(VmText) /\ Len(s) = n /\ Agree(s, u, n) /\ n \in Nat
    BY <2>1 DEF Agree
  <2> HIDE DEF s
  <2>5. ASSUME NEW e \in V!Meant(s)
        PROVE  V!Identity(e) \in V!Identities(recorded)
    <3>1. IsLines(s, n)
      BY <2>4 DEF IsLines
    <3>2. PICK m \in 1..n : TellsLine(s, m, e)
      BY <3>1, MeantIs
    <3>3. TellsLine(u, m, e)
      BY <2>1, <2>4, <3>2, ReadStays
    <3>4. QED
      BY <2>2, <2>3, <3>3
  <2>6. V!Identities(V!Meant(s)) \subseteq V!Identities(recorded)
    BY <2>5 DEF V!Identities
  <2>7. QED
    BY <2>6 DEF s, u, n
<1>6. V!ReadIsRecorded
  BY <1>5 DEF V!ReadIsRecorded
<1>7. ASSUME NEW p \in DOMAIN tailed, disk[p].inode # 0, ~disk[p].anew,
             tailed[p].offset \in DOMAIN disk[p].units
      PROVE  /\ disk[p].units[tailed[p].offset].kind # "part"
             /\ tailed[p].discarding <=> disk[p].units[tailed[p].offset].kind \in {"big", "more"}
  <2> DEFINE u == disk[p].units
             n == tailed[p].offset
  <2>1. IsReadTo(p) /\ n \in 0..Len(u) /\ u \in Seq(VmText)
    BY <1>4, <1>7
  <2>2. n # 0
    BY <1>7, <2>1
  <2>3. tailed[p].discarding = Within(u, n)
    BY <2>1, StateFields DEF IsReadTo
  <2>4. QED
    BY <2>1, <2>2, <2>3 DEF IsReadTo, Within
<1>8. V!PositionIsSound
  BY <1>7 DEF V!PositionIsSound
<1>9. QED
  BY <1>2, <1>3, <1>6, <1>8

LEMMA CoworkBegins == V!CoworkInit => CoworkInv
<1> SUFFICES ASSUME V!CoworkInit
             PROVE  CoworkInv
  OBVIOUS
<1>1. /\ disk = [p \in VmPaths |-> V!Absent] /\ inodes = 0 /\ tailed = [p \in {} |-> V!Untailed]
      /\ seen = None /\ todo = None /\ handed = <<>> /\ recorded = {}
  BY DEF V!CoworkInit
<1>2. VmFilesOK
  BY <1>1 DEF VmFilesOK, V!Absent
<1>3. TailedOK /\ ReadIsSound
  BY <1>1 DEF TailedOK, ReadIsSound
<1>4. KnownIs
  BY <1>1 DEF KnownIs
<1>5. V!ToSet(handed) = {} /\ Len(handed) = 0 /\ handed \in Seq(VmEvents)
  BY <1>1 DEF V!ToSet
<1>6. HandedApart /\ MeantOnly
  BY <1>1, <1>5 DEF HandedApart, MeantOnly, Apart, V!Identities
<1>7. QED
  BY <1>2, <1>3, <1>4, <1>6 DEF CoworkInv

(* What the VM does to one file leaves the others as they are.             *)
LEMMA VmKeeps ==
  ASSUME CoworkInv, NEW p \in VmPaths, NEW d, disk' = [disk EXCEPT ![p] = d],
         d \in [inode : Nat, script : VmPaths \cup {0}, units : Seq(VmText), anew : BOOLEAN],
         d.inode # 0 => d.script \in VmPaths /\ Follows(d.units, VmScripts[d.script]),
         inodes' \in Nat, inodes' >= inodes, d.inode <= inodes',
         UNCHANGED <<tailed, seen, todo, handed, recorded>>,
         p \in DOMAIN tailed => (Same(p)' => IsReadTo(p)') /\ (d.inode # 0 /\ ~d.anew => Same(p)')
  PROVE  CoworkInv'
<1>1. VmFilesOK /\ TailedOK /\ ReadIsSound /\ KnownIs /\ HandedApart /\ MeantOnly
  BY DEF CoworkInv
<1>2. disk'[p] = d /\ (\A q \in VmPaths \ {p} : disk'[q] = disk[q])
      /\ disk' \in [VmPaths -> [inode : Nat, script : VmPaths \cup {0}, units : Seq(VmText), anew : BOOLEAN]]
  BY <1>1 DEF VmFilesOK
<1>3. \A q \in VmPaths : disk[q].inode \in Nat
  BY <1>1 DEF VmFilesOK
<1>4. VmFilesOK'
  <2>1. \A q \in VmPaths : disk'[q].inode <= inodes'
    BY <1>1, <1>2, <1>3 DEF VmFilesOK
  <2>2. \A q \in VmPaths : disk'[q].inode # 0 =>
          disk'[q].script \in VmPaths /\ Follows(disk'[q].units, VmScripts[disk'[q].script])
    BY <1>1, <1>2 DEF VmFilesOK
  <2>3. QED
    BY <1>2, <2>1, <2>2 DEF VmFilesOK
<1>5. TailedOK'
  BY <1>1 DEF TailedOK, VmFilesOK
<1>6. Known' = Known /\ KnownIs' /\ HandedApart' /\ MeantOnly'
  BY <1>1 DEF Known, KnownIs, HandedApart, MeantOnly
<1>7. ASSUME NEW q \in DOMAIN tailed, q # p
      PROVE  (Same(q)' => IsReadTo(q)') /\ (disk'[q].inode # 0 /\ ~disk'[q].anew => Same(q)')
  <2>1. q \in VmPaths /\ disk'[q] = disk[q] /\ tailed'[q] = tailed[q]
    BY <1>1, <1>2, <1>7 DEF TailedOK
  <2>2. (Same(q) => IsReadTo(q)) /\ (disk[q].inode # 0 /\ ~disk[q].anew => Same(q))
    BY <1>1 DEF ReadIsSound
  <2>3. Same(q)' <=> Same(q)
    BY <2>1 DEF Same
  <2>4. IsReadTo(q) => IsReadTo(q)'
    BY <1>6, <2>1 DEF IsReadTo
  <2>5. QED
    BY <2>1, <2>2, <2>3, <2>4
<1>8. ReadIsSound'
  BY <1>2, <1>7 DEF ReadIsSound
<1>9. QED
  BY <1>4, <1>5, <1>6, <1>8 DEF CoworkInv

LEMMA VmWritesStep ==
  ASSUME CoworkInv, NEW p \in VmPaths, V!VmWrites(p)
  PROVE  CoworkInv'
<1> DEFINE units == disk[p].units
           whole == V!Finished(units)
           script == VmScripts[disk[p].script]
           next == script[Len(whole) + 1]
<1>1. /\ disk[p].inode # 0 /\ ~disk[p].anew /\ Len(whole) < Len(script)
      /\ UNCHANGED <<inodes, tailed, seen, todo, handed, recorded>>
  BY DEF V!VmWrites
<1>2. PICK x \in {next, V!Piece("part")} :
        /\ x.kind = "part" => V!IsLine(next) /\ ~V!Unfinished(units)
        /\ disk' = [disk EXCEPT ![p].units = Append(whole, x)]
  BY DEF V!VmWrites
<1>3. /\ disk[p] \in [inode : Nat, script : VmPaths \cup {0}, units : Seq(VmText), anew : BOOLEAN]
      /\ disk[p].script \in VmPaths /\ Follows(units, script) /\ units \in Seq(VmText)
      /\ inodes \in Nat /\ disk[p].inode <= inodes /\ disk[p].inode \in Nat /\ p \in DOMAIN disk
  BY <1>1 DEF CoworkInv, VmFilesOK
<1>4. /\ script \in Seq(VmText) /\ \A n \in 1..Len(script) : script[n].kind # "part"
  BY <1>3, ScriptUnits
<1>5. /\ whole \in Seq(VmText) /\ Len(whole) <= Len(units) /\ \A n \in 1..Len(whole) : whole[n] = units[n]
      /\ \A n \in 1..Len(units) : n \in 1..Len(whole) \/ (n = Len(units) /\ units[n].kind = "part")
      /\ \A n \in 1..Len(whole) : n # Len(units) \/ units[n].kind # "part"
  BY <1>3, FinishedIs
<1> DEFINE new == Append(whole, x)
           d == [disk[p] EXCEPT !.units = new]
<1> HIDE DEF whole, script, units
<1>6. x \in VmText /\ (x = next \/ (x = V!Piece("part") /\ V!IsLine(next)))
  <2>1. next \in VmText
    BY <1>1, <1>4, <1>5
  <2>2. QED
    BY <1>2, <2>1, PartIs
<1>7. /\ new \in Seq(VmText) /\ Len(new) = Len(whole) + 1 /\ new[Len(new)] = x
      /\ \A n \in 1..Len(whole) : new[n] = units[n]
  BY <1>5, <1>6
<1>8. Follows(new, script)
  <2>1. Len(new) <= Len(script) /\ Len(whole) \in Nat /\ Len(units) \in Nat /\ Len(units) <= Len(script)
    BY <1>1, <1>3, <1>4, <1>5, <1>7 DEF Follows, units
  <2>2. ASSUME NEW n \in 1..Len(new)
        PROVE  new[n] = script[n] \/ (n = Len(new) /\ new[n] = V!Piece("part") /\ V!IsLine(script[n]))
    <3>1. CASE n = Len(new)
      BY <1>6, <1>7, <3>1
    <3>2. CASE n # Len(new)
      <4>1. n \in 1..Len(whole)
        BY <1>7, <2>1, <3>2
      <4>2. new[n] = units[n] /\ n \in 1..Len(units)
        BY <1>5, <1>7, <2>1, <4>1
      <4>3. units[n] = script[n]
        <5>1. units[n] = script[n] \/ (n = Len(units) /\ units[n] = V!Piece("part"))
          BY <1>3, <4>2 DEF Follows
        <5>2. QED
          BY <1>5, <4>1, <5>1, PartIs
      <4>4. QED
        BY <4>2, <4>3
    <3>3. QED
      BY <3>1, <3>2
  <2>3. QED
    BY <2>1, <2>2 DEF Follows
<1> HIDE DEF new
<1>9. disk' = [disk EXCEPT ![p] = d]
  BY <1>2, <1>3 DEF new
<1>10. /\ d.inode = disk[p].inode /\ d.script = disk[p].script /\ d.units = new /\ d.anew = disk[p].anew
       /\ d \in [inode : Nat, script : VmPaths \cup {0}, units : Seq(VmText), anew : BOOLEAN]
  BY <1>3, <1>7
<1>11. Follows(d.units, VmScripts[d.script])
  BY <1>8, <1>10 DEF script
<1> HIDE DEF d
<1>12. ASSUME p \in DOMAIN tailed
       PROVE  Same(p)' /\ IsReadTo(p)'
  <2> DEFINE n == tailed[p].offset
             i == tailed[p].inode
  <2>1. Same(p) /\ IsReadTo(p) /\ n \in Nat
    BY <1>1, <1>12 DEF CoworkInv, ReadIsSound, TailedOK
  <2>2. /\ i = disk[p].inode /\ n <= Len(units) /\ tailed[p] = StateAt(units, n, i)
        /\ n # 0 => units[n].kind # "part"
        /\ \A m \in 1..n : \A e : TellsLine(units, m, e) => V!Identity(e) \in Known
    BY <2>1 DEF Same, IsReadTo, units
  <2>3. disk'[p] = d /\ tailed' = tailed /\ Known' = Known
    BY <1>1, <1>3, <1>9 DEF Known
  <2> HIDE DEF n, i
  <2>4. Len(whole) \in Nat /\ Len(units) \in Nat
    BY <1>3, <1>5
  <2>5. n \in 0..Len(whole)
    <3>1. CASE n = 0
      BY <2>4, <3>1
    <3>2. CASE n # 0
      <4>1. n \in 1..Len(units)
        BY <2>1, <2>2, <2>4, <3>2
      <4>2. QED
        BY <1>5, <2>2, <2>4, <3>2, <4>1
    <3>3. QED
      BY <3>1, <3>2
  <2>6. n \in 0..Len(new) /\ n \in 0..Len(units) /\ \A m \in 1..n : m \in 1..Len(whole)
    BY <1>5, <1>7, <2>4, <2>5
  <2>7. Agree(units, new, n)
    BY <1>7, <2>6 DEF Agree
  <2>8. /\ StateAt(units, n, i) = StateAt(new, n, i)
        /\ \A m \in 1..n : \A e : TellsLine(units, m, e) <=> TellsLine(new, m, e)
    BY <1>3, <1>7, <2>6, <2>7, ReadStays
  <2>9. n # 0 => units[n] = new[n]
    BY <2>1, <2>7 DEF Agree
  <2>10. Same(p)'
    BY <1>1, <1>10, <2>2, <2>3, <2>6 DEF Same, n, i
  <2>11. IsReadTo(p)'
    <3>1. tailed'[p] = StateAt(new, n, i) /\ tailed'[p].offset = n /\ tailed'[p].inode = i /\ disk'[p].units = new
      BY <1>10, <2>2, <2>3, <2>8 DEF n, i
    <3>2. \A m \in 1..n : \A e : TellsLine(new, m, e) => V!Identity(e) \in Known'
      BY <2>2, <2>3, <2>8
    <3>3. n # 0 => new[n].kind # "part"
      BY <2>2, <2>9
    <3>4. QED
      BY <3>1, <3>2, <3>3 DEF IsReadTo
  <2>12. QED
    BY <2>10, <2>11
<1>13. inodes' \in Nat /\ inodes' >= inodes /\ d.inode <= inodes'
  BY <1>1, <1>3, <1>10
<1>14. p \in DOMAIN tailed => (Same(p)' => IsReadTo(p)') /\ (d.inode # 0 /\ ~d.anew => Same(p)')
  BY <1>12
<1>15. d.inode # 0 => d.script \in VmPaths /\ Follows(d.units, VmScripts[d.script])
  BY <1>3, <1>10, <1>11
<1>16. UNCHANGED <<tailed, seen, todo, handed, recorded>>
  BY <1>1
<1>17. QED
  BY <1>9, <1>10, <1>13, <1>14, <1>15, <1>16, VmKeeps

(* A file begun anew is not the one read, unless nothing was read of it.   *)
LEMMA VmReplacesStep ==
  ASSUME CoworkInv, NEW p \in VmPaths, V!VmReplaces(p)
  PROVE  CoworkInv'
<1>a. PICK s \in VmPaths : \E n \in 0..Len(VmScripts[s]) :
        disk' = [disk EXCEPT ![p] = [inode |-> inodes + 1, script |-> s,
                                     units |-> SubSeq(VmScripts[s], 1, n), anew |-> TRUE]]
  BY DEF V!VmReplaces
<1>1. PICK n \in 0..Len(VmScripts[s]) :
        disk' = [disk EXCEPT ![p] = [inode |-> inodes + 1, script |-> s,
                                     units |-> SubSeq(VmScripts[s], 1, n), anew |-> TRUE]]
  BY <1>a
<1>2. inodes' = inodes + 1 /\ UNCHANGED <<tailed, seen, todo, handed, recorded>>
  BY DEF V!VmReplaces
<1>3. inodes \in Nat /\ p \in DOMAIN disk
  BY DEF CoworkInv, VmFilesOK
<1> DEFINE units == SubSeq(VmScripts[s], 1, n)
           d == [inode |-> inodes + 1, script |-> s, units |-> units, anew |-> TRUE]
<1>4. VmScripts[s] \in Seq(VmText) /\ n \in Nat /\ n <= Len(VmScripts[s])
  BY ScriptUnits
<1>5. units \in Seq(VmText) /\ Len(units) = n /\ \A m \in 1..n : units[m] = VmScripts[s][m]
  BY <1>4
<1> HIDE DEF units
<1>6. Follows(units, VmScripts[s])
  BY <1>4, <1>5 DEF Follows
<1>7. /\ d \in [inode : Nat, script : VmPaths \cup {0}, units : Seq(VmText), anew : BOOLEAN]
      /\ d.inode = inodes + 1 /\ d.anew /\ d.script = s /\ d.units = units
  BY <1>3, <1>5
<1>8. disk' = [disk EXCEPT ![p] = d]
  BY <1>1 DEF units
<1> HIDE DEF d
<1>9. p \in DOMAIN tailed => ~Same(p)'
  <2> SUFFICES ASSUME p \in DOMAIN tailed
               PROVE  ~Same(p)'
    OBVIOUS
  <2>1. tailed[p].inode \in Nat /\ tailed[p].inode <= inodes
    BY DEF CoworkInv, TailedOK
  <2>2. disk'[p].inode = inodes + 1 /\ tailed'[p].inode = tailed[p].inode
    BY <1>2, <1>3, <1>7, <1>8
  <2>3. QED
    BY <1>3, <2>1, <2>2 DEF Same
<1>10. inodes' \in Nat /\ inodes' >= inodes /\ d.inode <= inodes'
  BY <1>2, <1>3, <1>7
<1>11. QED
  BY <1>2, <1>6, <1>7, <1>8, <1>9, <1>10, VmKeeps

LEMMA VmTruncatesStep ==
  ASSUME CoworkInv, NEW p \in VmPaths, V!VmTruncates(p)
  PROVE  CoworkInv'
<1> DEFINE d == [disk[p] EXCEPT !.units = <<>>, !.anew = TRUE]
<1>1. /\ disk[p].inode # 0 /\ inodes' = inodes + 1 /\ UNCHANGED <<tailed, seen, todo, handed, recorded>>
      /\ disk' = [disk EXCEPT ![p].units = <<>>, ![p].anew = TRUE]
  BY DEF V!VmTruncates
<1>2. /\ disk[p] \in [inode : Nat, script : VmPaths \cup {0}, units : Seq(VmText), anew : BOOLEAN]
      /\ disk[p].script \in VmPaths /\ inodes \in Nat /\ disk[p].inode <= inodes /\ p \in DOMAIN disk
      /\ disk \in [VmPaths -> [inode : Nat, script : VmPaths \cup {0}, units : Seq(VmText), anew : BOOLEAN]]
  BY <1>1 DEF CoworkInv, VmFilesOK
<1>3. /\ d.inode = disk[p].inode /\ d.script = disk[p].script /\ d.units = <<>> /\ d.anew = TRUE
      /\ d \in [inode : Nat, script : VmPaths \cup {0}, units : Seq(VmText), anew : BOOLEAN]
  <2> DEFINE r == disk[p]
  <2>1. r \in [inode : Nat, script : VmPaths \cup {0}, units : Seq(VmText), anew : BOOLEAN]
    BY <1>2
  <2>2. <<>> \in Seq(VmText)
    OBVIOUS
  <2> HIDE DEF r
  <2>3. /\ d.inode = r.inode /\ d.script = r.script /\ d.units = <<>> /\ d.anew = TRUE
    BY <2>1 DEF r
  <2>4. d \in [inode : Nat, script : VmPaths \cup {0}, units : Seq(VmText), anew : BOOLEAN]
    BY <2>1, <2>2 DEF r
  <2>5. QED
    BY <2>3, <2>4 DEF r
<1>4. disk' = [disk EXCEPT ![p] = d]
  BY <1>1, <1>2
<1> HIDE DEF d
<1>5. Follows(d.units, VmScripts[d.script])
  <2>1. VmScripts[d.script] \in Seq(VmText)
    BY <1>2, <1>3, ScriptUnits
  <2>2. QED
    BY <1>3, <2>1 DEF Follows
<1>6. disk'[p] = d
  BY <1>2, <1>4
<1>7. ASSUME p \in DOMAIN tailed, Same(p)'
      PROVE  IsReadTo(p)'
  <2>1. /\ tailed[p].offset \in Nat
        /\ tailed[p].offset = 0 => tailed[p] = StateAt(<<>>, 0, tailed[p].inode)
    BY <1>7 DEF CoworkInv, TailedOK
  <2>2. tailed'[p] = tailed[p] /\ disk'[p].units = <<>>
    BY <1>1, <1>3, <1>6
  <2>3. tailed[p].offset <= Len(disk'[p].units)
    BY <1>7, <2>2 DEF Same
  <2>4. tailed[p].offset = 0
    <3>1. Len(disk'[p].units) = 0
      BY <2>2
    <3>2. QED
      BY <2>1, <2>3, <3>1
  <2>5. tailed'[p] = StateAt(disk'[p].units, tailed'[p].offset, tailed'[p].inode) /\ tailed'[p].offset = 0
    BY <2>1, <2>2, <2>4
  <2>6. QED
    BY <2>5 DEF IsReadTo
<1>8. inodes' \in Nat /\ inodes' >= inodes /\ d.inode <= inodes'
  BY <1>1, <1>2, <1>3
<1>9. QED
  BY <1>1, <1>2, <1>3, <1>4, <1>5, <1>7, <1>8, VmKeeps

LEMMA VmRemovesStep ==
  ASSUME CoworkInv, NEW p \in VmPaths, V!VmRemoves(p)
  PROVE  CoworkInv'
<1>1. disk' = [disk EXCEPT ![p] = V!Absent] /\ UNCHANGED <<inodes, tailed, seen, todo, handed, recorded>>
  BY DEF V!VmRemoves
<1>2. inodes \in Nat /\ disk'[p] = V!Absent
  BY <1>1 DEF CoworkInv, VmFilesOK
<1>3. /\ V!Absent \in [inode : Nat, script : VmPaths \cup {0}, units : Seq(VmText), anew : BOOLEAN]
      /\ V!Absent.inode = 0
  BY DEF V!Absent
<1>4. ~Same(p)'
  BY <1>2, <1>3 DEF Same
<1>5. inodes' \in Nat /\ inodes' >= inodes /\ V!Absent.inode <= inodes'
  BY <1>1, <1>2, <1>3
<1>6. QED
  BY <1>1, <1>3, <1>4, <1>5, VmKeeps

LEMMA IdentitiesIs == ASSUME NEW S, NEW x PROVE x \in V!Identities(S) <=> \E e \in S : x = V!Identity(e)
BY DEF V!Identities

LEMMA Listed == ASSUME NEW X, NEW s \in Seq(X) PROVE \A e : e \in V!ToSet(s) <=> Has(s, e)
BY DEF V!ToSet, Has

(* The state a file is read with is that of its own lines.                 *)
LEMMA StateOfIs ==
  ASSUME CoworkInv, NEW p \in VmPaths, disk[p].inode # 0
  PROVE  \E o \in 0..Len(disk[p].units) :
           /\ V!StateOf(p) = StateAt(disk[p].units, o, disk[p].inode)
           /\ o # 0 => disk[p].units[o].kind # "part"
           /\ \A m \in 1..o : \A e : TellsLine(disk[p].units, m, e) => V!Identity(e) \in Known
<1> DEFINE u == disk[p].units
           i == disk[p].inode
           blank == [V!Untailed EXCEPT !.inode = i]
<1>1. u \in Seq(VmText)
  BY DEF CoworkInv, VmFilesOK
<1>2. StateAt(u, 0, i) = blank
  BY <1>1, ReadNothing
<1>3. CASE V!StateOf(p) = blank
  <2>1. 0 \in 0..Len(u) /\ \A m \in 1..0 : FALSE
    BY <1>1
  <2> HIDE DEF blank, u, i
  <2>2. V!StateOf(p) = StateAt(u, 0, i)
    BY <1>2, <1>3
  <2>3. \E o \in 0..Len(u) : /\ V!StateOf(p) = StateAt(u, o, i) /\ (o # 0 => u[o].kind # "part")
                             /\ \A m \in 1..o : \A e : TellsLine(u, m, e) => V!Identity(e) \in Known
    BY <2>1, <2>2
  <2>4. QED
    BY <2>3 DEF u, i
<1>4. CASE V!StateOf(p) # blank
  <2>1. /\ p \in DOMAIN tailed /\ ~(Len(u) < tailed[p].offset) /\ tailed[p].inode = i
        /\ V!StateOf(p) = tailed[p]
    BY <1>4 DEF V!StateOf
  <2>2. tailed[p].offset \in Nat
    BY <2>1 DEF CoworkInv, TailedOK
  <2>3. tailed[p].offset \in 0..Len(u)
    BY <1>1, <2>1, <2>2
  <2>4. Same(p)
    BY <1>1, <2>1, <2>2 DEF Same
  <2>5. IsReadTo(p)
    BY <2>1, <2>4 DEF CoworkInv, ReadIsSound
  <2>6. QED
    BY <2>1, <2>3, <2>5 DEF IsReadTo
<1>5. QED
  BY <1>3, <1>4

LEMMA ReadFileIs ==
  ASSUME CoworkInv, NEW p \in VmPaths, disk[p].inode # 0, NEW count \in Nat
  PROVE  LET u    == disk[p].units
             read == V!ReadFile(p, count)
         IN  \E m \in 0..Len(u) :
               /\ read.state = StateAt(u, m, disk[p].inode) /\ (m # 0 => u[m].kind # "part")
               /\ read.said \in Seq(VmEvents)
               /\ \A n \in 1..m : \A e : TellsLine(u, n, e) => V!Identity(e) \in Known \/ Has(read.said, e)
<1> DEFINE u == disk[p].units
           i == disk[p].inode
           st == V!StateOf(p)
           read == V!ReadFile(p, count)
           to == IF st.offset + count < Len(u) THEN st.offset + count ELSE Len(u)
<1>1. u \in Seq(VmText) /\ IsUnits(u, Len(u)) /\ V!Meant(u) \subseteq VmEvents /\ Len(u) \in Nat
  <2>1. u \in Seq(VmText) /\ disk[p].script \in VmPaths /\ Follows(u, VmScripts[disk[p].script])
    BY DEF CoworkInv, VmFilesOK
  <2> HIDE DEF u
  <2>2. QED
    BY <2>1, FollowsUnits
<1>2. PICK o \in 0..Len(u) : /\ st = StateAt(u, o, i) /\ (o # 0 => u[o].kind # "part")
                             /\ \A m \in 1..o : \A e : TellsLine(u, m, e) => V!Identity(e) \in Known
  BY StateOfIs
<1>3. st.offset = o /\ o \in Nat
  BY <1>2, StateFields
<1>4. read = V!ReadUnits(st, SubSeq(u, st.offset + 1, to))
  BY DEF V!ReadFile
<1> HIDE DEF u, i, st, read
<1>5. to \in o..Len(u)
  BY <1>1, <1>2, <1>3
<1> HIDE DEF to
<1>6. read = V!ReadUnits(StateAt(u, o, i), SubSeq(u, o + 1, to))
  BY <1>2, <1>3, <1>4
<1>7. PICK m \in o..to : IsReading(u, o, m, i, read) /\ (m # 0 => u[m].kind # "part")
  BY <1>1, <1>2, <1>5, <1>6, ReadTold
<1>8. read.state = StateAt(u, m, i) /\ ToldBy(u, o, m, read.said)
  BY <1>7 DEF IsReading
<1>9. read.said \in Seq(V!Meant(u)) /\ \A e : Has(read.said, e) <=> \E n \in (o + 1)..m : TellsLine(u, n, e)
  BY <1>8 DEF ToldBy
<1>10. read.said \in Seq(VmEvents)
  BY <1>1, <1>9
<1>11. m \in 0..Len(u) /\ \A n \in 1..m : n \in 1..o \/ n \in (o + 1)..m
  BY <1>1, <1>2, <1>3, <1>5, <1>7
<1>12. \A n \in 1..m : \A e : TellsLine(u, n, e) => V!Identity(e) \in Known \/ Has(read.said, e)
  BY <1>2, <1>9, <1>11
<1>13. \E n \in 0..Len(u) :
         /\ read.state = StateAt(u, n, i) /\ (n # 0 => u[n].kind # "part")
         /\ read.said \in Seq(VmEvents)
         /\ \A l \in 1..n : \A e : TellsLine(u, l, e) => V!Identity(e) \in Known \/ Has(read.said, e)
  BY <1>7, <1>8, <1>10, <1>11, <1>12
<1>14. QED
  BY <1>13 DEF u, i, read

(* What is handed on of what was said, and what is known then.             *)
LEMMA HandedMore ==
  ASSUME HandedApart, MeantOnly, seen = Known, NEW said \in Seq(VmEvents), recorded' = recorded,
         handed' = handed \o V!New(said), seen' = seen \cup V!Identities(V!ToSet(said))
  PROVE  /\ HandedApart' /\ MeantOnly' /\ seen' = Known' /\ Known \subseteq Known'
         /\ \A e : Has(said, e) => V!Identity(e) \in Known'
<1> DEFINE new == V!New(said)
<1>1. /\ new \in Seq(VmEvents) /\ Apart(new)
      /\ \A e : Has(new, e) => Has(said, e) /\ V!Identity(e) \notin seen
      /\ \A e : Has(said, e) /\ V!Identity(e) \notin seen => \E d : Has(new, d) /\ V!Identity(d) = V!Identity(e)
  BY NewIs
<1> HIDE DEF new
<1>2. handed \in Seq(VmEvents) /\ recorded \subseteq VmEvents /\ Apart(handed)
      /\ V!Identities(V!ToSet(handed)) \cap V!Identities(recorded) = {}
  BY DEF HandedApart, MeantOnly
<1>3. handed' \in Seq(VmEvents) /\ \A e : Has(handed', e) <=> Has(handed, e) \/ Has(new, e)
  BY <1>1, <1>2, HasJoined DEF new
<1>4. /\ \A e : e \in V!ToSet(handed) <=> Has(handed, e)
      /\ \A e : e \in V!ToSet(handed') <=> Has(handed', e)
      /\ \A e : e \in V!ToSet(said) <=> Has(said, e)
  BY <1>2, <1>3, Listed
<1>5. \A x : x \in Known <=> (\E e \in recorded : x = V!Identity(e)) \/ (\E e : Has(handed, e) /\ x = V!Identity(e))
  BY <1>4, IdentitiesIs DEF Known
<1>6. \A x : x \in Known' <=> (\E e \in recorded : x = V!Identity(e)) \/ (\E e : Has(handed', e) /\ x = V!Identity(e))
  <2>1. Known' = V!Identities(recorded \cup V!ToSet(handed'))
    BY DEF Known
  <2>2. QED
    BY <1>4, <2>1, IdentitiesIs
<1>7. \A x : x \in seen' <=> x \in seen \/ \E e : Has(said, e) /\ x = V!Identity(e)
  BY <1>4, IdentitiesIs
<1>8. \A e : Has(said, e) => V!Identity(e) \in Known'
  <2> SUFFICES ASSUME NEW e, Has(said, e)
               PROVE  V!Identity(e) \in Known'
    OBVIOUS
  <2>1. CASE V!Identity(e) \in seen
    BY <1>3, <1>5, <1>6, <2>1
  <2>2. CASE V!Identity(e) \notin seen
    BY <1>1, <1>3, <1>6, <2>2
  <2>3. QED
    BY <2>1, <2>2
<1>9. Known \subseteq Known'
  BY <1>3, <1>5, <1>6
<1>10. seen' = Known'
  <2>1. \A x : x \in seen' => x \in Known'
    BY <1>7, <1>8, <1>9
  <2>2. \A x : x \in Known' => x \in seen'
    BY <1>1, <1>3, <1>5, <1>6, <1>7
  <2>3. QED
    BY <2>1, <2>2
<1>11. Apart(handed')
  <2>1. \A d, e : Has(handed, d) /\ Has(new, e) => V!Identity(d) # V!Identity(e)
    BY <1>1, <1>5
  <2>2. QED
    BY <1>1, <1>2, <2>1, JoinedApart DEF new
<1>12. V!Identities(V!ToSet(handed')) \cap V!Identities(recorded) = {}
  <2> SUFFICES ASSUME NEW x, x \in V!Identities(V!ToSet(handed')), x \in V!Identities(recorded)
               PROVE  FALSE
    OBVIOUS
  <2>1. PICK e : Has(handed', e) /\ x = V!Identity(e)
    BY <1>4, IdentitiesIs
  <2>2. PICK d \in recorded : x = V!Identity(d)
    BY IdentitiesIs
  <2>3. CASE Has(handed, e)
    <3>1. x \in V!Identities(V!ToSet(handed))
      BY <1>4, <2>1, <2>3, IdentitiesIs
    <3>2. QED
      BY <1>2, <3>1
  <2>4. CASE Has(new, e)
    BY <1>1, <1>5, <2>1, <2>2, <2>4
  <2>5. QED
    BY <1>3, <2>1, <2>3, <2>4
<1>13. HandedApart'
  BY <1>11, <1>12 DEF HandedApart
<1>14. MeantOnly'
  BY <1>2, <1>3 DEF MeantOnly
<1>15. QED
  BY <1>8, <1>9, <1>10, <1>13, <1>14

LEMMA ScanStartsStep == ASSUME CoworkInv, V!ScanStarts PROVE CoworkInv'
<1>1. /\ VmFilesOK /\ TailedOK /\ ReadIsSound /\ KnownIs /\ HandedApart /\ MeantOnly
      /\ todo = None /\ handed = <<>> /\ UNCHANGED <<disk, inodes, handed, recorded>>
      /\ seen' = IF seen = None THEN V!Identities(recorded) ELSE seen
      /\ todo' = V!Present
      /\ tailed' = [p \in DOMAIN tailed \cap V!Present |-> tailed[p]]
  BY DEF CoworkInv, V!ScanStarts
<1>2. \A p \in DOMAIN tailed' : p \in DOMAIN tailed /\ tailed'[p] = tailed[p]
  BY <1>1
<1>3. Known' = Known /\ Known = V!Identities(recorded)
  <2>1. V!ToSet(handed) = {}
    BY <1>1 DEF V!ToSet
  <2>2. QED
    BY <1>1, <2>1 DEF Known
<1>4. VmFilesOK' /\ HandedApart' /\ MeantOnly'
  BY <1>1 DEF VmFilesOK, HandedApart, MeantOnly
<1>5. TailedOK'
  BY <1>1, <1>2 DEF TailedOK
<1>6. ReadIsSound'
  <2>1. ASSUME NEW p \in DOMAIN tailed'
        PROVE  (Same(p)' => IsReadTo(p)') /\ (disk'[p].inode # 0 /\ ~disk'[p].anew => Same(p)')
    <3>1. (Same(p) => IsReadTo(p)) /\ (disk[p].inode # 0 /\ ~disk[p].anew => Same(p))
      BY <1>1, <1>2 DEF ReadIsSound
    <3>2. Same(p)' <=> Same(p)
      BY <1>1, <1>2 DEF Same
    <3>3. IsReadTo(p) => IsReadTo(p)'
      BY <1>1, <1>2, <1>3 DEF IsReadTo
    <3>4. QED
      BY <1>1, <3>1, <3>2, <3>3
  <2>2. QED
    BY <2>1 DEF ReadIsSound
<1>7. KnownIs'
  <2>1. seen' = Known'
    BY <1>1, <1>3 DEF KnownIs
  <2>2. V!Present \subseteq VmPaths
    BY DEF V!Present
  <2>3. QED
    BY <1>1, <2>1, <2>2 DEF KnownIs
<1>8. QED
  BY <1>4, <1>5, <1>6, <1>7 DEF CoworkInv

LEMMA ScanEndsStep == ASSUME CoworkInv, V!ScanEnds PROVE CoworkInv'
<1>1. /\ VmFilesOK /\ TailedOK /\ ReadIsSound /\ KnownIs /\ HandedApart /\ MeantOnly
      /\ handed = <<>> /\ todo' = None /\ todo # None
      /\ UNCHANGED <<disk, inodes, tailed, seen, handed, recorded>>
  <2>1. todo = {}
    BY DEF V!ScanEnds
  <2>2. todo # None
    BY <2>1, VmAssumption
  <2>3. QED
    BY <2>2 DEF CoworkInv, V!ScanEnds
<1>2. Known' = Known /\ VmFilesOK' /\ TailedOK' /\ HandedApart' /\ MeantOnly'
  BY <1>1 DEF Known, VmFilesOK, TailedOK, HandedApart, MeantOnly
<1>3. ReadIsSound'
  BY <1>1 DEF ReadIsSound, Same, IsReadTo, Known
<1>4. KnownIs'
  BY <1>1, <1>2 DEF KnownIs
<1>5. QED
  BY <1>2, <1>3, <1>4 DEF CoworkInv

(* What is known stays known where an event is persisted.                  *)
LEMMA PersistStep == ASSUME CoworkInv, V!Persist PROVE CoworkInv'
<1>1. /\ VmFilesOK /\ TailedOK /\ ReadIsSound /\ KnownIs /\ HandedApart /\ MeantOnly
      /\ todo = {} /\ handed # <<>> /\ recorded' = recorded \cup {handed[1]} /\ handed' = Tail(handed)
      /\ UNCHANGED <<disk, inodes, tailed, seen, todo>>
  BY DEF CoworkInv, V!Persist
<1>2. handed \in Seq(VmEvents) /\ recorded \subseteq VmEvents /\ Apart(handed)
      /\ V!Identities(V!ToSet(handed)) \cap V!Identities(recorded) = {}
  BY <1>1 DEF HandedApart, MeantOnly
<1>3. /\ handed' \in Seq(VmEvents) /\ Len(handed') = Len(handed) - 1 /\ Len(handed) \in Nat /\ Len(handed) > 0
      /\ \A n \in 1..Len(handed') : handed'[n] = handed[n + 1] /\ n + 1 \in 1..Len(handed)
      /\ handed[1] \in VmEvents /\ 1 \in 1..Len(handed)
  BY <1>1, <1>2
<1>4. \A e : Has(handed, e) <=> e = handed[1] \/ Has(handed', e)
  <2>1. ASSUME NEW e, Has(handed, e)
        PROVE  e = handed[1] \/ Has(handed', e)
    <3>1. PICK n \in 1..Len(handed) : handed[n] = e
      BY <2>1 DEF Has
    <3>2. CASE n = 1
      BY <3>1, <3>2
    <3>3. CASE n # 1
      <4>1. n - 1 \in 1..Len(handed') /\ (n - 1) + 1 = n
        BY <1>3, <3>1, <3>3
      <4>2. handed'[n - 1] = e
        BY <1>3, <3>1, <4>1
      <4>3. QED
        BY <4>1, <4>2 DEF Has
    <3>4. QED
      BY <3>2, <3>3
  <2>2. ASSUME NEW e, e = handed[1] \/ Has(handed', e)
        PROVE  Has(handed, e)
    BY <1>3, <2>2 DEF Has
  <2>3. QED
    BY <2>1, <2>2
<1>5. /\ \A e : e \in V!ToSet(handed) <=> Has(handed, e)
      /\ \A e : e \in V!ToSet(handed') <=> Has(handed', e)
  BY <1>2, <1>3, Listed
<1>6. Known' = Known
  <2>1. recorded' \cup V!ToSet(handed') = recorded \cup V!ToSet(handed)
    BY <1>1, <1>4, <1>5
  <2>2. QED
    BY <2>1 DEF Known
<1>7. VmFilesOK' /\ TailedOK' /\ KnownIs'
  <2>1. seen = Known
    BY <1>1 DEF KnownIs
  <2>2. todo # None
    BY <1>1, VmAssumption
  <2>3. QED
    BY <1>1, <1>6, <2>1, <2>2 DEF VmFilesOK, TailedOK, KnownIs
<1>8. ReadIsSound'
  BY <1>1, <1>6 DEF ReadIsSound, Same, IsReadTo
<1>9. MeantOnly'
  BY <1>1, <1>2, <1>3 DEF MeantOnly
<1>10. Apart(handed')
  <2> SUFFICES ASSUME NEW m \in 1..Len(handed'), NEW n \in 1..Len(handed'),
                      V!Identity(handed'[m]) = V!Identity(handed'[n])
               PROVE  m = n
    BY DEF Apart
  <2>1. m + 1 = n + 1
    BY <1>2, <1>3 DEF Apart
  <2>2. QED
    BY <2>1
<1>11. V!Identities(V!ToSet(handed')) \cap V!Identities(recorded') = {}
  <2> SUFFICES ASSUME NEW x, x \in V!Identities(V!ToSet(handed')), x \in V!Identities(recorded')
               PROVE  FALSE
    OBVIOUS
  <2>1. PICK n \in 1..Len(handed') : x = V!Identity(handed'[n])
    BY <1>5, IdentitiesIs DEF Has
  <2>2. PICK d \in recorded' : x = V!Identity(d)
    BY IdentitiesIs
  <2>3. handed'[n] = handed[n + 1] /\ n + 1 \in 1..Len(handed)
    BY <1>3
  <2>4. CASE d = handed[1]
    <3>1. n + 1 = 1
      BY <1>2, <1>3, <2>1, <2>2, <2>3, <2>4 DEF Apart
    <3>2. QED
      BY <3>1
  <2>5. CASE d \in recorded
    <3>1. x \in V!Identities(recorded)
      BY <2>2, <2>5, IdentitiesIs
    <3>2. Has(handed, handed'[n])
      BY <2>3 DEF Has
    <3>3. x \in V!Identities(V!ToSet(handed))
      BY <1>5, <2>1, <3>2, IdentitiesIs
    <3>4. QED
      BY <1>2, <3>1, <3>3
  <2>6. QED
    BY <1>1, <2>2, <2>4, <2>5
<1>12. QED
  BY <1>7, <1>8, <1>9, <1>10, <1>11 DEF CoworkInv, HandedApart

LEMMA CoworkStops == ASSUME CoworkInv, V!Stop PROVE CoworkInv'
<1>1. /\ VmFilesOK /\ MeantOnly /\ UNCHANGED <<disk, inodes, recorded>>
      /\ tailed' = [p \in {} |-> V!Untailed] /\ seen' = None /\ todo' = None /\ handed' = <<>>
  BY DEF CoworkInv, V!Stop
<1>2. VmFilesOK' /\ TailedOK' /\ ReadIsSound'
  BY <1>1 DEF VmFilesOK, TailedOK, ReadIsSound
<1>3. KnownIs'
  BY <1>1 DEF KnownIs
<1>4. V!ToSet(handed') = {} /\ Len(handed') = 0 /\ handed' \in Seq(VmEvents)
  BY <1>1 DEF V!ToSet
<1>5. HandedApart' /\ MeantOnly'
  BY <1>1, <1>4 DEF HandedApart, MeantOnly, Apart, V!Identities
<1>6. QED
  BY <1>2, <1>3, <1>5 DEF CoworkInv

(* A file is read on, or from its beginning where it is another.           *)
LEMMA ScanFileStep == ASSUME CoworkInv, V!ScanFile PROVE CoworkInv'
<1>p. PICK p : p = V!Min(todo)
  OBVIOUS
<1>1. VmFilesOK /\ TailedOK /\ ReadIsSound /\ KnownIs /\ HandedApart /\ MeantOnly
  BY DEF CoworkInv
<1>2. /\ todo \notin {None, {}} /\ todo' = todo \ {p} /\ UNCHANGED <<inodes, recorded>>
      /\ IF disk[p].inode = 0 THEN UNCHANGED <<tailed, seen, handed, disk>>
         ELSE \E units \in {0, VmUnits} :
                LET read == V!ReadFile(p, units)
                IN  /\ tailed' = [q \in DOMAIN tailed \cup {p} |-> IF q = p THEN read.state ELSE tailed[q]]
                    /\ seen' = seen \cup V!Identities(V!ToSet(read.said))
                    /\ handed' = handed \o V!New(read.said)
                    /\ disk' = [disk EXCEPT ![p].anew = FALSE]
  BY <1>p DEF V!ScanFile
<1>3. todo \in SUBSET VmPaths /\ todo # {} /\ seen = Known /\ p \in VmPaths
  <2>1. todo \in SUBSET VmPaths /\ todo # {} /\ seen = Known
    BY <1>1, <1>2 DEF KnownIs
  <2>2. todo \in SUBSET Nat
    BY <2>1, VmAssumption
  <2>3. \E x \in todo : \A y \in todo : x <= y
    BY <2>1, <2>2, LeastNumber
  <2>4. p \in todo
    BY <1>p, <2>3 DEF V!Min
  <2>5. QED
    BY <2>1, <2>4
<1>4. todo' \in SUBSET VmPaths /\ todo' # None
  BY <1>2, <1>3, VmAssumption
<1>5. CASE disk[p].inode = 0
  <2>1. UNCHANGED <<tailed, seen, handed, disk, inodes, recorded>>
    BY <1>2, <1>5
  <2>2. Known' = Known /\ VmFilesOK' /\ TailedOK' /\ HandedApart' /\ MeantOnly'
    BY <1>1, <2>1 DEF Known, VmFilesOK, TailedOK, HandedApart, MeantOnly
  <2>3. ReadIsSound'
    BY <1>1, <2>1 DEF ReadIsSound, Same, IsReadTo, Known
  <2>4. KnownIs'
    BY <1>3, <1>4, <2>1, <2>2 DEF KnownIs
  <2>5. QED
    BY <2>2, <2>3, <2>4 DEF CoworkInv
<1>6. CASE disk[p].inode # 0
  <2>1. PICK count \in {0, VmUnits} :
          LET read == V!ReadFile(p, count)
          IN  /\ tailed' = [q \in DOMAIN tailed \cup {p} |-> IF q = p THEN read.state ELSE tailed[q]]
              /\ seen' = seen \cup V!Identities(V!ToSet(read.said))
              /\ handed' = handed \o V!New(read.said)
              /\ disk' = [disk EXCEPT ![p].anew = FALSE]
    BY <1>2, <1>6, Zenon
  <2> DEFINE read == V!ReadFile(p, count)
             u == disk[p].units
             i == disk[p].inode
  <2>2. count \in Nat
    BY VmAssumption
  <2>3. PICK m \in 0..Len(u) :
          /\ read.state = StateAt(u, m, i) /\ (m # 0 => u[m].kind # "part")
          /\ read.said \in Seq(VmEvents)
          /\ \A n \in 1..m : \A e : TellsLine(u, n, e) => V!Identity(e) \in Known \/ Has(read.said, e)
    BY <1>3, <1>6, <2>2, ReadFileIs
  <2> HIDE DEF read
  <2>4. /\ tailed' = [q \in DOMAIN tailed \cup {p} |-> IF q = p THEN read.state ELSE tailed[q]]
        /\ seen' = seen \cup V!Identities(V!ToSet(read.said))
        /\ handed' = handed \o V!New(read.said)
        /\ disk' = [disk EXCEPT ![p].anew = FALSE]
    BY <2>1 DEF read
  <2>5. /\ HandedApart' /\ MeantOnly' /\ seen' = Known' /\ Known \subseteq Known'
        /\ \A e : Has(read.said, e) => V!Identity(e) \in Known'
    BY <1>1, <1>2, <1>3, <2>3, <2>4, HandedMore
  <2>6. KnownIs'
    BY <1>4, <2>5 DEF KnownIs
  <2>7. disk \in [VmPaths -> [inode : Nat, script : VmPaths \cup {0}, units : Seq(VmText), anew : BOOLEAN]]
    BY <1>1 DEF VmFilesOK
  <2>8. /\ disk' \in [VmPaths -> [inode : Nat, script : VmPaths \cup {0}, units : Seq(VmText), anew : BOOLEAN]]
        /\ \A q \in VmPaths : /\ disk'[q].inode = disk[q].inode /\ disk'[q].script = disk[q].script
                              /\ disk'[q].units = disk[q].units /\ (q # p => disk'[q] = disk[q])
    BY <2>4, <2>7
  <2>9. VmFilesOK'
    BY <1>1, <1>2, <2>8 DEF VmFilesOK
  <2>10. u \in Seq(VmText) /\ i \in Nat /\ i <= inodes /\ m \in Nat
    BY <1>1, <1>3, <2>3 DEF VmFilesOK
  <2> HIDE DEF u, i
  <2>11. /\ tailed'[p] = StateAt(u, m, i) /\ tailed'[p].offset = m /\ tailed'[p].inode = i
         /\ p \in DOMAIN tailed' /\ DOMAIN tailed' = DOMAIN tailed \cup {p}
         /\ \A q \in DOMAIN tailed \ {p} : tailed'[q] = tailed[q]
    BY <2>3, <2>4, StateFields
  <2>12. m = 0 => tailed'[p] = StateAt(<<>>, 0, tailed'[p].inode)
    BY <2>10, <2>11, ReadNothing
  <2>13. TailedOK'
    BY <1>1, <1>2, <1>3, <2>10, <2>11, <2>12 DEF TailedOK
  <2>14. disk'[p].units = u /\ disk'[p].inode = i
    BY <1>3, <2>8 DEF u, i
  <2>15. Same(p)' /\ IsReadTo(p)'
    <3>1. Same(p)'
      BY <1>6, <2>3, <2>10, <2>11, <2>14 DEF Same, i
    <3>2. \A n \in 1..m : \A e : TellsLine(u, n, e) => V!Identity(e) \in Known'
      BY <2>3, <2>5
    <3>3. QED
      BY <2>3, <2>11, <2>14, <3>1, <3>2 DEF IsReadTo
  <2>16. ASSUME NEW q \in DOMAIN tailed', q # p
         PROVE  (Same(q)' => IsReadTo(q)') /\ (disk'[q].inode # 0 /\ ~disk'[q].anew => Same(q)')
    <3>1. q \in DOMAIN tailed /\ q \in VmPaths /\ tailed'[q] = tailed[q]
      BY <1>1, <2>11, <2>16 DEF TailedOK
    <3>2. disk'[q] = disk[q]
      BY <2>8, <2>16, <3>1
    <3>3. (Same(q) => IsReadTo(q)) /\ (disk[q].inode # 0 /\ ~disk[q].anew => Same(q))
      BY <1>1, <3>1 DEF ReadIsSound
    <3>4. Same(q)' <=> Same(q)
      BY <3>1, <3>2 DEF Same
    <3>5. IsReadTo(q) => IsReadTo(q)'
      BY <2>5, <3>1, <3>2 DEF IsReadTo
    <3>6. QED
      BY <3>2, <3>3, <3>4, <3>5
  <2>17. ReadIsSound'
    BY <2>15, <2>16 DEF ReadIsSound
  <2>18. QED
    BY <2>5, <2>6, <2>9, <2>13, <2>17 DEF CoworkInv
<1>7. QED
  BY <1>5, <1>6

LEMMA CoworkStep == CoworkInv /\ [V!CoworkNext]_cowork => CoworkInv'
<1> SUFFICES ASSUME CoworkInv, [V!CoworkNext]_cowork
             PROVE  CoworkInv'
  OBVIOUS
<1>1. CASE V!ScanStarts
  BY <1>1, ScanStartsStep
<1>2. CASE V!ScanFile
  BY <1>2, ScanFileStep
<1>3. CASE V!ScanEnds
  BY <1>3, ScanEndsStep
<1>4. CASE V!Persist
  BY <1>4, PersistStep
<1>5. CASE V!Stop
  BY <1>5, CoworkStops
<1>6. ASSUME NEW p \in VmPaths, V!VmWrites(p) \/ V!VmReplaces(p) \/ V!VmTruncates(p) \/ V!VmRemoves(p)
      PROVE  CoworkInv'
  BY <1>6, VmWritesStep, VmReplacesStep, VmTruncatesStep, VmRemovesStep
<1>7. CASE UNCHANGED cowork
  <2>1. UNCHANGED <<disk, inodes, tailed, seen, todo, handed, recorded>>
    BY <1>7 DEF cowork
  <2>2. Known' = Known /\ VmFilesOK' /\ TailedOK' /\ HandedApart' /\ MeantOnly'
    BY <2>1 DEF CoworkInv, Known, VmFilesOK, TailedOK, HandedApart, MeantOnly
  <2>3. ReadIsSound'
    BY <2>1 DEF CoworkInv, ReadIsSound, Same, IsReadTo, Known
  <2>4. KnownIs'
    BY <2>1, <2>2 DEF CoworkInv, KnownIs
  <2>5. QED
    BY <2>2, <2>3, <2>4 DEF CoworkInv
<1>8. QED
  BY <1>1, <1>2, <1>3, <1>4, <1>5, <1>6, <1>7 DEF V!CoworkNext

(* What is handed on of a VM's transcripts is what they say, once, and all *)
(* of it up to the position, whatever is replaced, truncated, removed, too *)
(* long or read again after a crash (cowork_tailer.rs).                    *)
THEOREM CollectorsCoworkHolds == CollectorsSpec => []CoworkHolds
<1>1. CollectorsInit => CoworkInv
  BY CoworkBegins DEF CollectorsInit
<1>2. CoworkInv /\ [CollectorsNext]_collectorsVars => CoworkInv'
  <2>1. [CollectorsNext]_collectorsVars => [V!CoworkNext]_cowork
    BY DEF CollectorsNext, collectorsVars
  <2>2. QED
    BY <2>1, CoworkStep
<1>3. CoworkInv => CoworkHolds
  BY CoworkShows DEF CoworkHolds
<1>4. QED
  BY <1>1, <1>2, <1>3, PTL DEF CollectorsSpec
=============================================================================

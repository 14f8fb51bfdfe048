---------------------------- MODULE S3SinkProofs ----------------------------
(* The export's accounting, for every number of rows, days and             *)
(* destinations: S3Inv is inductive, and OwnBucketOnly follows from it.    *)
EXTENDS S3Sink, WellFoundedInduction, TLAPS

LEMMA RowsOfUnion == ASSUME NEW A, NEW B PROVE RowsOf(A \cup B) = RowsOf(A) \cup RowsOf(B)
BY DEF RowsOf

LEMMA RowsOfMonotone == ASSUME NEW A, NEW B, A \subseteq B PROVE RowsOf(A) \subseteq RowsOf(B)
BY DEF RowsOf

LEMMA RowsOfFiles == ASSUME NEW A, A \subseteq Files PROVE RowsOf(A) \subseteq Rows
BY DEF RowsOf, Files

LEMMA NewFile ==
  ASSUME NEW g \in SUBSET Rows, g # {}, made \in Nat
  PROVE  /\ [born |-> made + 1, rows |-> g] \in Files
         /\ [born |-> made + 1, rows |-> g].rows = g
BY DEF Files

(* A nonempty set of rows has a first day. *)
LEMMA LeastNumber == ASSUME NEW T \in SUBSET Nat, T # {} PROVE \E x \in T : \A y \in T : x <= y
<1>1. \E x \in T : \A y \in T : ~ (<<y, x>> \in OpToRel(<, Nat))
  BY WFMin, NatLessThanWellFounded
<1>2. \A x, y \in T : <<y, x>> \notin OpToRel(<, Nat) => x <= y
  BY DEF OpToRel
<1>3. QED
  BY <1>1, <1>2

LEMMA FirstGroupExists == ASSUME groups \in SUBSET Rows, groups # {} PROVE FirstGroup # {}
<1> USE S3Assumption
<1> DEFINE T == {Day[r] : r \in groups}
<1>1. T \in SUBSET Nat /\ T # {}
  OBVIOUS
<1>2. PICK n \in T : \A m \in T : n <= m
  BY <1>1, LeastNumber
<1>3. PICK r \in groups : Day[r] = n
  OBVIOUS
<1>4. r \in FirstGroup
  BY <1>2, <1>3 DEF FirstGroup
<1>5. QED
  BY <1>4

-----------------------------------------------------------------------------
(* Types *)

LEMMA InMemoryType == S3TypeOK => InMemory \subseteq Rows
BY DEF S3TypeOK, InMemory

LEMMA GiveUpType ==
  ASSUME S3TypeOK, NEW R \in SUBSET Rows, GiveUp(R)
  PROVE  dropped' \in [Dests -> SUBSET Rows]
BY DEF S3TypeOK, GiveUp

LEMMA EndsType ==
  ASSUME S3TypeOK, Ends
  PROVE  /\ open' = FALSE /\ sink' = None /\ committed' = None /\ reload' = FALSE
         /\ buffer' = {} /\ groups' = {} /\ stage' = "idle" /\ task' = "flush" /\ todo' = {}
         /\ dropped' \in [Dests -> SUBSET Rows]
<1>1. InMemory \in SUBSET Rows
  BY InMemoryType
<1>2. QED
  BY <1>1, GiveUpType DEF Ends

LEMMA S3TypeStep == S3Inv /\ [S3Next]_s3Vars => S3TypeOK'
<1> SUFFICES ASSUME S3Inv, [S3Next]_s3Vars
             PROVE  S3TypeOK'
  OBVIOUS
<1> USE S3Assumption
<1>t. S3TypeOK /\ S3InStep
  BY DEF S3Inv
<1>1. CASE Start
  BY <1>t, <1>1 DEF Start, S3TypeOK, diskVars
<1>2. CASE Crash
  <2>1. stops' \in 0..MaxStops
    BY <1>t, <1>2 DEF Crash, S3TypeOK
  <2>2. UNCHANGED <<config, diskVars, recorded, switches>> /\ Ends
    BY <1>2 DEF Crash
  <2>3. QED
    BY <1>t, <2>1, <2>2, EndsType DEF S3TypeOK, diskVars
<1>3. CASE Sigterm
  BY <1>t, <1>3 DEF Sigterm, Suspend, S3TypeOK, diskVars
<1>4. ASSUME NEW r \in Rows, Commit(r)
      PROVE  S3TypeOK'
  BY <1>t, <1>4 DEF Commit, S3TypeOK, diskVars
<1>5. CASE Flush
  BY <1>t, <1>5 DEF Flush, Suspend, S3TypeOK, diskVars
<1>6. CASE Reload
  BY <1>t, <1>6 DEF Reload, Suspend, S3TypeOK, diskVars
<1>7. CASE Push
  BY <1>t, <1>7 DEF Push, S3TypeOK, diskVars
<1>8. CASE StageGroup
  <2>1. sink \in Dests
    BY <1>t, <1>8 DEF StageGroup, S3TypeOK, S3InStep
  <2>2. FirstGroup \in SUBSET Rows
    BY <1>t DEF FirstGroup, S3TypeOK
  <2>3. [born |-> made + 1, rows |-> FirstGroup] \in Files
    <3>1. FirstGroup # {}
      BY <1>t, <1>8, FirstGroupExists DEF StageGroup, S3TypeOK
    <3>2. QED
      BY <1>t, <2>2, <3>1, NewFile DEF S3TypeOK
  <2>4. staged' \in [Dests -> SUBSET Files]
    BY <1>t, <1>8, <2>1, <2>3 DEF StageGroup, S3TypeOK
  <2>5. made' \in Nat /\ groups' \subseteq Rows
    BY <1>t, <1>8 DEF StageGroup, S3TypeOK
  <2>6. QED
    BY <1>t, <1>8, <2>4, <2>5 DEF StageGroup, S3TypeOK
<1>9. CASE StageFails
  <2>1. CASE task = "flush" /\ buffer' = buffer \cup groups /\ groups' = {} /\ Over
    BY <1>t, <1>9, <2>1 DEF StageFails, Over, S3TypeOK, diskVars
  <2>2. CASE task = "reload" /\ Rebuild(InMemory)
    <3>1. dropped' \in [Dests -> SUBSET Rows]
      BY <1>t, <2>2, InMemoryType, GiveUpType DEF Rebuild
    <3>2. QED
      BY <1>t, <1>9, <2>2, <3>1 DEF StageFails, Rebuild, S3TypeOK, diskVars
  <2>3. CASE task = "exit" /\ Ends /\ UNCHANGED <<config, recorded, switches, stops>>
    BY <1>t, <1>9, <2>3, EndsType DEF StageFails, S3TypeOK, diskVars
  <2>4. QED
    BY <1>9, <2>1, <2>2, <2>3 DEF StageFails
<1>10. CASE Staged
  <2>1. sink \in Dests /\ stage = "staging"
    BY <1>t, <1>10 DEF Staged, S3TypeOK, S3InStep
  <2>2. PICK F \in SUBSET Excess(staged[sink]) :
          /\ staged' = [staged EXCEPT ![sink] = @ \ F]
          /\ IF task = "reload"
               THEN Rebuild(RowsOf(F))
               ELSE /\ GiveUp(RowsOf(F))
                    /\ stage' = "uploading"
                    /\ todo' = Listed
                    /\ UNCHANGED <<config, reload, open, sink, committed, buffer, groups, task,
                                   recorded, switches, stops>>
    BY <1>10 DEF Staged
  <2>3. F \subseteq staged[sink] /\ staged[sink] \subseteq Files
    BY <1>t, <2>1, <2>2 DEF Excess, S3TypeOK
  <2>4. RowsOf(F) \in SUBSET Rows
    BY <2>3, RowsOfFiles
  <2>5. staged' \in [Dests -> SUBSET Files]
    BY <1>t, <2>1, <2>2 DEF S3TypeOK
  <2>6. made' = made /\ bucket' = bucket
    BY <1>10 DEF Staged
  <2>7. CASE task = "reload"
    <3>1. dropped' \in [Dests -> SUBSET Rows]
      BY <1>t, <2>2, <2>4, <2>7, GiveUpType DEF Rebuild
    <3>2. QED
      BY <1>t, <2>2, <2>5, <2>6, <2>7, <3>1 DEF Rebuild, S3TypeOK
  <2>8. CASE task # "reload"
    <3>1. dropped' \in [Dests -> SUBSET Rows]
      BY <1>t, <2>2, <2>4, <2>8, GiveUpType
    <3>2. todo' \subseteq Files
      BY <2>1, <2>2, <2>5, <2>8 DEF Listed
    <3>3. QED
      BY <1>t, <2>2, <2>5, <2>6, <2>8, <3>1, <3>2 DEF S3TypeOK
  <2>9. QED
    BY <2>7, <2>8
<1>11. ASSUME NEW f \in todo, Upload(f) \/ UploadFails(f)
       PROVE  S3TypeOK'
  <2>1. f \in Files /\ sink \in Dests
    BY <1>t, <1>11 DEF Upload, UploadFails, S3TypeOK, S3InStep
  <2>2. bucket' \in [Dests -> SUBSET Files] /\ staged' \in [Dests -> SUBSET Files]
    BY <1>t, <1>11, <2>1 DEF Upload, UploadFails, S3TypeOK
  <2>3. QED
    BY <1>t, <1>11, <2>2 DEF Upload, UploadFails, S3TypeOK
<1>12. CASE Flushed
  <2>1. CASE task = "flush" /\ Over /\ UNCHANGED <<buffer, groups>>
    BY <1>t, <1>12, <2>1 DEF Flushed, Over, S3TypeOK, diskVars
  <2>2. CASE task = "exit" /\ Ends /\ UNCHANGED <<config, recorded, switches, stops>>
    BY <1>t, <1>12, <2>2, EndsType DEF Flushed, S3TypeOK, diskVars
  <2>3. QED
    BY <1>12, <2>1, <2>2 DEF Flushed
<1>13. ASSUME NEW c \in Dests \cup {None}, Configure(c)
       PROVE  S3TypeOK'
  <2>1. reload' \in BOOLEAN
    BY <1>t, <1>13 DEF Configure, S3TypeOK
  <2>2. switches' \in 0..MaxSwitches
    BY <1>t, <1>13 DEF Configure, S3TypeOK
  <2>3. QED
    BY <1>t, <1>13, <2>1, <2>2 DEF Configure, S3TypeOK, agentVars, diskVars
<1>14. CASE UNCHANGED s3Vars
  BY <1>t, <1>14 DEF S3TypeOK, s3Vars, agentVars, diskVars
<1>15. QED
  BY <1>1, <1>2, <1>3, <1>4, <1>5, <1>6, <1>7, <1>8, <1>9, <1>10, <1>11, <1>12, <1>13, <1>14
     DEF S3Next, TaskNext

-----------------------------------------------------------------------------
(* Where the task stands *)

LEMMA S3InStepStep == S3Inv /\ [S3Next]_s3Vars => S3InStep'
<1> SUFFICES ASSUME S3Inv, [S3Next]_s3Vars
             PROVE  S3InStep'
  OBVIOUS
<1> USE S3Assumption
<1>t. S3TypeOK /\ S3InStep
  BY DEF S3Inv
<1>1. CASE Start
  BY <1>t, <1>1 DEF Start, S3InStep, InMemory, diskVars
<1>2. CASE Crash
  BY <1>t, <1>2 DEF Crash, Ends, S3InStep, InMemory
<1>3. CASE Sigterm
  BY <1>t, <1>3 DEF Sigterm, Suspend, Idle, S3InStep, InMemory, diskVars
<1>4. ASSUME NEW r \in Rows, Commit(r)
      PROVE  S3InStep'
  <2>1. \A d, e \in Dests : d # e => recorded'[d] \cap recorded'[e] = {}
    BY <1>t, <1>4 DEF Commit, S3TypeOK, S3InStep
  <2>2. QED
    BY <1>t, <1>4, <2>1 DEF Commit, Idle, S3InStep, diskVars
<1>5. CASE Flush
  BY <1>t, <1>5 DEF Flush, Suspend, Idle, S3InStep, InMemory, diskVars
<1>6. CASE Reload
  BY <1>t, <1>6 DEF Reload, Suspend, Idle, S3InStep, InMemory, diskVars
<1>7. CASE Push
  BY <1>t, <1>7 DEF Push, S3InStep, InMemory, diskVars, S3TypeOK
<1>8. CASE StageGroup
  BY <1>t, <1>8 DEF StageGroup, S3InStep, InMemory
<1>9. CASE StageFails
  BY <1>t, <1>9 DEF StageFails, Over, Rebuild, Ends, S3InStep, InMemory, diskVars
<1>10. CASE Staged
  <2>1. sink # None /\ stage = "staging" /\ groups = {}
    BY <1>t, <1>10 DEF Staged, S3InStep
  <2>2. CASE task = "reload"
    BY <1>t, <1>10, <2>1, <2>2 DEF Staged, Rebuild, S3InStep, InMemory
  <2>3. CASE task # "reload"
    BY <1>t, <1>10, <2>1, <2>3 DEF Staged, Listed, S3InStep, InMemory
  <2>4. QED
    BY <2>2, <2>3
<1>11. ASSUME NEW f \in todo, Upload(f) \/ UploadFails(f)
       PROVE  S3InStep'
  <2>1. sink \in Dests
    BY <1>t, <1>11 DEF Upload, UploadFails, S3TypeOK, S3InStep
  <2>2. todo' \subseteq staged'[sink]
    BY <1>t, <1>11, <2>1 DEF Upload, UploadFails, S3TypeOK, S3InStep
  <2>3. QED
    BY <1>t, <1>11, <2>1, <2>2 DEF Upload, UploadFails, S3InStep, InMemory
<1>12. CASE Flushed
  BY <1>t, <1>12 DEF Flushed, Over, Ends, S3InStep, InMemory, diskVars
<1>13. ASSUME NEW c \in Dests \cup {None}, Configure(c)
       PROVE  S3InStep'
  BY <1>t, <1>13 DEF Configure, S3InStep, InMemory, agentVars, diskVars
<1>14. CASE UNCHANGED s3Vars
  BY <1>t, <1>14 DEF S3InStep, InMemory, s3Vars, agentVars, diskVars
<1>15. QED
  BY <1>1, <1>2, <1>3, <1>4, <1>5, <1>6, <1>7, <1>8, <1>9, <1>10, <1>11, <1>12, <1>13, <1>14
     DEF S3Next, TaskNext

-----------------------------------------------------------------------------
(* The accounting *)

Accounted(d) ==
  /\ recorded[d] = Held(d) \cup RowsOf(Filed(d)) \cup dropped[d]
  /\ Held(d) \cap RowsOf(Filed(d)) = {}
  /\ \A f, g \in Filed(d) : f # g => f.rows \cap g.rows = {}

(* A step that leaves a destination's rows where they are. *)
LEMMA Undisturbed ==
  ASSUME NEW d \in Dests, Accounted(d), Held(d)' = Held(d), Filed(d)' = Filed(d),
         recorded'[d] = recorded[d], dropped'[d] = dropped[d]
  PROVE  Accounted(d)'
BY DEF Accounted

(* A step that gives rows up, in memory or staged, and stores none. *)
LEMMA GivenUp ==
  ASSUME NEW d \in Dests, Accounted(d), NEW R, Filed(d)' \subseteq Filed(d),
         Held(d)' \subseteq Held(d), recorded'[d] = recorded[d], dropped'[d] = dropped[d] \cup R,
         R \subseteq Held(d) \cup RowsOf(Filed(d)),
         Held(d) \cup RowsOf(Filed(d)) \subseteq R \cup Held(d)' \cup RowsOf(Filed(d)')
  PROVE  Accounted(d)'
<1>1. RowsOf(Filed(d)') \subseteq RowsOf(Filed(d))
  BY DEF RowsOf
<1>2. RowsOf(Filed(d))' = RowsOf(Filed(d)')
  BY DEF RowsOf
<1>3. recorded'[d] = Held(d)' \cup RowsOf(Filed(d)') \cup dropped'[d]
  BY <1>1 DEF Accounted
<1>4. Held(d)' \cap RowsOf(Filed(d)') = {}
  BY <1>1 DEF Accounted
<1>5. QED
  BY <1>2, <1>3, <1>4 DEF Accounted

LEMMA EndsAccounted ==
  ASSUME S3Inv, Ends, UNCHANGED <<diskVars, recorded>>, NEW d \in Dests
  PROVE  Accounted(d)'
<1> USE S3Assumption
<1>1. Accounted(d)
  BY DEF S3Inv, ExportAccounted, Accounted
<1>2. Filed(d)' = Filed(d)
  BY DEF Filed, diskVars
<1>3. Held(d)' = {}
  BY DEF Held, Ends
<1>4. CASE sink = d
  <2>1. dropped'[d] = dropped[d] \cup InMemory /\ Held(d) = InMemory
    BY <1>4 DEF Ends, GiveUp, Held, S3Inv, S3TypeOK
  <2>2. QED
    BY <1>1, <1>2, <1>3, <2>1, GivenUp
<1>5. CASE sink # d
  <2>1. dropped'[d] = dropped[d] /\ Held(d) = {}
    BY <1>5 DEF Ends, GiveUp, Held, S3Inv, S3TypeOK
  <2>2. QED
    BY <1>1, <1>2, <1>3, <2>1, Undisturbed
<1>6. QED
  BY <1>4, <1>5

LEMMA AccountedStep == S3Inv /\ [S3Next]_s3Vars => ExportAccounted'
<1> SUFFICES ASSUME S3Inv, [S3Next]_s3Vars, NEW d \in Dests
             PROVE  Accounted(d)'
  BY DEF ExportAccounted, Accounted
<1> USE S3Assumption
<1>t. S3TypeOK /\ S3InStep /\ Accounted(d)
  BY DEF S3Inv, ExportAccounted, Accounted
<1>1. CASE Start
  <2>1. InMemory = {} /\ InMemory' = {}
    BY <1>t, <1>1 DEF Start, S3InStep, InMemory
  <2>2. QED
    BY <1>t, <1>1, <2>1, Undisturbed DEF Start, Held, Filed, diskVars
<1>2. CASE Crash
  BY <1>2, EndsAccounted DEF Crash
<1>3. CASE Sigterm \/ Flush \/ (Reload /\ sink # None)
  <2>1. InMemory' = InMemory
    BY <1>t, <1>3 DEF Sigterm, Flush, Reload, Suspend, Idle, S3InStep, InMemory
  <2>2. QED
    BY <1>t, <1>3, <2>1, Undisturbed DEF Sigterm, Flush, Reload, Suspend, Held, Filed, diskVars
<1>4. ASSUME NEW r \in Rows, Commit(r)
      PROVE  Accounted(d)'
  <2>1. CASE sink = d
    <3>1. Held(d)' = Held(d) \cup {r}
      BY <1>t, <1>4, <2>1 DEF Commit, Idle, Held, InMemory
    <3>2. Filed(d)' = Filed(d) /\ dropped'[d] = dropped[d]
      BY <1>4 DEF Commit, Filed, diskVars
    <3>3. recorded'[d] = recorded[d] \cup {r}
      BY <1>t, <1>4, <2>1 DEF Commit, S3TypeOK
    <3>4. r \notin RowsOf(Filed(d))
      BY <1>t, <1>4 DEF Commit, Accounted
    <3>5. RowsOf(Filed(d))' = RowsOf(Filed(d))
      BY <3>2 DEF RowsOf
    <3>6. QED
      BY <1>t, <3>1, <3>2, <3>3, <3>4, <3>5 DEF Accounted
  <2>2. CASE sink # d
    BY <1>t, <1>4, <2>2, Undisturbed DEF Commit, S3TypeOK, Held, Filed, diskVars
  <2>3. QED
    BY <2>1, <2>2
<1>5. CASE Reload /\ sink = None
  <2>1. InMemory = {} /\ InMemory' = {}
    BY <1>t, <1>5 DEF Reload, S3InStep, InMemory
  <2>2. QED
    BY <1>t, <1>5, <2>1, Undisturbed DEF Reload, Held, Filed, diskVars
<1>7. CASE Push
  <2>1. InMemory' = InMemory
    BY <1>t, <1>7 DEF Push, InMemory
  <2>2. QED
    BY <1>t, <1>7, <2>1, Undisturbed DEF Push, Held, Filed, diskVars
<1>8. CASE StageGroup
  <2> DEFINE f == [born |-> made + 1, rows |-> FirstGroup]
  <2>1. sink \in Dests /\ committed = None /\ buffer = {}
    BY <1>t, <1>8 DEF StageGroup, S3TypeOK, S3InStep
  <2>2. FirstGroup \subseteq groups /\ groups \subseteq Rows
    BY <1>t DEF FirstGroup, S3TypeOK
  <2>3. CASE sink = d
    <3>1. Held(d) = groups /\ Held(d)' = groups \ FirstGroup
      BY <1>8, <2>1, <2>2, <2>3 DEF StageGroup, Held, InMemory
    <3>2. Filed(d)' = Filed(d) \cup {f}
      BY <1>t, <1>8, <2>1, <2>3 DEF StageGroup, Filed, S3TypeOK
    <3>3. RowsOf(Filed(d))' = RowsOf(Filed(d)) \cup FirstGroup
      <4>1. RowsOf(Filed(d))' = RowsOf(Filed(d)')
        BY DEF RowsOf
      <4>2. RowsOf({f}) = FirstGroup
        BY DEF RowsOf
      <4>3. QED
        BY <3>2, <4>1, <4>2, RowsOfUnion
    <3>4. recorded'[d] = recorded[d] /\ dropped'[d] = dropped[d]
      BY <1>8 DEF StageGroup
    <3>5. \A g \in Filed(d) : g.rows \cap FirstGroup = {}
      BY <1>t, <2>2, <3>1 DEF Accounted, RowsOf
    <3>6. \A g, h \in Filed(d)' : g # h => g.rows \cap h.rows = {}
      BY <1>t, <3>2, <3>5 DEF Accounted
    <3>7. recorded[d] = groups \cup RowsOf(Filed(d)) \cup dropped[d]
      BY <1>t, <3>1 DEF Accounted
    <3>8. groups \cap RowsOf(Filed(d)) = {}
      BY <1>t, <3>1 DEF Accounted
    <3>9. QED
      BY <2>2, <3>1, <3>3, <3>4, <3>6, <3>7, <3>8 DEF Accounted
  <2>4. CASE sink # d
    BY <1>t, <1>8, <2>1, <2>4, Undisturbed DEF StageGroup, S3TypeOK, Held, Filed
  <2>5. QED
    BY <2>3, <2>4
<1>9. CASE StageFails
  <2>1. sink \in Dests /\ committed = None /\ buffer = {}
    BY <1>t, <1>9 DEF StageFails, S3TypeOK, S3InStep
  <2>2. CASE task = "flush" /\ buffer' = buffer \cup groups /\ groups' = {} /\ Over
    <3>1. InMemory' = InMemory
      BY <2>1, <2>2 DEF Over, InMemory
    <3>2. QED
      BY <1>t, <1>9, <2>2, <3>1, Undisturbed DEF StageFails, Over, Held, Filed, diskVars
  <2>3. CASE task = "reload" /\ Rebuild(InMemory)
    <3>1. InMemory' = {} /\ Held(d)' = {}
      BY <2>1, <2>3 DEF Rebuild, InMemory, Held
    <3>2. Filed(d)' = Filed(d) /\ recorded'[d] = recorded[d]
      BY <1>9, <2>3 DEF StageFails, Rebuild, Filed, diskVars
    <3>3. CASE sink = d
      <4>1. dropped'[d] = dropped[d] \cup InMemory /\ Held(d) = InMemory
        BY <1>t, <2>3, <3>3 DEF Rebuild, GiveUp, Held, S3TypeOK
      <4>2. QED
        BY <1>t, <3>1, <3>2, <4>1, GivenUp
    <3>4. CASE sink # d
      <4>1. dropped'[d] = dropped[d] /\ Held(d) = {}
        BY <1>t, <2>3, <3>4 DEF Rebuild, GiveUp, Held, S3TypeOK
      <4>2. QED
        BY <1>t, <3>1, <3>2, <4>1, Undisturbed
    <3>5. QED
      BY <3>3, <3>4
  <2>4. CASE task = "exit" /\ Ends /\ UNCHANGED <<config, recorded, switches, stops>>
    BY <1>9, <2>4, EndsAccounted DEF StageFails
  <2>5. QED
    BY <1>9, <2>2, <2>3, <2>4 DEF StageFails
<1>10. CASE Staged
  <2>1. sink \in Dests /\ committed = None /\ buffer = {} /\ groups = {} /\ stage = "staging"
    BY <1>t, <1>10 DEF Staged, S3TypeOK, S3InStep
  <2>2. PICK F \in SUBSET Excess(staged[sink]) :
          /\ staged' = [staged EXCEPT ![sink] = @ \ F]
          /\ IF task = "reload"
               THEN Rebuild(RowsOf(F))
               ELSE /\ GiveUp(RowsOf(F))
                    /\ stage' = "uploading"
                    /\ todo' = Listed
                    /\ UNCHANGED <<config, reload, open, sink, committed, buffer, groups, task,
                                   recorded, switches, stops>>
    BY <1>10 DEF Staged
  <2>3. F \subseteq staged[sink]
    BY <2>2 DEF Excess
  <2>4. InMemory = {} /\ InMemory' = {}
    BY <2>1, <2>2 DEF Rebuild, InMemory
  <2>5. Held(d) = {} /\ Held(d)' = {}
    BY <2>4 DEF Held
  <2>6. recorded' = recorded /\ GiveUp(RowsOf(F)) /\ bucket' = bucket
    BY <1>10, <2>2 DEF Staged, Rebuild
  <2>7. CASE sink = d
    <3>1. dropped'[d] = dropped[d] \cup RowsOf(F)
      BY <1>t, <2>1, <2>6, <2>7 DEF GiveUp, S3TypeOK
    <3>2. Filed(d)' \subseteq Filed(d) /\ Filed(d) \subseteq Filed(d)' \cup F /\ F \subseteq Filed(d)
      BY <1>t, <2>1, <2>2, <2>3, <2>6, <2>7 DEF Filed, S3TypeOK
    <3>3. RowsOf(F) \subseteq RowsOf(Filed(d))
      BY <3>2, RowsOfMonotone
    <3>4. RowsOf(Filed(d)) \subseteq RowsOf(F) \cup RowsOf(Filed(d)')
      <4>1. RowsOf(Filed(d)) \subseteq RowsOf(Filed(d)' \cup F)
        BY <3>2, RowsOfMonotone
      <4>2. QED
        BY <4>1, RowsOfUnion
    <3>5. QED
      BY <1>t, <2>5, <2>6, <3>1, <3>2, <3>3, <3>4, GivenUp
  <2>8. CASE sink # d
    <3>1. dropped'[d] = dropped[d]
      BY <1>t, <2>1, <2>6, <2>8 DEF GiveUp, S3TypeOK
    <3>2. Filed(d)' = Filed(d)
      BY <1>t, <2>1, <2>2, <2>6, <2>8 DEF Filed, S3TypeOK
    <3>3. QED
      BY <1>t, <2>5, <2>6, <3>1, <3>2, Undisturbed
  <2>9. QED
    BY <2>7, <2>8
<1>11. ASSUME NEW f \in todo, Upload(f) \/ UploadFails(f)
       PROVE  Accounted(d)'
  <2>1. sink \in Dests /\ f \in staged[sink]
    BY <1>t, <1>11 DEF Upload, UploadFails, S3TypeOK, S3InStep
  <2>2. Filed(d)' = Filed(d)
    BY <1>t, <1>11, <2>1 DEF Upload, UploadFails, Filed, S3TypeOK
  <2>3. InMemory' = InMemory /\ sink' = sink
    BY <1>11 DEF Upload, UploadFails, InMemory
  <2>4. QED
    BY <1>t, <1>11, <2>2, <2>3, Undisturbed DEF Upload, UploadFails, Held
<1>12. CASE Flushed
  <2>1. CASE task = "flush" /\ Over /\ UNCHANGED <<buffer, groups>>
    BY <1>t, <1>12, <2>1, Undisturbed DEF Flushed, Over, Held, InMemory, Filed, diskVars
  <2>2. CASE task = "exit" /\ Ends /\ UNCHANGED <<config, recorded, switches, stops>>
    BY <1>12, <2>2, EndsAccounted DEF Flushed
  <2>3. QED
    BY <1>12, <2>1, <2>2 DEF Flushed
<1>13. ASSUME NEW c \in Dests \cup {None}, Configure(c)
       PROVE  Accounted(d)'
  BY <1>t, <1>13, Undisturbed DEF Configure, Held, InMemory, Filed, agentVars, diskVars
<1>14. CASE UNCHANGED s3Vars
  BY <1>t, <1>14, Undisturbed DEF Held, InMemory, Filed, s3Vars, agentVars, diskVars
<1>15. QED
  BY <1>1, <1>2, <1>3, <1>4, <1>5, <1>7, <1>8, <1>9, <1>10, <1>11, <1>12, <1>13, <1>14
     DEF S3Next, TaskNext

-----------------------------------------------------------------------------
(* Theorems *)

LEMMA S3InitInv == S3Init => S3Inv
<1> SUFFICES ASSUME S3Init PROVE S3Inv
  OBVIOUS
<1> USE S3Assumption
<1>1. S3TypeOK
  <2>1. /\ staged \in [Dests -> SUBSET Files] /\ bucket \in [Dests -> SUBSET Files]
        /\ recorded \in [Dests -> SUBSET Rows] /\ dropped \in [Dests -> SUBSET Rows]
    BY DEF S3Init
  <2>2. made \in Nat /\ switches \in 0..MaxSwitches /\ stops \in 0..MaxStops
    BY DEF S3Init
  <2>3. QED
    BY <2>1, <2>2 DEF S3Init, S3TypeOK
<1>2. S3InStep
  BY DEF S3Init, S3InStep, InMemory
<1>3. ExportAccounted
  BY DEF S3Init, ExportAccounted, Held, Filed, RowsOf
<1>4. QED
  BY <1>1, <1>2, <1>3 DEF S3Inv

LEMMA S3Invariant == S3Spec => []S3Inv
<1>1. S3Inv /\ [S3Next]_s3Vars => S3Inv'
  BY S3TypeStep, S3InStepStep, AccountedStep DEF S3Inv
<1>2. QED
  BY S3InitInv, <1>1, PTL DEF S3Spec

(* The sink's state has the types the code gives it, whatever fails. *)
THEOREM S3Typed == S3Spec => []S3TypeOK
<1>1. S3Inv => S3TypeOK
  BY DEF S3Inv
<1>2. QED
  BY S3Invariant, <1>1, PTL

(* Nothing recorded for a destination is lost without a crash, the cap or  *)
(* a failed reload, and nothing is exported twice.                         *)
THEOREM S3ExportAccounted == S3Spec => []ExportAccounted
<1>1. S3Inv => ExportAccounted
  BY DEF S3Inv
<1>2. QED
  BY S3Invariant, <1>1, PTL

(* Whatever the order of configuration changes, lost reload bytes, crashes *)
(* and failures, a bucket only holds rows recorded for it.                 *)
THEOREM S3OwnBucketOnly == S3Spec => []OwnBucketOnly
<1>1. S3Inv => OwnBucketOnly
  <2> SUFFICES ASSUME S3Inv, NEW d \in Dests, NEW e \in Dests, d # e
               PROVE  RowsOf(bucket[e]) \cap recorded[d] = {}
    BY DEF OwnBucketOnly
  <2>1. RowsOf(bucket[e]) \subseteq RowsOf(Filed(e))
    BY DEF RowsOf, Filed
  <2>2. RowsOf(Filed(e)) \subseteq recorded[e]
    BY DEF S3Inv, ExportAccounted
  <2>3. recorded[d] \cap recorded[e] = {}
    BY DEF S3Inv, S3InStep
  <2>4. QED
    BY <2>1, <2>2, <2>3
<1>2. QED
  BY S3Invariant, <1>1, PTL
=============================================================================

---------------------------- MODULE DeviceProofs ----------------------------
(***************************************************************************)
(* What is proved of the parts of MCDevice, whatever the values of the     *)
(* constants. They share no state: each step of DeviceNext is a step of    *)
(* one part and a stutter of all others.                                   *)
(***************************************************************************)
EXTENDS MCDevice, FiniteSetTheorems, WellFoundedInduction, TLAPS

-----------------------------------------------------------------------------
(* The destination of the collection, changed from the desktop application.*)

LEMMA AppStep ==
  [DeviceNext]_deviceVars =>
    \/ scene = "window" /\ W!HistoryNext
    \/ scene = "switch" /\ W!SwitchNext
    \/ UNCHANGED W!appVars
BY DEF DeviceNext, deviceVars, app, W!appVars, W!historyVars, W!switchVars

Destinations == [dest : Workspaces \cup {"local"}, slug : Workspaces \cup {None}]

Switches(n) ==
  [stage : {"none", "grant", "authorizing", "child"},
   chosen : Workspaces \cup {"local", None}, expected : Destinations \cup {None},
   slug : Workspaces \cup {None}, token : 0..n]

SwitchTypeOK ==
  /\ grants \in 0..MaxGrants
  /\ spent \in [1..MaxGrants -> {0, 1}]
  /\ target \in Destinations /\ reviewed \in Destinations
  /\ grant \in [slug : Workspaces \cup {None}, token : 0..grants, young : BOOLEAN]
  /\ switch \in Switches(grants)

(* What is collected for a workspace goes there.                           *)
GoesWhereNamed == target.dest # "local" => target.slug = target.dest

(* An authorization that may still be used was not used: the one kept for  *)
(* the window, and the one the switch has taken, which is another one.     *)
Unspent ==
  /\ \A t \in 1..MaxGrants : t > grants => spent[t] = 0
  /\ grant.young => grant.token # 0 /\ spent[grant.token] = 0 /\ grant.slug \in Workspaces
  /\ switch.stage = "child" /\ switch.token # 0 =>
       /\ spent[switch.token] = 0
       /\ grant.young => grant.token # switch.token

(* A switch that is about to be made has an authorization for what was     *)
(* chosen, or stays on the device and has none.                            *)
ForWhatWasChosen ==
  /\ switch.stage \in {"grant", "authorizing"} => switch.chosen \in Workspaces
  /\ switch.stage = "child" =>
       \/ switch.chosen = "local" /\ switch.token = 0
       \/ switch.chosen \in Workspaces /\ switch.token # 0 /\ switch.slug = switch.chosen

SwitchInv == SwitchTypeOK /\ GoesWhereNamed /\ Unspent /\ ForWhatWasChosen

LEMMA SwitchInit == DeviceInit => SwitchInv
BY DesktopAssumption
   DEF DeviceInit, W!AppInit, W!NoGrant, W!NoSwitch, W!Local, SwitchInv, SwitchTypeOK,
       Destinations, Switches, GoesWhereNamed, Unspent, ForWhatWasChosen

LEMMA SwitchInvStep == SwitchInv /\ [DeviceNext]_deviceVars => SwitchInv'
<1> SUFFICES ASSUME SwitchInv, [DeviceNext]_deviceVars
             PROVE  SwitchInv'
  OBVIOUS
<1> USE DesktopAssumption
<1> USE DEF SwitchInv, SwitchTypeOK, Destinations, Switches, GoesWhereNamed, Unspent, ForWhatWasChosen
<1>1. CASE W!Review
  BY <1>1 DEF W!Review
<1>2. CASE W!Moved
  BY <1>2 DEF W!Moved, W!Local
<1>3. CASE W!ListWorkspaces
  <2>1. /\ UNCHANGED <<target, reviewed, switch, grants, spent>>
        /\ grant' = [slug |-> None, token |-> 0, young |-> FALSE]
    BY <1>3 DEF W!ListWorkspaces, W!NoGrant
  <2>2. grant' \in [slug : Workspaces \cup {None}, token : 0..grants', young : BOOLEAN]
    BY <2>1
  <2>3. SwitchTypeOK' /\ ~grant'.young
    BY <2>1, <2>2
  <2>4. QED
    BY <2>1, <2>3
<1>4. CASE W!SignedIn
  <2>1. UNCHANGED <<target, reviewed, switch, spent>>
    BY <1>4 DEF W!SignedIn
  <2>2. CASE UNCHANGED <<grant, grants>>
    BY <2>1, <2>2
  <2>3. ASSUME grants < MaxGrants, grants' = grants + 1,
               NEW o \in Workspaces, grant' = [slug |-> o, token |-> grants', young |-> TRUE]
        PROVE  SwitchInv'
    <3>1. grants' \in 1..MaxGrants /\ 0..grants \subseteq 0..grants' /\ grants' \notin 0..grants
      BY <2>3
    <3>2. grant' \in [slug : Workspaces \cup {None}, token : 0..grants', young : BOOLEAN]
      BY <2>3, <3>1
    <3>3. SwitchTypeOK'
      BY <2>1, <3>1, <3>2
    <3>4. spent[grants'] = 0 /\ switch.token # grants'
      BY <2>3, <3>1
    <3>5. Unspent'
      BY <2>1, <2>3, <3>1, <3>4
    <3>6. QED
      BY <2>1, <3>3, <3>5
  <2>4. QED
    BY <1>4, <2>2, <2>3 DEF W!SignedIn
<1>5. CASE W!GrantAges
  BY <1>5 DEF W!GrantAges
<1>6. CASE W!SwitchBegins
  <2>1. UNCHANGED <<target, reviewed, grant, grants, spent>>
    BY <1>6 DEF W!SwitchBegins
  <2>2. PICK o \in Workspaces \cup {"local"} :
          switch' = IF target # reviewed THEN W!NoSwitch
                    ELSE [W!NoSwitch EXCEPT !.stage = IF o = "local" THEN "child" ELSE "grant",
                                            !.chosen = o, !.expected = reviewed]
    BY <1>6 DEF W!SwitchBegins
  <2>3. W!NoSwitch \in Switches(grants) /\ W!NoSwitch.stage = "none" /\ W!NoSwitch.token = 0
    BY DEF W!NoSwitch
  <2>4. CASE target # reviewed
    BY <2>1, <2>2, <2>3, <2>4
  <2>5. CASE target = reviewed
    <3> DEFINE first == IF o = "local" THEN "child" ELSE "grant"
    <3>1. first \in {"child", "grant"} /\ (first = "child" <=> o = "local")
      OBVIOUS
    <3>2. switch' = [W!NoSwitch EXCEPT !.stage = first, !.chosen = o, !.expected = reviewed]
      BY <2>2, <2>5
    <3> HIDE DEF first
    <3>3. /\ switch' \in Switches(grants) /\ switch'.stage = first
          /\ switch'.chosen = o /\ switch'.token = 0
      BY <2>3, <3>1, <3>2
    <3>4. QED
      BY <2>1, <3>1, <3>3
  <2>6. QED
    BY <2>4, <2>5
<1>7. CASE W!TakeGrant
  <2>1. /\ UNCHANGED <<target, reviewed, grants, spent>> /\ switch.stage = "grant"
        /\ grant' = [slug |-> None, token |-> 0, young |-> FALSE]
    BY <1>7 DEF W!TakeGrant, W!NoGrant
  <2>4. grant' \in [slug : Workspaces \cup {None}, token : 0..grants', young : BOOLEAN]
    BY <2>1
  <2>2. CASE W!GrantFits(switch.chosen)
    <3>1. switch' = [switch EXCEPT !.stage = "child", !.slug = grant.slug, !.token = grant.token]
      BY <1>7, <2>2 DEF W!TakeGrant
    <3>2. SwitchTypeOK'
      <4>1. switch' \in Switches(grants)
        BY <2>1, <3>1
      <4>2. QED
        BY <2>1, <2>4, <4>1
    <3>3. Unspent' /\ ForWhatWasChosen'
      BY <2>1, <2>2, <3>1 DEF W!GrantFits
    <3>4. QED
      BY <2>1, <3>2, <3>3
  <2>3. CASE ~W!GrantFits(switch.chosen)
    <3>1. switch' = [switch EXCEPT !.stage = "authorizing"]
      BY <1>7, <2>3 DEF W!TakeGrant
    <3>2. SwitchTypeOK'
      BY <2>1, <3>1
    <3>3. Unspent' /\ ForWhatWasChosen'
      BY <2>1, <3>1
    <3>4. QED
      BY <2>1, <3>2, <3>3
  <2>5. QED
    BY <2>2, <2>3
<1>8. CASE W!Authorized
  <2>1. UNCHANGED <<target, reviewed, grant, spent>> /\ switch.stage = "authorizing"
    BY <1>8 DEF W!Authorized
  <2>2. ASSUME switch' = W!NoSwitch, grants' \in grants..MaxGrants
        PROVE  SwitchInv'
    <3>1. switch' \in Switches(grants') /\ switch'.stage = "none"
      BY <2>2 DEF W!NoSwitch
    <3>2. QED
      BY <2>1, <2>2, <3>1
  <2>3. ASSUME grants < MaxGrants, grants' = grants + 1,
               switch' = [switch EXCEPT !.stage = "child", !.slug = switch.chosen, !.token = grants']
        PROVE  SwitchInv'
    <3>1. grants' \in 1..MaxGrants /\ 0..grants \subseteq 0..grants' /\ grants' \notin 0..grants
      BY <2>3
    <3>2. SwitchTypeOK'
      <4>1. switch.chosen \in Workspaces /\ grants' \in 0..grants' /\ 0..grants \subseteq 0..grants'
        BY <2>1, <3>1
      <4>3. switch' \in Switches(grants')
        BY <2>3, <4>1
      <4>2. QED
        BY <2>1, <3>1, <4>3
    <3>3. spent[grants'] = 0 /\ grant.token # grants'
      BY <2>3, <3>1
    <3>4. Unspent' /\ ForWhatWasChosen'
      BY <2>1, <2>3, <3>1, <3>3
    <3>5. QED
      BY <2>1, <3>2, <3>4
  <2>4. ASSUME grants < MaxGrants, grants' = grants + 1, NEW o \in Workspaces,
               switch' = IF o = switch.chosen
                           THEN [switch EXCEPT !.stage = "child", !.slug = o, !.token = grants']
                           ELSE W!NoSwitch
        PROVE  SwitchInv'
    <3>1. CASE o = switch.chosen
      BY <2>3, <2>4, <3>1
    <3>2. CASE o # switch.chosen
      <4>1. grants' \in grants..MaxGrants
        BY <2>4
      <4>2. QED
        BY <2>2, <2>4, <3>2, <4>1
    <3>3. QED
      BY <3>1, <3>2
  <2>5. ASSUME switch' = W!NoSwitch, grants' = grants
        PROVE  SwitchInv'
    BY <2>2, <2>5
  <2>6. QED
    BY <1>8, <2>4, <2>5 DEF W!Authorized
<1>9. CASE W!ChildSwitches
  <2>1. UNCHANGED <<reviewed, grant, grants>> /\ switch.stage = "child" /\ switch' = W!NoSwitch
    BY <1>9 DEF W!ChildSwitches
  <2>2. CASE UNCHANGED <<target, spent>>
    BY <2>1, <2>2 DEF W!NoSwitch
  <2>3. CASE /\ target' = [dest |-> switch.chosen, slug |-> switch.slug]
             /\ spent' = [t \in DOMAIN spent |-> spent[t] + IF t = switch.token THEN 1 ELSE 0]
    <3>1. spent' \in [1..MaxGrants -> {0, 1}] /\ target' \in Destinations
      BY <2>1, <2>3
    <3>2. SwitchTypeOK' /\ switch'.stage = "none"
      BY <2>1, <3>1 DEF W!NoSwitch
    <3>3. GoesWhereNamed'
      BY <2>1, <2>3
    <3>4. Unspent'
      BY <2>1, <2>3, <3>2
    <3>5. QED
      BY <3>2, <3>3, <3>4
  <2>4. QED
    BY <1>9, <2>2, <2>3 DEF W!ChildSwitches
<1>10. CASE UNCHANGED <<target, reviewed, grant, listing, switch, grants, moves, spent>>
  BY <1>10
<1>11. W!HistoryNext => UNCHANGED <<target, reviewed, grant, listing, switch, grants, moves, spent>>
  BY DEF W!HistoryNext, W!CollectorStarts, W!CollectorPublishes, W!CollectorStops, W!CloseViewer,
         W!Ask, W!Route, W!OpenViewer, W!Send, W!AnswerLost, W!Shown, W!switchVars
<1>12. QED
  BY <1>1, <1>2, <1>3, <1>4, <1>5, <1>6, <1>7, <1>8, <1>9, <1>10, <1>11, AppStep
     DEF W!SwitchNext, W!appVars, W!switchVars

(* The application switches to the workspace the user confirmed, by an      *)
(* authorization for it that is used once, in place of the destination the *)
(* user has seen (switch_collection, take_login_grant and authorize_cloud). *)
THEOREM DesktopSwitchAuthorized == DeviceSpec => SwitchAuthorized
<1> DEFINE Authorised ==
      /\ target'.dest # "local" => target'.slug = target'.dest
      /\ \A t \in DOMAIN spent : spent'[t] <= 1
      /\ switch.stage = "child" /\ switch' = W!NoSwitch /\ target' # target =>
           target = switch.expected
<1>1. SwitchInv /\ SwitchInv' /\ [DeviceNext]_deviceVars => Authorised
  <2> SUFFICES ASSUME SwitchInv, SwitchInv', [DeviceNext]_deviceVars
               PROVE  Authorised
    OBVIOUS
  <2>1. target'.dest # "local" => target'.slug = target'.dest
    BY DEF SwitchInv, GoesWhereNamed
  <2>2. \A t \in DOMAIN spent : spent'[t] <= 1
    BY DEF SwitchInv, SwitchTypeOK
  <2>3. ASSUME switch.stage = "child", switch' = W!NoSwitch, target' # target
        PROVE  target = switch.expected
    <3>1. switch' # switch
      BY <2>3 DEF W!NoSwitch
    <3>2. W!ChildSwitches
      BY <2>3, <3>1, AppStep
         DEF W!HistoryNext, W!CollectorStarts, W!CollectorPublishes, W!CollectorStops,
             W!CloseViewer, W!Ask, W!Route, W!OpenViewer, W!Send, W!AnswerLost, W!Shown,
             W!SwitchNext, W!Review, W!Moved, W!ListWorkspaces, W!SignedIn, W!GrantAges,
             W!SwitchBegins, W!TakeGrant, W!Authorized, W!appVars, W!historyVars, W!switchVars
    <3>3. QED
      BY <2>3, <3>2 DEF W!ChildSwitches, W!AsExpected
  <2>4. QED
    BY <2>1, <2>2, <2>3
<1>2. SwitchInv /\ SwitchInv' /\ [DeviceNext]_deviceVars => [Authorised]_(W!appVars)
  BY <1>1
<1>3. QED
  BY <1>2, SwitchInit, SwitchInvStep, PTL DEF DeviceSpec, SwitchAuthorized, W!SwitchAuthorized

-----------------------------------------------------------------------------
(* The reader of an S3 export.                                             *)

LEMMA BucketStep == [DeviceNext]_deviceVars => [O!ReaderNext]_(O!readerVars)
BY DEF DeviceNext, deviceVars, bucketReader, O!readerVars

ObjectKeys == 1..MaxListing

(* Objects by their names: the version of each.                            *)
Versions == UNION {[K -> Nat] : K \in SUBSET ObjectKeys}
Read == {"listing", "downloading", "saving", "publishing"}

Jobs ==
  [kind : {"none", "select", "refresh", "query"},
   stage : {"none", "waiting", "answer"} \cup Read,
   conn : Connections \cup {None}, listed : Versions, upTo : Nat, got : Versions,
   before : Versions, steady : SUBSET (ObjectKeys \X Nat), met : SUBSET (ObjectKeys \X Nat)]

Snapshots ==
  [conn : Connections \cup {None}, objects : Versions, got : Versions,
   steady : SUBSET (ObjectKeys \X Nat), met : SUBSET (ObjectKeys \X Nat)]

Readers == [config : Connections \cup {None}, snapshot : Snapshots, error : BOOLEAN]

ReaderTypeOK ==
  /\ bucket \in [Connections -> [ObjectKeys -> Nat]]
  /\ saved \in Connections \cup {None}
  /\ proven \subseteq Connections
  /\ reader \in Readers
  /\ reads \in [Readings -> Jobs]

(* A refresh has listed what it met, and downloaded what it listed.        *)
ListedWasMet(j) ==
  /\ j.conn # None
  /\ \A k \in DOMAIN j.listed : <<k, j.listed[k]>> \in j.met
  /\ \A k \in DOMAIN j.got : k \in DOMAIN j.listed /\ j.got[k] = j.listed[k]

(* What did not change since it began is in the bucket, and what is in the *)
(* bucket it has met.                                                      *)
HistoryOfBucket(j, there) ==
  \A k \in ObjectKeys :
    /\ there[j.conn][k] # 0 => <<k, there[j.conn][k]>> \in j.met
    /\ \A v \in Nat : <<k, v>> \in j.steady => v = there[j.conn][k] /\ v # 0

(* The listing has all that did not change, as far as it has come.         *)
SteadyIsListed(j) ==
  \A k \in ObjectKeys, v \in Nat :
    <<k, v>> \in j.steady /\ (j.stage = "listing" => k <= j.upTo) =>
      k \in DOMAIN j.listed /\ j.listed[k] = v

JobOK(j, there, whole) ==
  /\ j.stage \in Read => ListedWasMet(j) /\ SteadyIsListed(j)
  /\ j.stage \in {"listing", "downloading"} => HistoryOfBucket(j, there)
  /\ j.stage \in {"waiting", "listing"} => DOMAIN j.got = {}
  /\ j.stage = "listing" => \A k \in DOMAIN j.listed : k <= j.upTo
  /\ j.stage = "waiting" => DOMAIN j.listed = {} /\ j.upTo = 0
  /\ j.stage \in {"saving", "publishing"} => DOMAIN j.got = DOMAIN j.listed /\ j.conn \in whole

ReaderInv ==
  /\ ReaderTypeOK
  /\ \A r \in Readings : JobOK(reads[r], bucket, proven)
  /\ O!SnapshotIsWhole /\ O!ConnectionIsOfSnapshot

LEMMA VersionsAre ==
  ASSUME NEW f \in Versions
  PROVE  DOMAIN f \in SUBSET ObjectKeys /\ f \in [DOMAIN f -> Nat]
BY DEF Versions

LEMMA VersionsMade ==
  ASSUME NEW K \in SUBSET ObjectKeys, NEW f \in [K -> Nat]
  PROVE  f \in Versions
BY DEF Versions

LEMMA NoVersions == [k \in {} |-> 0] \in Versions /\ DOMAIN [k \in {} |-> 0] = {}
<1> DEFINE f == [k \in {} |-> 0]
<1>1. f \in [{} -> Nat] /\ DOMAIN f = {}
  OBVIOUS
<1> HIDE DEF f
<1>2. {} \in SUBSET ObjectKeys
  OBVIOUS
<1>3. f \in Versions
  BY <1>1, <1>2, VersionsMade
<1>4. QED
  BY <1>1, <1>3 DEF f

LEMMA NoJobTyped ==
  /\ O!NoJob \in Jobs
  /\ O!NoJob.stage = "none" /\ O!NoJob.upTo = 0 
  /\ DOMAIN O!NoJob.listed = {} /\ DOMAIN O!NoJob.got = {}
BY NoVersions DEF O!NoJob, Jobs

LEMMA ReaderStarted == DeviceInit => ReaderInv
<1> SUFFICES ASSUME DeviceInit
             PROVE  ReaderInv
  OBVIOUS
<1> USE BucketAssumption
<1>1. O!ReaderInit
  BY DEF DeviceInit
<1>2. bucket \in [Connections -> [ObjectKeys -> Nat]]
  BY <1>1 DEF O!ReaderInit, ObjectKeys
<1>3. O!Nothing \in Snapshots /\ O!Nothing.conn = None
  BY NoVersions DEF O!Nothing, Snapshots
<1>4. reader \in Readers /\ reader.snapshot.conn = None /\ reader.config = None
  BY <1>1, <1>3 DEF O!ReaderInit, O!Fresh, Readers
<1>5. reads \in [Readings -> Jobs] /\ \A r \in Readings : reads[r] = O!NoJob
  BY <1>1, NoJobTyped DEF O!ReaderInit
<1>6. \A r \in Readings : JobOK(reads[r], bucket, proven)
  BY <1>5, NoJobTyped DEF JobOK, Read
<1>7. O!SnapshotIsWhole /\ O!ConnectionIsOfSnapshot
  BY <1>1, <1>4 DEF O!SnapshotIsWhole, O!ConnectionIsOfSnapshot, O!ReaderInit
<1>8. QED
  BY <1>1, <1>2, <1>4, <1>5, <1>6, <1>7 DEF ReaderInv, ReaderTypeOK, O!ReaderInit

LEMMA SameCardinality == \A T : O!Cardinality(T) = Cardinality(T)
BY DEF O!Cardinality, Cardinality

LEMMA LastOfPage ==
  ASSUME NEW T \in SUBSET ObjectKeys, T # {}
  PROVE  \E n \in T : \A m \in T : m <= n
<1> USE BucketAssumption DEF ObjectKeys
<1> DEFINE D == {MaxListing - n : n \in T}
<1>1. D \in SUBSET Nat /\ D # {}
  <2>1. \A n \in T : MaxListing - n \in Nat
    OBVIOUS
  <2>2. QED
    BY <2>1
<1>2. \E x \in D : \A y \in D : ~ (<<y, x>> \in OpToRel(<, Nat))
  BY <1>1, WFMin, NatLessThanWellFounded
<1>3. PICK x \in D : \A y \in D : ~(y < x)
  BY <1>1, <1>2 DEF OpToRel
<1>4. PICK n \in T : x = MaxListing - n
  OBVIOUS
<1>5. \A m \in T : ~(MaxListing - m < MaxListing - n)
  BY <1>3, <1>4
<1>6. QED
  BY <1>5

LEMMA FirstOfPage ==
  ASSUME NEW T \in SUBSET ObjectKeys, T # {}
  PROVE  \E n \in T : \A m \in T : ~(m < n)
<1> USE BucketAssumption DEF ObjectKeys
<1>1. T \in SUBSET Nat
  OBVIOUS
<1>2. \E x \in T : \A y \in T : ~ (<<y, x>> \in OpToRel(<, Nat))
  BY <1>1, WFMin, NatLessThanWellFounded
<1>3. QED
  BY <1>1, <1>2 DEF OpToRel

(* A page is the first part of what is left to list.                       *)
FirstPart(T) == {k \in T : Cardinality({x \in T : x < k}) < PageSize}
Greatest(T) == CHOOSE k \in T : \A x \in T : x <= k

LEMMA PageComesFirst ==
  ASSUME NEW T \in SUBSET ObjectKeys, FirstPart(T) # T
  PROVE  LET page == FirstPart(T)
             last == Greatest(page)
         IN  /\ last \in page /\ \A x \in page : x <= last
             /\ \A k \in T : k <= last => k \in page
<1> USE BucketAssumption DEF ObjectKeys, FirstPart, Greatest
<1> DEFINE page == FirstPart(T)
           last == Greatest(page)
<1> DEFINE Before(k) == {x \in T : x < k}
<1>0. \A x \in T : x \in Nat
  OBVIOUS
<1>1. IsFiniteSet(T)
  <2>1. IsFiniteSet(1..MaxListing)
    BY FS_Interval
  <2>2. QED
    BY <2>1, FS_Subset
<1>2. \A k \in T : IsFiniteSet(Before(k)) /\ Cardinality(Before(k)) \in Nat
  BY <1>1, FS_Subset, FS_CardinalityType
<1>3. PICK f \in T : \A m \in T : ~(m < f)
  BY FirstOfPage
<1>4. Before(f) = {}
  BY <1>3
<1>5. f \in page
  BY <1>4, FS_EmptySet
<1>6. last \in page /\ \A x \in page : x <= last
  BY <1>5, LastOfPage
<1>7. ASSUME NEW k \in T, k <= last
      PROVE  k \in page
  <2>0. last \in T
    BY <1>6
  <2>1. last \in T /\ Cardinality(Before(last)) < PageSize
    BY <1>6
  <2>2. Before(k) \subseteq Before(last)
    <3>1. ASSUME NEW x \in T, x < k
          PROVE  x < last
      <4>1. x \in Nat /\ k \in Nat /\ last \in Nat
        BY <1>0, <2>0
      <4>2. QED
        BY <1>7, <3>1, <4>1
    <3>2. QED
      BY <3>1
  <2>3. IsFiniteSet(Before(last)) /\ Cardinality(Before(last)) \in Nat /\ Cardinality(Before(k)) \in Nat
    BY <1>2, <2>1
  <2> HIDE DEF Before
  <2>4. Cardinality(Before(k)) <= Cardinality(Before(last))
    BY <2>2, <2>3, FS_Subset
  <2>5. Cardinality(Before(k)) < PageSize
    BY <2>1, <2>3, <2>4
  <2>6. QED
    BY <2>5 DEF Before
<1>8. QED
  BY <1>6, <1>7

LEMMA JobRests ==
  ASSUME NEW j, j.stage \in {"none", "answer"}, NEW there, NEW whole
  PROVE  JobOK(j, there, whole)
BY DEF JobOK, Read

LEMMA WholeGrows ==
  ASSUME NEW j, NEW there, NEW whole, JobOK(j, there, whole), NEW more, whole \subseteq more
  PROVE  JobOK(j, there, more)
BY DEF JobOK

(* A step of one request leaves the others as they are.                    *)
LEMMA OneJob ==
  ASSUME ReaderInv, NEW r \in Readings, NEW j \in Jobs, JobOK(j, bucket, proven'),
         reads' = [reads EXCEPT ![r] = j], UNCHANGED bucket, proven \subseteq proven'
  PROVE  /\ reads' \in [Readings -> Jobs]
         /\ (\A q \in Readings : JobOK(reads[q], bucket, proven))'
<1>1. reads' \in [Readings -> Jobs]
  BY DEF ReaderInv, ReaderTypeOK
<1>2. ASSUME NEW q \in Readings
      PROVE  JobOK(reads'[q], bucket, proven')
  <2>1. CASE q = r
    BY <2>1 DEF ReaderInv, ReaderTypeOK
  <2>2. CASE q # r
    <3>1. reads'[q] = reads[q]
      BY <2>2 DEF ReaderInv, ReaderTypeOK
    <3>2. JobOK(reads[q], bucket, proven)
      BY DEF ReaderInv
    <3>3. QED
      BY <3>1, <3>2, WholeGrows
  <2>3. QED
    BY <2>1, <2>2
<1>3. QED
  BY <1>1, <1>2

(* Whatever a request does that publishes, saves and writes nothing.       *)
LEMMA OnlyAJob ==
  ASSUME ReaderInv, NEW r \in Readings, NEW j \in Jobs, JobOK(j, bucket, proven),
         reads' = [reads EXCEPT ![r] = j], UNCHANGED <<bucket, saved, proven>>,
         reader' \in Readers, reader'.config = reader.config, reader'.snapshot = reader.snapshot
  PROVE  ReaderInv'
<1>1. /\ reads' \in [Readings -> Jobs]
      /\ (\A q \in Readings : JobOK(reads[q], bucket, proven))'
  BY OneJob
<1>2. (O!SnapshotIsWhole /\ O!ConnectionIsOfSnapshot)'
  BY DEF ReaderInv, O!SnapshotIsWhole, O!ConnectionIsOfSnapshot, O!AsSet
<1>3. QED
  BY <1>1, <1>2 DEF ReaderInv, ReaderTypeOK

LEMMA ReadEnds ==
  ASSUME ReaderInv, NEW r \in Readings, reads' = O!Ended(r), UNCHANGED <<bucket, saved, proven>>,
         reader' \in Readers, reader'.config = reader.config, reader'.snapshot = reader.snapshot
  PROVE  ReaderInv'
<1>1. O!NoJob \in Jobs /\ JobOK(O!NoJob, bucket, proven)
  BY NoJobTyped, JobRests
<1>2. reads' = [reads EXCEPT ![r] = O!NoJob]
  BY DEF O!Ended
<1>3. QED
  BY <1>1, <1>2, OnlyAJob

LEMMA WriteStep ==
  ASSUME ReaderInv, NEW c \in Connections, NEW k \in ObjectKeys, O!Write(c, k)
  PROVE  ReaderInv'
<1>0. /\ bucket \in [Connections -> [ObjectKeys -> Nat]] /\ reads \in [Readings -> Jobs]
      /\ \A r \in Readings : JobOK(reads[r], bucket, proven)
  BY DEF ReaderInv, ReaderTypeOK
<1>1. PICK v \in {0, bucket[c][k] + 1} \ {bucket[c][k]} :
        /\ bucket' = [bucket EXCEPT ![c][k] = v]
        /\ reads' = [r \in Readings |->
             IF O!Reads(r) /\ reads[r].conn = c
               THEN [reads[r] EXCEPT !.steady = {o \in @ : o[1] # k},
                                     !.met = IF v = 0 THEN @ ELSE @ \cup {<<k, v>>}]
               ELSE reads[r]]
  BY DEF O!Write
<1>2. UNCHANGED <<saved, reader, proven>>
  BY DEF O!Write
<1>3. v \in Nat /\ bucket' \in [Connections -> [ObjectKeys -> Nat]]
  <2>1. v \in Nat
    <3>1. bucket[c][k] \in Nat
      BY <1>0
    <3>2. v = 0 \/ v = bucket[c][k] + 1
      BY <1>1
    <3>3. QED
      BY <3>1, <3>2
  <2>2. [bucket[c] EXCEPT ![k] = v] \in [ObjectKeys -> Nat]
    BY <1>0, <2>1
  <2>3. QED
    BY <1>0, <1>1, <2>1, <2>2
<1>4. ASSUME NEW r \in Readings
      PROVE  reads'[r] \in Jobs /\ JobOK(reads'[r], bucket', proven')
  <2>1. reads[r] \in Jobs /\ JobOK(reads[r], bucket, proven)
    BY <1>0
  <2>2. CASE O!Reads(r) /\ reads[r].conn = c
    <3> DEFINE new == IF v = 0 THEN reads[r].met ELSE reads[r].met \cup {<<k, v>>}
    <3>1. reads'[r] = [reads[r] EXCEPT !.steady = {o \in @ : o[1] # k}, !.met = new]
      BY <1>1, <2>2
    <3>2. new \in SUBSET (ObjectKeys \X Nat) /\ reads[r].met \subseteq new
      BY <1>3, <2>1 DEF Jobs
    <3>3. v # 0 => <<k, v>> \in new
      OBVIOUS
    <3> HIDE DEF new
    <3>4. {o \in reads[r].steady : o[1] # k} \in SUBSET (ObjectKeys \X Nat)
      BY <2>1 DEF Jobs
    <3>5. /\ reads'[r] \in Jobs
          /\ reads'[r].met = new /\ reads'[r].steady = {o \in reads[r].steady : o[1] # k}
          /\ reads'[r].stage = reads[r].stage /\ reads'[r].conn = c
          /\ reads'[r].listed = reads[r].listed /\ reads'[r].got = reads[r].got
          /\ reads'[r].upTo = reads[r].upTo
      BY <2>1, <2>2, <3>1, <3>2, <3>4 DEF Jobs
    <3>6. reads[r].stage \in {"listing", "downloading"}
      BY <2>2 DEF O!Reads
    <3>7. ListedWasMet(reads'[r])
      BY <2>1, <2>2, <3>2, <3>5, <3>6 DEF JobOK, Read, ListedWasMet
    <3>8. SteadyIsListed(reads'[r])
      BY <2>1, <3>5, <3>6 DEF JobOK, Read, SteadyIsListed
    <3>9. HistoryOfBucket(reads'[r], bucket')
      <4>1. HistoryOfBucket(reads[r], bucket)
        BY <2>1, <3>6 DEF JobOK
      <4>2. \A x \in ObjectKeys : bucket'[c][x] = IF x = k THEN v ELSE bucket[c][x]
        BY <1>0, <1>1
      <4>3. QED
        BY <2>2, <3>2, <3>3, <3>5, <4>1, <4>2 DEF HistoryOfBucket
    <3>10. QED
      BY <2>1, <3>5, <3>6, <3>7, <3>8, <3>9 DEF JobOK
  <2>3. CASE ~(O!Reads(r) /\ reads[r].conn = c)
    <3>1. reads'[r] = reads[r]
      BY <1>1, <2>3
    <3>2. O!Reads(r) => \A x \in ObjectKeys : bucket'[reads[r].conn][x] = bucket[reads[r].conn][x]
      <4>1. O!Reads(r) => reads[r].conn \in Connections \ {c}
        BY <2>1, <2>3 DEF JobOK, Jobs, ListedWasMet, O!Reads, Read
      <4>2. QED
        BY <1>0, <1>1, <4>1
    <3>3. reads[r].stage \in {"listing", "downloading"} => HistoryOfBucket(reads[r], bucket')
      BY <2>1, <3>2 DEF JobOK, HistoryOfBucket, O!Reads
    <3>4. QED
      BY <1>2, <2>1, <3>1, <3>3 DEF JobOK
  <2>4. QED
    BY <2>2, <2>3
<1>5. reads' \in [Readings -> Jobs]
  BY <1>1, <1>4
<1>6. (O!SnapshotIsWhole /\ O!ConnectionIsOfSnapshot)'
  BY <1>2 DEF ReaderInv, O!SnapshotIsWhole, O!ConnectionIsOfSnapshot, O!AsSet
<1>7. QED
  BY <1>2, <1>3, <1>4, <1>5, <1>6 DEF ReaderInv, ReaderTypeOK

LEMMA EnterStep ==
  ASSUME ReaderInv, NEW r \in Readings, O!Enter(r)
  PROVE  ReaderInv'
<1> DEFINE c == O!Target(r)
<1>1. /\ reads[r] \in Jobs /\ JobOK(reads[r], bucket, proven) /\ reads[r].stage = "waiting"
      /\ DOMAIN reads[r].listed = {} /\ DOMAIN reads[r].got = {} /\ reads[r].upTo = 0
      /\ UNCHANGED <<bucket, saved, reader, proven>>
      /\ reader' \in Readers /\ reader'.config = reader.config /\ reader'.snapshot = reader.snapshot
      /\ reader.config \in Connections \cup {None} /\ reader.snapshot.got \in Versions
  BY DEF ReaderInv, ReaderTypeOK, O!Enter, JobOK, Readers, Snapshots
<1>2. CASE reads' = [reads EXCEPT ![r].stage = "answer"]
  <2>1. PICK j : j = [reads[r] EXCEPT !.stage = "answer"]
    OBVIOUS
  <2>2. j \in Jobs /\ j.stage = "answer"
    BY <1>1, <2>1 DEF Jobs
  <2>3. reads' = [reads EXCEPT ![r] = j]
    BY <1>2, <2>1 DEF ReaderInv, ReaderTypeOK
  <2>4. JobOK(j, bucket, proven) /\ UNCHANGED <<bucket, saved, proven>>
    BY <1>1, <2>2, JobRests
  <2>5. QED
    BY <1>1, <2>2, <2>3, <2>4, OnlyAJob
<1>3. CASE reads' = O!Ended(r)
  <2>1. UNCHANGED <<bucket, saved, proven>>
    BY <1>1
  <2>2. QED
    BY <1>1, <1>3, <2>1, ReadEnds
<1>4. CASE /\ c # None
           /\ reads' = [reads EXCEPT ![r] = [@ EXCEPT !.stage = "listing", !.conn = c,
                 !.before = O!Reusable(c), !.steady = O!Objects(c), !.met = O!Objects(c)]]
  <2>1. c \in Connections
    BY <1>1, <1>4 DEF O!Target, Jobs
  <2>2. O!Objects(c) \in SUBSET (ObjectKeys \X Nat)
    <3>1. \A k \in ObjectKeys : bucket[c][k] \in Nat
      BY <2>1 DEF ReaderInv, ReaderTypeOK
    <3>2. QED
      BY <3>1 DEF O!Objects, ObjectKeys
  <2>3. O!Reusable(c) \in Versions
    BY <1>1, NoVersions DEF O!Reusable
  <2> HIDE DEF c
  <2>11. c \in Connections \cup {None}
    BY <2>1
  <2>4. PICK j : j = [reads[r] EXCEPT !.stage = "listing", !.conn = c,
                        !.before = O!Reusable(c), !.steady = O!Objects(c), !.met = O!Objects(c)]
    OBVIOUS
  <2>5. /\ j \in Jobs /\ j.stage = "listing" /\ j.conn = c
        /\ j.steady = O!Objects(c) /\ j.met = O!Objects(c)
        /\ j.listed = reads[r].listed /\ j.got = reads[r].got /\ j.upTo = reads[r].upTo
    BY <1>1, <2>2, <2>3, <2>4, <2>11 DEF Jobs, Read
  <2>6. reads' = [reads EXCEPT ![r] = j]
    BY <1>4, <2>4
  <2>7. ListedWasMet(j) /\ SteadyIsListed(j)
    BY <1>1, <1>4, <2>5 DEF ListedWasMet, SteadyIsListed, ObjectKeys
  <2>8. HistoryOfBucket(j, bucket)
    BY <2>1, <2>5 DEF HistoryOfBucket, O!Objects, ObjectKeys, ReaderInv, ReaderTypeOK
  <2>9. JobOK(j, bucket, proven)
    BY <1>1, <2>5, <2>7, <2>8 DEF JobOK
  <2>10. QED
    BY <1>1, <2>5, <2>6, <2>9, OnlyAJob
<1>5. QED
  BY <1>2, <1>3, <1>4 DEF O!Enter

LEMMA AskedStep ==
  ASSUME ReaderInv, NEW r \in Readings, NEW kind \in {"select", "refresh", "query"},
         NEW stage \in {"waiting", "answer"}, NEW c \in Connections \cup {None},
         O!Asked(r, kind, stage, c)
  PROVE  ReaderInv'
<1>1. PICK j : j = [O!NoJob EXCEPT !.kind = kind, !.stage = stage, !.conn = c]
  OBVIOUS
<1>2. /\ j \in Jobs /\ j.stage = stage
      /\ j.upTo = 0 /\ DOMAIN j.listed = {} /\ DOMAIN j.got = {}
  BY <1>1, NoJobTyped DEF Jobs
<1>3. JobOK(j, bucket, proven)
  BY <1>2 DEF JobOK, Read
<1>4. /\ reads' = [reads EXCEPT ![r] = j] /\ UNCHANGED <<bucket, saved, proven>>
      /\ reader' \in Readers /\ reader'.config = reader.config /\ reader'.snapshot = reader.snapshot
  BY <1>1 DEF O!Asked, ReaderInv, ReaderTypeOK
<1>5. QED
  BY <1>2, <1>3, <1>4, OnlyAJob

LEMMA FailedStep ==
  ASSUME ReaderInv, NEW r \in Readings, O!Failed(r)
  PROVE  ReaderInv'
<1>1. /\ reader' \in Readers /\ reader'.config = reader.config /\ reader'.snapshot = reader.snapshot
      /\ reads' = O!Ended(r)
  BY DEF O!Failed, ReaderInv, ReaderTypeOK, Readers
<1>2. UNCHANGED <<bucket, saved, proven>>
  BY DEF O!Failed
<1>3. QED
  BY <1>1, <1>2, ReadEnds

LEMMA PageStep ==
  ASSUME ReaderInv, NEW r \in Readings, O!Page(r)
  PROVE  ReaderInv'
<1> DEFINE c == reads[r].conn
           there == {k \in ObjectKeys : k > reads[r].upTo /\ bucket[c][k] # 0}
           page == {k \in there : O!Cardinality({x \in there : x < k}) < PageSize}
           listed == [k \in DOMAIN reads[r].listed \cup page |->
                        IF k \in page THEN bucket[c][k] ELSE reads[r].listed[k]]
           last == CHOOSE k \in page : \A x \in page : x <= k
           upTo == IF page = there THEN reads[r].upTo ELSE last
           stage == IF page = there THEN "downloading" ELSE reads[r].stage
<1>1. /\ reads[r] \in Jobs /\ JobOK(reads[r], bucket, proven) /\ reads[r].stage = "listing"
      /\ c \in Connections /\ DOMAIN reads[r].got = {}
      /\ \A k \in DOMAIN reads[r].listed : k <= reads[r].upTo
  BY DEF ReaderInv, ReaderTypeOK, O!Page, JobOK, ListedWasMet, Read, Jobs
<1>2. ListedWasMet(reads[r]) /\ SteadyIsListed(reads[r]) /\ HistoryOfBucket(reads[r], bucket)
  BY <1>1 DEF JobOK, Read
<1>3. \A k \in ObjectKeys : bucket[c][k] \in Nat
  BY <1>1 DEF ReaderInv, ReaderTypeOK
<1>4. there \in SUBSET ObjectKeys /\ page \subseteq there /\ reads[r].upTo \in Nat
  BY <1>1 DEF Jobs
<1>5. O!Failed(r) \/ (/\ reads' = [reads EXCEPT ![r] = [@ EXCEPT !.listed = listed, !.upTo = upTo, !.stage = stage]]
                      /\ UNCHANGED <<bucket, saved, reader, lock, writes, begunReads, readerStarts, proven>>)
  BY <1>1 DEF O!Page, ObjectKeys
<1>6. listed \in Versions /\ DOMAIN listed = DOMAIN reads[r].listed \cup page
  <2>1. DOMAIN reads[r].listed \in SUBSET ObjectKeys /\ reads[r].listed \in [DOMAIN reads[r].listed -> Nat]
    BY <1>1, VersionsAre DEF Jobs
  <2>2. DOMAIN reads[r].listed \cup page \in SUBSET ObjectKeys
    BY <1>4, <2>1
  <2>3. \A k \in DOMAIN reads[r].listed \cup page :
          (IF k \in page THEN bucket[c][k] ELSE reads[r].listed[k]) \in Nat
    BY <1>3, <1>4, <2>1
  <2>4. listed \in [DOMAIN reads[r].listed \cup page -> Nat]
    BY <2>3
  <2> HIDE DEF listed, page
  <2>5. QED
    BY <2>2, <2>4, VersionsMade
<1>7. /\ page # there => last \in page /\ (\A x \in page : x <= last) /\ \A k \in there : k <= last => k \in page
      /\ upTo \in Nat
  <2>1. page # there => last \in page /\ (\A x \in page : x <= last) /\ \A k \in there : k <= last => k \in page
    <3> HIDE DEF there, last
    <3>1. page = FirstPart(there)
      BY SameCardinality DEF FirstPart
    <3> HIDE DEF page
    <3>2. last = Greatest(page)
      BY DEF last, Greatest
    <3>3. there \in SUBSET ObjectKeys
      BY <1>4
    <3>4. ASSUME page # there
          PROVE  last \in page /\ (\A x \in page : x <= last) /\ \A k \in there : k <= last => k \in page
      BY <3>1, <3>2, <3>3, <3>4, PageComesFirst
    <3>5. QED
      BY <3>4
  <2>2. ObjectKeys \subseteq Nat
    BY BucketAssumption DEF ObjectKeys
  <2> HIDE DEF there, page, last
  <2>3. QED
    BY <1>4, <2>1, <2>2
<1>8. \A k \in DOMAIN listed : listed[k] = IF k \in page THEN bucket[c][k] ELSE reads[r].listed[k]
  BY <1>6
<1>10. \A k \in there : k \in ObjectKeys /\ k > reads[r].upTo /\ bucket[c][k] # 0
  OBVIOUS
<1>11. \A k \in ObjectKeys : k > reads[r].upTo /\ bucket[c][k] # 0 => k \in there
  OBVIOUS
<1>12. \A k \in ObjectKeys : k \in Nat
  BY BucketAssumption DEF ObjectKeys
<1>22. page # there => upTo = last /\ stage = "listing"
  BY <1>1
<1>24. stage = "listing" => page # there
  OBVIOUS
<1>23. stage \in {"downloading", "listing"}
  BY <1>1
<1> HIDE DEF listed, page, there, last, c, stage, upTo
<1>9. PICK j : j = [reads[r] EXCEPT !.listed = listed, !.upTo = upTo, !.stage = stage]
  OBVIOUS
<1>13. /\ j \in Jobs /\ j.stage = stage /\ j.conn = c /\ j.listed = listed /\ j.upTo = upTo
       /\ j.got = reads[r].got /\ j.steady = reads[r].steady /\ j.met = reads[r].met
  BY <1>1, <1>6, <1>7, <1>9, <1>23 DEF Jobs, Read, c
<1>14. ListedWasMet(j)
  BY <1>1, <1>2, <1>4, <1>6, <1>8, <1>10, <1>13 DEF ListedWasMet, HistoryOfBucket, c
<1>15. HistoryOfBucket(j, bucket)
  BY <1>2, <1>13 DEF HistoryOfBucket, c
<1>16. SteadyIsListed(j)
  <2> SUFFICES ASSUME NEW k \in ObjectKeys, NEW v \in Nat, <<k, v>> \in j.steady,
                      j.stage = "listing" => k <= upTo
               PROVE  k \in DOMAIN listed /\ listed[k] = v
    BY <1>13 DEF SteadyIsListed
  <2>1. v = bucket[c][k] /\ v # 0
    BY <1>2, <1>13 DEF HistoryOfBucket, c
  <2>2. CASE k <= reads[r].upTo
    <3>1. k \in DOMAIN reads[r].listed /\ reads[r].listed[k] = v
      BY <1>1, <1>2, <1>13, <2>2 DEF SteadyIsListed
    <3>2. k \notin page
      BY <1>4, <1>10, <1>12, <2>2
    <3>3. QED
      BY <1>6, <1>8, <3>1, <3>2
  <2>3. CASE ~(k <= reads[r].upTo)
    <3>1. k \in there
      BY <1>4, <1>11, <1>12, <2>1, <2>3
    <3>2. k \in page
      BY <1>7, <1>13, <1>22, <3>1
    <3>3. QED
      BY <1>6, <1>8, <2>1, <3>2
  <2>4. QED
    BY <2>2, <2>3
<1>17. stage = "listing" => \A k \in DOMAIN listed : k <= upTo
  <2> SUFFICES ASSUME page # there, NEW k \in DOMAIN listed
               PROVE  k <= last
    BY <1>24, <1>22
  <2>1. last \in there /\ last > reads[r].upTo /\ last \in Nat
    BY <1>4, <1>7, <1>10, <1>12
  <2>2. CASE k \in page
    BY <1>7, <2>2
  <2>3. CASE k \in DOMAIN reads[r].listed
    <3>1. k \in Nat /\ k <= reads[r].upTo
      BY <1>1, <1>12, <2>3, VersionsAre DEF Jobs
    <3>2. QED
      BY <1>4, <2>1, <3>1
  <2>4. QED
    BY <1>6, <2>2, <2>3
<1>18. JobOK(j, bucket, proven)
  BY <1>1, <1>13, <1>14, <1>15, <1>16, <1>17, <1>23 DEF JobOK
<1>19. CASE O!Failed(r)
  BY <1>19, FailedStep
<1>20. CASE /\ reads' = [reads EXCEPT ![r] = [@ EXCEPT !.listed = listed, !.upTo = upTo, !.stage = stage]]
            /\ UNCHANGED <<bucket, saved, reader, lock, writes, begunReads, readerStarts, proven>>
  <2>1. /\ reads' = [reads EXCEPT ![r] = j] /\ UNCHANGED <<bucket, saved, proven>>
        /\ reader' \in Readers /\ reader'.config = reader.config /\ reader'.snapshot = reader.snapshot
    BY <1>9, <1>20 DEF ReaderInv, ReaderTypeOK
  <2>2. QED
    BY <1>13, <1>18, <2>1, OnlyAJob
<1>21. QED
  BY <1>5, <1>19, <1>20

LEMMA DownloadStep ==
  ASSUME ReaderInv, NEW r \in Readings, NEW k \in ObjectKeys, O!Download(r, k)
  PROVE  ReaderInv'
<1> DEFINE c == reads[r].conn
           got == [x \in DOMAIN reads[r].got \cup {k} |->
                     IF x = k THEN O!Fetched(r, k) ELSE reads[r].got[x]]
<1>1. /\ reads[r] \in Jobs /\ JobOK(reads[r], bucket, proven) /\ reads[r].stage = "downloading"
      /\ k \in DOMAIN reads[r].listed
      /\ DOMAIN reads[r].listed \in SUBSET ObjectKeys /\ reads[r].listed \in [DOMAIN reads[r].listed -> Nat]
      /\ DOMAIN reads[r].got \in SUBSET ObjectKeys /\ reads[r].got \in [DOMAIN reads[r].got -> Nat]
  BY VersionsAre DEF ReaderInv, ReaderTypeOK, O!Download, Jobs
<1>2. ListedWasMet(reads[r]) /\ SteadyIsListed(reads[r]) /\ HistoryOfBucket(reads[r], bucket)
  BY <1>1 DEF JobOK, Read
<1>3. CASE ~O!Same(r, k) /\ ~O!Matches(r, k)
  BY <1>3, FailedStep DEF O!Download
<1>4. CASE O!Same(r, k) \/ O!Matches(r, k)
  <2>1. O!Fetched(r, k) = reads[r].listed[k]
    BY <1>4 DEF O!Same, O!Matches, O!Fetched
  <2>2. reads' = [reads EXCEPT ![r] = [reads[r] EXCEPT !.got = got]]
    BY <1>4 DEF O!Download, ReaderInv, ReaderTypeOK
  <2>3. UNCHANGED <<bucket, saved, reader, proven>>
    BY <1>4 DEF O!Download
  <2>4. got \in [DOMAIN reads[r].got \cup {k} -> Nat]
    BY <1>1, <2>1
  <2>5. \A x \in DOMAIN got : x \in DOMAIN reads[r].listed /\ got[x] = reads[r].listed[x]
    BY <1>1, <1>2, <2>1 DEF ListedWasMet
  <2> HIDE DEF got
  <2>6. got \in Versions
    <3>1. DOMAIN reads[r].got \cup {k} \in SUBSET ObjectKeys
      BY <1>1
    <3>2. QED
      BY <2>4, <3>1, VersionsMade
  <2>7. PICK j : j = [reads[r] EXCEPT !.got = got]
    OBVIOUS
  <2>8. /\ j \in Jobs /\ j.stage = "downloading" /\ j.conn = c /\ j.got = got /\ j.upTo = reads[r].upTo
        /\ j.listed = reads[r].listed /\ j.steady = reads[r].steady /\ j.met = reads[r].met
    BY <1>1, <2>6, <2>7 DEF Jobs
  <2>9. JobOK(j, bucket, proven)
    <3>1. ListedWasMet(j)
      BY <1>2, <2>5, <2>8 DEF ListedWasMet
    <3>2. SteadyIsListed(j)
      BY <1>1, <1>2, <2>8 DEF SteadyIsListed
    <3>3. HistoryOfBucket(j, bucket)
      BY <1>2, <2>8 DEF HistoryOfBucket
    <3>4. QED
      BY <2>8, <3>1, <3>2, <3>3 DEF JobOK
  <2>10. /\ reads' = [reads EXCEPT ![r] = j] /\ UNCHANGED <<bucket, saved, proven>>
         /\ reader' \in Readers /\ reader'.config = reader.config /\ reader'.snapshot = reader.snapshot
    BY <2>2, <2>3, <2>7 DEF ReaderInv, ReaderTypeOK
  <2>11. QED
    BY <2>8, <2>9, <2>10, OnlyAJob
<1>5. QED
  BY <1>3, <1>4

(* The rows are whole: the connection was downloaded.                      *)
LEMMA BuildStep ==
  ASSUME ReaderInv, NEW r \in Readings, O!Build(r)
  PROVE  ReaderInv'
<1>1. CASE O!Failed(r)
  BY <1>1, FailedStep
<1>2. ASSUME NEW stage \in {"saving", "publishing"},
             reads' = [reads EXCEPT ![r].stage = stage], proven' = proven \cup {reads[r].conn},
             UNCHANGED <<bucket, saved, reader>>
      PROVE  ReaderInv'
  <2>1. /\ reads[r] \in Jobs /\ JobOK(reads[r], bucket, proven) /\ reads[r].stage = "downloading"
        /\ DOMAIN reads[r].got = DOMAIN reads[r].listed
    BY DEF ReaderInv, ReaderTypeOK, O!Build
  <2>2. PICK j : j = [reads[r] EXCEPT !.stage = stage]
    OBVIOUS
  <2>3. /\ j \in Jobs /\ j.stage = stage /\ j.conn = reads[r].conn /\ j.got = reads[r].got
        /\ j.listed = reads[r].listed /\ j.steady = reads[r].steady /\ j.met = reads[r].met
    BY <2>1, <2>2 DEF Jobs, Read
  <2>4. ListedWasMet(j)
    BY <2>1, <2>3 DEF JobOK, Read, ListedWasMet
  <2>5. SteadyIsListed(j)
    BY <2>1, <2>3 DEF JobOK, Read, SteadyIsListed
  <2>6. j.conn \in proven'
    BY <1>2, <2>3
  <2>7. JobOK(j, bucket, proven')
    BY <2>1, <2>3, <2>4, <2>5, <2>6 DEF JobOK
  <2>8. j.conn \in Connections
    BY <2>3, <2>4 DEF Jobs, ListedWasMet
  <2>9. /\ reads' = [reads EXCEPT ![r] = j] /\ proven \subseteq proven' /\ UNCHANGED bucket
        /\ proven' \subseteq Connections
    BY <1>2, <2>2, <2>3, <2>8 DEF ReaderInv, ReaderTypeOK
  <2>10. /\ reads' \in [Readings -> Jobs]
         /\ (\A q \in Readings : JobOK(reads[q], bucket, proven))'
    BY <2>3, <2>7, <2>9, OneJob
  <2>11. (O!SnapshotIsWhole /\ O!ConnectionIsOfSnapshot)'
    BY <1>2, <2>9 DEF ReaderInv, O!SnapshotIsWhole, O!ConnectionIsOfSnapshot, O!AsSet
  <2>12. QED
    BY <1>2, <2>9, <2>10, <2>11 DEF ReaderInv, ReaderTypeOK
<1>3. QED
  BY <1>1, <1>2 DEF O!Build

LEMMA SaveStep ==
  ASSUME ReaderInv, NEW r \in Readings, O!Save(r)
  PROVE  ReaderInv'
<1>1. /\ reads[r] \in Jobs /\ JobOK(reads[r], bucket, proven) /\ reads[r].stage = "saving"
      /\ UNCHANGED <<bucket, reader, proven>>
  BY DEF ReaderInv, ReaderTypeOK, O!Save
<1>2. reads[r].conn \in Connections /\ reads[r].conn \in proven
  BY <1>1 DEF JobOK, Jobs, ListedWasMet, Read
<1>3. /\ reader' \in Readers /\ reader'.config = reader.config /\ reader'.snapshot = reader.snapshot
  BY <1>1 DEF ReaderInv, ReaderTypeOK
<1>4. CASE reads' = O!Ended(r) /\ UNCHANGED saved
  <2>1. UNCHANGED <<bucket, saved, proven>>
    BY <1>1, <1>4
  <2>2. QED
    BY <1>3, <1>4, <2>1, ReadEnds
<1>5. CASE saved' = reads[r].conn /\ reads' = [reads EXCEPT ![r].stage = "publishing"]
  <2>1. PICK j : j = [reads[r] EXCEPT !.stage = "publishing"]
    OBVIOUS
  <2>2. /\ j \in Jobs /\ j.stage = "publishing" /\ j.conn = reads[r].conn /\ j.got = reads[r].got
        /\ j.listed = reads[r].listed /\ j.steady = reads[r].steady /\ j.met = reads[r].met
    BY <1>1, <2>1 DEF Jobs, Read
  <2>3. JobOK(j, bucket, proven)
    BY <1>1, <2>2 DEF JobOK, Read, ListedWasMet, SteadyIsListed
  <2>4. reads' = [reads EXCEPT ![r] = j] /\ UNCHANGED bucket /\ proven \subseteq proven'
    BY <1>1, <1>5, <2>1
  <2>5. JobOK(j, bucket, proven')
    BY <1>1, <2>3
  <2>6. /\ reads' \in [Readings -> Jobs]
        /\ (\A q \in Readings : JobOK(reads[q], bucket, proven))'
    BY <2>2, <2>4, <2>5, OneJob
  <2>7. (O!SnapshotIsWhole /\ O!ConnectionIsOfSnapshot)'
    BY <1>1, <1>2, <1>5 DEF ReaderInv, O!SnapshotIsWhole, O!ConnectionIsOfSnapshot, O!AsSet
  <2>8. QED
    BY <1>1, <1>2, <1>3, <1>5, <2>6, <2>7 DEF ReaderInv, ReaderTypeOK
<1>6. QED
  BY <1>4, <1>5 DEF O!Save

LEMMA PublishStep ==
  ASSUME ReaderInv, NEW r \in Readings, O!Publish(r)
  PROVE  ReaderInv'
<1>1. /\ reads[r] \in Jobs /\ JobOK(reads[r], bucket, proven) /\ reads[r].stage = "publishing"
      /\ UNCHANGED <<bucket, saved, proven>>
      /\ reader' = [config |-> reads[r].conn, snapshot |-> O!Whole(r), error |-> FALSE]
  BY DEF ReaderInv, ReaderTypeOK, O!Publish
<1>2. /\ ListedWasMet(reads[r]) /\ SteadyIsListed(reads[r]) /\ reads[r].conn \in Connections
      /\ reads[r].conn \in proven /\ DOMAIN reads[r].got = DOMAIN reads[r].listed
  BY <1>1 DEF JobOK, Jobs, ListedWasMet, Read
<1>3. reads[r].got = reads[r].listed
  <2>1. /\ reads[r].got \in [DOMAIN reads[r].got -> Nat]
        /\ reads[r].listed \in [DOMAIN reads[r].listed -> Nat]
    BY <1>1, VersionsAre DEF Jobs
  <2>2. \A k \in DOMAIN reads[r].got : reads[r].got[k] = reads[r].listed[k]
    BY <1>2 DEF ListedWasMet
  <2>3. QED
    BY <1>2, <2>1, <2>2
<1>4. /\ O!Whole(r) \in Snapshots /\ O!Whole(r).conn = reads[r].conn
      /\ O!Whole(r).objects = reads[r].listed /\ O!Whole(r).got = reads[r].got
      /\ O!Whole(r).steady = reads[r].steady /\ O!Whole(r).met = reads[r].met
  BY <1>1 DEF O!Whole, Snapshots, Jobs
<1>5. reader' \in Readers /\ reader'.config = reads[r].conn /\ reader'.snapshot = O!Whole(r)
  BY <1>1, <1>2, <1>4 DEF Readers
<1>6. O!SnapshotIsWhole'
  <2>1. reads[r].steady \subseteq O!AsSet(reads[r].listed)
    <3>1. ASSUME NEW o \in reads[r].steady
          PROVE  o \in O!AsSet(reads[r].listed)
      <4>1. PICK k \in ObjectKeys, v \in Nat : o = <<k, v>>
        BY <1>1 DEF Jobs
      <4>2. k \in DOMAIN reads[r].listed /\ reads[r].listed[k] = v
        BY <1>1, <1>2, <4>1 DEF SteadyIsListed
      <4>3. QED
        BY <4>1, <4>2 DEF O!AsSet
    <3>2. QED
      BY <3>1
  <2>2. O!AsSet(reads[r].listed) \subseteq reads[r].met
    BY <1>2 DEF O!AsSet, ListedWasMet
  <2>3. QED
    BY <1>3, <1>4, <1>5, <2>1, <2>2 DEF O!SnapshotIsWhole, O!AsSet
<1>7. O!ConnectionIsOfSnapshot'
  BY <1>1, <1>2, <1>4, <1>5 DEF O!ConnectionIsOfSnapshot, ReaderInv
<1>8. reads' \in [Readings -> Jobs] /\ (\A q \in Readings : JobOK(reads[q], bucket, proven))'
  <2>1. PICK j \in Jobs : j.stage \in {"none", "answer"} /\ reads' = [reads EXCEPT ![r] = j]
    <3>1. CASE reads[r].kind = "query"
      <4>1. [reads[r] EXCEPT !.stage = "answer"] \in Jobs
        BY <1>1 DEF Jobs
      <4>2. reads' = [reads EXCEPT ![r] = [reads[r] EXCEPT !.stage = "answer"]]
        BY <3>1 DEF O!Publish, ReaderInv, ReaderTypeOK
      <4>3. [reads[r] EXCEPT !.stage = "answer"].stage = "answer"
        BY <1>1 DEF Jobs
      <4>4. QED
        BY <4>1, <4>2, <4>3
    <3>2. CASE reads[r].kind # "query"
      BY <3>2, NoJobTyped DEF O!Publish, O!Ended
    <3>3. QED
      BY <3>1, <3>2
  <2>2. JobOK(j, bucket, proven') /\ UNCHANGED bucket /\ proven \subseteq proven'
    BY <1>1, <2>1, JobRests
  <2>3. QED
    BY <2>1, <2>2, OneJob
<1>9. QED
  BY <1>1, <1>5, <1>6, <1>7, <1>8 DEF ReaderInv, ReaderTypeOK

LEMMA RestartStep ==
  ASSUME ReaderInv, O!Restart
  PROVE  ReaderInv'
<1>1. /\ reader' = O!Fresh(saved) /\ reads' = [r \in Readings |-> O!NoJob]
      /\ UNCHANGED <<bucket, saved, proven>>
  BY DEF O!Restart
<1>2. O!Nothing \in Snapshots /\ O!Nothing.conn = None
  BY NoVersions DEF O!Nothing, Snapshots
<1>3. reader' \in Readers /\ reader'.config = saved /\ reader'.snapshot.conn = None
  BY <1>1, <1>2 DEF O!Fresh, Readers, ReaderInv, ReaderTypeOK
<1>4. reads' \in [Readings -> Jobs] /\ \A q \in Readings : reads'[q] = O!NoJob
  BY <1>1, NoJobTyped
<1>5. (\A q \in Readings : JobOK(reads[q], bucket, proven))'
  BY <1>4, NoJobTyped, JobRests
<1>6. (O!SnapshotIsWhole /\ O!ConnectionIsOfSnapshot)'
  BY <1>1, <1>3 DEF O!SnapshotIsWhole, O!ConnectionIsOfSnapshot, ReaderInv
<1>7. QED
  BY <1>1, <1>3, <1>4, <1>5, <1>6 DEF ReaderInv, ReaderTypeOK

LEMMA ReaderInvStep == ReaderInv /\ [O!ReaderNext]_(O!readerVars) => ReaderInv'
<1> SUFFICES ASSUME ReaderInv, [O!ReaderNext]_(O!readerVars)
             PROVE  ReaderInv'
  OBVIOUS
<1>1. ASSUME NEW r \in Readings, O!Answer(r) \/ O!GivenUp(r)
      PROVE  ReaderInv'
  <2>1. UNCHANGED <<bucket, saved, proven>> /\ reads' = O!Ended(r)
    BY <1>1 DEF O!Answer, O!GivenUp
  <2>2. reader' \in Readers /\ reader'.config = reader.config /\ reader'.snapshot = reader.snapshot
    BY <1>1 DEF O!Answer, O!GivenUp, ReaderInv, ReaderTypeOK
  <2>3. QED
    BY <2>1, <2>2, ReadEnds
<1>2. ASSUME NEW r \in Readings, NEW c \in Connections, O!Select(r, c)
      PROVE  ReaderInv'
  BY <1>2, AskedStep DEF O!Select
<1>3. ASSUME NEW r \in Readings, O!Refresh(r)
      PROVE  ReaderInv'
  BY <1>3, AskedStep DEF O!Refresh
<1>4. ASSUME NEW r \in Readings, O!Query(r)
      PROVE  ReaderInv'
  <2>1. (IF reader.snapshot.conn # None THEN "answer" ELSE "waiting") \in {"waiting", "answer"}
    OBVIOUS
  <2>2. QED
    BY <1>4, <2>1, AskedStep DEF O!Query
<1>5. CASE UNCHANGED <<bucket, saved, reader, reads, proven>>
  BY <1>5 DEF ReaderInv, ReaderTypeOK, O!SnapshotIsWhole, O!ConnectionIsOfSnapshot, O!AsSet
<1>6. ASSUME NEW r \in Readings, O!TimedOut(r)
      PROVE  ReaderInv'
  BY <1>6, FailedStep DEF O!TimedOut
<1>7. ASSUME NEW r \in Readings,
             O!Enter(r) \/ O!Page(r) \/ O!Build(r) \/ O!Save(r) \/ O!Publish(r)
             \/ \E k \in 1..MaxListing : O!Download(r, k)
      PROVE  ReaderInv'
  BY <1>7, EnterStep, PageStep, BuildStep, SaveStep, PublishStep, DownloadStep DEF ObjectKeys
<1>8. ASSUME NEW c \in Connections, NEW k \in 1..MaxListing, O!Write(c, k)
      PROVE  ReaderInv'
  BY <1>8, WriteStep DEF ObjectKeys
<1>9. QED
  BY <1>1, <1>2, <1>3, <1>4, <1>5, <1>6, <1>7, <1>8, RestartStep DEF O!ReaderNext, O!readerVars

-----------------------------------------------------------------------------
(* The history that the desktop application shows.                         *)

Questions ==
  [what : {"none", "me", "mark"}, source : {"local", "s3"},
   stage : {"none", "route", "viewer", "send", "answered"},
   to : {"none", "viewer", "collector"}, id : Nat, tries : Nat, applied : Nat, ledger : BOOLEAN]

Viewers == [id : Nat, ledger : BOOLEAN]

HistoryTypeOK ==
  /\ runs \in Nat /\ collecting \in 0..runs /\ published \in 0..runs
  /\ history \in Viewers /\ history.id <= runs
  /\ history.id = 0 => ~history.ledger
  /\ ask \in [HistoryAsks -> Questions]

(* A request that goes to the viewer goes to one that exists or is gone,   *)
(* and to one with the ledger if it asks for the local history; what       *)
(* changes something is not asked again once it was done.                  *)
AskOK(a, serving, n) ==
  /\ a.stage # "answered" => a.ledger
  /\ a.stage = "send" => a.id \in 1..n
  /\ a.stage = "send" /\ a.source = "local" /\ a.to = "viewer" /\ a.id = serving.id => serving.ledger
  /\ a.what = "mark" /\ a.stage # "answered" => a.applied = 0
  /\ a.stage = "answered" /\ a.source = "local" => a.ledger
  /\ a.what = "mark" => a.applied <= 1

HistoryInv ==
  /\ HistoryTypeOK
  /\ \A r \in HistoryAsks : AskOK(ask[r], history, runs)

LEMMA WindowStep ==
  [DeviceNext]_deviceVars => [W!HistoryNext]_(W!historyVars)
BY AppStep
   DEF W!SwitchNext, W!Review, W!Moved, W!ListWorkspaces, W!SignedIn, W!GrantAges,
       W!SwitchBegins, W!TakeGrant, W!Authorized, W!ChildSwitches, W!appVars, W!historyVars

LEMMA NoAskOK ==
  /\ W!NoAsk \in Questions /\ W!NoAsk.what = "none" /\ W!NoAsk.stage = "none"
  /\ W!NoAsk.applied = 0 /\ W!NoAsk.ledger
BY DEF W!NoAsk, Questions

LEMMA HistoryStarted == DeviceInit => HistoryInv
<1> SUFFICES ASSUME DeviceInit
             PROVE  HistoryInv
  OBVIOUS
<1>1. W!AppInit
  BY DEF DeviceInit
<1>2. HistoryTypeOK
  BY <1>1, NoAskOK DEF W!AppInit, W!NoViewer, HistoryTypeOK, Viewers
<1>3. \A r \in HistoryAsks : ask[r] = W!NoAsk
  BY <1>1 DEF W!AppInit
<1>4. \A r \in HistoryAsks : AskOK(ask[r], history, runs)
  BY <1>3, NoAskOK DEF AskOK
<1>5. QED
  BY <1>2, <1>4 DEF HistoryInv

(* A viewer may be gone, or be a new one.                                  *)
Succeeds(new, old, n) == new = old \/ (new.id = 0 /\ ~new.ledger) \/ new.id = n + 1

LEMMA AskStays ==
  ASSUME NEW a \in Questions, NEW old \in Viewers, NEW new \in Viewers, NEW n \in Nat, NEW m \in Nat,
         AskOK(a, old, n), n <= m, Succeeds(new, old, n)
  PROVE  AskOK(a, new, m)
BY DEF AskOK, Questions, Viewers, Succeeds

LEMMA OneAsk ==
  ASSUME HistoryInv, NEW r \in HistoryAsks, NEW a \in Questions,
         ask' = [ask EXCEPT ![r] = a], UNCHANGED <<collecting, published>>,
         runs' \in Nat, runs <= runs',
         history' \in Viewers, history'.id <= runs', history'.id = 0 => ~history'.ledger,
         Succeeds(history', history, runs),
         AskOK(a, history', runs')
  PROVE  HistoryInv'
<1>1. HistoryTypeOK'
  BY DEF HistoryInv, HistoryTypeOK
<1>2. ASSUME NEW q \in HistoryAsks
      PROVE  AskOK(ask'[q], history', runs')
  <2>1. CASE q = r
    BY <2>1 DEF HistoryInv, HistoryTypeOK
  <2>2. CASE q # r
    <3>1. /\ ask'[q] = ask[q] /\ ask[q] \in Questions /\ AskOK(ask[q], history, runs)
          /\ history \in Viewers /\ runs \in Nat
      BY <2>2 DEF HistoryInv, HistoryTypeOK
    <3>2. QED
      BY <3>1, AskStays
  <2>3. QED
    BY <2>1, <2>2
<1>3. QED
  BY <1>1, <1>2 DEF HistoryInv

(* The same with the viewer as it was.                                     *)
LEMMA OnlyAnAsk ==
  ASSUME HistoryInv, NEW r \in HistoryAsks, NEW a \in Questions,
         ask' = [ask EXCEPT ![r] = a], UNCHANGED <<collecting, published, history, runs>>,
         AskOK(a, history, runs)
  PROVE  HistoryInv'
<1>1. /\ runs' \in Nat /\ runs <= runs'
      /\ history' \in Viewers /\ history'.id <= runs' /\ (history'.id = 0 => ~history'.ledger)
  BY DEF HistoryInv, HistoryTypeOK
<1>2. Succeeds(history', history, runs) /\ UNCHANGED <<collecting, published>>
  BY DEF Succeeds
<1>3. AskOK(a, history', runs')
  OBVIOUS
<1>4. QED
  BY <1>1, <1>2, <1>3, OneAsk

LEMMA UnansweredOK ==
  ASSUME NEW a \in Questions, a.ledger, NEW v, NEW n
  PROVE  W!Unanswered(a) \in Questions /\ AskOK(W!Unanswered(a), v, n)
<1>1. CASE W!Retried(a)
  <2>1. a.what = "me" /\ a.tries \in Nat /\ a.tries + 1 \in Nat
    BY <1>1 DEF W!Retried, Questions
  <2>2. PICK b : b = [a EXCEPT !.stage = "route", !.tries = a.tries + 1]
    OBVIOUS
  <2>3. b \in Questions /\ b.stage = "route" /\ b.what = "me" /\ b.ledger
    BY <2>1, <2>2 DEF Questions
  <2>4. W!Unanswered(a) = b
    BY <1>1, <2>2 DEF W!Unanswered
  <2>5. QED
    BY <2>3, <2>4 DEF AskOK
<1>2. CASE ~W!Retried(a)
  <2>1. W!Unanswered(a) = W!NoAsk
    BY <1>2 DEF W!Unanswered
  <2>2. QED
    BY <2>1, NoAskOK DEF AskOK
<1>3. QED
  BY <1>1, <1>2

LEMMA SentOK ==
  ASSUME HistoryInv, NEW r \in HistoryAsks, ask[r].stage \in {"route", "viewer"},
         NEW to \in {"viewer", "collector"}, NEW n \in Nat, runs <= n, NEW id \in 1..n,
         NEW v, ask[r].source = "local" /\ to = "viewer" /\ id = v.id => v.ledger
  PROVE  \E a \in Questions : W!Sent(r, to, id) = [ask EXCEPT ![r] = a] /\ AskOK(a, v, n)
<1>1. ask[r] \in Questions /\ AskOK(ask[r], history, runs) /\ id \in Nat
  BY DEF HistoryInv, HistoryTypeOK
<1>2. PICK a : a = [ask[r] EXCEPT !.stage = "send", !.to = to, !.id = id]
  OBVIOUS
<1>3. /\ a \in Questions /\ a.stage = "send" /\ a.to = to /\ a.id = id /\ a.source = ask[r].source
      /\ a.what = ask[r].what /\ a.applied = ask[r].applied /\ a.ledger = ask[r].ledger
  BY <1>1, <1>2 DEF Questions
<1>4. AskOK(a, v, n)
  BY <1>1, <1>3 DEF AskOK, Questions
<1>5. W!Sent(r, to, id) = [ask EXCEPT ![r] = a]
  BY <1>2 DEF W!Sent
<1>6. QED
  BY <1>3, <1>4, <1>5

LEMMA OpenViewerStep ==
  ASSUME HistoryInv, NEW r \in HistoryAsks, W!OpenViewer(r)
  PROVE  HistoryInv'
<1> DEFINE needed == ask[r].source = "local"
<1>1. /\ ask[r] \in Questions /\ ask[r].stage = "viewer" /\ ask[r].ledger
      /\ runs \in Nat /\ history \in Viewers /\ history.id <= runs /\ (history.id = 0 => ~history.ledger)
      /\ UNCHANGED <<collecting, published>>
  BY DEF HistoryInv, HistoryTypeOK, AskOK, W!OpenViewer
<1>2. CASE W!Serves(needed)
  <2>1. ask' = W!Sent(r, "viewer", history.id) /\ UNCHANGED <<history, runs>>
    BY <1>2 DEF W!OpenViewer, W!EnsureViewer
  <2>2. history # W!NoViewer /\ (needed => history.ledger)
    BY <1>2 DEF W!Serves
  <2>3. history.id # 0
    <3>1. history = [id |-> history.id, ledger |-> history.ledger]
      BY <1>1 DEF Viewers
    <3>2. history.ledger \in BOOLEAN
      BY <1>1 DEF Viewers
    <3>3. QED
      BY <1>1, <2>2, <3>1, <3>2 DEF W!NoViewer
  <2>4. history.id \in 1..runs
    BY <1>1, <2>3 DEF Viewers
  <2>5. \E a \in Questions : W!Sent(r, "viewer", history.id) = [ask EXCEPT ![r] = a] /\ AskOK(a, history, runs)
    BY <1>1, <2>2, <2>4, SentOK
  <2>6. PICK a \in Questions : ask' = [ask EXCEPT ![r] = a] /\ AskOK(a, history, runs)
    BY <2>1, <2>5
  <2>7. UNCHANGED <<collecting, published, history, runs>>
    BY <1>1, <2>1
  <2>8. QED
    BY <2>6, <2>7, OnlyAnAsk
<1>3. CASE ~W!Serves(needed) /\ (runs = MaxServers \/ (needed /\ collecting # 0))
  <2>1. ask' = [ask EXCEPT ![r] = W!Unanswered(ask[r])] /\ history' = W!NoViewer /\ runs' = runs
    BY <1>3 DEF W!OpenViewer, W!EnsureViewer
  <2>2. PICK a \in Questions : a = W!Unanswered(ask[r]) /\ AskOK(a, history', runs')
    BY <1>1, UnansweredOK
  <2>3. history' \in Viewers /\ history'.id = 0 /\ ~history'.ledger
    BY <2>1 DEF W!NoViewer, Viewers
  <2>4. Succeeds(history', history, runs) /\ runs' \in Nat /\ runs <= runs' /\ history'.id <= runs'
    BY <1>1, <2>1, <2>3 DEF Succeeds
  <2>5. ask' = [ask EXCEPT ![r] = a]
    BY <2>1, <2>2
  <2>6. QED
    BY <1>1, <2>2, <2>3, <2>4, <2>5, OneAsk
<1>4. CASE ~W!Serves(needed) /\ ~(runs = MaxServers \/ (needed /\ collecting # 0))
  <2>1. runs' = runs + 1 /\ history' = W!Started(runs') /\ ask' = W!Sent(r, "viewer", runs')
    BY <1>4 DEF W!OpenViewer, W!EnsureViewer
  <2>2. history' \in Viewers /\ history'.id = runs' /\ (history'.ledger <=> collecting = 0)
    <3> DEFINE alone == collecting = 0
    <3>1. alone \in BOOLEAN /\ runs' \in Nat
      BY <1>1, <2>1
    <3>2. history' = [id |-> runs', ledger |-> alone]
      BY <1>1, <2>1 DEF W!Started
    <3>3. alone <=> collecting = 0
      OBVIOUS
    <3> HIDE DEF alone
    <3>4. history' \in Viewers /\ history'.id = runs' /\ history'.ledger = alone
      BY <3>1, <3>2 DEF Viewers
    <3>5. QED
      BY <3>1, <3>3, <3>4
  <2>3. /\ runs' \in Nat /\ runs <= runs' /\ runs' \in 1..runs'
        /\ history'.id <= runs' /\ history'.id # 0 /\ Succeeds(history', history, runs)
    BY <1>1, <2>1, <2>2 DEF Succeeds
  <2>4. ask[r].source = "local" => history'.ledger
    BY <1>4, <2>2
  <2>5. \E a \in Questions : W!Sent(r, "viewer", runs') = [ask EXCEPT ![r] = a] /\ AskOK(a, history', runs')
    BY <1>1, <2>3, <2>4, SentOK
  <2>6. PICK a \in Questions : ask' = [ask EXCEPT ![r] = a] /\ AskOK(a, history', runs')
    BY <2>1, <2>5
  <2>7. QED
    BY <1>1, <2>2, <2>3, <2>6, OneAsk
<1>5. QED
  BY <1>2, <1>3, <1>4

LEMMA HistoryInvStep == HistoryInv /\ [W!HistoryNext]_(W!historyVars) => HistoryInv'
<1> SUFFICES ASSUME HistoryInv, [W!HistoryNext]_(W!historyVars)
             PROVE  HistoryInv'
  OBVIOUS
<1>0. runs \in Nat /\ collecting \in 0..runs /\ published \in 0..runs /\ history \in Viewers
  BY DEF HistoryInv, HistoryTypeOK
<1>1. CASE W!CollectorStarts
  <2>1. /\ runs' = runs + 1 /\ collecting' = runs' /\ UNCHANGED <<published, history, ask>>
    BY <1>1 DEF W!CollectorStarts
  <2>2. HistoryTypeOK'
    BY <1>0, <2>1 DEF HistoryInv, HistoryTypeOK, Viewers
  <2>3. \A r \in HistoryAsks : AskOK(ask[r], history, runs')
    BY <1>0, <2>1, AskStays DEF HistoryInv, HistoryTypeOK, Succeeds
  <2>4. QED
    BY <2>1, <2>2, <2>3 DEF HistoryInv
<1>2. CASE W!CollectorPublishes \/ W!CollectorStops
  BY <1>0, <1>2 DEF W!CollectorPublishes, W!CollectorStops, HistoryInv, HistoryTypeOK
<1>3. CASE W!CloseViewer
  <2>1. history' \in Viewers /\ history'.id = 0 /\ ~history'.ledger /\ UNCHANGED <<collecting, published, runs, ask>>
    BY <1>3 DEF W!CloseViewer, W!NoViewer, Viewers
  <2>2. HistoryTypeOK'
    BY <1>0, <2>1 DEF HistoryInv, HistoryTypeOK
  <2>3. \A r \in HistoryAsks : AskOK(ask[r], history', runs)
    BY <1>0, <2>1, AskStays DEF HistoryInv, HistoryTypeOK, Succeeds
  <2>4. QED
    BY <2>1, <2>2, <2>3 DEF HistoryInv
<1>4. ASSUME NEW r \in HistoryAsks, W!Ask(r)
      PROVE  HistoryInv'
  <2>1. PICK w \in {"me", "mark"}, s \in {"local", "s3"} :
          ask' = [ask EXCEPT ![r] = [W!NoAsk EXCEPT !.what = w, !.source = s, !.stage = "route"]]
    BY <1>4 DEF W!Ask
  <2>2. PICK a : a = [W!NoAsk EXCEPT !.what = w, !.source = s, !.stage = "route"]
    OBVIOUS
  <2>3. a \in Questions /\ a.stage = "route" /\ a.ledger /\ a.applied = 0
    BY <2>2, NoAskOK DEF Questions
  <2>4. AskOK(a, history, runs)
    BY <2>3 DEF AskOK
  <2>5. UNCHANGED <<collecting, published, history, runs>> /\ ask' = [ask EXCEPT ![r] = a]
    BY <1>4, <2>1, <2>2 DEF W!Ask
  <2>6. QED
    BY <2>3, <2>4, <2>5, OnlyAnAsk
<1>5. ASSUME NEW r \in HistoryAsks, W!Route(r)
      PROVE  HistoryInv'
  <2>1. /\ ask[r] \in Questions /\ ask[r].stage = "route" /\ ask[r].ledger
        /\ UNCHANGED <<collecting, published, history, runs>> /\ AskOK(ask[r], history, runs)
    BY <1>5 DEF W!Route, HistoryInv, HistoryTypeOK, AskOK
  <2>2. CASE ask' = [ask EXCEPT ![r] = W!Unanswered(ask[r])]
    <3>1. PICK a \in Questions : a = W!Unanswered(ask[r]) /\ AskOK(a, history, runs)
      BY <2>1, UnansweredOK
    <3>2. QED
      BY <2>1, <2>2, <3>1, OnlyAnAsk
  <2>3. CASE published # 0 /\ ask' = W!Sent(r, "collector", published)
    <3>1. /\ published \in 1..runs /\ runs <= runs /\ "collector" \in {"viewer", "collector"}
          /\ ask[r].stage \in {"route", "viewer"}
          /\ ask[r].source = "local" /\ "collector" = "viewer" /\ published = history.id => history.ledger
      BY <1>0, <2>1, <2>3
    <3>2. \E a \in Questions : W!Sent(r, "collector", published) = [ask EXCEPT ![r] = a] /\ AskOK(a, history, runs)
      BY <1>0, <2>1, <3>1, SentOK
    <3>3. PICK a \in Questions : ask' = [ask EXCEPT ![r] = a] /\ AskOK(a, history, runs)
      BY <2>3, <3>2
    <3>4. QED
      BY <2>1, <3>3, OnlyAnAsk
  <2>4. CASE ask' = [ask EXCEPT ![r].stage = "viewer"]
    <3>1. PICK a : a = [ask[r] EXCEPT !.stage = "viewer"]
      OBVIOUS
    <3>2. /\ a \in Questions /\ a.stage = "viewer" /\ a.source = ask[r].source /\ a.what = ask[r].what
          /\ a.applied = ask[r].applied /\ a.ledger
      BY <2>1, <3>1 DEF Questions
    <3>3. AskOK(a, history, runs)
      BY <2>1, <3>2 DEF AskOK
    <3>4. ask' = [ask EXCEPT ![r] = a]
      BY <2>4, <3>1
    <3>5. QED
      BY <2>1, <3>2, <3>3, <3>4, OnlyAnAsk
  <2>5. QED
    BY <1>5, <2>2, <2>3, <2>4 DEF W!Route
<1>6. ASSUME NEW r \in HistoryAsks, W!Send(r) \/ W!AnswerLost(r)
      PROVE  HistoryInv'
  <2>1. /\ ask[r] \in Questions /\ ask[r].stage = "send" /\ ask[r].ledger
        /\ UNCHANGED <<collecting, published, history, runs>> /\ AskOK(ask[r], history, runs)
    BY <1>6 DEF W!Send, W!AnswerLost, HistoryInv, HistoryTypeOK, AskOK
  <2>2. CASE ask' = [ask EXCEPT ![r] = W!Unanswered(ask[r])]
    <3>1. PICK a \in Questions : a = W!Unanswered(ask[r]) /\ AskOK(a, history, runs)
      BY <2>1, UnansweredOK
    <3>2. QED
      BY <2>1, <2>2, <3>1, OnlyAnAsk
  <2>3. CASE ask' = [ask EXCEPT ![r] = W!Unanswered([ask[r] EXCEPT !.applied = @ + 1])]
    <3>1. PICK b : b = [ask[r] EXCEPT !.applied = @ + 1]
      OBVIOUS
    <3>2. ask[r].applied + 1 \in Nat
      BY <2>1 DEF Questions
    <3>3. b \in Questions /\ b.ledger
      BY <2>1, <3>1, <3>2 DEF Questions
    <3>4. PICK a \in Questions : a = W!Unanswered(b) /\ AskOK(a, history, runs)
      BY <3>3, UnansweredOK
    <3>5. QED
      BY <2>1, <2>3, <3>1, <3>4, OnlyAnAsk
  <2>4. CASE W!Send(r) /\ W!Reached(ask[r])
    <3>1. PICK b : b = [ask[r] EXCEPT !.applied = ask[r].applied + 1,
                          !.ledger = ask[r].ledger /\ (ask[r].to = "viewer" => history.ledger),
                          !.stage = "answered"]
      OBVIOUS
    <3>2. ask' = [ask EXCEPT ![r] = b]
      BY <2>1, <2>4, <3>1 DEF W!Send, Questions
    <3>3. ask[r].applied + 1 \in Nat
      BY <2>1 DEF Questions
    <3>4. /\ b \in Questions /\ b.stage = "answered" /\ b.applied = ask[r].applied + 1
          /\ b.what = ask[r].what /\ b.source = ask[r].source
          /\ (b.ledger <=> (ask[r].to = "viewer" => history.ledger))
      BY <2>1, <3>1, <3>3 DEF Questions
    <3>5. ask[r].to = "viewer" => ask[r].id = history.id
      BY <2>4 DEF W!Reached
    <3>6. AskOK(b, history, runs)
      BY <2>1, <3>4, <3>5 DEF AskOK, Questions
    <3>7. QED
      BY <2>1, <3>2, <3>4, <3>6, OnlyAnAsk
  <2>5. QED
    BY <1>6, <2>2, <2>3, <2>4 DEF W!Send, W!AnswerLost
<1>7. ASSUME NEW r \in HistoryAsks, W!Shown(r)
      PROVE  HistoryInv'
  <2>1. ask' = [ask EXCEPT ![r] = W!NoAsk] /\ UNCHANGED <<collecting, published, history, runs>>
    BY <1>7 DEF W!Shown
  <2>2. W!NoAsk \in Questions /\ AskOK(W!NoAsk, history, runs)
    BY NoAskOK DEF AskOK
  <2>3. QED
    BY <2>1, <2>2, OnlyAnAsk
<1>8. CASE UNCHANGED W!historyVars
  BY <1>8 DEF W!historyVars, HistoryInv, HistoryTypeOK
<1>9. QED
  BY <1>1, <1>2, <1>3, <1>4, <1>5, <1>6, <1>7, <1>8, OpenViewerStep DEF W!HistoryNext

(* What a page is answered from is what it says it is: a snapshot is of one  *)
(* connection and whole, though the bucket changes while it is read, and    *)
(* the local history comes from a process that has the database (s3_query, *)
(* the application's history_request).                                      *)
THEOREM DeviceAnswersAreTrue == DeviceSpec => []AnswersAreTrue
<1>1. ReaderInv /\ [DeviceNext]_deviceVars => ReaderInv'
  BY BucketStep, ReaderInvStep
<1>2. HistoryInv /\ [DeviceNext]_deviceVars => HistoryInv'
  BY WindowStep, HistoryInvStep
<1>3. HistoryInv => W!HistoryOfLedger
  BY DEF HistoryInv, AskOK, W!HistoryOfLedger
<1>4. ReaderInv /\ HistoryInv => AnswersAreTrue
  BY <1>3 DEF ReaderInv, AnswersAreTrue
<1>5. QED
  BY <1>1, <1>2, <1>4, ReaderStarted, HistoryStarted, PTL DEF DeviceSpec

-----------------------------------------------------------------------------
(* The collector that is up can be reached.                                *)

LEMMA ServiceStep ==
  [DeviceNext]_deviceVars => (scene = "service" /\ L!LifeNext) \/ UNCHANGED L!lifeVars
BY DEF DeviceNext, deviceVars, service, L!lifeVars

Processes ==
  [at : {"none", "probe", "bind", "open", "begin", "up", "ending"},
   exe : {"app", "cli"}, version : Int]
Registrations == [exe : {"app", "cli"}, due : BOOLEAN, leaving : BOOLEAN]
Kinds == {"none", "enable", "resume", "update", "recover", "install", "self-update", "uninstall"}
Places ==
  {"idle", "close", "recover", "stop", "fetch", "unload", "restart", "check", "mark", "swap",
   "term", "wait", "unmark", "kick", "await", "resume", "write", "again", "bootout", "gone",
   "bootstrap", "remove", "find"}
Operations ==
  [kind : Kinds, at : Places, pid : {"service", "manual", None}, swapped : BOOLEAN]

ServiceTypeOK ==
  /\ disk \in [{"app", "cli"} -> Int]
  /\ unit \in {"app", "cli", None}
  /\ job # None => job \in Registrations
  /\ agents \in [{"service", "manual"} -> Processes]
  /\ proc \in [{"app", "cli"} -> Operations]

(* A collector past the opening of the database has it, and one past the     *)
(* binding of the socket has that, and keeps a second one from binding it:   *)
(* unless both had probed before either bound. Only a process that handles   *)
(* SIGTERM is named in state.json, so that a command ends no other.          *)
Bound == {"open", "begin", "up", "ending"}
HasLedger == \A s \in L!Slots : agents[s].at \in {"begin", "up", "ending"} => holder = s
HasSocket == \A s \in L!Slots : agents[s].at \in Bound => socket = s \/ raced
BindsAlone ==
  \A s, t \in L!Slots :
    s # t /\ agents[s].at \in Bound /\ agents[t].at = "bind" => raced
SavedHandles == \A s \in L!Slots : state = s => agents[s].at \in {"up", "ending"}

ServiceInv == ServiceTypeOK /\ HasLedger /\ HasSocket /\ BindsAlone /\ SavedHandles

LEMMA ServiceInit == DeviceInit => ServiceInv
<1> SUFFICES ASSUME L!LifeInit
             PROVE  ServiceInv
  BY DEF DeviceInit
<1>1. ServiceTypeOK
  <2>1. L!Gone \in Processes /\ L!Idle \in Operations
    BY DEF L!Gone, L!Idle, Processes, Operations, Kinds, Places
  <2>2. disk \in [{"app", "cli"} -> Int] /\ unit \in {"app", "cli", None} /\ job = None
    BY DEF L!LifeInit, L!Exes
  <2>3. agents \in [{"service", "manual"} -> Processes] /\ proc \in [{"app", "cli"} -> Operations]
    BY <2>1 DEF L!LifeInit, L!Slots, L!Exes
  <2>4. QED
    BY <2>2, <2>3 DEF ServiceTypeOK
<1>2. \A s \in L!Slots : agents[s].at = "none" /\ state # s
  BY ServiceAssumption DEF L!LifeInit, L!Slots, L!Gone
<1>3. QED
  BY <1>1, <1>2 DEF ServiceInv, HasLedger, HasSocket, BindsAlone, SavedHandles, Bound

(* A process that ends, in whichever way, leaves nothing it had to another.  *)
LEMMA EndedKeeps ==
  ASSUME ServiceInv, NEW s \in L!Slots, NEW clean \in BOOLEAN, L!Ended(s, clean), raced' = raced,
         clean => agents[s].at = "ending"
  PROVE  /\ agents' \in [{"service", "manual"} -> Processes]
         /\ job' # None => job' \in Registrations
         /\ HasLedger' /\ HasSocket' /\ BindsAlone' /\ SavedHandles'
<1>1. agents' = [agents EXCEPT ![s] = L!Gone] /\ L!Gone \in Processes /\ L!Gone.at = "none"
  BY DEF L!Ended, L!Gone, Processes
<1>2. agents \in [{"service", "manual"} -> Processes] /\ s \in {"service", "manual"}
  BY DEF ServiceInv, ServiceTypeOK, L!Slots
<1>3. agents' \in [{"service", "manual"} -> Processes]
  BY <1>1, <1>2
<1>4. job' # None => job' \in Registrations
  <2>1. CASE job' = job
    BY <2>1 DEF ServiceInv, ServiceTypeOK
  <2>2. CASE job' = None
    BY <2>2
  <2>3. CASE job # None /\ job' = [job EXCEPT !.due = @ \/ ~clean]
    <3>1. PICK d \in BOOLEAN : job' = [job EXCEPT !.due = d]
      <4>1. (job.due \/ ~clean) \in BOOLEAN
        OBVIOUS
      <4>2. job' = [job EXCEPT !.due = (job.due \/ ~clean)]
        BY <2>3
      <4>3. QED
        BY <4>1, <4>2
    <3>2. QED
      BY <2>3, <3>1 DEF ServiceInv, ServiceTypeOK, Registrations
  <2>4. QED
    BY <2>1, <2>2, <2>3 DEF L!Ended
<1> DEFINE unbound == IF clean THEN None ELSE IF socket = s THEN "dead" ELSE socket
           freed == IF holder = s THEN None ELSE holder
           stale == IF state = s THEN "stale" ELSE state
<1>0. socket' = unbound /\ holder' = freed /\ state' = stale
  BY DEF L!Ended
<1>5. \A t \in L!Slots : t # s => agents'[t] = agents[t]
  BY <1>1, <1>2 DEF L!Slots
<1>6. agents'[s].at = "none"
  BY <1>1, <1>2
<1>7. HasLedger'
  BY <1>0, <1>5, <1>6 DEF ServiceInv, HasLedger, L!Slots
<1>8. HasSocket'
  <2>1. SUFFICES ASSUME NEW t \in L!Slots, t # s, agents[t].at \in Bound, ~raced
                 PROVE  socket' = t
    BY <1>5, <1>6 DEF HasSocket, Bound
  <2>2. socket = t
    BY <2>1 DEF ServiceInv, HasSocket
  <2>3. CASE clean
    BY <2>1, <2>2, <2>3 DEF ServiceInv, HasSocket, Bound
  <2>4. CASE ~clean
    BY <1>0, <2>1, <2>2, <2>4
  <2>5. QED
    BY <2>3, <2>4
<1>9. BindsAlone' /\ SavedHandles'
  BY <1>0, <1>5, <1>6 DEF ServiceInv, BindsAlone, SavedHandles, L!Slots, Bound
<1>10. QED
  BY <1>3, <1>4, <1>7, <1>8, <1>9

(* An operation goes on, or is over.                                         *)
GoesOn(w) ==
  \/ \E at \in Places : proc' = [proc EXCEPT ![w].at = at]
  \/ proc' = [proc EXCEPT ![w] = L!Idle]

LEMMA GoesOnTyped ==
  ASSUME ServiceTypeOK, NEW w \in L!Exes, GoesOn(w)
  PROVE  proc' \in [{"app", "cli"} -> Operations]
<1>1. L!Idle \in Operations
  BY DEF L!Idle, Operations, Kinds, Places
<1>2. proc \in [{"app", "cli"} -> Operations] /\ w \in {"app", "cli"}
  BY DEF ServiceTypeOK, L!Exes
<1>3. ASSUME NEW at \in Places
      PROVE  [proc[w] EXCEPT !.at = at] \in Operations
  BY <1>2, <1>3 DEF Operations
<1>4. CASE proc' = [proc EXCEPT ![w] = L!Idle]
  BY <1>1, <1>2, <1>4
<1>5. ASSUME NEW at \in Places, proc' = [proc EXCEPT ![w].at = at]
      PROVE  proc' \in [{"app", "cli"} -> Operations]
  <2>1. proc' = [proc EXCEPT ![w] = [proc[w] EXCEPT !.at = at]]
    BY <1>5
  <2>2. QED
    BY <1>2, <1>3, <2>1
<1>6. QED
  BY <1>4, <1>5 DEF GoesOn

(* What leaves the collectors and what they hold alone.                      *)
LEMMA CollectorsLeftAlone ==
  ASSUME ServiceInv, ServiceTypeOK', UNCHANGED <<agents, socket, holder, state, raced>>
  PROVE  ServiceInv'
BY DEF ServiceInv, HasLedger, HasSocket, BindsAlone, SavedHandles

LEMMA OnlyTheOperation ==
  ASSUME ServiceInv, proc' \in [{"app", "cli"} -> Operations],
         UNCHANGED <<disk, unit, job, agents, socket, holder, state, raced>>
  PROVE  ServiceInv'
BY CollectorsLeftAlone DEF ServiceInv, ServiceTypeOK

(* The steps of an operation that read what the others do, and go on.        *)
Reads(w) ==
  \/ L!Recover(w) \/ L!Check(w) \/ L!Mark(w) \/ L!RestartAfterUpdate(w) \/ L!Unmark(w)
  \/ L!Resume(w) \/ L!StopManual(w) \/ L!Stopped(w) \/ L!Await(w) \/ L!Removed(w)
  \/ L!FindRunning(w) \/ L!Interrupt(w)

LEMMA ReadsStep ==
  ASSUME ServiceInv, NEW w \in L!Exes, Reads(w)
  PROVE  ServiceInv'
<1>1. UNCHANGED <<disk, unit, job, agents, socket, holder, state, raced>>
  BY DEF Reads, L!Recover, L!Check, L!Mark, L!RestartAfterUpdate, L!Unmark, L!Resume,
         L!StopManual, L!Stopped, L!Await, L!Removed, L!FindRunning, L!Interrupt, L!fixed
<1>2. GoesOn(w)
  <2>1. ASSUME NEW at \in Places, L!Goto(w, at)
        PROVE  GoesOn(w)
    BY <2>1 DEF L!Goto, GoesOn
  <2>2. ASSUME L!Succeed(w) \/ L!Fail(w)
        PROVE  GoesOn(w)
    BY <2>2 DEF L!Succeed, L!Fail, GoesOn
  <2>3. {"restart", "check", "mark", "swap", "unmark", "kick", "term", "await", "write",
         "bootstrap", "again"} \subseteq Places
    BY DEF Places
  <2>4. L!AfterStop(w) \in Places
    BY DEF L!AfterStop, Places
  <2>5. CASE L!Recover(w) \/ L!Check(w) \/ L!Mark(w) \/ L!RestartAfterUpdate(w) \/ L!Unmark(w)
    BY <2>1, <2>2, <2>3, <2>5
       DEF L!Recover, L!Check, L!Mark, L!RestartAfterUpdate, L!Unmark
  <2>6. CASE L!Resume(w)
    <3>1. ("await" \in Places) /\ ("kick" \in Places) /\ ("write" \in Places)
      BY DEF Places
    <3>2. (IF L!Answers THEN "await" ELSE IF job # None THEN "kick" ELSE "write") \in Places
      BY <3>1
    <3>3. QED
      BY <2>1, <2>2, <2>6, <3>2 DEF L!Resume
  <2>7. CASE L!StopManual(w) \/ L!Stopped(w) \/ L!Await(w) \/ L!Removed(w)
             \/ L!FindRunning(w) \/ L!Interrupt(w)
    BY <2>1, <2>2, <2>3, <2>4, <2>7
       DEF L!StopManual, L!Stopped, L!Await, L!Removed, L!FindRunning, L!Interrupt
  <2>8. QED
    BY <2>5, <2>6, <2>7 DEF Reads
<1>3. proc' \in [{"app", "cli"} -> Operations]
  BY <1>2, GoesOnTyped DEF ServiceInv
<1>4. QED
  BY <1>1, <1>3, OnlyTheOperation

(* What ties the collectors to what they hold.                               *)
Holds == HasLedger /\ HasSocket /\ BindsAlone /\ SavedHandles

LEMMA MovedOn ==
  ASSUME ServiceTypeOK, NEW s \in L!Slots, NEW x \in {"bind", "open", "begin", "up", "ending"},
         agents' = [agents EXCEPT ![s].at = x]
  PROVE  /\ agents' \in [{"service", "manual"} -> Processes]
         /\ agents'[s].at = x
         /\ \A t \in L!Slots : t # s => agents'[t] = agents[t]
<1>1. agents \in [{"service", "manual"} -> Processes] /\ s \in {"service", "manual"}
  BY DEF ServiceTypeOK, L!Slots
<1>2. PICK a : a = [agents[s] EXCEPT !.at = x]
  OBVIOUS
<1>3. a \in Processes /\ a.at = x
  BY <1>1, <1>2 DEF Processes
<1>4. agents' = [agents EXCEPT ![s] = a]
  BY <1>2
<1>5. QED
  BY <1>1, <1>3, <1>4 DEF L!Slots

(* A collector that handles SIGTERM is told to end.                          *)
LEMMA ToldKeeps ==
  ASSUME ServiceInv, NEW s \in L!Slots, agents[s].at \in {"up", "ending"},
         agents' = L!Told(s), UNCHANGED <<socket, holder, state, raced>>
  PROVE  agents' \in [{"service", "manual"} -> Processes] /\ Holds'
<1>1. /\ agents' \in [{"service", "manual"} -> Processes]
      /\ agents'[s].at = "ending"
      /\ \A t \in L!Slots : t # s => agents'[t] = agents[t]
  BY MovedOn DEF ServiceInv, L!Told
<1>2. QED
  BY <1>1 DEF ServiceInv, Holds, HasLedger, HasSocket, BindsAlone, SavedHandles, Bound

LEMMA SignalledKeeps ==
  ASSUME ServiceInv, agents' = L!Signalled, UNCHANGED <<socket, holder, state, raced>>
  PROVE  agents' \in [{"service", "manual"} -> Processes] /\ Holds'
<1>1. CASE agents["service"].at = "up"
  BY <1>1, ToldKeeps DEF L!Signalled, L!Slots
<1>2. CASE agents["service"].at # "up"
  BY <1>2 DEF L!Signalled, ServiceInv, ServiceTypeOK, Holds, HasLedger, HasSocket, BindsAlone,
              SavedHandles
<1>3. QED
  BY <1>1, <1>2

(* A collector starts where none ran.                                        *)
LEMMA ExecKeeps ==
  ASSUME ServiceInv, NEW s \in L!Slots, NEW exe \in L!Exes, ~L!Alive(s), L!Exec(s, exe),
         UNCHANGED <<socket, holder, state, raced>>
  PROVE  agents' \in [{"service", "manual"} -> Processes] /\ Holds'
<1>1. agents \in [{"service", "manual"} -> Processes] /\ s \in {"service", "manual"}
  BY DEF ServiceInv, ServiceTypeOK, L!Slots
<1>2. PICK a : a = [at |-> "probe", exe |-> exe, version |-> disk[exe]]
  OBVIOUS
<1>3. a \in Processes /\ a.at = "probe"
  BY <1>2 DEF Processes, ServiceInv, ServiceTypeOK, L!Exes
<1>4. agents' = [agents EXCEPT ![s] = a]
  BY <1>2 DEF L!Exec
<1>5. \A t \in L!Slots : t # s => agents'[t] = agents[t]
  BY <1>1, <1>4 DEF L!Slots
<1>6. agents'[s].at = "probe"
  BY <1>1, <1>3, <1>4
<1>7. agents[s].at = "none"
  BY DEF L!Alive
<1>8. QED
  BY <1>1, <1>3, <1>4, <1>5, <1>6, <1>7
     DEF ServiceInv, Holds, HasLedger, HasSocket, BindsAlone, SavedHandles, Bound

LEMMA ReleasedTyped ==
  ASSUME ServiceTypeOK, NEW s
  PROVE  L!Released(s) \in [{"app", "cli"} -> Operations]
<1>1. proc \in [{"app", "cli"} -> Operations]
  BY DEF ServiceTypeOK
<1>2. ASSUME NEW w \in {"app", "cli"}
      PROVE  [proc[w] EXCEPT !.pid = None] \in Operations
  BY <1>1, <1>2 DEF Operations
<1>3. QED
  BY <1>1, <1>2 DEF L!Released, L!Exes

(* A collector ends.                                                         *)
LEMMA DiesKeeps ==
  ASSUME ServiceInv, NEW s \in L!Slots, NEW clean \in BOOLEAN, L!Dies(s, clean),
         clean => agents[s].at = "ending", UNCHANGED <<disk, unit, raced>>
  PROVE  ServiceInv'
<1>1. L!Ended(s, clean) /\ proc' = L!Released(s)
  BY DEF L!Dies
<1>2. proc' \in [{"app", "cli"} -> Operations]
  BY <1>1, ReleasedTyped DEF ServiceInv
<1>3. QED
  BY <1>1, <1>2, EndedKeeps DEF ServiceInv, ServiceTypeOK

-----------------------------------------------------------------------------
(* The steps of a collector.                                                 *)

LEMMA AgentStepKeeps ==
  ASSUME ServiceInv, NEW s \in L!Slots, L!AgentStep(s)
  PROVE  ServiceInv'
<1>1. CASE L!Probe(s)
  <2>1. UNCHANGED <<disk, unit, raced>>
    BY <1>1 DEF L!Probe
  <2>2. CASE L!Dies(s, FALSE)
    BY <2>1, <2>2, DiesKeeps
  <2>3. CASE /\ agents' = [agents EXCEPT ![s].at = "bind"] /\ ~L!Answers
             /\ UNCHANGED <<job, socket, holder, state, proc>>
    <3>1. /\ agents' \in [{"service", "manual"} -> Processes]
          /\ agents'[s].at = "bind"
          /\ \A t \in L!Slots : t # s => agents'[t] = agents[t]
      BY <2>3, MovedOn DEF ServiceInv
    <3>2. agents[s].at = "probe" /\ socket \notin L!Slots
      BY <1>1, <2>3 DEF L!Probe, L!Answers
    <3>3. HasLedger' /\ SavedHandles' /\ HasSocket'
      BY <2>1, <2>3, <3>1, <3>2 DEF ServiceInv, HasLedger, SavedHandles, HasSocket, Bound
    <3>4. BindsAlone'
      BY <2>1, <2>3, <3>1, <3>2 DEF ServiceInv, HasSocket, BindsAlone, Bound
    <3>5. QED
      BY <2>1, <2>3, <3>1, <3>3, <3>4 DEF ServiceInv, ServiceTypeOK
  <2>4. QED
    BY <1>1, <2>2, <2>3 DEF L!Probe, L!Welcome
<1>2. CASE L!Bind(s)
  <2>1. /\ agents[s].at = "bind" /\ socket' = s
        /\ agents' = [agents EXCEPT ![s].at = "open"]
        /\ UNCHANGED <<disk, unit, job, holder, state, proc>>
        /\ (raced' <=> raced \/ \E other \in L!Slots \ {s} : agents[other].at = "bind")
    BY <1>2 DEF L!Bind
  <2>2. /\ agents' \in [{"service", "manual"} -> Processes]
        /\ agents'[s].at = "open"
        /\ \A t \in L!Slots : t # s => agents'[t] = agents[t]
    BY <2>1, MovedOn DEF ServiceInv
  <2>3. HasLedger' /\ SavedHandles'
    BY <2>1, <2>2 DEF ServiceInv, HasLedger, SavedHandles
  <2>4. HasSocket'
    BY <2>1, <2>2 DEF ServiceInv, HasSocket, BindsAlone, Bound
  <2>5. BindsAlone'
    BY <2>1, <2>2 DEF ServiceInv, BindsAlone, Bound
  <2>6. QED
    BY <2>1, <2>2, <2>3, <2>4, <2>5 DEF ServiceInv, ServiceTypeOK
<1>3. CASE L!OpenLedger(s)
  <2>1. UNCHANGED <<disk, unit, raced>> /\ agents[s].at = "open"
    BY <1>3 DEF L!OpenLedger
  <2>2. CASE L!Dies(s, FALSE)
    BY <2>1, <2>2, DiesKeeps
  <2>3. CASE /\ agents' = [agents EXCEPT ![s].at = "begin"] /\ holder' = s /\ holder = None
             /\ UNCHANGED <<job, socket, state, proc>>
    <3>1. /\ agents' \in [{"service", "manual"} -> Processes]
          /\ agents'[s].at = "begin"
          /\ \A t \in L!Slots : t # s => agents'[t] = agents[t]
      BY <2>3, MovedOn DEF ServiceInv
    <3>2. HasLedger'
      BY <2>3, <3>1, ServiceAssumption DEF ServiceInv, HasLedger, L!Slots
    <3>3. HasSocket' /\ BindsAlone' /\ SavedHandles'
      BY <2>1, <2>3, <3>1 DEF ServiceInv, HasSocket, BindsAlone, SavedHandles, Bound
    <3>4. QED
      BY <2>1, <2>3, <3>1, <3>2, <3>3 DEF ServiceInv, ServiceTypeOK
  <2>4. QED
    BY <1>3, <2>2, <2>3 DEF L!OpenLedger
<1>4. CASE L!Begun(s)
  <2>1. /\ agents[s].at = "begin" /\ agents' = [agents EXCEPT ![s].at = "up"] /\ state' = s
        /\ UNCHANGED <<disk, unit, job, socket, holder, proc, raced>>
    BY <1>4 DEF L!Begun
  <2>2. /\ agents' \in [{"service", "manual"} -> Processes]
        /\ agents'[s].at = "up"
        /\ \A t \in L!Slots : t # s => agents'[t] = agents[t]
    BY <2>1, MovedOn DEF ServiceInv
  <2>3. HasLedger' /\ HasSocket' /\ BindsAlone' /\ SavedHandles'
    BY <2>1, <2>2 DEF ServiceInv, HasLedger, HasSocket, BindsAlone, SavedHandles, Bound
  <2>4. QED
    BY <2>1, <2>2, <2>3 DEF ServiceInv, ServiceTypeOK
<1>5. CASE L!Finish(s)
  BY <1>5, DiesKeeps DEF L!Finish
<1>6. CASE L!Crash(s)
  BY <1>6, DiesKeeps DEF L!Crash
<1>7. QED
  BY <1>1, <1>2, <1>3, <1>4, <1>5, <1>6 DEF L!AgentStep

-----------------------------------------------------------------------------
(* The steps of an operation that change what is installed or who runs.      *)

LEMMA SwapKeeps ==
  ASSUME ServiceInv, NEW w \in L!Exes, L!Swap(w) \/ L!Fetch(w) \/ L!WriteUnit(w) \/ L!RemoveUnit(w)
  PROVE  ServiceInv'
<1>1. UNCHANGED <<job, agents, socket, holder, state, raced>>
  BY DEF L!Swap, L!Fetch, L!WriteUnit, L!RemoveUnit
<1>2. disk' \in [{"app", "cli"} -> Int] /\ unit' \in {"app", "cli", None}
  <2>1. disk \in [{"app", "cli"} -> Int] /\ unit \in {"app", "cli", None}
    BY DEF ServiceInv, ServiceTypeOK
  <2>2. disk["app"] + 1 \in Int /\ disk["cli"] + 1 \in Int
    BY <2>1
  <2>3. QED
    BY <2>1, <2>2 DEF L!Swap, L!Fetch, L!WriteUnit, L!RemoveUnit, L!Exes
<1>3. proc' \in [{"app", "cli"} -> Operations]
  <2>1. CASE L!Swap(w)
    <3>1. PICK at \in {"restart", "unmark"} : proc' = [proc EXCEPT ![w].at = at, ![w].swapped = TRUE]
      BY <2>1 DEF L!Swap
    <3>2. proc \in [{"app", "cli"} -> Operations] /\ w \in {"app", "cli"}
      BY DEF ServiceInv, ServiceTypeOK, L!Exes
    <3>3. [proc[w] EXCEPT !.at = at, !.swapped = TRUE] \in Operations
      BY <3>1, <3>2 DEF Operations, Places
    <3>4. QED
      BY <3>1, <3>2, <3>3
  <2>2. CASE L!Fetch(w) \/ L!WriteUnit(w) \/ L!RemoveUnit(w)
    <3>1. {"find", "bootout", "bootstrap"} \subseteq Places
      BY DEF Places
    <3>2. GoesOn(w)
      BY <2>2, <3>1 DEF L!Fetch, L!WriteUnit, L!RemoveUnit, GoesOn, L!Goto, L!Succeed
    <3>3. QED
      BY <3>2, GoesOnTyped DEF ServiceInv
  <2>3. QED
    BY <2>1, <2>2
<1>4. QED
  BY <1>1, <1>2, <1>3, CollectorsLeftAlone DEF ServiceInv, ServiceTypeOK

LEMMA StartAgainKeeps ==
  ASSUME ServiceInv, NEW w \in L!Exes, L!StartAgain(w)
  PROVE  ServiceInv'
<1>1. UNCHANGED <<disk, unit, job, socket, holder, state, raced>>
  BY DEF L!StartAgain
<1>2. GoesOn(w)
  BY DEF L!StartAgain, GoesOn, L!Goto, L!Succeed, Places
<1>3. proc' \in [{"app", "cli"} -> Operations]
  BY <1>2, GoesOnTyped DEF ServiceInv
<1>4. CASE UNCHANGED agents
  BY <1>1, <1>3, <1>4, OnlyTheOperation
<1>5. CASE ~L!Alive("manual") /\ L!Exec("manual", "cli")
  <2>1. "manual" \in L!Slots /\ "cli" \in L!Exes
    BY DEF L!Slots, L!Exes
  <2>2. agents' \in [{"service", "manual"} -> Processes] /\ Holds'
    BY <1>1, <1>5, <2>1, ExecKeeps
  <2>3. QED
    BY <1>1, <1>3, <2>2 DEF ServiceInv, ServiceTypeOK, Holds
<1>6. QED
  BY <1>4, <1>5 DEF L!StartAgain

(* Closing the history viewer takes the database from nobody else.           *)
LEMMA ViewerKeeps ==
  ASSUME ServiceInv, UNCHANGED <<disk, unit, job, agents, socket, state, raced>>,
         holder' = (IF holder = "viewer" THEN None ELSE holder) \/ (holder = None /\ holder' = "viewer"),
         proc' \in [{"app", "cli"} -> Operations]
  PROVE  ServiceInv'
BY ServiceAssumption
   DEF ServiceInv, ServiceTypeOK, HasLedger, HasSocket, BindsAlone, SavedHandles, L!Slots

LEMMA CloseViewerKeeps ==
  ASSUME ServiceInv, NEW w \in L!Exes, L!CloseViewer(w)
  PROVE  ServiceInv'
<1>1. ("resume" \in Places) /\ ("stop" \in Places)
  BY DEF Places
<1>2. (IF proc[w].kind = "resume" THEN "resume" ELSE "stop") \in Places
  BY <1>1
<1>3. GoesOn(w)
  BY <1>2 DEF L!CloseViewer, GoesOn, L!Goto
<1>4. proc' \in [{"app", "cli"} -> Operations]
  BY <1>3, GoesOnTyped DEF ServiceInv
<1>5. QED
  BY <1>4, ViewerKeeps DEF L!CloseViewer

LEMMA TerminateKeeps ==
  ASSUME ServiceInv, NEW w \in L!Exes, L!Terminate(w)
  PROVE  ServiceInv'
<1> DEFINE named == IF state \in L!Slots THEN state ELSE None
<1>1. UNCHANGED <<disk, unit, job, socket, holder, state, raced>>
  BY DEF L!Terminate
<1>2. proc' \in [{"app", "cli"} -> Operations]
  <2>1. proc \in [{"app", "cli"} -> Operations] /\ w \in {"app", "cli"}
    BY DEF ServiceInv, ServiceTypeOK, L!Exes
  <2>2. named \in {"service", "manual", None}
    BY DEF L!Slots
  <2>3. proc' = [proc EXCEPT ![w].at = "wait", ![w].pid = named]
    BY DEF L!Terminate
  <2> HIDE DEF named
  <2>4. [proc[w] EXCEPT !.at = "wait", !.pid = named] \in Operations
    BY <2>1, <2>2 DEF Operations, Places
  <2>5. QED
    BY <2>1, <2>3, <2>4
<1>3. CASE state \in L!Slots
  <2>1. agents[state].at \in {"up", "ending"}
    BY <1>3 DEF ServiceInv, SavedHandles
  <2>2. agents' = L!Told(state)
    BY <1>3 DEF L!Terminate
  <2>3. agents' \in [{"service", "manual"} -> Processes] /\ Holds'
    BY <1>1, <1>3, <2>1, <2>2, ToldKeeps
  <2>4. QED
    BY <1>1, <1>2, <2>3 DEF ServiceInv, ServiceTypeOK, Holds
<1>4. CASE state \notin L!Slots
  BY <1>1, <1>2, <1>4, OnlyTheOperation DEF L!Terminate
<1>5. QED
  BY <1>3, <1>4

LEMMA KillStuckKeeps ==
  ASSUME ServiceInv, NEW w \in L!Exes, L!KillStuck(w)
  PROVE  ServiceInv'
<1>1. PICK s : s = proc[w].pid
  OBVIOUS
<1>2. s \in L!Slots
  BY <1>1 DEF ServiceInv, ServiceTypeOK, Operations, L!Exes, L!Slots, L!KillStuck
<1>3. L!Ended(s, FALSE) /\ UNCHANGED <<disk, unit, raced>>
  BY <1>1 DEF L!KillStuck
<1>4. proc' \in [{"app", "cli"} -> Operations]
  <2>1. PICK released : released = L!Released(s)
    OBVIOUS
  <2>2. released \in [{"app", "cli"} -> Operations]
    BY <2>1, ReleasedTyped DEF ServiceInv
  <2>3. PICK at : at = L!AfterStop(w)
    OBVIOUS
  <2>4. at \in Places
    BY <2>3 DEF L!AfterStop, Places
  <2>5. proc' = [released EXCEPT ![w].at = at]
    BY <1>1, <2>1, <2>3 DEF L!KillStuck
  <2>6. [released[w] EXCEPT !.at = at] \in Operations
    BY <2>2, <2>4 DEF Operations, L!Exes
  <2>7. QED
    BY <2>2, <2>5, <2>6
<1>5. QED
  BY <1>2, <1>3, <1>4, EndedKeeps DEF ServiceInv, ServiceTypeOK

-----------------------------------------------------------------------------
(* The service manager.                                                      *)

LEMMA ManagerKeeps ==
  ASSUME ServiceInv, NEW w \in L!Exes,
         L!Kick(w) \/ L!Bootout(w) \/ L!Bootstrap(w) \/ L!Unload(w)
  PROVE  ServiceInv'
<1>1. UNCHANGED <<disk, unit, socket, holder, state, raced>>
  BY DEF L!Kick, L!Bootout, L!Bootstrap, L!Unload
<1>2. proc' \in [{"app", "cli"} -> Operations]
  <2>1. {"await", "gone", "remove"} \subseteq Places
    BY DEF Places
  <2>2. GoesOn(w)
    BY <2>1 DEF L!Kick, L!Bootout, L!Bootstrap, L!Unload, L!Unloaded, GoesOn, L!Goto, L!Succeed, L!Fail
  <2>3. QED
    BY <2>2, GoesOnTyped DEF ServiceInv
<1>3. agents' \in [{"service", "manual"} -> Processes] /\ Holds'
  <2>1. CASE UNCHANGED agents
    BY <1>1, <2>1 DEF ServiceInv, ServiceTypeOK, Holds, HasLedger, HasSocket, BindsAlone, SavedHandles
  <2>2. CASE agents' = L!Signalled
    BY <1>1, <2>2, SignalledKeeps
  <2>3. QED
    BY <2>1, <2>2 DEF L!Kick, L!Bootout, L!Bootstrap, L!Unload, L!Unloaded
<1>4. job' # None => job' \in Registrations
  <2>1. job # None => job \in Registrations
    BY DEF ServiceInv, ServiceTypeOK
  <2>2. CASE job' = job \/ job' = None
    BY <2>1, <2>2
  <2>3. ASSUME NEW d \in BOOLEAN, NEW l \in BOOLEAN, unit # None,
               job' = [exe |-> unit, due |-> d, leaving |-> l]
        PROVE  job' \in Registrations
    BY <2>3 DEF ServiceInv, ServiceTypeOK, Registrations
  <2>4. ASSUME NEW b \in BOOLEAN, job # None,
               job' = [job EXCEPT !.due = b] \/ job' = [job EXCEPT !.leaving = b]
        PROVE  job' \in Registrations
    BY <2>1, <2>4 DEF Registrations
  <2>5. CASE L!Kick(w)
    <3>1. CASE L!Kickable /\ manager = "systemd"
      BY <2>3, <2>5, <3>1 DEF L!Kick, L!Kickable
    <3>2. CASE L!Kickable /\ manager # "systemd"
      <4>1. job' = [job EXCEPT !.due = (job.due \/ ~L!Alive("service"))]
        BY <2>5, <3>2 DEF L!Kick
      <4>2. (job.due \/ ~L!Alive("service")) \in BOOLEAN
        OBVIOUS
      <4>3. job # None
        BY <3>2 DEF L!Kickable
      <4>4. QED
        BY <2>4, <4>1, <4>2, <4>3
    <3>3. CASE ~L!Kickable
      BY <2>2, <2>5, <3>3 DEF L!Kick
    <3>4. QED
      BY <3>1, <3>2, <3>3
  <2>6. CASE L!Bootstrap(w)
    <3>1. CASE unit # None /\ job' = [exe |-> unit, due |-> ~L!Runs, leaving |-> FALSE]
      <4>1. (~L!Runs) \in BOOLEAN /\ FALSE \in BOOLEAN
        OBVIOUS
      <4>2. QED
        BY <2>3, <3>1, <4>1
    <3>2. QED
      BY <2>2, <2>6, <3>1 DEF L!Bootstrap
  <2>7. CASE L!Bootout(w) \/ L!Unload(w)
    <3>1. CASE job # None /\ job' = [job EXCEPT !.leaving = TRUE]
      BY <2>4, <3>1
    <3>2. QED
      BY <2>2, <2>7, <3>1 DEF L!Bootout, L!Unload, L!Unloaded
  <2>8. QED
    BY <2>5, <2>6, <2>7
<1>5. QED
  BY <1>1, <1>2, <1>3, <1>4 DEF ServiceInv, ServiceTypeOK, Holds

LEMMA JobStartsKeeps ==
  ASSUME ServiceInv, L!JobStarts
  PROVE  ServiceInv'
<1>1. job \in Registrations /\ "service" \in L!Slots /\ ~L!Alive("service")
  BY DEF L!JobStarts, ServiceInv, ServiceTypeOK, L!Slots
<1>2. PICK exe : exe = job.exe
  OBVIOUS
<1>3. exe \in L!Exes /\ L!Exec("service", exe)
  BY <1>1, <1>2 DEF Registrations, L!Exes, L!JobStarts
<1>4. UNCHANGED <<disk, unit, socket, holder, state, proc, raced>>
  BY DEF L!JobStarts
<1>5. agents' \in [{"service", "manual"} -> Processes] /\ Holds'
  BY <1>1, <1>3, <1>4, ExecKeeps
<1>6. job' \in Registrations
  BY <1>1 DEF L!JobStarts, Registrations
<1>7. QED
  BY <1>4, <1>5, <1>6 DEF ServiceInv, ServiceTypeOK, Holds

-----------------------------------------------------------------------------
(* The rest: the user, the viewer, and what goes wrong around them.          *)

LEMMA BeginKeeps ==
  ASSUME ServiceInv, NEW w \in L!Exes, NEW kind \in L!Offers(w), L!Begin(w, kind)
  PROVE  ServiceInv'
<1>1. PICK p : p = [L!Idle EXCEPT !.kind = kind, !.at = L!First(kind)]
  OBVIOUS
<1>2. kind \in {"enable", "resume", "update", "uninstall", "install", "self-update"}
  BY DEF L!Offers
<1>3. L!First(kind) \in Places
  BY <1>2 DEF L!First, L!Updates, Places
<1>4. p \in Operations
  BY <1>1, <1>2, <1>3 DEF L!Idle, Operations, Kinds, Places
<1>5. proc' = [proc EXCEPT ![w] = p] /\ UNCHANGED <<disk, unit, job, agents, socket, holder, state, raced>>
  BY <1>1 DEF L!Begin
<1>6. proc' \in [{"app", "cli"} -> Operations]
  BY <1>4, <1>5 DEF ServiceInv, ServiceTypeOK
<1>7. QED
  BY <1>5, <1>6, OnlyTheOperation

LEMMA LaunchKeeps ==
  ASSUME ServiceInv, L!Launch
  PROVE  ServiceInv'
<1>1. PICK p : p = [L!Idle EXCEPT !.kind = "recover", !.at = "recover"]
  OBVIOUS
<1>2. p \in Operations
  BY <1>1 DEF L!Idle, Operations, Kinds, Places
<1>3. proc' = [proc EXCEPT !["app"] = p] /\ UNCHANGED <<disk, unit, job, agents, socket, holder, state, raced>>
  BY <1>1 DEF L!Launch, L!fixed
<1>4. proc' \in [{"app", "cli"} -> Operations]
  BY <1>2, <1>3 DEF ServiceInv, ServiceTypeOK
<1>5. QED
  BY <1>3, <1>4, OnlyTheOperation

LEMMA StartByHandKeeps ==
  ASSUME ServiceInv, L!StartByHand
  PROVE  ServiceInv'
<1>1. "manual" \in L!Slots /\ "cli" \in L!Exes
  BY DEF L!Slots, L!Exes
<1>2. agents' \in [{"service", "manual"} -> Processes] /\ Holds'
  BY <1>1, ExecKeeps DEF L!StartByHand
<1>3. QED
  BY <1>2 DEF L!StartByHand, ServiceInv, ServiceTypeOK, Holds

LEMMA PerishKeeps ==
  ASSUME ServiceInv, L!Perish
  PROVE  ServiceInv'
<1>1. "service" \in L!Slots
  BY DEF L!Slots
<1>2. QED
  BY <1>1, DiesKeeps DEF L!Perish

LEMMA ViewersKeep ==
  ASSUME ServiceInv, L!OpenViewer \/ L!ViewerOpens \/ L!Quit
  PROVE  ServiceInv'
<1>1. UNCHANGED <<disk, unit, job, agents, socket, state, raced>>
  BY DEF L!OpenViewer, L!ViewerOpens, L!Quit
<1>2. proc' \in [{"app", "cli"} -> Operations]
  <2>1. CASE UNCHANGED proc
    BY <2>1 DEF ServiceInv, ServiceTypeOK
  <2>2. CASE L!Fail("app")
    <3>1. "app" \in L!Exes /\ GoesOn("app")
      BY <2>2 DEF L!Fail, GoesOn, L!Exes
    <3>2. QED
      BY <3>1, GoesOnTyped DEF ServiceInv
  <2>3. QED
    BY <2>1, <2>2 DEF L!OpenViewer, L!ViewerOpens, L!Quit
<1>3. CASE UNCHANGED holder
  BY <1>1, <1>2, <1>3, OnlyTheOperation
<1>4. CASE holder' = (IF holder = "viewer" THEN None ELSE holder) \/ (holder = None /\ holder' = "viewer")
  BY <1>1, <1>2, <1>4, ViewerKeeps
<1>5. QED
  BY <1>3, <1>4 DEF L!OpenViewer, L!ViewerOpens, L!Quit

LEMMA RebootKeeps ==
  ASSUME ServiceInv, L!Reboot
  PROVE  ServiceInv'
<1>1. L!Gone \in Processes /\ L!Idle \in Operations /\ L!Gone.at = "none"
  BY DEF L!Gone, L!Idle, Processes, Operations, Kinds, Places
<1>2. /\ agents' = [s \in L!Slots |-> L!Gone] /\ proc' = [w \in L!Exes |-> L!Idle]
      /\ UNCHANGED <<disk, unit, raced>>
  BY DEF L!Reboot
<1>3. state' = (IF state = None THEN None ELSE "stale")
  BY DEF L!Reboot
<1>4. job' # None => job' \in Registrations
  BY DEF L!Reboot, ServiceInv, ServiceTypeOK, Registrations
<1>5. /\ agents' \in [{"service", "manual"} -> Processes]
      /\ proc' \in [{"app", "cli"} -> Operations]
      /\ \A s \in L!Slots : agents'[s].at = "none"
  BY <1>1, <1>2 DEF L!Slots, L!Exes
<1>6. \A s \in L!Slots : state' # s
  BY <1>3, ServiceAssumption DEF L!Slots
<1>7. HasLedger' /\ HasSocket' /\ BindsAlone' /\ SavedHandles'
  BY <1>5, <1>6 DEF HasLedger, HasSocket, BindsAlone, SavedHandles, Bound
<1>8. QED
  BY <1>2, <1>4, <1>5, <1>7 DEF ServiceInv, ServiceTypeOK

LEMMA ServiceInvStep == ServiceInv /\ [L!LifeNext]_(L!lifeVars) => ServiceInv'
<1> SUFFICES ASSUME ServiceInv, [L!LifeNext]_(L!lifeVars)
             PROVE  ServiceInv'
  OBVIOUS
<1>1. ASSUME NEW w \in L!Exes, L!UpdateStep(w) \/ L!ServiceStep(w)
      PROVE  ServiceInv'
  <2>1. \/ Reads(w) \/ L!Swap(w) \/ L!Fetch(w) \/ L!WriteUnit(w) \/ L!RemoveUnit(w)
        \/ L!StartAgain(w) \/ L!CloseViewer(w) \/ L!Terminate(w) \/ L!KillStuck(w)
        \/ L!Kick(w) \/ L!Bootout(w) \/ L!Bootstrap(w) \/ L!Unload(w)
    BY <1>1 DEF L!UpdateStep, L!ServiceStep, Reads
  <2>2. QED
    BY <2>1, ReadsStep, SwapKeeps, StartAgainKeeps, CloseViewerKeeps, TerminateKeeps,
       KillStuckKeeps, ManagerKeeps
<1>2. CASE UNCHANGED L!lifeVars
  BY <1>2 DEF L!lifeVars, ServiceInv, ServiceTypeOK, HasLedger, HasSocket, BindsAlone, SavedHandles
<1>3. QED
  BY <1>1, <1>2, BeginKeeps, AgentStepKeeps, JobStartsKeeps, StartByHandKeeps, LaunchKeeps,
     PerishKeeps, ViewersKeep, RebootKeeps DEF L!LifeNext

-----------------------------------------------------------------------------
(* The service, stopped or out of date, and who answers for it.              *)

Svc == agents["service"].at

PlacesOf(kind) ==
  CASE kind = "none" -> {"idle"}
    [] kind = "enable" -> {"close", "stop", "term", "wait", "write", "bootout", "gone", "bootstrap", "await"}
    [] kind = "resume" -> {"close", "resume", "kick", "write", "bootout", "gone", "bootstrap", "await"}
    [] kind = "update" -> {"recover", "check", "mark", "swap", "restart", "unmark", "kick", "term", "wait", "await"}
    [] kind = "recover" -> {"recover", "restart", "unmark", "kick", "term", "wait", "await"}
    [] kind = "install" -> {"stop", "term", "wait", "write", "bootout", "gone", "bootstrap"}
    [] kind = "self-update" -> {"fetch", "find", "term", "wait", "again", "kick"}
    [] kind = "uninstall" -> {"unload", "remove"}

(* An operation is at a place of its own, and the application's are on       *)
(* launchd only.                                                             *)
InPlace ==
  /\ proc["app"].at \in PlacesOf(proc["app"].kind) /\ proc["cli"].at \in PlacesOf(proc["cli"].kind)
  /\ proc["app"].kind \in {"none", "enable", "resume", "update", "recover", "uninstall"}
  /\ proc["cli"].kind \in {"none", "install", "self-update", "uninstall"}
  /\ manager \in {"launchd", "systemd"}
  /\ ~running => proc["app"].kind = "none"
  /\ manager = "systemd" => ~running /\ unit # "app"

(* Operations that will register the service, or remove it, or tell the user *)
(* that they have failed; an update of the command line that will start it.  *)
Registering(w) ==
  \/ proc[w].kind \in {"enable", "install"} /\ proc[w].at \notin {"bootstrap", "await"}
  \/ proc[w].at \in {"write", "bootout", "gone", "remove"}
  \/ proc[w].at = "bootstrap" /\ (manager = "systemd" \/ job = None)
Registers == Registering("app") \/ Registering("cli")
Restarts == proc["cli"].kind = "self-update" /\ proc["cli"].at \in {"wait", "again", "kick"}
Awaited == \E w \in L!Exes : proc[w].at = "wait" /\ proc[w].pid = "service"

(* The marker, unless the application is past the step it stands for.        *)
Updating == proc["app"].kind \in {"update", "recover"}
Swapping == {"swap", "await", "unmark", "check", "mark"}
Promised(past) == marker /\ ~(Updating /\ proc["app"].at \in past)
Sound == job # None /\ ~job.leaving /\ (job.due \/ Svc \notin {"none", "ending"})

(* A service that is not started, one that ends by no manager, and one that  *)
(* is being unloaded are answered for.                                       *)
Covered == unit # None => told \/ Promised(Swapping) \/ Sound \/ Registers \/ Restarts
EndingCovered ==
  unit # None /\ Svc = "ending" /\ job # None /\ ~job.leaving /\ ~job.due =>
    told \/ Promised(Swapping \cup {"wait", "kick"}) \/ Awaited \/ Registers
LeavingCovered == unit # None /\ job # None /\ job.leaving => told \/ Registers

(* So is one of an older release, and an update stops it.                    *)
Stale ==
  /\ Svc \notin {"none", "ending"} /\ agents["service"].exe = "app"
  /\ agents["service"].version # disk["app"]
StaleCovered == Stale /\ unit = "app" => told \/ Promised(Swapping \cup {"wait", "kick"}) \/ Registers
StaleIsTold == Updating /\ proc["app"].at = "term" /\ Stale => Svc = "up"

MarkerKept ==
  Updating /\ proc["app"].at \in {"swap", "restart", "term", "wait", "kick", "await"} => marker
AliveHasJob == Svc # "none" => job # None
SavedService == Svc \in {"up", "ending"} /\ ~raced => state = "service"

NotSlipped == ~raced /\ "ending" \notin slipped /\ "taken" \notin slipped
NotMissed == ~raced /\ "starting" \notin slipped

Kept == InPlace /\ MarkerKept /\ AliveHasJob /\ SavedService
Answered ==
  /\ NotSlipped => Covered /\ EndingCovered /\ LeavingCovered
  /\ NotMissed => StaleCovered /\ StaleIsTold
KeptInv == Kept /\ Answered

(* What a step does to the operations.                                       *)
Turns(w, at) ==
  /\ proc'[w].at = at /\ proc'[w].kind = proc[w].kind /\ proc'[w].pid = proc[w].pid
  /\ \A v \in L!Exes : v # w => proc'[v] = proc[v]
Ends(w) ==
  /\ proc'[w].at = "idle" /\ proc'[w].kind = "none"
  /\ \A v \in L!Exes : v # w => proc'[v] = proc[v]

LEMMA TurnsThere ==
  ASSUME ServiceInv, NEW w \in L!Exes, NEW at, L!Goto(w, at)
  PROVE  Turns(w, at)
<1>1. proc \in [{"app", "cli"} -> Operations] /\ w \in {"app", "cli"}
  BY DEF ServiceInv, ServiceTypeOK, L!Exes
<1>2. PICK p : p = [proc[w] EXCEPT !.at = at]
  OBVIOUS
<1>3. p.at = at /\ p.kind = proc[w].kind /\ p.pid = proc[w].pid
  BY <1>1, <1>2 DEF Operations
<1>4. proc' = [proc EXCEPT ![w] = p]
  BY <1>2 DEF L!Goto
<1> QED
  BY <1>1, <1>3, <1>4 DEF Turns, L!Exes

LEMMA OperationEnds ==
  ASSUME ServiceInv, NEW w \in L!Exes, L!Succeed(w) \/ L!Fail(w)
  PROVE  /\ Ends(w)
         /\ told => told'
         /\ L!Fail(w) /\ proc[w].kind \notin {"update", "recover"} => told'
<1>1. proc \in [{"app", "cli"} -> Operations] /\ w \in {"app", "cli"}
  BY DEF ServiceInv, ServiceTypeOK, L!Exes
<1>2. proc' = [proc EXCEPT ![w] = L!Idle] /\ L!Idle.at = "idle" /\ L!Idle.kind = "none"
  BY DEF L!Succeed, L!Fail, L!Idle
<1>3. Ends(w)
  BY <1>1, <1>2 DEF Ends, L!Exes
<1>4. L!Fail(w) => (told' <=> told \/ proc[w].kind \notin {"update", "recover"})
  BY DEF L!Fail, L!Updates
<1> QED
  BY <1>3, <1>4 DEF L!Succeed

-----------------------------------------------------------------------------
(* The steps of an operation that read what others do, and go on.            *)
Apart == UNCHANGED <<manager, disk, unit, job, agents, state, running, raced>>

USE DEF KeptInv, Kept, Answered, InPlace, PlacesOf, MarkerKept, AliveHasJob, SavedService, NotSlipped,
        NotMissed, Covered, EndingCovered, LeavingCovered, StaleCovered, StaleIsTold, Stale, Sound, Svc,
        Registers, Registering, Restarts, Awaited, Promised, Updating, Swapping, L!Exes

LEMMA OfTheApplication ==
  ASSUME KeptInv, NEW w \in L!Exes,
         proc[w].at \in {"recover", "check", "mark", "swap", "restart", "unmark"}
  PROVE  w = "app" /\ Updating
OBVIOUS

LEMMA UpdateReads ==
  ASSUME ServiceInv, KeptInv, NEW w \in L!Exes,
         L!Recover(w) \/ L!Check(w) \/ L!Mark(w) \/ L!Unmark(w)
  PROVE  KeptInv'
<1>1. Apart /\ UNCHANGED slipped
  BY DEF Apart, L!Recover, L!Check, L!Mark, L!Unmark, L!fixed
<1>2. w = "app" /\ Updating
  BY OfTheApplication DEF L!Recover, L!Check, L!Mark, L!Unmark
<1>3. CASE L!Recover(w)
  <2>1. UNCHANGED marker /\ proc[w].at = "recover"
    BY <1>3 DEF L!Recover
  <2>2. CASE Turns(w, "restart") /\ marker /\ told' = told
    BY <1>1, <1>2, <2>1, <2>2 DEF Apart, Turns
  <2>3. CASE Turns(w, "check") /\ ~marker /\ told' = told /\ proc[w].kind = "update"
    BY <1>1, <1>2, <2>1, <2>3 DEF Apart, Turns
  <2>4. CASE Ends(w) /\ (told => told')
    BY <1>1, <1>2, <2>1, <2>4 DEF Apart, Ends
  <2> QED
    BY <1>3, <2>2, <2>3, <2>4, TurnsThere, OperationEnds DEF L!Recover
<1>4. CASE L!Check(w)
  <2>1. UNCHANGED marker /\ proc[w].at = "check"
    BY <1>4 DEF L!Check
  <2>2. CASE Turns(w, "mark") /\ told' = told
    BY <1>1, <1>2, <2>1, <2>2 DEF Apart, Turns
  <2>3. CASE Ends(w) /\ (told => told')
    BY <1>1, <1>2, <2>1, <2>3 DEF Apart, Ends
  <2> QED
    BY <1>4, <2>2, <2>3, TurnsThere, OperationEnds DEF L!Check
<1>5. CASE L!Mark(w)
  <2>1. marker' /\ proc[w].at = "mark" /\ told' = told
    BY <1>5 DEF L!Mark
  <2>2. Turns(w, "swap")
    BY <1>5, TurnsThere DEF L!Mark
  <2> QED
    BY <1>1, <1>2, <2>1, <2>2 DEF Apart, Turns
<1>6. CASE L!Unmark(w)
  <2>1. ~marker' /\ proc[w].at = "unmark"
    BY <1>6 DEF L!Unmark
  <2>2. CASE Turns(w, "check") /\ told' = told /\ proc[w].kind = "update"
    BY <1>1, <1>2, <2>1, <2>2 DEF Apart, Turns
  <2>3. CASE Ends(w) /\ (told => told')
    BY <1>1, <1>2, <2>1, <2>3 DEF Apart, Ends
  <2> QED
    BY <1>6, <2>2, <2>3, TurnsThere, OperationEnds DEF L!Unmark
<1> QED
  BY <1>3, <1>4, <1>5, <1>6

(* An update restarts the service, unless it is no longer the application's. *)
LEMMA RestartReads ==
  ASSUME ServiceInv, KeptInv, NEW w \in L!Exes, L!RestartAfterUpdate(w)
  PROVE  KeptInv'
<1>1. Apart /\ UNCHANGED marker /\ proc[w].at = "restart"
  BY DEF Apart, L!RestartAfterUpdate, L!fixed
<1>2. w = "app" /\ Updating
  BY <1>1, OfTheApplication
<1>3. /\ NotSlipped' => NotSlipped /\ (unit = "cli" => Svc \notin {"none", "ending"})
      /\ NotMissed' => NotMissed /\ Svc \notin {"probe", "bind", "open", "begin"}
  BY <1>1 DEF Apart, L!RestartAfterUpdate, L!Starting
<1>4. ~raced => (Svc \in {"open", "begin", "up", "ending"} => L!Answers)
  BY DEF ServiceInv, HasSocket, Bound, L!Slots, L!Answers
<1>5. Svc \in {"none", "probe", "bind", "open", "begin", "up", "ending"} /\ unit \in {"app", "cli", None}
  BY DEF ServiceInv, ServiceTypeOK, Processes
<1>6. CASE unit # "app" /\ Turns(w, "unmark") /\ told' = told
  BY <1>1, <1>2, <1>3, <1>5, <1>6 DEF Apart, Turns
<1>7. CASE ~L!Answers /\ Turns(w, "kick") /\ told' = told
  BY <1>1, <1>2, <1>3, <1>4, <1>5, <1>7 DEF Apart, Turns
<1>8. CASE Turns(w, "term") /\ told' = told
  BY <1>1, <1>2, <1>3, <1>5, <1>8 DEF Apart, Turns
<1>9. CASE Ends(w) /\ (told => told')
  BY <1>1, <1>2, <1>3, <1>9 DEF Apart, Ends
<1> QED
  BY <1>6, <1>7, <1>8, <1>9, TurnsThere, OperationEnds DEF L!RestartAfterUpdate

LEMMA RegistrationReads ==
  ASSUME ServiceInv, KeptInv, NEW w \in L!Exes,
         L!Resume(w) \/ L!StopManual(w) \/ L!Await(w) \/ L!Removed(w) \/ L!FindRunning(w)
  PROVE  KeptInv'
<1>1. Apart /\ UNCHANGED <<marker, slipped>>
  BY DEF Apart, L!Resume, L!StopManual, L!Await, L!Removed, L!FindRunning, L!fixed
<1>2. CASE L!Resume(w)
  <2>1. proc[w].at = "resume"
    BY <1>2 DEF L!Resume
  <2>2. CASE told' = told /\ (Turns(w, "await") \/ Turns(w, "kick") \/ Turns(w, "write"))
    BY <1>1, <2>1, <2>2 DEF Apart, Turns
  <2>3. CASE Ends(w) /\ told'
    BY <1>1, <2>1, <2>3 DEF Apart, Ends
  <2>4. CASE unit = None
    <3>1. L!Fail(w) /\ proc[w].kind \notin {"update", "recover"}
      BY <1>2, <2>1, <2>4 DEF L!Resume
    <3> QED
      BY <2>3, <3>1, OperationEnds
  <2>5. CASE unit # None
    <3>1. told' = told /\ (L!Goto(w, "await") \/ L!Goto(w, "kick") \/ L!Goto(w, "write"))
      BY <1>2, <2>5 DEF L!Resume
    <3> QED
      BY <2>2, <3>1, TurnsThere
  <2> QED
    BY <2>4, <2>5
<1>3. CASE L!StopManual(w)
  <2>1. proc[w].at = "stop" /\ proc[w].kind \notin {"update", "recover"}
    BY <1>3 DEF L!StopManual
  <2>2. CASE Turns(w, "term") \/ Turns(w, "write")
    BY <1>1, <2>1, <2>2 DEF Apart, Turns
  <2>3. CASE Ends(w) /\ told'
    BY <1>1, <2>1, <2>3 DEF Apart, Ends
  <2> QED
    BY <1>3, <2>1, <2>2, <2>3, TurnsThere, OperationEnds DEF L!StopManual
<1>4. CASE L!Await(w)
  <2>1. proc[w].at = "await"
    BY <1>4 DEF L!Await
  <2>2. CASE Turns(w, "unmark") /\ told' = told /\ proc[w].kind \in {"update", "recover"}
    BY <1>1, <2>1, <2>2 DEF Apart, Turns
  <2>3. CASE Ends(w) /\ (told => told')
    BY <1>1, <2>1, <2>3 DEF Apart, Ends
  <2> QED
    BY <1>4, <2>2, <2>3, TurnsThere, OperationEnds DEF L!Await, L!Updates
<1>5. CASE L!Removed(w)
  <2>1. proc[w].at = "gone" /\ proc[w].kind \notin {"update", "recover"}
    BY <1>5 DEF L!Removed
  <2>2. CASE Turns(w, "bootstrap") /\ told' = told /\ job = None
    BY <1>1, <2>1, <2>2 DEF Apart, Turns
  <2>3. CASE Ends(w) /\ told'
    BY <1>1, <2>1, <2>3 DEF Apart, Ends
  <2> QED
    BY <1>5, <2>1, <2>2, <2>3, TurnsThere, OperationEnds DEF L!Removed
<1>6. CASE L!FindRunning(w)
  <2>1. proc[w].at = "find"
    BY <1>6 DEF L!FindRunning
  <2>2. CASE Turns(w, "term") /\ told' = told
    BY <1>1, <2>1, <2>2 DEF Apart, Turns
  <2>3. CASE Ends(w) /\ (told => told')
    BY <1>1, <2>1, <2>3 DEF Apart, Ends
  <2> QED
    BY <1>6, <2>2, <2>3, TurnsThere, OperationEnds DEF L!FindRunning
<1> QED
  BY <1>2, <1>3, <1>4, <1>5, <1>6

LEMMA StoppedGoesOn ==
  ASSUME ServiceInv, KeptInv, NEW w \in L!Exes, L!Stopped(w)
  PROVE  KeptInv'
<1>1. Apart /\ UNCHANGED <<marker, slipped, told>>
  BY DEF Apart, L!Stopped, L!fixed
<1>2. proc[w].at = "wait" /\ proc[w].pid # "service"
  BY ServiceAssumption DEF L!Stopped
<1>3. L!AfterStop(w) = IF proc[w].kind \in {"update", "recover"} THEN "kick"
                       ELSE IF proc[w].kind = "self-update" THEN "again" ELSE "write"
  BY DEF L!AfterStop, L!Updates
<1>4. Turns(w, L!AfterStop(w))
  BY TurnsThere DEF L!Stopped
<1>5. CASE proc[w].kind \in {"update", "recover"} /\ Turns(w, "kick")
  BY <1>1, <1>2, <1>5 DEF Apart, Turns
<1>6. CASE proc[w].kind = "self-update" /\ Turns(w, "again")
  BY <1>1, <1>2, <1>6 DEF Apart, Turns
<1>7. CASE proc[w].kind \notin {"update", "recover", "self-update"} /\ Turns(w, "write")
  BY <1>1, <1>2, <1>7 DEF Apart, Turns
<1> QED
  BY <1>3, <1>4, <1>5, <1>6, <1>7

(* Whoever gives up tells the user, or leaves the marker.                    *)
LEMMA GivesUp ==
  ASSUME ServiceInv, KeptInv, NEW w \in L!Exes, L!Fail(w),
         UNCHANGED <<manager, disk, unit, job, agents, state, raced, marker>>,
         NotSlipped' => NotSlipped, NotMissed' => NotMissed,
         running' = running \/ (w = "app" /\ running' = FALSE)
  PROVE  KeptInv'
<1>1. Ends(w) /\ (told => told')
  BY OperationEnds
<1>2. CASE proc[w].kind \in {"update", "recover"}
  BY <1>1, <1>2 DEF Ends
<1>3. CASE proc[w].kind \notin {"update", "recover"} /\ told'
  BY <1>1, <1>3 DEF Ends
<1> QED
  BY <1>2, <1>3, OperationEnds

-----------------------------------------------------------------------------
(* The steps of an operation that change what is installed or who runs.      *)

LEMMA SwapAnswered ==
  ASSUME ServiceInv, KeptInv, NEW w \in L!Exes, L!Swap(w)
  PROVE  KeptInv'
<1>1. /\ UNCHANGED <<manager, unit, job, agents, state, running, raced, marker, told, slipped>>
      /\ proc[w].at = "swap"
  BY DEF L!Swap, L!fixed
<1>2. w = "app" /\ Updating /\ marker
  BY <1>1, OfTheApplication
<1>3. PICK at \in {"restart", "unmark"} :
        /\ proc' = [proc EXCEPT ![w].at = at, ![w].swapped = TRUE]
        /\ at = "unmark" => UNCHANGED disk
  BY DEF L!Swap
<1>4. Turns(w, at)
  <2>1. proc \in [{"app", "cli"} -> Operations] /\ w \in {"app", "cli"}
    BY DEF ServiceInv, ServiceTypeOK
  <2>2. PICK p : p = [proc[w] EXCEPT !.at = at, !.swapped = TRUE]
    OBVIOUS
  <2>3. p.at = at /\ p.kind = proc[w].kind /\ p.pid = proc[w].pid
    BY <2>1, <2>2 DEF Operations
  <2>4. proc' = [proc EXCEPT ![w] = p]
    BY <1>3, <2>2
  <2> QED
    BY <2>1, <2>3, <2>4 DEF Turns
<1>5. CASE at = "restart"
  BY <1>1, <1>2, <1>4, <1>5 DEF Turns
<1>6. CASE at = "unmark"
  BY <1>1, <1>2, <1>3, <1>4, <1>6 DEF Turns
<1> QED
  BY <1>5, <1>6

LEMMA FetchAnswered ==
  ASSUME ServiceInv, KeptInv, NEW w \in L!Exes, L!Fetch(w)
  PROVE  KeptInv'
<1>1. /\ UNCHANGED <<manager, unit, job, agents, state, running, raced, marker, slipped>>
      /\ proc[w].at = "fetch"
  BY DEF L!Fetch, L!fixed
<1>2. disk'["app"] = disk["app"]
  BY DEF L!Fetch, ServiceInv, ServiceTypeOK
<1>3. CASE Turns(w, "find") /\ told' = told
  BY <1>1, <1>2, <1>3 DEF Turns
<1>4. CASE Ends(w) /\ (told => told')
  BY <1>1, <1>2, <1>4 DEF Ends
<1> QED
  BY <1>3, <1>4, TurnsThere, OperationEnds DEF L!Fetch

LEMMA UnitAnswered ==
  ASSUME ServiceInv, KeptInv, NEW w \in L!Exes, L!WriteUnit(w) \/ L!RemoveUnit(w)
  PROVE  KeptInv'
<1>1. UNCHANGED <<manager, disk, job, agents, state, running, raced, marker, slipped>>
  BY DEF L!WriteUnit, L!RemoveUnit, L!fixed
<1>2. CASE L!WriteUnit(w)
  <2>1. proc[w].at = "write" /\ unit' = w /\ told' = told
    BY <1>2 DEF L!WriteUnit
  <2>2. Turns(w, IF manager = "launchd" THEN "bootout" ELSE "bootstrap")
    BY <1>2, TurnsThere DEF L!WriteUnit
  <2>3. CASE manager = "launchd" /\ Turns(w, "bootout")
    BY <1>1, <2>1, <2>3 DEF Turns
  <2>4. CASE manager = "systemd" /\ Turns(w, "bootstrap")
    BY <1>1, <2>1, <2>4 DEF Turns
  <2> QED
    BY <2>2, <2>3, <2>4
<1>3. CASE L!RemoveUnit(w)
  <2>1. proc[w].at = "remove" /\ unit' = None /\ (told => told') /\ Ends(w)
    BY <1>3, OperationEnds DEF L!RemoveUnit
  <2>2. unit' # "app"
    BY <2>1, ServiceAssumption
  <2> QED
    BY <1>1, <2>1, <2>2 DEF Ends
<1> QED
  BY <1>2, <1>3

LEMMA StartAgainAnswered ==
  ASSUME ServiceInv, KeptInv, NEW w \in L!Exes, L!StartAgain(w)
  PROVE  KeptInv'
<1>1. /\ UNCHANGED <<manager, disk, unit, job, state, running, raced, marker, slipped>>
      /\ proc[w].at = "again"
  BY DEF L!StartAgain, L!fixed
<1>2. agents'["service"] = agents["service"]
  BY DEF L!StartAgain, L!Exec, ServiceInv, ServiceTypeOK
<1>3. CASE Turns(w, "kick") /\ told' = told
  BY <1>1, <1>2, <1>3 DEF Turns
<1>4. CASE Ends(w) /\ (told => told') /\ unit = None
  BY <1>1, <1>2, <1>4 DEF Ends
<1> QED
  BY <1>3, <1>4, TurnsThere, OperationEnds DEF L!StartAgain

LEMMA CloseViewerAnswered ==
  ASSUME ServiceInv, KeptInv, NEW w \in L!Exes, L!CloseViewer(w)
  PROVE  KeptInv'
<1>1. Apart /\ UNCHANGED <<marker, slipped, told>> /\ proc[w].at = "close"
  BY DEF Apart, L!CloseViewer, L!fixed
<1>2. Turns(w, IF proc[w].kind = "resume" THEN "resume" ELSE "stop")
  BY TurnsThere DEF L!CloseViewer
<1>3. CASE proc[w].kind = "resume" /\ Turns(w, "resume")
  BY <1>1, <1>3 DEF Apart, Turns
<1>4. CASE proc[w].kind # "resume" /\ Turns(w, "stop")
  BY <1>1, <1>4 DEF Apart, Turns
<1> QED
  BY <1>2, <1>3, <1>4

(* The collector that state.json names is told to end, and waited for.       *)
LEMMA TerminateAnswered ==
  ASSUME ServiceInv, KeptInv, NEW w \in L!Exes, L!Terminate(w)
  PROVE  KeptInv'
<1>1. /\ UNCHANGED <<manager, disk, unit, job, state, running, raced, marker, slipped, told>>
      /\ proc[w].at = "term"
  BY DEF L!Terminate, L!fixed
<1>2. proc \in [{"app", "cli"} -> Operations] /\ w \in {"app", "cli"}
  BY DEF ServiceInv, ServiceTypeOK
<1>3. PICK named : named = IF state \in L!Slots THEN state ELSE None
  OBVIOUS
<1>4. /\ proc'[w].at = "wait" /\ proc'[w].kind = proc[w].kind /\ proc'[w].pid = named
      /\ \A v \in L!Exes : v # w => proc'[v] = proc[v]
  <2>1. PICK p : p = [proc[w] EXCEPT !.at = "wait", !.pid = named]
    OBVIOUS
  <2>2. p.at = "wait" /\ p.kind = proc[w].kind /\ p.pid = named
    BY <1>2, <2>1 DEF Operations
  <2>3. proc' = [proc EXCEPT ![w] = p]
    BY <1>3, <2>1 DEF L!Terminate
  <2> QED
    BY <1>2, <2>2, <2>3
<1>5. CASE state = "service"
  <2>1. agents'["service"].at = "ending"
    BY <1>5 DEF L!Terminate, L!Told, L!Slots, ServiceInv, ServiceTypeOK, Processes
  <2>2. job # None
    BY <1>5 DEF ServiceInv, SavedHandles, L!Slots
  <2> QED
    BY <1>1, <1>3, <1>4, <1>5, <2>1, <2>2 DEF L!Slots
<1>6. CASE state # "service"
  <2>1. agents'["service"] = agents["service"]
    BY <1>6 DEF L!Terminate, L!Told, L!Slots, ServiceInv, ServiceTypeOK
  <2>2. named # "service"
    BY <1>3, <1>6, ServiceAssumption
  <2> QED
    BY <1>1, <1>4, <1>6, <2>1, <2>2
<1> QED
  BY <1>5, <1>6

-----------------------------------------------------------------------------
(* A collector ends: what the manager is to start again is due, and what it   *)
(* has unloaded is gone.                                                      *)
JobAfter(clean) ==
  /\ job = None \/ job.leaving => job' = None
  /\ job # None /\ ~job.leaving =>
       job' # None /\ ~job'.leaving /\ (job'.due <=> job.due \/ ~clean)

LEMMA JobEnds ==
  ASSUME ServiceInv, NEW s \in L!Slots, NEW clean \in BOOLEAN, L!Ended(s, clean)
  PROVE  /\ s = "service" => agents'["service"].at = "none" /\ JobAfter(clean)
         /\ s # "service" => /\ agents'["service"] = agents["service"] /\ job' = job
                             /\ state = "service" => state' = "service"
<1>1. agents \in [{"service", "manual"} -> Processes] /\ (job # None => job \in Registrations)
  BY DEF ServiceInv, ServiceTypeOK
<1>2. agents' = [agents EXCEPT ![s] = L!Gone] /\ L!Gone.at = "none"
  BY DEF L!Ended, L!Gone
<1>3. CASE s # "service"
  BY <1>1, <1>2, <1>3 DEF L!Ended, L!Slots
<1>4. CASE s = "service" /\ job = None
  BY <1>1, <1>2, <1>4 DEF L!Ended, JobAfter, L!Slots
<1>5. CASE s = "service" /\ job # None /\ job.leaving
  BY <1>1, <1>2, <1>5 DEF L!Ended, JobAfter, L!Slots
<1>6. CASE s = "service" /\ job # None /\ ~job.leaving
  <2>1. PICK d \in BOOLEAN : d = (job.due \/ ~clean)
    <3>1. (job.due \/ ~clean) \in BOOLEAN
      OBVIOUS
    <3> QED
      BY <3>1
  <2>2. job' = [job EXCEPT !.due = d]
    BY <1>6, <2>1 DEF L!Ended
  <2>3. job' \in Registrations /\ job'.due = d /\ job'.leaving = job.leaving
    BY <1>1, <1>6, <2>2 DEF Registrations
  <2>4. job' # None
    BY <2>3, ServiceAssumption DEF Registrations
  <2>5. JobAfter(clean)
    BY <1>6, <2>1, <2>3, <2>4 DEF JobAfter
  <2> QED
    BY <1>1, <1>2, <1>6, <2>5 DEF L!Slots
<1> QED
  BY <1>3, <1>4, <1>5, <1>6

LEMMA ReleasedFields ==
  ASSUME ServiceInv, NEW s \in L!Slots, NEW v \in L!Exes
  PROVE  /\ L!Released(s)[v].at = proc[v].at /\ L!Released(s)[v].kind = proc[v].kind
         /\ s # "service" /\ proc[v].pid = "service" => L!Released(s)[v].pid = "service"
<1>1. proc[v] \in Operations
  BY DEF ServiceInv, ServiceTypeOK
<1>2. L!Released(s)[v] = IF proc[v].pid = s THEN [proc[v] EXCEPT !.pid = None] ELSE proc[v]
  BY DEF L!Released
<1>3. CASE proc[v].pid = s
  BY <1>1, <1>2, <1>3 DEF Operations
<1>4. CASE proc[v].pid # s
  BY <1>2, <1>4
<1> QED
  BY <1>3, <1>4

LEMMA DeathAnswered ==
  ASSUME ServiceInv, KeptInv, NEW s \in L!Slots, NEW clean \in BOOLEAN, L!Dies(s, clean),
         L!Alive(s), clean => agents[s].at = "ending",
         UNCHANGED <<manager, disk, unit, running, raced, marker, slipped, told>>
  PROVE  KeptInv'
<1>1. L!Ended(s, clean) /\ proc' = L!Released(s)
  BY DEF L!Dies
<1>2. \A v \in L!Exes :
        /\ proc'[v].at = proc[v].at /\ proc'[v].kind = proc[v].kind
        /\ s # "service" /\ proc[v].pid = "service" => proc'[v].pid = "service"
  BY <1>1, ReleasedFields
<1>3. CASE s = "service"
  <2>1. agents'["service"].at = "none" /\ JobAfter(clean)
    BY <1>1, <1>3, JobEnds
  <2> QED
    BY <1>2, <1>3, <2>1 DEF JobAfter
<1>4. CASE s # "service"
  <2>1. agents'["service"] = agents["service"] /\ job' = job /\ (state = "service" => state' = "service")
    BY <1>1, <1>4, JobEnds
  <2> QED
    BY <1>2, <1>4, <2>1
<1> QED
  BY <1>3, <1>4

LEMMA KillStuckAnswered ==
  ASSUME ServiceInv, KeptInv, NEW w \in L!Exes, L!KillStuck(w)
  PROVE  KeptInv'
<1>1. /\ UNCHANGED <<manager, disk, unit, running, raced, marker, slipped, told>>
      /\ proc[w].at = "wait"
  BY DEF L!KillStuck
<1>2. PICK s : s = proc[w].pid
  OBVIOUS
<1>3. s \in L!Slots /\ L!Ended(s, FALSE)
  BY <1>2 DEF ServiceInv, ServiceTypeOK, Operations, L!Slots, L!KillStuck
<1>4. PICK at : at = L!AfterStop(w)
  OBVIOUS
<1>5. at = IF proc[w].kind \in {"update", "recover"} THEN "kick"
           ELSE IF proc[w].kind = "self-update" THEN "again" ELSE "write"
  BY <1>4 DEF L!AfterStop, L!Updates
<1>6. \A v \in L!Exes :
        /\ v # w => proc'[v].at = proc[v].at
        /\ proc'[v].kind = proc[v].kind
        /\ s # "service" /\ proc[v].pid = "service" => proc'[v].pid = "service"
  <2>1. PICK released : released = L!Released(s)
    OBVIOUS
  <2>2. released \in [{"app", "cli"} -> Operations]
    BY <2>1, ReleasedTyped DEF ServiceInv
  <2>3. PICK p : p = [released[w] EXCEPT !.at = at]
    OBVIOUS
  <2>4. p.kind = released[w].kind /\ p.pid = released[w].pid
    BY <2>2, <2>3 DEF Operations
  <2>5. proc' = [released EXCEPT ![w] = p]
    BY <1>2, <1>4, <2>1, <2>3 DEF L!KillStuck
  <2>6. \A v \in L!Exes :
          /\ released[v].at = proc[v].at /\ released[v].kind = proc[v].kind
          /\ s # "service" /\ proc[v].pid = "service" => released[v].pid = "service"
    BY <1>3, <2>1, ReleasedFields
  <2> QED
    BY <2>2, <2>4, <2>5, <2>6
<1>7. proc'[w].at = at
  BY <1>4, ReleasedTyped DEF L!KillStuck, ServiceInv, Operations
<1>8. \/ proc[w].kind \in {"update", "recover"} /\ proc'[w].at = "kick"
      \/ proc[w].kind = "self-update" /\ proc'[w].at = "again"
      \/ proc[w].kind \in {"enable", "install"} /\ proc'[w].at = "write"
  BY <1>1, <1>5, <1>7
<1>9. CASE s = "service"
  <2>1. agents'["service"].at = "none" /\ JobAfter(FALSE)
    BY <1>3, <1>9, JobEnds
  <2> QED
    BY <1>1, <1>6, <1>8, <2>1 DEF JobAfter
<1>10. CASE s # "service"
  <2>1. agents'["service"] = agents["service"] /\ job' = job /\ (state = "service" => state' = "service")
    BY <1>3, <1>10, JobEnds
  <2>2. proc[w].pid # "service"
    BY <1>2, <1>10
  <2>3. \A v \in L!Exes : v # w => /\ proc'[v].at = proc[v].at /\ proc'[v].kind = proc[v].kind
                                   /\ proc[v].pid = "service" => proc'[v].pid = "service"
    BY <1>6, <1>10
  <2>4. proc'[w].kind = proc[w].kind
    BY <1>6
  <2>5. CASE proc[w].kind \in {"update", "recover"} /\ proc'[w].at = "kick"
    BY <1>1, <2>1, <2>2, <2>3, <2>4, <2>5
  <2>6. CASE proc[w].kind = "self-update" /\ proc'[w].at = "again"
    BY <1>1, <2>1, <2>2, <2>3, <2>4, <2>6
  <2>7. CASE proc[w].kind \in {"enable", "install"} /\ proc'[w].at = "write"
    BY <1>1, <2>1, <2>2, <2>3, <2>4, <2>7
  <2> QED
    BY <1>8, <2>5, <2>6, <2>7
<1> QED
  BY <1>9, <1>10

-----------------------------------------------------------------------------
(* The service manager.                                                      *)

(* What SIGTERM of the manager does to the service.                          *)
LEMMA SignalledService ==
  ASSUME ServiceInv, agents' = L!Signalled
  PROVE  /\ agents["service"].at = "up" => agents'["service"].at = "ending"
         /\ agents["service"].at # "up" => agents'["service"] = agents["service"]
<1>1. CASE agents["service"].at = "up"
  BY <1>1, MovedOn DEF ServiceInv, L!Signalled, L!Told, L!Slots
<1>2. CASE agents["service"].at # "up"
  BY <1>2 DEF L!Signalled
<1> QED
  BY <1>1, <1>2

LEMMA KickAnswered ==
  ASSUME ServiceInv, KeptInv, NEW w \in L!Exes, L!Kick(w)
  PROVE  KeptInv'
<1>1. /\ UNCHANGED <<manager, disk, unit, state, running, raced, marker, slipped>>
      /\ proc[w].at = "kick"
  BY DEF L!Kick, L!fixed
<1>2. CASE ~L!Kickable
  <2>1. L!Fail(w) /\ UNCHANGED <<manager, disk, unit, job, agents, state, raced, marker>>
    BY <1>1, <1>2 DEF L!Kick
  <2>2. (NotSlipped' => NotSlipped) /\ (NotMissed' => NotMissed) /\ running' = running
    BY <1>1
  <2> QED
    BY <2>1, <2>2, GivesUp
<1>3. CASE L!Kickable /\ manager = "systemd"
  <2>1. job' = [exe |-> unit, due |-> TRUE, leaving |-> FALSE] /\ agents' = L!Signalled /\ unit # None
    BY <1>3 DEF L!Kick, L!Kickable
  <2>2. unit \in {"app", "cli"}
    BY <2>1 DEF ServiceInv, ServiceTypeOK
  <2>3. job' \in Registrations /\ job'.due /\ ~job'.leaving
    BY <2>1, <2>2 DEF Registrations
  <2>4. job' # None
    BY <2>3, ServiceAssumption DEF Registrations
  <2>5. CASE Ends(w) /\ (told => told')
    BY <1>1, <1>3, <2>1, <2>3, <2>4, <2>5, SignalledService DEF Ends
  <2>6. w = "cli" /\ proc[w].kind = "self-update"
    BY <1>1, <1>3
  <2> QED
    BY <1>3, <2>5, <2>6, OperationEnds DEF L!Kick
<1>4. CASE L!Kickable /\ manager # "systemd"
  <2>1. job # None /\ ~job.leaving /\ job \in Registrations
    BY <1>4 DEF L!Kickable, ServiceInv, ServiceTypeOK
  <2>2. PICK d \in BOOLEAN : d = (job.due \/ ~L!Alive("service"))
    <3>1. (job.due \/ ~L!Alive("service")) \in BOOLEAN
      OBVIOUS
    <3> QED
      BY <3>1
  <2>3. job' = [job EXCEPT !.due = d] /\ UNCHANGED agents
    BY <1>4, <2>2 DEF L!Kick
  <2>4. job' \in Registrations /\ job'.due = d /\ ~job'.leaving
    BY <2>1, <2>3 DEF Registrations
  <2>5. job' # None
    BY <2>4, ServiceAssumption DEF Registrations
  <2>6. /\ agents["service"].at = "none" => job'.due
        /\ job.due => job'.due
    BY <2>2, <2>4 DEF L!Alive
  <2>7. CASE Turns(w, "await") /\ told' = told /\ proc[w].kind # "self-update"
    <3>1. CASE proc[w].kind = "resume"
      BY <1>1, <2>1, <2>3, <2>4, <2>5, <2>6, <2>7, <3>1 DEF Turns
    <3>2. CASE proc[w].kind \in {"update", "recover"}
      <4>1. w = "app" /\ Updating' /\ proc'["app"].at = "await"
        BY <1>1, <2>7, <3>2 DEF Turns
      <4>2. NotSlipped => Covered' /\ EndingCovered' /\ LeavingCovered'
        BY <1>1, <2>1, <2>3, <2>4, <2>5, <2>6, <2>7, <3>2, <4>1 DEF Turns
      <4>3. NotMissed => StaleCovered' /\ StaleIsTold'
        BY <1>1, <2>1, <2>3, <2>7, <3>2, <4>1 DEF Turns
      <4>4. Kept'
        BY <1>1, <2>3, <2>5, <2>7, <3>2, <4>1 DEF Turns
      <4> QED
        BY <1>1, <4>2, <4>3, <4>4
    <3> QED
      BY <1>1, <2>7, <3>1, <3>2
  <2>8. CASE Ends(w) /\ (told => told') /\ proc[w].kind = "self-update"
    <3>1. w = "cli" /\ proc'["cli"].kind = "none" /\ proc'["app"] = proc["app"]
      BY <1>1, <2>8 DEF Ends
    <3>2. NotSlipped => Covered' /\ EndingCovered' /\ LeavingCovered'
      BY <1>1, <2>1, <2>3, <2>4, <2>5, <2>6, <2>8, <3>1 DEF Ends
    <3>3. NotMissed => StaleCovered' /\ StaleIsTold'
      BY <1>1, <2>1, <2>3, <2>8, <3>1 DEF Ends
    <3>4. Kept'
      BY <1>1, <2>3, <2>5, <2>8, <3>1 DEF Ends
    <3> QED
      BY <1>1, <3>2, <3>3, <3>4
  <2> QED
    BY <1>4, <2>7, <2>8, TurnsThere, OperationEnds DEF L!Kick
<1> QED
  BY <1>2, <1>3, <1>4

LEMMA UnloadAnswered ==
  ASSUME ServiceInv, KeptInv, NEW w \in L!Exes, L!Bootout(w) \/ L!Unload(w)
  PROVE  KeptInv'
<1>1. /\ UNCHANGED <<manager, disk, unit, state, running, raced, marker, slipped>>
      /\ proc[w].at \in {"bootout", "unload"}
  BY DEF L!Bootout, L!Unload, L!fixed
<1>2. ASSUME NEW at, L!Unloaded(w, at), told' = told,
             \/ at = "gone" /\ proc[w].at = "bootout"
             \/ at = "remove" /\ proc[w].at = "unload"
      PROVE  KeptInv'
  <2>1. Turns(w, at) /\ agents' = L!Signalled
    BY <1>2, TurnsThere DEF L!Unloaded
  <2>2. CASE job # None /\ L!Alive("service")
    <3>1. job' = [job EXCEPT !.leaving = TRUE] /\ job \in Registrations
      BY <1>2, <2>2 DEF L!Unloaded, ServiceInv, ServiceTypeOK
    <3>2. job' \in Registrations
      BY <3>1 DEF Registrations
    <3>3. job' # None
      BY <3>2, ServiceAssumption DEF Registrations
    <3> QED
      BY <1>1, <1>2, <2>1, <3>3, SignalledService DEF Turns
  <2>3. CASE ~(job # None /\ L!Alive("service"))
    <3>1. job' = None
      BY <1>2, <2>3 DEF L!Unloaded
    <3>2. agents["service"].at = "none"
      BY <2>3 DEF L!Alive
    <3> QED
      BY <1>1, <1>2, <2>1, <3>1, <3>2, SignalledService DEF Turns
  <2> QED
    BY <2>2, <2>3
<1>3. CASE L!Bootout(w)
  BY <1>2, <1>3 DEF L!Bootout
<1>4. CASE L!Unload(w) /\ unit # None
  BY <1>2, <1>4 DEF L!Unload
<1>5. CASE L!Unload(w) /\ unit = None
  <2>1. Ends(w) /\ (told => told') /\ UNCHANGED <<job, agents>> /\ proc[w].at = "unload"
    BY <1>5, OperationEnds DEF L!Unload
  <2> QED
    BY <1>1, <2>1 DEF Ends
<1> QED
  BY <1>3, <1>4, <1>5

LEMMA BootstrapAnswered ==
  ASSUME ServiceInv, KeptInv, NEW w \in L!Exes, L!Bootstrap(w)
  PROVE  KeptInv'
<1>1. /\ UNCHANGED <<manager, disk, unit, agents, state, running, raced, marker>>
      /\ proc[w].at = "bootstrap"
  BY DEF L!Bootstrap, L!fixed
<1>2. /\ NotSlipped' => NotSlipped /\ ~(L!Runs /\ agents["service"].at = "ending")
      /\ NotMissed' => NotMissed
  BY <1>1 DEF L!Bootstrap
<1>3. CASE L!Fail(w) /\ UNCHANGED job
  BY <1>1, <1>2, <1>3, GivesUp
<1>4. CASE /\ unit # None
           /\ (w = "app" /\ Turns(w, "await")) \/ Ends(w)
           /\ told => told'
           /\ job = None \/ manager = "systemd"
           /\ job' = [exe |-> unit, due |-> ~L!Runs, leaving |-> FALSE]
  <2>1. PICK d \in BOOLEAN : d = ~L!Runs
    <3>1. (~L!Runs) \in BOOLEAN
      OBVIOUS
    <3> QED
      BY <3>1
  <2>2. job' \in Registrations /\ job'.due = d /\ ~job'.leaving
    <3>1. unit \in {"app", "cli"}
      BY <1>4 DEF ServiceInv, ServiceTypeOK
    <3> QED
      BY <1>4, <2>1, <3>1 DEF Registrations
  <2>3. job' # None
    BY <2>2, ServiceAssumption DEF Registrations
  <2>4. d <=> ~(agents["service"].at # "none" /\ ~(job # None /\ job.leaving))
    BY <2>1 DEF L!Runs, L!Alive
  <2>5. CASE w = "app" /\ Turns(w, "await")
    <3>1. proc'["app"].at = "await" /\ proc'["app"].kind = proc["app"].kind /\ proc'["cli"] = proc["cli"]
          /\ proc'["app"].pid = proc["app"].pid
      BY <2>5 DEF Turns
    <3>2. NotSlipped' => Covered' /\ EndingCovered' /\ LeavingCovered'
      BY <1>1, <1>2, <1>4, <2>2, <2>3, <2>4, <2>5, <3>1
    <3>3. NotMissed' => StaleCovered' /\ StaleIsTold'
      BY <1>1, <1>2, <1>4, <2>2, <2>3, <2>5, <3>1
    <3>4. Kept'
      BY <1>1, <2>2, <2>3, <2>5, <3>1
    <3> QED
      BY <3>2, <3>3, <3>4
  <2>6. CASE Ends(w)
    <3>1. \E v \in {"app", "cli"} :
            /\ proc'[v].at = "idle" /\ proc'[v].kind = "none"
            /\ \A x \in {"app", "cli"} : x # v => proc'[x] = proc[x]
      BY <2>6 DEF Ends
    <3>2. NotSlipped' => Covered' /\ EndingCovered' /\ LeavingCovered'
      <4>1. NotSlipped' => job'.due \/ agents'["service"].at \notin {"none", "ending"}
        BY <1>1, <1>2, <2>2, <2>4 DEF L!Runs, L!Alive
      <4> QED
        BY <2>2, <2>3, <4>1
    <3>3. NotMissed' => StaleCovered' /\ StaleIsTold'
      <4>1. unit' = "app" /\ ~told' /\ Stale' => Promised(Swapping \cup {"wait", "kick"}) \/ Registers
        BY <1>1, <1>2, <1>4
      <4> QED
        BY <1>1, <1>2, <1>4, <3>1, <4>1
    <3>4. Kept'
      BY <1>1, <2>2, <2>3, <3>1
    <3> QED
      BY <3>2, <3>3, <3>4
  <2> QED
    BY <1>4, <2>5, <2>6
<1>5. CASE /\ (w = "app" /\ Turns(w, "await")) \/ Ends(w)
           /\ told => told'
           /\ job # None /\ manager # "systemd"
           /\ job' = job
  BY <1>1, <1>2, <1>5 DEF Turns, Ends
<1>6. \/ L!Fail(w) /\ UNCHANGED job
      \/ /\ unit # None
         /\ (w = "app" /\ L!Goto(w, "await") /\ told' = told) \/ L!Succeed(w)
         /\ \/ /\ job = None \/ manager = "systemd"
               /\ job' = [exe |-> unit, due |-> ~L!Runs, leaving |-> FALSE]
            \/ job # None /\ manager # "systemd" /\ job' = job
  BY DEF L!Bootstrap
<1>7. L!Goto(w, "await") => Turns(w, "await")
  BY TurnsThere
<1>8. L!Succeed(w) => Ends(w) /\ (told => told')
  BY OperationEnds
<1> QED
  BY <1>3, <1>4, <1>5, <1>6, <1>7, <1>8

-----------------------------------------------------------------------------
(* The collectors, the user, and what goes wrong around them.                *)

LEMMA JobStartsAnswered ==
  ASSUME ServiceInv, KeptInv, L!JobStarts
  PROVE  KeptInv'
<1>1. UNCHANGED <<manager, disk, unit, state, proc, running, raced, marker, slipped, told>>
  BY DEF L!JobStarts, L!fixed
<1>2. job # None /\ ~job.leaving /\ job \in Registrations /\ job.exe \in {"app", "cli"}
  BY DEF L!JobStarts, ServiceInv, ServiceTypeOK, Registrations
<1>3. job' # None /\ ~job'.leaving
  <2>1. job' = [job EXCEPT !.due = FALSE]
    BY DEF L!JobStarts
  <2>2. job' \in Registrations /\ ~job'.leaving
    BY <1>2, <2>1 DEF Registrations
  <2> QED
    BY <2>2, ServiceAssumption DEF Registrations
<1>4. agents'["service"] = [at |-> "probe", exe |-> job.exe, version |-> disk[job.exe]]
  BY DEF L!JobStarts, L!Exec, ServiceInv, ServiceTypeOK
<1>5. agents'["service"].at = "probe" /\ ~Stale'
  BY <1>1, <1>4
<1> QED
  BY <1>1, <1>3, <1>5

(* A collector goes on to be up.                                             *)
LEMMA MovesUp ==
  ASSUME ServiceInv, KeptInv, NEW s \in L!Slots, NEW at \in {"bind", "open", "begin", "up"},
         agents[s].at \in {"probe", "bind", "open", "begin"}, agents' = [agents EXCEPT ![s].at = at],
         UNCHANGED <<manager, disk, unit, job, proc, running, marker, slipped, told>>,
         raced => raced',
         (at # "up" /\ state' = state) \/ (at = "up" /\ agents[s].at = "begin" /\ state' = s)
  PROVE  KeptInv'
<1>1. CASE s = "service"
  <2>1. agents["service"] \in Processes
    BY DEF ServiceInv, ServiceTypeOK
  <2>2. PICK a : a = [agents["service"] EXCEPT !.at = at]
    OBVIOUS
  <2>3. a.at = at /\ a.exe = agents["service"].exe /\ a.version = agents["service"].version
    BY <2>1, <2>2 DEF Processes
  <2>4. agents'["service"] = a
    BY <1>1, <2>2 DEF ServiceInv, ServiceTypeOK
  <2> QED
    BY <1>1, <2>3, <2>4
<1>2. CASE s # "service"
  <2>1. agents'["service"] = agents["service"]
    BY <1>2 DEF ServiceInv, ServiceTypeOK
  <2>2. state' # state => agents["service"].at \notin {"up", "ending"}
    BY <1>2 DEF ServiceInv, HasLedger, L!Slots
  <2> QED
    BY <2>1, <2>2
<1> QED
  BY <1>1, <1>2

LEMMA CollectorAnswered ==
  ASSUME ServiceInv, KeptInv, NEW s \in L!Slots, L!AgentStep(s)
  PROVE  KeptInv'
<1>1. UNCHANGED <<manager, disk, unit, running, marker, slipped, told>>
  BY DEF L!AgentStep, L!Probe, L!Bind, L!OpenLedger, L!Begun, L!Finish, L!Crash, L!fixed
<1>2. ASSUME NEW clean \in BOOLEAN, L!Dies(s, clean), L!Alive(s), raced' = raced,
             clean => agents[s].at = "ending"
      PROVE  KeptInv'
  BY <1>1, <1>2, DeathAnswered
<1>3. CASE L!Probe(s)
  <2>1. agents[s].at = "probe" /\ L!Alive(s) /\ raced' = raced
    BY <1>3 DEF L!Probe, L!Alive
  <2>2. CASE agents' = [agents EXCEPT ![s].at = "bind"] /\ UNCHANGED <<job, state, proc>>
    BY <1>1, <2>1, <2>2, MovesUp
  <2> QED
    BY <1>2, <1>3, <2>1, <2>2 DEF L!Probe
<1>4. CASE L!Bind(s)
  BY <1>1, <1>4, MovesUp DEF L!Bind
<1>5. CASE L!OpenLedger(s)
  <2>1. agents[s].at = "open" /\ L!Alive(s) /\ raced' = raced
    BY <1>5 DEF L!OpenLedger, L!Alive
  <2>2. CASE agents' = [agents EXCEPT ![s].at = "begin"] /\ UNCHANGED <<job, state, proc>>
    BY <1>1, <2>1, <2>2, MovesUp
  <2> QED
    BY <1>2, <1>5, <2>1, <2>2 DEF L!OpenLedger
<1>6. CASE L!Begun(s)
  BY <1>1, <1>6, MovesUp DEF L!Begun
<1>7. CASE L!Finish(s)
  BY <1>2, <1>7 DEF L!Finish, L!Alive
<1>8. CASE L!Crash(s)
  BY <1>2, <1>8 DEF L!Crash
<1> QED
  BY <1>3, <1>4, <1>5, <1>6, <1>7, <1>8 DEF L!AgentStep

LEMMA BeginAnswered ==
  ASSUME ServiceInv, KeptInv, NEW w \in L!Exes, NEW kind \in L!Offers(w), L!Begin(w, kind)
  PROVE  KeptInv'
<1>1. UNCHANGED <<manager, disk, unit, job, agents, state, running, raced, marker, slipped>>
  BY DEF L!Begin
<1>2. proc[w].kind = "none" /\ (w = "app" => running)
  BY DEF L!Begin, L!Resting
<1>3. told' <=> told /\ kind \notin {"enable", "install"}
  BY DEF L!Begin
<1>4. PICK at : at = L!First(kind)
  OBVIOUS
<1>5. /\ proc'[w].kind = kind /\ proc'[w].at = at
      /\ \A v \in L!Exes : v # w => proc'[v] = proc[v]
  <2>1. PICK p : p = [L!Idle EXCEPT !.kind = kind, !.at = at]
    OBVIOUS
  <2>2. p.kind = kind /\ p.at = at
    BY <2>1 DEF L!Idle
  <2>3. proc' = [proc EXCEPT ![w] = p]
    BY <1>4, <2>1 DEF L!Begin
  <2> QED
    BY <2>2, <2>3 DEF ServiceInv, ServiceTypeOK
<1>6. \/ w = "app" /\ kind = "enable" /\ at = "close"
      \/ w = "app" /\ kind = "resume" /\ at = "close"
      \/ w = "app" /\ kind = "update" /\ at = "recover"
      \/ w \in {"app", "cli"} /\ kind = "uninstall" /\ at = "unload"
      \/ w = "cli" /\ kind = "install" /\ at = "stop"
      \/ w = "cli" /\ kind = "self-update" /\ at = "fetch"
  BY <1>4 DEF L!Offers, L!First, L!Updates
<1>7. CASE kind \in {"enable", "install"}
  BY <1>1, <1>2, <1>5, <1>6, <1>7
<1>8. CASE kind \notin {"enable", "install"}
  BY <1>1, <1>2, <1>3, <1>5, <1>6, <1>8
<1> QED
  BY <1>7, <1>8

LEMMA LaunchAnswered ==
  ASSUME ServiceInv, KeptInv, L!Launch
  PROVE  KeptInv'
<1>1. UNCHANGED <<manager, disk, unit, job, agents, state, raced, marker, slipped, told>>
  BY DEF L!Launch, L!fixed
<1>2. ~running /\ manager = "launchd" /\ proc["app"].kind = "none" /\ proc["app"].at = "idle" /\ running'
  BY DEF L!Launch
<1>3. proc'["app"].kind = "recover" /\ proc'["app"].at = "recover" /\ proc'["cli"] = proc["cli"]
  BY DEF L!Launch, L!Idle, ServiceInv, ServiceTypeOK
<1> QED
  BY <1>1, <1>2, <1>3

LEMMA ByHandAnswered ==
  ASSUME ServiceInv, KeptInv, L!StartByHand
  PROVE  KeptInv'
<1>1. UNCHANGED <<manager, disk, unit, job, state, proc, running, raced, marker, slipped, told>>
  BY DEF L!StartByHand
<1>2. agents'["service"] = agents["service"]
  BY DEF L!StartByHand, L!Exec, ServiceInv, ServiceTypeOK
<1> QED
  BY <1>1, <1>2

LEMMA RebootAnswered ==
  ASSUME ServiceInv, KeptInv, L!Reboot
  PROVE  KeptInv'
<1>1. UNCHANGED <<manager, disk, unit, raced, marker, slipped, told>> /\ running' = FALSE
  BY DEF L!Reboot
<1>2. /\ \A w \in L!Exes : proc'[w].kind = "none" /\ proc'[w].at = "idle"
      /\ agents'["service"].at = "none"
  BY DEF L!Reboot, L!Idle, L!Gone, L!Slots
<1>3. unit # None => job' # None /\ ~job'.leaving /\ job'.due
  <2>1. SUFFICES ASSUME unit # None
                 PROVE  job' # None /\ ~job'.leaving /\ job'.due
    OBVIOUS
  <2>2. job' = [exe |-> unit, due |-> TRUE, leaving |-> FALSE] /\ unit \in {"app", "cli"}
    BY <2>1 DEF L!Reboot, ServiceInv, ServiceTypeOK
  <2>3. job' \in Registrations
    BY <2>2 DEF Registrations
  <2> QED
    BY <2>2, <2>3, ServiceAssumption DEF Registrations
<1> QED
  BY <1>1, <1>2, <1>3

LEMMA QuitAnswered ==
  ASSUME ServiceInv, KeptInv, L!Quit
  PROVE  KeptInv'
<1>1. UNCHANGED <<manager, disk, unit, job, agents, state, raced, marker, slipped>> /\ running' = FALSE
  BY DEF L!Quit
<1>2. CASE L!Resting("app")
  BY <1>1, <1>2 DEF L!Quit, L!Resting
<1>3. CASE ~L!Resting("app")
  <2>1. L!Fail("app") /\ "app" \in L!Exes
    BY <1>3 DEF L!Quit
  <2> QED
    BY <1>1, <2>1, GivesUp
<1> QED
  BY <1>2, <1>3

LEMMA KeptLeftAlone ==
  ASSUME KeptInv,
         UNCHANGED <<manager, disk, unit, job, agents, state, proc, running, raced, marker, slipped, told>>
  PROVE  KeptInv'
OBVIOUS

LEMMA KeptStep ==
  ASSUME ServiceInv, KeptInv, L!LifeNext \/ UNCHANGED L!lifeVars
  PROVE  KeptInv'
<1>1. CASE UNCHANGED L!lifeVars
  BY <1>1, KeptLeftAlone DEF L!lifeVars
<1>2. CASE L!Perish
  <2>1. /\ L!Dies("service", FALSE) /\ L!Alive("service") /\ "service" \in L!Slots
        /\ UNCHANGED <<manager, disk, unit, running, raced, marker, slipped, told>>
    BY <1>2 DEF L!Perish, L!Alive, L!Starting, L!Slots, L!fixed
  <2> QED
    BY <2>1, DeathAnswered
<1>3. CASE L!OpenViewer \/ L!ViewerOpens
  BY <1>3, KeptLeftAlone DEF L!OpenViewer, L!ViewerOpens, L!fixed
<1>4. ASSUME NEW s \in L!Slots, L!AgentStep(s)
      PROVE  KeptInv'
  BY <1>4, CollectorAnswered
<1>5. ASSUME NEW w \in L!Exes, L!UpdateStep(w)
      PROVE  KeptInv'
  BY <1>5, UpdateReads, RestartReads, RegistrationReads, SwapAnswered, FetchAnswered,
     StartAgainAnswered DEF L!UpdateStep
<1>6. ASSUME NEW w \in L!Exes, L!Interrupt(w)
      PROVE  KeptInv'
  <2>1. /\ L!Fail(w)
        /\ UNCHANGED <<manager, disk, unit, job, agents, state, raced, marker, running, slipped>>
    BY <1>6 DEF L!Interrupt
  <2> QED
    BY <2>1, GivesUp
<1>7. ASSUME NEW w \in L!Exes, L!ServiceStep(w)
      PROVE  KeptInv'
  BY <1>6, <1>7, RegistrationReads, StoppedGoesOn, CloseViewerAnswered, TerminateAnswered,
     KillStuckAnswered, KickAnswered, UnitAnswered, UnloadAnswered, BootstrapAnswered DEF L!ServiceStep
<1>8. ASSUME NEW w \in L!Exes, NEW kind \in L!Offers(w), L!Begin(w, kind)
      PROVE  KeptInv'
  BY <1>8, BeginAnswered
<1> QED
  BY <1>1, <1>2, <1>3, <1>4, <1>5, <1>7, <1>8, JobStartsAnswered, LaunchAnswered, ByHandAnswered,
     QuitAnswered, RebootAnswered DEF L!LifeNext


LEMMA KeptInit == DeviceInit => KeptInv
<1> SUFFICES ASSUME L!LifeInit
             PROVE  KeptInv
  BY DEF DeviceInit
<1>1. /\ \A w \in L!Exes : proc[w].kind = "none" /\ proc[w].at = "idle"
      /\ agents["service"].at = "none" /\ unit = None /\ unit # "app" /\ running = FALSE
      /\ manager \in {"launchd", "systemd"}
  BY ServiceAssumption DEF L!LifeInit, L!Idle, L!Gone, L!Slots
<1> QED
  BY <1>1

LEMMA KeptShows == KeptInv => L!StoppedIsRemembered /\ L!Updated
<1> SUFFICES ASSUME KeptInv
             PROVE  L!StoppedIsRemembered /\ L!Updated
  OBVIOUS
<1>1. ASSUME \A w \in L!Exes : L!Resting(w)
      PROVE  proc["app"].kind = "none" /\ proc["cli"].kind = "none"
             /\ proc["app"].at = "idle" /\ proc["cli"].at = "idle"
  BY <1>1 DEF L!Resting
<1>2. L!StoppedIsRemembered
  BY <1>1 DEF L!StoppedIsRemembered
<1>3. L!Updated
  BY <1>1 DEF L!Updated
<1> QED
  BY <1>2, <1>3

HIDE DEF KeptInv, Kept, Answered, InPlace, PlacesOf, MarkerKept, AliveHasJob, SavedService, NotSlipped,
         NotMissed, Covered, EndingCovered, LeavingCovered, StaleCovered, StaleIsTold, Stale, Sound, Svc,
         Registers, Registering, Restarts, Awaited, Promised, Updating, Swapping, L!Exes

(* The collector that writes the database is the one the control socket      *)
(* reaches; a service that an operation stopped has someone who starts it;   *)
(* and an update that is over leaves the new version running: whatever is    *)
(* started, told to end, killed, updated, registered again or removed        *)
(* meanwhile, but for the three orders the properties name (agent.rs,        *)
(* service.rs, desktop_cmd.rs, updates.rs).                                  *)
THEOREM DeviceServiceHolds == DeviceSpec => []ServiceHolds
<1>1. ServiceInv /\ [DeviceNext]_deviceVars => ServiceInv'
  BY ServiceStep, ServiceInvStep
<1>2. ServiceInv /\ KeptInv /\ [DeviceNext]_deviceVars => KeptInv'
  BY ServiceStep, KeptStep
<1>3. ServiceInv => L!Reachable
  BY DEF ServiceInv, HasLedger, HasSocket, L!Reachable, Bound
<1>4. ServiceInv /\ KeptInv => ServiceHolds
  BY <1>3, KeptShows DEF ServiceHolds
<1> QED
  BY <1>1, <1>2, <1>4, ServiceInit, KeptInit, PTL DEF DeviceSpec

-----------------------------------------------------------------------------
(***************************************************************************)
(* The model routers: a vendor's file that holds a value of kikimimi's has *)
(* a record that leads back, in the middle of every command as well.       *)
(***************************************************************************)
Routings == [key : Nat, model : R!Values, provider : R!Values]
Entries == {<<"entry", n>> : n \in Nat}

Codexes == [provider : R!Values \cup {R!Ours}, model : R!Values \cup {R!Ours}, table : {None} \cup Entries]
Opens == [model : R!Values \cup {R!Ours}, entry : R!Values \cup Entries]

Enabling == {"key file", "record", "apply", "undo"}
Enablings ==
  [at : Enabling, vendor : R!Vendors, r : Routings, fresh : BOOLEAN,
   doc : Codexes \cup Opens]
Disablings == [at : {"revoke", "forget"}, vendor : R!Vendors, r : Routings]

RoutersTypeOK ==
  /\ codex \in Codexes /\ open \in Opens
  /\ records \in [R!Vendors -> Routings \cup {None}]
  /\ keyFile \in Nat \cup {None}
  /\ keys \in SUBSET Nat /\ minted \in Nat /\ stray \in SUBSET Nat
  /\ lost \in Nat /\ failures \in Nat
  /\ chosen \in [provider : R!Values, model : R!Values, open : R!Values]
  /\ task \in {R!NoTask} \cup Enablings \cup Disablings

(* Nothing of kikimimi's is in the file of v.                               *)
Free(v) ==
  /\ v = "codex" => codex.provider # R!Ours /\ codex.model # R!Ours /\ codex.table = None
  /\ v = "open" => open.model # R!Ours

(* Where the file of v was left alone, it says what the user chose.         *)
LeftAsChosen ==
  /\ codex.provider # R!Ours => codex.provider = chosen.provider
  /\ codex.model # R!Ours => codex.model = chosen.model
  /\ open.model # R!Ours => open.model = chosen.open

(* What r says was chosen, is.                                              *)
SaysChosen(v, r) ==
  /\ v = "codex" => r.provider = chosen.provider /\ r.model = chosen.model
  /\ v = "open" => r.model = chosen.open

UnrecordedIsFree == \A v \in R!Vendors : records[v] = None => Free(v)

(* The steps of one command: what it holds is what the record says, or will. *)
TaskOK ==
  /\ task.at \in {"key file", "record"} =>
       /\ task.fresh => records[task.vendor] = None
       /\ ~task.fresh => task.vendor = "codex" /\ records["codex"] = task.r
  /\ task.at = "key file" => task.fresh /\ task.vendor = "open"
  /\ task.at = "undo" => task.fresh /\ (failures # 0 \/ (task.vendor = "open" /\ records["open"] = None))
  /\ task.at = "apply" => records[task.vendor] = task.r
  /\ task.at \in Enabling =>
       /\ task.fresh => Free(task.vendor) /\ SaysChosen(task.vendor, task.r)
       /\ task.doc = R!Connected(task.vendor, task.r)
  /\ task.at \in {"revoke", "forget"} => Free(task.vendor) /\ records[task.vendor] = task.r

(* The key the server keeps for v, at every step of the command under way.  *)
KeyOf(v) ==
  IF task.at \in {"key file", "record", "undo"} /\ task.vendor = v THEN task.r.key
  ELSE IF records[v] = None \/ (task.at = "forget" /\ task.vendor = v) THEN None
  ELSE records[v].key

KeysHeld ==
  lost = 0 /\ failures = 0 =>
    /\ \A v \in R!Vendors : KeyOf(v) # None => KeyOf(v) <= minted /\ KeyOf(v) \notin stray
    /\ KeyOf("codex") = KeyOf("open") => KeyOf("open") = None
    /\ \A k \in stray : k <= minted
    /\ keys = stray \cup ({KeyOf(v) : v \in R!Vendors} \ {None})
    /\ keyFile = (IF task.at \in {"key file", "undo"} THEN None ELSE KeyOf("open"))

RoutersInv ==
  /\ RoutersTypeOK /\ LeftAsChosen /\ UnrecordedIsFree /\ TaskOK
  /\ R!AlwaysReversible /\ KeysHeld

LEMMA RoutersStep == [DeviceNext]_deviceVars => [R!RoutersNext]_(R!routerVars)
BY DEF DeviceNext, deviceVars, routers, R!routerVars

LEMMA OursIsNoChoice == R!Ours \notin R!Values /\ None \in R!Values
BY RoutersAssumption DEF R!Ours, R!Values, R!Own

LEMMA NoRouting == None \notin Routings /\ None \notin Nat
BY RoutersAssumption DEF Routings, R!Values, R!Own

(* What the step of a command says of its record.                           *)
LEMMA TasksAre ==
  ASSUME RoutersTypeOK
  PROVE  /\ task.at \in Enabling => task \in Enablings
         /\ task.at \in {"revoke", "forget"} => task \in Disablings
         /\ task = R!NoTask <=> task.at = "idle"
<1>1. R!NoTask.at = "idle"
  BY DEF R!NoTask
<1>2. task \in {R!NoTask} \cup Enablings \cup Disablings
  BY DEF RoutersTypeOK
<1>3. CASE task = R!NoTask
  BY <1>1, <1>3 DEF Enabling
<1>4. CASE task \in Enablings
  BY <1>1, <1>4 DEF Enabling, Enablings
<1>5. CASE task \in Disablings
  BY <1>1, <1>5 DEF Enabling, Disablings
<1>6. QED
  BY <1>2, <1>3, <1>4, <1>5

LEMMA RoutersInit == DeviceInit => RoutersInv
<1> SUFFICES ASSUME DeviceInit PROVE RoutersInv
  OBVIOUS
<1>1. R!RoutersInit
  BY DEF DeviceInit
<1>2. PICK provider \in R!Values, model \in R!Values :
        /\ codex = [provider |-> provider, model |-> model, table |-> None]
        /\ open = [model |-> model, entry |-> None]
        /\ chosen = [provider |-> provider, model |-> model, open |-> model]
  BY <1>1 DEF R!RoutersInit
<1>3. /\ keyFile = None /\ records = [v \in R!Vendors |-> None]
      /\ keys = {} /\ minted = 0 /\ stray = {} /\ task = R!NoTask /\ lost = 0 /\ failures = 0
  BY <1>1 DEF R!RoutersInit
<1>4. RoutersTypeOK
  BY <1>2, <1>3, OursIsNoChoice DEF RoutersTypeOK, Codexes, Opens
<1>5. task.at = "idle"
  BY <1>3 DEF R!NoTask
<1>6. \A v \in R!Vendors : records[v] = None /\ KeyOf(v) = None
  BY <1>3, <1>5 DEF KeyOf
<1>7. LeftAsChosen /\ UnrecordedIsFree /\ R!AlwaysReversible /\ TaskOK
  BY <1>2, <1>5, OursIsNoChoice DEF LeftAsChosen, UnrecordedIsFree, Free, R!AlwaysReversible, TaskOK, Enabling
<1>8. KeysHeld
  BY <1>3, <1>5, <1>6 DEF KeysHeld, R!Vendors
<1>9. QED
  BY <1>4, <1>7, <1>8 DEF RoutersInv

(* A command ends, or is killed, between two writes.                        *)
LEMMA CommandEnds ==
  ASSUME RoutersInv, task' = R!NoTask,
         UNCHANGED <<codex, open, keyFile, records, keys, minted, stray, chosen>>,
         lost' \in Nat, failures' \in Nat, lost' # 0 \/ failures' # 0
  PROVE  RoutersInv'
<1>1. task'.at = "idle"
  BY DEF R!NoTask
<1>2. RoutersTypeOK' /\ LeftAsChosen' /\ UnrecordedIsFree' /\ R!AlwaysReversible'
  BY DEF RoutersInv, RoutersTypeOK, LeftAsChosen, UnrecordedIsFree, Free, R!AlwaysReversible
<1>3. TaskOK' /\ KeysHeld'
  BY <1>1 DEF TaskOK, Enabling, KeysHeld
<1>4. QED
  BY <1>2, <1>3 DEF RoutersInv

LEMMA WriteKeyFileKeeps ==
  ASSUME RoutersInv, R!WriteKeyFile
  PROVE  RoutersInv'
<1>1. task.at = "key file" /\ UNCHANGED <<codex, open, records, keys, minted, stray, chosen, lost>>
  BY DEF R!WriteKeyFile
<1>2. task \in Enablings /\ task.fresh /\ task.vendor = "open" /\ "open" \in R!Vendors
  BY <1>1, TasksAre DEF RoutersInv, Enabling, TaskOK, R!Vendors
<1>3. LeftAsChosen' /\ UnrecordedIsFree' /\ R!AlwaysReversible'
  BY <1>1 DEF RoutersInv, LeftAsChosen, UnrecordedIsFree, Free, R!AlwaysReversible
<1>4. ASSUME keyFile' = task.r.key, task' = [task EXCEPT !.at = "record"], UNCHANGED failures
      PROVE  RoutersInv'
  <2>1. /\ task' \in Enablings /\ task'.at = "record" /\ task'.r = task.r
        /\ task'.vendor = "open" /\ task'.fresh /\ task'.doc = task.doc
    BY <1>2, <1>4 DEF Enablings, Enabling
  <2>2. RoutersTypeOK'
    BY <1>1, <1>2, <1>4, <2>1 DEF RoutersInv, RoutersTypeOK, Enablings, Routings
  <2>3. TaskOK'
    BY <1>1, <1>2, <2>1 DEF RoutersInv, TaskOK, Enabling, Free, SaysChosen, R!Connected, R!OpenApplied, R!Applied
  <2>4. \A v \in R!Vendors : KeyOf(v)' = KeyOf(v)
    BY <1>1, <1>2, <2>1 DEF KeyOf
  <2>5. KeyOf("open") = task.r.key
    BY <1>1, <1>2 DEF KeyOf
  <2>6. KeysHeld'
    BY <1>1, <1>2, <1>4, <2>1, <2>4, <2>5 DEF RoutersInv, KeysHeld, R!Vendors
  <2>7. QED
    BY <1>3, <2>2, <2>3, <2>6 DEF RoutersInv
<1>5. ASSUME failures' = failures + 1, task' = [task EXCEPT !.at = "undo"], UNCHANGED keyFile
      PROVE  RoutersInv'
  <2>1. /\ task' \in Enablings /\ task'.at = "undo" /\ task'.r = task.r
        /\ task'.vendor = "open" /\ task'.fresh /\ task'.doc = task.doc
    BY <1>2, <1>5 DEF Enablings, Enabling
  <2>2. failures' \in Nat /\ failures' # 0
    BY <1>5 DEF RoutersInv, RoutersTypeOK
  <2>3. RoutersTypeOK'
    BY <1>1, <1>5, <2>1, <2>2 DEF RoutersInv, RoutersTypeOK
  <2>4. TaskOK'
    BY <1>1, <1>2, <2>1, <2>2 DEF RoutersInv, TaskOK, Enabling, Free, SaysChosen, R!Connected, R!OpenApplied, R!Applied
  <2>5. QED
    BY <1>3, <2>2, <2>3, <2>4 DEF RoutersInv, KeysHeld
<1>6. QED
  BY <1>4, <1>5 DEF R!WriteKeyFile, R!MayFail

LEMMA SaveRecordKeeps ==
  ASSUME RoutersInv, R!SaveRecord
  PROVE  RoutersInv'
<1>1. /\ task.at = "record" /\ UNCHANGED <<codex, open, keyFile, keys, minted, stray, chosen, lost, failures>>
      /\ records' = [records EXCEPT ![task.vendor] = task.r]
      /\ task' = [task EXCEPT !.at = "apply"]
  BY DEF R!SaveRecord
<1>2. task \in Enablings /\ task.vendor \in R!Vendors /\ task.r \in Routings /\ task.r # None
  BY <1>1, TasksAre, NoRouting DEF RoutersInv, Enabling, Enablings
<1>3. /\ task' \in Enablings /\ task'.at = "apply" /\ task'.r = task.r
      /\ task'.vendor = task.vendor /\ task'.fresh = task.fresh /\ task'.doc = task.doc
  BY <1>1, <1>2 DEF Enablings, Enabling
<1>4. /\ records' \in [R!Vendors -> Routings \cup {None}]
      /\ \A v \in R!Vendors : records'[v] = IF v = task.vendor THEN task.r ELSE records[v]
  BY <1>1, <1>2 DEF RoutersInv, RoutersTypeOK
<1>5. RoutersTypeOK'
  BY <1>1, <1>3, <1>4 DEF RoutersInv, RoutersTypeOK
<1>6. LeftAsChosen' /\ UnrecordedIsFree'
  BY <1>1, <1>2, <1>4 DEF RoutersInv, LeftAsChosen, UnrecordedIsFree, Free
<1>7. R!AlwaysReversible'
  <2>1. CASE task.fresh
    BY <1>1, <1>2, <1>4, <2>1 DEF RoutersInv, TaskOK, Enabling, Free, R!AlwaysReversible, R!Vendors
  <2>2. CASE ~task.fresh
    BY <1>1, <1>2, <1>4, <2>2 DEF RoutersInv, TaskOK, R!AlwaysReversible, R!Vendors
  <2>3. QED
    BY <2>1, <2>2
<1>8. TaskOK'
  BY <1>1, <1>2, <1>3, <1>4 DEF RoutersInv, TaskOK, Enabling, Free, SaysChosen, R!Connected, R!OpenApplied, R!Applied
<1>9. \A v \in R!Vendors : KeyOf(v)' = KeyOf(v)
  BY <1>1, <1>2, <1>3, <1>4 DEF KeyOf
<1>10. KeysHeld'
  BY <1>1, <1>3, <1>9 DEF RoutersInv, KeysHeld, R!Vendors
<1>11. QED
  BY <1>5, <1>6, <1>7, <1>8, <1>10 DEF RoutersInv

(* The vendor's file is written: the record that leads back is there.       *)
LEMMA ApplyFileKeeps ==
  ASSUME RoutersInv, R!ApplyFile
  PROVE  RoutersInv'
<1>1. task.at = "apply" /\ UNCHANGED <<keyFile, records, keys, minted, stray, lost>>
  BY DEF R!ApplyFile
<1>2. /\ task \in Enablings /\ task.vendor \in R!Vendors /\ task.r \in Routings
      /\ records[task.vendor] = task.r /\ task.r # None
      /\ task.doc = R!Connected(task.vendor, task.r)
  BY <1>1, TasksAre, NoRouting DEF RoutersInv, Enabling, Enablings, TaskOK
<1>3. ASSUME R!Write(task.vendor, task.doc), task' = R!NoTask,
             chosen' = (IF task.vendor = "open" THEN [chosen EXCEPT !.open = task.r.model]
                        ELSE [chosen EXCEPT !.provider = task.r.provider, !.model = task.r.model]),
             UNCHANGED failures
      PROVE  RoutersInv'
  <2>1. task'.at = "idle"
    BY <1>3 DEF R!NoTask
  <2>2. \A v \in R!Vendors : KeyOf(v)' = KeyOf(v)
    BY <1>1, <2>1 DEF KeyOf
  <2>3. TaskOK' /\ KeysHeld'
    BY <1>1, <1>3, <2>1, <2>2 DEF RoutersInv, TaskOK, Enabling, KeysHeld, R!Vendors
  <2>4. task.r.model \in R!Values /\ task.r.provider \in R!Values /\ task.r.key \in Nat
    BY <1>2 DEF Routings
  <2>5. CASE task.vendor = "codex"
    <3>1. /\ codex' = [provider |-> R!Ours, model |-> R!Ours, table |-> R!Entry(task.r.key)]
          /\ UNCHANGED open
      BY <1>2, <1>3, <2>5 DEF R!Write, R!Connected, R!Applied
    <3>2. codex' \in Codexes
      BY <2>4, <3>1 DEF Codexes, Entries, R!Entry
    <3>3. /\ chosen' \in [provider : R!Values, model : R!Values, open : R!Values]
          /\ chosen'.open = chosen.open
          /\ chosen'.provider = task.r.provider /\ chosen'.model = task.r.model
      BY <1>3, <2>4, <2>5 DEF RoutersInv, RoutersTypeOK
    <3>4. RoutersTypeOK'
      BY <1>1, <1>3, <3>1, <3>2, <3>3 DEF RoutersInv, RoutersTypeOK
    <3>5. LeftAsChosen' /\ UnrecordedIsFree' /\ R!AlwaysReversible'
      BY <1>1, <1>2, <2>5, <3>1, <3>3 DEF RoutersInv, LeftAsChosen, UnrecordedIsFree, Free, R!AlwaysReversible
    <3>6. QED
      BY <2>3, <3>4, <3>5 DEF RoutersInv
  <2>6. CASE task.vendor = "open"
    <3>1. open' = [model |-> R!Ours, entry |-> R!Entry(task.r.key)] /\ UNCHANGED codex
      BY <1>2, <1>3, <2>6 DEF R!Write, R!Connected, R!OpenApplied
    <3>2. open' \in Opens
      BY <2>4, <3>1 DEF Opens, Entries, R!Entry
    <3>3. /\ chosen' \in [provider : R!Values, model : R!Values, open : R!Values]
          /\ chosen'.open = task.r.model
          /\ chosen'.provider = chosen.provider /\ chosen'.model = chosen.model
      BY <1>3, <2>4, <2>6 DEF RoutersInv, RoutersTypeOK
    <3>4. RoutersTypeOK'
      BY <1>1, <1>3, <3>1, <3>2, <3>3 DEF RoutersInv, RoutersTypeOK
    <3>5. LeftAsChosen' /\ UnrecordedIsFree' /\ R!AlwaysReversible'
      BY <1>1, <1>2, <2>6, <3>1, <3>3 DEF RoutersInv, LeftAsChosen, UnrecordedIsFree, Free, R!AlwaysReversible
    <3>6. QED
      BY <2>3, <3>4, <3>5 DEF RoutersInv
  <2>7. QED
    BY <1>2, <2>5, <2>6 DEF R!Vendors
<1>4. ASSUME failures' = failures + 1, UNCHANGED <<codex, open, chosen>>,
             task' = (IF task.fresh THEN [task EXCEPT !.at = "undo"] ELSE R!NoTask)
      PROVE  RoutersInv'
  <2>1. failures' \in Nat /\ failures' # 0 /\ lost' \in Nat
    BY <1>1, <1>4 DEF RoutersInv, RoutersTypeOK
  <2>2. CASE ~task.fresh
    BY <1>1, <1>4, <2>1, <2>2, CommandEnds
  <2>3. CASE task.fresh
    <3>1. /\ task' \in Enablings /\ task'.at = "undo" /\ task'.r = task.r
          /\ task'.vendor = task.vendor /\ task'.fresh /\ task'.doc = task.doc
      BY <1>2, <1>4, <2>3 DEF Enablings, Enabling
    <3>2. RoutersTypeOK'
      BY <1>1, <1>4, <2>1, <3>1 DEF RoutersInv, RoutersTypeOK
    <3>3. LeftAsChosen' /\ UnrecordedIsFree' /\ R!AlwaysReversible'
      BY <1>1, <1>4 DEF RoutersInv, LeftAsChosen, UnrecordedIsFree, Free, R!AlwaysReversible
    <3>4. TaskOK'
      BY <1>1, <1>2, <1>4, <2>1, <2>3, <3>1 DEF RoutersInv, TaskOK, Enabling, Free, SaysChosen, R!Connected, R!OpenApplied, R!Applied
    <3>5. QED
      BY <2>1, <3>2, <3>3, <3>4 DEF RoutersInv, KeysHeld
  <2>4. QED
    BY <2>2, <2>3
<1>5. QED
  BY <1>3, <1>4 DEF R!ApplyFile, R!MayFail

(* What a fresh enabling had begun is undone, and its file was not written.  *)
LEMMA UndoKeeps ==
  ASSUME RoutersInv, R!Undo
  PROVE  RoutersInv'
<1>1. /\ task.at = "undo" /\ UNCHANGED <<codex, open, minted, stray, chosen, lost>>
      /\ records' = [records EXCEPT ![task.vendor] = None]
      /\ keyFile' = (IF task.vendor = "open" THEN None ELSE keyFile)
      /\ task' = R!NoTask
      /\ (keys' = keys \ {task.r.key} /\ failures' = failures) \/ (keys' = keys /\ failures' = failures + 1)
  BY DEF R!Undo, R!MayFail
<1>2. /\ task.vendor \in R!Vendors /\ Free(task.vendor) /\ task'.at = "idle"
      /\ task.r \in Routings
      /\ failures # 0 \/ (task.vendor = "open" /\ records["open"] = None)
  BY <1>1, TasksAre DEF RoutersInv, Enabling, Enablings, TaskOK, R!NoTask
<1>3. failures' \in Nat /\ (failures' = 0 => failures = 0)
  BY <1>1 DEF RoutersInv, RoutersTypeOK
<1>4. /\ records' \in [R!Vendors -> Routings \cup {None}]
      /\ \A v \in R!Vendors : records'[v] = IF v = task.vendor THEN None ELSE records[v]
  BY <1>1, <1>2 DEF RoutersInv, RoutersTypeOK
<1>5. RoutersTypeOK'
  BY <1>1, <1>3, <1>4 DEF RoutersInv, RoutersTypeOK
<1>6. LeftAsChosen' /\ UnrecordedIsFree' /\ R!AlwaysReversible'
  BY <1>1, <1>2, <1>4 DEF RoutersInv, LeftAsChosen, UnrecordedIsFree, Free, R!AlwaysReversible, R!Vendors
<1>7. TaskOK'
  BY <1>2 DEF TaskOK, Enabling
<1>8. KeysHeld'
  <2>1. SUFFICES ASSUME lost' = 0, failures' = 0
                 PROVE  /\ \A v \in R!Vendors : KeyOf(v)' # None => KeyOf(v)' <= minted' /\ KeyOf(v)' \notin stray'
                        /\ KeyOf("codex")' = KeyOf("open")' => KeyOf("open")' = None
                        /\ \A k \in stray' : k <= minted'
                        /\ keys' = stray' \cup ({KeyOf(v)' : v \in R!Vendors} \ {None})
                        /\ keyFile' = (IF task'.at \in {"key file", "undo"} THEN None ELSE KeyOf("open")')
    BY DEF KeysHeld
  <2>2. /\ keys' = keys \ {task.r.key} /\ lost = 0 /\ failures = 0 /\ task.vendor = "open"
        /\ "open" \in R!Vendors /\ "codex" \in R!Vendors
    BY <1>1, <1>2, <1>3, <2>1 DEF RoutersInv, RoutersTypeOK, R!Vendors
  <2>3. /\ \A v \in R!Vendors : KeyOf(v) # None => KeyOf(v) <= minted /\ KeyOf(v) \notin stray
        /\ KeyOf("codex") = KeyOf("open") => KeyOf("open") = None
        /\ \A k \in stray : k <= minted
        /\ keys = stray \cup ({KeyOf(v) : v \in R!Vendors} \ {None})
    BY <2>2 DEF RoutersInv, KeysHeld
  <2>4. /\ KeyOf("open") = task.r.key /\ KeyOf("open")' = None
        /\ KeyOf("codex")' = KeyOf("codex")
    BY <1>1, <1>2, <1>4, <2>2 DEF KeyOf
  <2>5. task.r.key # None
    BY <1>2, NoRouting DEF Routings
  <2>6. KeyOf("codex") # task.r.key /\ task.r.key \notin stray
    BY <2>2, <2>3, <2>4, <2>5
  <2>7. keys' = stray' \cup ({KeyOf(v)' : v \in R!Vendors} \ {None})
    BY <1>1, <2>2, <2>3, <2>4, <2>6 DEF R!Vendors
  <2>8. QED
    BY <1>1, <1>2, <2>2, <2>3, <2>4, <2>7 DEF R!Vendors
<1>9. QED
  BY <1>5, <1>6, <1>7, <1>8 DEF RoutersInv

LEMMA RevokeKeeps ==
  ASSUME RoutersInv, R!Revoke
  PROVE  RoutersInv'
<1>1. /\ task.at = "revoke" /\ UNCHANGED <<codex, open, records, minted, stray, chosen, lost>>
      /\ keyFile' = (IF task.vendor = "open" THEN None ELSE keyFile)
      /\ task' = [task EXCEPT !.at = "forget"]
      /\ (keys' = keys \ {task.r.key} /\ failures' = failures) \/ (keys' = keys /\ failures' = failures + 1)
  BY DEF R!Revoke, R!MayFail
<1>2. /\ task \in Disablings /\ task.vendor \in R!Vendors /\ Free(task.vendor)
      /\ task.r \in Routings /\ records[task.vendor] = task.r /\ task.r # None
  BY <1>1, TasksAre, NoRouting DEF RoutersInv, Disablings, TaskOK
<1>3. task' \in Disablings /\ task'.at = "forget" /\ task'.r = task.r /\ task'.vendor = task.vendor
  BY <1>1, <1>2 DEF Disablings
<1>4. RoutersTypeOK'
  BY <1>1, <1>3 DEF RoutersInv, RoutersTypeOK
<1>5. LeftAsChosen' /\ UnrecordedIsFree' /\ R!AlwaysReversible'
  BY <1>1 DEF RoutersInv, LeftAsChosen, UnrecordedIsFree, Free, R!AlwaysReversible
<1>6. TaskOK'
  BY <1>1, <1>2, <1>3 DEF RoutersInv, TaskOK, Enabling, Free
<1>7. KeysHeld'
  <2>1. SUFFICES ASSUME lost' = 0, failures' = 0
                 PROVE  /\ \A v \in R!Vendors : KeyOf(v)' # None => KeyOf(v)' <= minted' /\ KeyOf(v)' \notin stray'
                        /\ KeyOf("codex")' = KeyOf("open")' => KeyOf("open")' = None
                        /\ \A k \in stray' : k <= minted'
                        /\ keys' = stray' \cup ({KeyOf(v)' : v \in R!Vendors} \ {None})
                        /\ keyFile' = (IF task'.at \in {"key file", "undo"} THEN None ELSE KeyOf("open")')
    BY DEF KeysHeld
  <2>2. keys' = keys \ {task.r.key} /\ lost = 0 /\ failures = 0
    BY <1>1, <2>1 DEF RoutersInv, RoutersTypeOK
  <2>3. /\ \A v \in R!Vendors : KeyOf(v) # None => KeyOf(v) <= minted /\ KeyOf(v) \notin stray
        /\ KeyOf("codex") = KeyOf("open") => KeyOf("open") = None
        /\ \A k \in stray : k <= minted
        /\ keys = stray \cup ({KeyOf(v) : v \in R!Vendors} \ {None})
        /\ keyFile = KeyOf("open")
    BY <1>1, <2>2 DEF RoutersInv, KeysHeld
  <2>4. /\ KeyOf(task.vendor) = task.r.key /\ KeyOf(task.vendor)' = None
        /\ \A v \in R!Vendors \ {task.vendor} : KeyOf(v)' = KeyOf(v)
    BY <1>1, <1>2, <1>3 DEF KeyOf
  <2>5. task.r.key # None
    BY <1>2, NoRouting DEF Routings
  <2>6. CASE task.vendor = "codex"
    <3>1. KeyOf("codex")' = None /\ KeyOf("open")' = KeyOf("open") /\ KeyOf("codex") # KeyOf("open")
      BY <1>3, <2>3, <2>4, <2>5, <2>6 DEF R!Vendors
    <3>2. keys' = stray' \cup ({KeyOf(v)' : v \in R!Vendors} \ {None}) /\ task'.at = "forget"
      BY <1>1, <1>3, <2>2, <2>3, <2>4, <2>5, <2>6, <3>1 DEF R!Vendors
    <3>3. keyFile' = KeyOf("open")'
      BY <1>1, <2>3, <2>6, <3>1
    <3>4. QED
      BY <1>1, <2>3, <3>1, <3>2, <3>3 DEF R!Vendors
  <2>7. CASE task.vendor = "open"
    <3>1. KeyOf("open")' = None /\ KeyOf("codex")' = KeyOf("codex") /\ KeyOf("codex") # KeyOf("open")
      BY <1>3, <2>3, <2>4, <2>5, <2>7 DEF R!Vendors
    <3>2. keys' = stray' \cup ({KeyOf(v)' : v \in R!Vendors} \ {None}) /\ task'.at = "forget"
      BY <1>1, <1>3, <2>2, <2>3, <2>4, <2>5, <2>7, <3>1 DEF R!Vendors
    <3>3. keyFile' = KeyOf("open")'
      BY <1>1, <2>7, <3>1
    <3>4. QED
      BY <1>1, <2>3, <3>1, <3>2, <3>3 DEF R!Vendors
  <2>8. QED
    BY <1>2, <2>6, <2>7 DEF R!Vendors
<1>8. QED
  BY <1>4, <1>5, <1>6, <1>7 DEF RoutersInv

LEMMA ForgetKeeps ==
  ASSUME RoutersInv, R!Forget
  PROVE  RoutersInv'
<1>1. /\ task.at = "forget" /\ UNCHANGED <<codex, open, keyFile, keys, minted, stray, chosen, lost, failures>>
      /\ records' = [records EXCEPT ![task.vendor] = None] /\ task' = R!NoTask
  BY DEF R!Forget
<1>2. task.vendor \in R!Vendors /\ Free(task.vendor) /\ task'.at = "idle"
  BY <1>1, TasksAre DEF RoutersInv, Disablings, TaskOK, R!NoTask
<1>3. /\ records' \in [R!Vendors -> Routings \cup {None}]
      /\ \A v \in R!Vendors : records'[v] = IF v = task.vendor THEN None ELSE records[v]
  BY <1>1, <1>2 DEF RoutersInv, RoutersTypeOK
<1>4. RoutersTypeOK'
  BY <1>1, <1>3 DEF RoutersInv, RoutersTypeOK
<1>5. LeftAsChosen' /\ UnrecordedIsFree' /\ R!AlwaysReversible'
  BY <1>1, <1>2, <1>3 DEF RoutersInv, LeftAsChosen, UnrecordedIsFree, Free, R!AlwaysReversible, R!Vendors
<1>6. TaskOK'
  BY <1>2 DEF TaskOK, Enabling
<1>7. \A v \in R!Vendors : KeyOf(v)' = KeyOf(v)
  BY <1>1, <1>2, <1>3 DEF KeyOf
<1>8. KeysHeld'
  BY <1>1, <1>2, <1>7 DEF RoutersInv, KeysHeld, R!Vendors
<1>9. QED
  BY <1>4, <1>5, <1>6, <1>8 DEF RoutersInv

(* A command begins: the server mints a key, or the first one is kept.      *)
LEMMA EnableLoadsKeeps ==
  ASSUME RoutersInv, NEW v \in R!Vendors, R!EnableLoads(v)
  PROVE  RoutersInv'
<1>1. /\ task = R!NoTask /\ task.at = "idle"
      /\ UNCHANGED <<codex, open, keyFile, records, chosen, lost, failures>>
  BY DEF R!EnableLoads, R!Start, R!NoTask
<1>2. LeftAsChosen' /\ UnrecordedIsFree' /\ R!AlwaysReversible'
  BY <1>1 DEF RoutersInv, LeftAsChosen, UnrecordedIsFree, Free, R!AlwaysReversible
<1>3. \A r \in Routings : R!Connected(v, r) \in Codexes \cup Opens
  BY DEF Routings, Codexes, Opens, Entries, R!Entry, R!Connected, R!Applied, R!OpenApplied
<1>4. CASE v = "codex" /\ records[v] # None
  <2>1. records[v] \in Routings
    BY <1>4 DEF RoutersInv, RoutersTypeOK
  <2>2. task' = [at |-> "record", vendor |-> v, r |-> records[v], fresh |-> FALSE,
                 doc |-> R!Connected(v, records[v])] /\ UNCHANGED <<keys, minted, stray>>
    BY <1>4 DEF R!EnableLoads
  <2>3. task' \in Enablings
    BY <1>3, <2>1, <2>2 DEF Enablings, Enabling
  <2>4. RoutersTypeOK'
    BY <1>1, <2>2, <2>3 DEF RoutersInv, RoutersTypeOK
  <2>5. TaskOK'
    BY <1>1, <1>4, <2>2 DEF TaskOK, Enabling, R!Connected, R!Applied, R!OpenApplied
  <2>6. \A w \in R!Vendors : KeyOf(w)' = KeyOf(w)
    BY <1>1, <1>4, <2>2 DEF KeyOf
  <2>7. KeysHeld'
    BY <1>1, <2>2, <2>6 DEF RoutersInv, KeysHeld, R!Vendors
  <2>8. QED
    BY <1>2, <2>4, <2>5, <2>7 DEF RoutersInv
<1>5. CASE ~(v = "codex" /\ records[v] # None)
  <2>1. PICK r : r = R!Record(v, minted + 1)
    OBVIOUS
  <2>2. PICK n : n = minted + 1
    OBVIOUS
  <2>3. /\ records[v] = None /\ minted' = n /\ keys' = keys \cup {n}
        /\ v = "open" => keyFile = None
        /\ \/ \E at \in {"key file", "record", "undo"} :
                /\ (at = "record" /\ v = "codex") \/ (at # "record" /\ v = "open")
                /\ task' = [at |-> at, vendor |-> v, r |-> r, fresh |-> TRUE, doc |-> R!Connected(v, r)]
                /\ UNCHANGED stray
           \/ stray' = stray \cup {n} /\ UNCHANGED task
    BY <1>5, <2>1, <2>2 DEF R!EnableLoads, R!Minted, R!Vendors
  <2>4. minted \in Nat /\ n \in Nat /\ minted < n /\ n # None /\ keys \cup {n} \in SUBSET Nat /\ stray \in SUBSET Nat
    BY <2>2, NoRouting DEF RoutersInv, RoutersTypeOK
  <2>5. /\ \A w \in R!Vendors : KeyOf(w) \in Nat \cup {None}
        /\ KeyOf(v) = None
    BY <1>1, <2>3 DEF RoutersInv, RoutersTypeOK, KeyOf, Routings
  <2>6. lost = 0 /\ failures = 0 =>
          /\ \A w \in R!Vendors : KeyOf(w) # None => KeyOf(w) <= n /\ KeyOf(w) # n /\ KeyOf(w) \notin stray
          /\ KeyOf("codex") = KeyOf("open") => KeyOf("open") = None
          /\ \A k \in stray : k <= n /\ k # n
          /\ keys = stray \cup ({KeyOf(w) : w \in R!Vendors} \ {None})
          /\ keyFile = KeyOf("open")
    <3>1. SUFFICES ASSUME lost = 0, failures = 0
                   PROVE  /\ \A w \in R!Vendors : KeyOf(w) # None => KeyOf(w) <= n /\ KeyOf(w) # n /\ KeyOf(w) \notin stray
                          /\ KeyOf("codex") = KeyOf("open") => KeyOf("open") = None
                          /\ \A k \in stray : k <= n /\ k # n
                          /\ keys = stray \cup ({KeyOf(w) : w \in R!Vendors} \ {None})
                          /\ keyFile = KeyOf("open")
      OBVIOUS
    <3>2. /\ \A w \in R!Vendors : KeyOf(w) # None => KeyOf(w) <= minted /\ KeyOf(w) \notin stray
          /\ KeyOf("codex") = KeyOf("open") => KeyOf("open") = None
          /\ \A k \in stray : k <= minted
          /\ keys = stray \cup ({KeyOf(w) : w \in R!Vendors} \ {None})
          /\ keyFile = KeyOf("open")
      BY <1>1, <3>1 DEF RoutersInv, KeysHeld
    <3>3. \A w \in R!Vendors : KeyOf(w) # None => KeyOf(w) <= n /\ KeyOf(w) # n
      BY <2>4, <2>5, <3>2
    <3>4. \A k \in stray : k <= n /\ k # n
      BY <2>4, <3>2
    <3>5. QED
      BY <3>2, <3>3, <3>4
  <2>7. "open" \in R!Vendors /\ "codex" \in R!Vendors /\ v \in {"open", "codex"} /\ n <= n
    BY <2>4 DEF R!Vendors
  <2>8. ASSUME NEW at \in {"key file", "record", "undo"},
               (at = "record" /\ v = "codex") \/ (at # "record" /\ v = "open"),
               task' = [at |-> at, vendor |-> v, r |-> r, fresh |-> TRUE, doc |-> R!Connected(v, r)],
               UNCHANGED stray
        PROVE  RoutersInv'
    <3>1. Free(v)
      BY <2>3 DEF RoutersInv, UnrecordedIsFree
    <3>2. r \in Routings /\ SaysChosen(v, r) /\ r.key = n
      BY <2>1, <2>2, <2>4, <3>1, OursIsNoChoice DEF RoutersInv, RoutersTypeOK, LeftAsChosen, Codexes, Opens,
         Routings, Free, SaysChosen, R!Record, R!File, R!Vendors
    <3>3. task' \in Enablings
      BY <1>3, <2>8, <3>2 DEF Enablings, Enabling
    <3>4. RoutersTypeOK'
      BY <1>1, <2>3, <2>4, <2>8, <3>3 DEF RoutersInv, RoutersTypeOK
    <3>5. TaskOK'
      BY <1>1, <2>3, <2>8, <3>1, <3>2
         DEF TaskOK, Enabling, Free, SaysChosen, R!Connected, R!Applied, R!OpenApplied
    <3>6. KeyOf(v)' = n /\ \A w \in R!Vendors \ {v} : KeyOf(w)' = KeyOf(w)
      BY <1>1, <2>8, <3>2 DEF KeyOf
    <3>7. v = "open" => at \in {"key file", "undo"} /\ keyFile' = None /\ task'.at = at
      BY <1>1, <2>3, <2>8
    <3>8. v = "codex" => task'.at = "record" /\ keyFile' = keyFile
      BY <1>1, <2>3, <2>8
    <3>9. KeysHeld'
      <4>1. SUFFICES ASSUME lost = 0, failures = 0
                     PROVE  /\ \A w \in R!Vendors : KeyOf(w)' # None => KeyOf(w)' <= minted' /\ KeyOf(w)' \notin stray'
                            /\ KeyOf("codex")' = KeyOf("open")' => KeyOf("open")' = None
                            /\ \A k \in stray' : k <= minted'
                            /\ keys' = stray' \cup ({KeyOf(w)' : w \in R!Vendors} \ {None})
                            /\ keyFile' = (IF task'.at \in {"key file", "undo"} THEN None ELSE KeyOf("open")')
        BY <1>1 DEF KeysHeld
      <4>2. \A w \in R!Vendors : KeyOf(w)' # None => KeyOf(w)' <= minted' /\ KeyOf(w)' \notin stray'
        <5>1. \A w \in R!Vendors \ {v} : KeyOf(w)' # None => KeyOf(w)' <= minted' /\ KeyOf(w)' \notin stray'
          BY <2>3, <2>6, <2>8, <3>6, <4>1
        <5>2. KeyOf(v)' <= minted' /\ KeyOf(v)' \notin stray'
          BY <2>3, <2>6, <2>7, <2>8, <3>6, <4>1
        <5>3. QED
          BY <5>1, <5>2
      <4>3. \A k \in stray' : k <= minted'
        BY <2>3, <2>6, <2>8, <4>1
      <4>4. KeyOf("codex")' # KeyOf("open")'
        <5>1. KeyOf("codex") # n /\ KeyOf("open") # n
          BY <2>4, <2>6, <2>7, <4>1
        <5>2. QED
          BY <2>7, <3>6, <5>1
      <4>5. keys' = stray' \cup ({KeyOf(w)' : w \in R!Vendors} \ {None})
        BY <2>3, <2>4, <2>5, <2>6, <2>7, <2>8, <3>6, <4>1 DEF R!Vendors
      <4>6. keyFile' = (IF task'.at \in {"key file", "undo"} THEN None ELSE KeyOf("open")')
        BY <2>6, <2>7, <3>6, <3>7, <3>8, <4>1
      <4>7. QED
        BY <4>2, <4>3, <4>4, <4>5, <4>6
    <3>10. QED
      BY <1>2, <3>4, <3>5, <3>9 DEF RoutersInv
  <2>9. ASSUME stray' = stray \cup {n}, UNCHANGED task
        PROVE  RoutersInv'
    <3>1. RoutersTypeOK'
      BY <1>1, <2>3, <2>4, <2>9 DEF RoutersInv, RoutersTypeOK
    <3>2. TaskOK'
      BY <1>1, <2>9 DEF TaskOK, Enabling
    <3>3. \A w \in R!Vendors : KeyOf(w)' = KeyOf(w)
      BY <1>1, <2>9 DEF KeyOf
    <3>4. KeysHeld'
      <4>1. SUFFICES ASSUME lost = 0, failures = 0
                     PROVE  /\ \A w \in R!Vendors : KeyOf(w)' # None => KeyOf(w)' <= minted' /\ KeyOf(w)' \notin stray'
                            /\ KeyOf("codex")' = KeyOf("open")' => KeyOf("open")' = None
                            /\ \A k \in stray' : k <= minted'
                            /\ keys' = stray' \cup ({KeyOf(w)' : w \in R!Vendors} \ {None})
                            /\ keyFile' = (IF task'.at \in {"key file", "undo"} THEN None ELSE KeyOf("open")')
        BY <1>1 DEF KeysHeld
      <4>2. \A w \in R!Vendors : KeyOf(w)' # None => KeyOf(w)' <= minted' /\ KeyOf(w)' \notin stray'
        BY <2>3, <2>4, <2>5, <2>6, <2>9, <3>3, <4>1
      <4>3. \A k \in stray' : k <= minted'
        BY <2>3, <2>4, <2>6, <2>9, <4>1
      <4>4. keys' = stray' \cup ({KeyOf(w)' : w \in R!Vendors} \ {None})
        BY <2>3, <2>4, <2>6, <2>9, <3>3, <4>1 DEF R!Vendors
      <4>5. QED
        BY <1>1, <2>6, <2>7, <2>9, <3>3, <4>1, <4>2, <4>3, <4>4
    <3>5. QED
      BY <1>2, <3>1, <3>2, <3>4 DEF RoutersInv
  <2>10. QED
    BY <2>3, <2>8, <2>9
<1>6. QED
  BY <1>4, <1>5

LEMMA DisableWritesKeeps ==
  ASSUME RoutersInv, NEW v \in R!Vendors, R!DisableWrites(v)
  PROVE  RoutersInv'
<1>1. PICK r : r = records[v]
  OBVIOUS
<1>2. /\ task = R!NoTask /\ task.at = "idle" /\ r # None
      /\ UNCHANGED <<keyFile, records, keys, minted, stray, chosen, lost>>
  BY <1>1 DEF R!DisableWrites, R!Start, R!NoTask
<1>3. r \in Routings
  BY <1>1, <1>2 DEF RoutersInv, RoutersTypeOK
<1>4. ASSUME R!Write(v, R!Restored(v, r)), task' = [at |-> "revoke", vendor |-> v, r |-> r], UNCHANGED failures
      PROVE  RoutersInv'
  <2>1. task' \in Disablings
    BY <1>3, <1>4 DEF Disablings
  <2>2. \A w \in R!Vendors : KeyOf(w)' = KeyOf(w)
    BY <1>2, <1>4 DEF KeyOf
  <2>3. KeysHeld'
    BY <1>2, <1>4, <2>2 DEF RoutersInv, KeysHeld, R!Vendors
  <2>4. CASE v = "codex"
    <3>1. /\ codex' = [provider |-> IF codex.provider = R!Ours THEN r.provider ELSE codex.provider,
                       model |-> IF codex.model = R!Ours THEN r.model ELSE codex.model,
                       table |-> None]
          /\ UNCHANGED open
      BY <1>4, <2>4 DEF R!Write, R!Restored, R!Reverted
    <3>2. codex' \in Codexes /\ codex'.provider # R!Ours /\ codex'.model # R!Ours /\ codex'.table = None
      BY <1>3, <3>1, OursIsNoChoice DEF RoutersInv, RoutersTypeOK, Codexes, Routings
    <3>3. codex'.provider = chosen.provider /\ codex'.model = chosen.model
      BY <1>1, <2>4, <3>1 DEF RoutersInv, LeftAsChosen, R!AlwaysReversible
    <3>4. RoutersTypeOK'
      BY <1>2, <1>4, <2>1, <3>1, <3>2 DEF RoutersInv, RoutersTypeOK
    <3>5. LeftAsChosen' /\ UnrecordedIsFree' /\ R!AlwaysReversible'
      BY <1>2, <3>1, <3>2, <3>3 DEF RoutersInv, LeftAsChosen, UnrecordedIsFree, Free, R!AlwaysReversible
    <3>6. TaskOK'
      BY <1>1, <1>2, <1>4, <2>4, <3>2 DEF TaskOK, Enabling, Free
    <3>7. QED
      BY <2>3, <3>4, <3>5, <3>6 DEF RoutersInv
  <2>5. CASE v = "open"
    <3>1. /\ open' = [model |-> IF open.model = R!Ours THEN r.model ELSE open.model,
                      entry |-> IF open.entry = R!Entry(r.key) THEN None ELSE open.entry]
          /\ UNCHANGED codex
      BY <1>4, <2>5 DEF R!Write, R!Restored, R!OpenReverted
    <3>2. open' \in Opens /\ open'.model # R!Ours
      BY <1>3, <3>1, OursIsNoChoice DEF RoutersInv, RoutersTypeOK, Opens, Routings
    <3>3. open'.model = chosen.open
      BY <1>1, <2>5, <3>1 DEF RoutersInv, LeftAsChosen, R!AlwaysReversible
    <3>4. RoutersTypeOK'
      BY <1>2, <1>4, <2>1, <3>1, <3>2 DEF RoutersInv, RoutersTypeOK
    <3>5. LeftAsChosen' /\ UnrecordedIsFree' /\ R!AlwaysReversible'
      BY <1>2, <3>1, <3>2, <3>3 DEF RoutersInv, LeftAsChosen, UnrecordedIsFree, Free, R!AlwaysReversible
    <3>6. TaskOK'
      BY <1>1, <1>2, <1>4, <2>5, <3>2 DEF TaskOK, Enabling, Free
    <3>7. QED
      BY <2>3, <3>4, <3>5, <3>6 DEF RoutersInv
  <2>6. QED
    BY <2>4, <2>5 DEF R!Vendors
<1>5. ASSUME failures' = failures + 1, UNCHANGED <<codex, open, task>>
      PROVE  RoutersInv'
  <2>1. failures' \in Nat /\ failures' # 0 /\ lost' \in Nat
    BY <1>2, <1>5 DEF RoutersInv, RoutersTypeOK
  <2>2. QED
    BY <1>2, <1>5, <2>1, CommandEnds
<1>6. QED
  BY <1>1, <1>4, <1>5 DEF R!DisableWrites, R!MayFail

(* The user's own choice is kept, and what kikimimi wrote leads back to it.  *)
LEMMA ChoosesKeeps ==
  ASSUME RoutersInv, R!Chooses
  PROVE  RoutersInv'
<1>1. task = R!NoTask /\ task.at = "idle" /\ UNCHANGED <<keyFile, records, keys, minted, stray, task, lost, failures>>
  BY DEF R!Chooses, R!NoTask
<1>2. PICK v \in R!Values :
        \/ codex' = [codex EXCEPT !.provider = v] /\ chosen' = [chosen EXCEPT !.provider = v]
           /\ UNCHANGED open
        \/ codex' = [codex EXCEPT !.model = v] /\ chosen' = [chosen EXCEPT !.model = v]
           /\ UNCHANGED open
        \/ open' = [open EXCEPT !.model = v] /\ chosen' = [chosen EXCEPT !.open = v]
           /\ UNCHANGED codex
        \/ open' = [open EXCEPT !.entry = v] /\ UNCHANGED <<codex, chosen>>
  BY DEF R!Chooses
<1>3. TaskOK' /\ KeysHeld'
  <2>1. \A w \in R!Vendors : KeyOf(w)' = KeyOf(w)
    BY <1>1 DEF KeyOf
  <2>2. TaskOK'
    BY <1>1 DEF TaskOK, Enabling
  <2>3. KeysHeld'
    BY <1>1, <2>1 DEF RoutersInv, KeysHeld, R!Vendors
  <2>4. QED
    BY <2>2, <2>3
<1>4. /\ codex' \in Codexes /\ open' \in Opens
      /\ chosen' \in [provider : R!Values, model : R!Values, open : R!Values]
  BY <1>2 DEF RoutersInv, RoutersTypeOK, Codexes, Opens
<1>5. RoutersTypeOK'
  BY <1>1, <1>4 DEF RoutersInv, RoutersTypeOK
<1>6. LeftAsChosen' /\ UnrecordedIsFree' /\ R!AlwaysReversible'
  BY <1>1, <1>2, OursIsNoChoice DEF RoutersInv, RoutersTypeOK, Codexes, Opens, LeftAsChosen, UnrecordedIsFree,
     Free, R!AlwaysReversible
<1>7. QED
  BY <1>3, <1>5, <1>6 DEF RoutersInv

LEMMA RoutersLeftAlone ==
  ASSUME RoutersInv,
         UNCHANGED <<codex, open, keyFile, records, keys, minted, stray, task, chosen, lost, failures>>
  PROVE  RoutersInv'
<1>1. RoutersTypeOK'
  BY DEF RoutersInv, RoutersTypeOK
<1>2. LeftAsChosen' /\ UnrecordedIsFree' /\ R!AlwaysReversible'
  BY DEF RoutersInv, LeftAsChosen, UnrecordedIsFree, Free, R!AlwaysReversible
<1>3. TaskOK'
  BY DEF RoutersInv, TaskOK, Enabling, Free, SaysChosen, R!Connected, R!OpenApplied, R!Applied
<1>4. \A v \in R!Vendors : KeyOf(v)' = KeyOf(v)
  BY DEF KeyOf
<1>5. KeysHeld'
  BY <1>4 DEF RoutersInv, KeysHeld, R!Vendors
<1>6. QED
  BY <1>1, <1>2, <1>3, <1>5 DEF RoutersInv

LEMMA RoutersInvStep == RoutersInv /\ [R!RoutersNext]_(R!routerVars) => RoutersInv'
<1> SUFFICES ASSUME RoutersInv, [R!RoutersNext]_(R!routerVars)
             PROVE  RoutersInv'
  OBVIOUS
<1>1. CASE R!Connect
  <2>1. UNCHANGED <<codex, open, keyFile, records, keys, minted, stray, task, chosen, lost, failures>>
    BY <1>1 DEF R!Connect
  <2>2. QED
    BY <2>1, RoutersLeftAlone
<1>2. CASE R!RouterKilled
  <2>1. /\ UNCHANGED <<codex, open, keyFile, records, keys, minted, stray, chosen, failures>>
        /\ task' = R!NoTask /\ lost' = lost + 1
    BY <1>2 DEF R!RouterKilled
  <2>2. lost' \in Nat /\ lost' # 0 /\ failures' \in Nat
    BY <2>1 DEF RoutersInv, RoutersTypeOK
  <2>3. QED
    BY <2>1, <2>2, CommandEnds
<1>3. CASE UNCHANGED R!routerVars
  BY <1>3, RoutersLeftAlone DEF R!routerVars
<1>4. QED
  BY <1>1, <1>2, <1>3, WriteKeyFileKeeps, SaveRecordKeeps, ApplyFileKeeps, UndoKeeps, RevokeKeeps,
     ForgetKeeps, ChoosesKeeps, EnableLoadsKeeps, DisableWritesKeeps DEF R!RoutersNext

LEMMA RoutersInvSuffices == RoutersInv => RoutesAreUndone
<1> SUFFICES ASSUME RoutersInv PROVE RoutesAreUndone
  OBVIOUS
<1>1. R!ChoiceReturns
  BY DEF RoutersInv, LeftAsChosen, UnrecordedIsFree, Free, R!ChoiceReturns, R!Vendors
<1>2. R!KeysArePointedAt
  <2>1. SUFFICES ASSUME task = R!NoTask, lost = 0, failures = 0
                 PROVE  /\ keys = stray \cup {records[v].key : v \in {w \in R!Vendors : records[w] # None}}
                        /\ R!StatusApplied.codex => R!TokenOf \in keys
                        /\ R!StatusApplied.open => keyFile \in keys
                        /\ records["open"] = None <=> keyFile = None
    BY DEF R!KeysArePointedAt
  <2>2. /\ keys = stray \cup ({KeyOf(v) : v \in R!Vendors} \ {None})
        /\ keyFile = KeyOf("open")
        /\ \A v \in R!Vendors : KeyOf(v) = IF records[v] = None THEN None ELSE records[v].key
    BY <2>1 DEF RoutersInv, KeysHeld, KeyOf, R!NoTask
  <2>3. \A v \in R!Vendors : records[v] # None => records[v].key # None
    BY NoRouting DEF RoutersInv, RoutersTypeOK, Routings
  <2>4. keys = stray \cup {records[v].key : v \in {w \in R!Vendors : records[w] # None}}
    BY <2>2, <2>3
  <2>5. "open" \in R!Vendors /\ "codex" \in R!Vendors
    BY DEF R!Vendors
  <2>6. R!StatusApplied.codex => R!TokenOf \in keys
    <3>1. R!StatusApplied.codex => codex.provider = R!Ours
      BY DEF R!StatusApplied
    <3>2. QED
      BY <2>4, <2>5, <3>1 DEF RoutersInv, R!AlwaysReversible, R!TokenOf
  <2>7. R!StatusApplied.open => keyFile \in keys
    <3>1. R!StatusApplied.open => records["open"] # None
      BY DEF R!StatusApplied
    <3>2. QED
      BY <2>2, <2>4, <2>5, <3>1
  <2>8. QED
    BY <2>2, <2>3, <2>4, <2>5, <2>6, <2>7
<1>3. QED
  BY <1>1, <1>2 DEF RoutersInv, RoutesAreUndone

(* A vendor's program that was pointed at the team router can be pointed     *)
(* back to what the user chose, whichever command is killed between two      *)
(* writes or cannot make one, and whatever the user edits in between; while  *)
(* none is, the keys the server accepts are those in use and those minted in *)
(* an answer that nobody could use (codex_router.rs, opencode_router.rs).    *)
THEOREM DeviceRoutesAreUndone == DeviceSpec => []RoutesAreUndone
<1>1. RoutersInv /\ [DeviceNext]_deviceVars => RoutersInv'
  BY RoutersStep, RoutersInvStep
<1>2. QED
  BY <1>1, RoutersInit, RoutersInvSuffices, PTL DEF DeviceSpec

-----------------------------------------------------------------------------
(* The account: config.json and its secrets, the commands that change them *)
(* and the agent that reads them.                                          *)

LEMMA AccountStep ==
  [DeviceNext]_deviceVars => (scene = "account" /\ A!AccountNext) \/ UNCHANGED A!accountVars
BY DEF DeviceNext, deviceVars, account, A!accountVars

(* config.json is read, changed and written without a lock: of two commands  *)
(* at once the one's Keychain item may meet the other's file.                *)
OneAtATime == \E p : Terminals = {p}

Clouds == [org : Workspaces, token : A!Tokens \cup {None}, repos : SUBSET (Repos \cup {None})]
Configs ==
  [cloud : Clouds \cup {None}, paused : BOOLEAN, s3 : Buckets \cup {None}, otlp : BOOLEAN]
Descriptions ==
  [cloud : [org : Workspaces, repos : SUBSET (Repos \cup {None}), synced : BOOLEAN] \cup {None},
   s3 : Buckets \cup {None}]
Running ==
  [at : {"load", "move", "moved", "change", "set", "write", "delete", "notify", "revoke"},
   kind : CommandKinds, cfg : Configs, old : Clouds \cup {None}, expected : Descriptions,
   token : A!Tokens \cup {None}, org : Workspaces \cup {None},
   bucket : Buckets \cup {None}, repo : Repos \cup {None}]
Uploads == [org : Workspaces, token : A!Tokens \cup {None}]
Agents ==
  [at : {"down", "starting", "up"}, asked : BOOLEAN, cloud : Uploads \cup {None},
   s3 : Buckets \cup {None}, otlp : BOOLEAN]

(* A configuration whose token, its own or the Keychain's, is of its         *)
(* organisation.                                                             *)
Own(c, k) ==
  c.cloud # None =>
    /\ c.cloud.token # None => c.cloud.token[1] = c.cloud.org
    /\ c.cloud.token = None /\ k # None => k[1] = c.cloud.org

(* Where a command is, and what that says of the two stores: what it is      *)
(* about to write is whole when what it has read was, and always when it     *)
(* signs in or out.                                                          *)
Between == {"write", "delete"}
StepOK(q, f, k, o) ==
  /\ q.at \in {"move", "moved"} => q.cfg = f /\ A!Plain(f)
  /\ q.at = "moved" => k = f.cloud.token
  /\ q.at = "change" /\ o # "killed" => Own(q.cfg, k)
  /\ q.at \in {"set", "write"} /\ (o # "killed" \/ A!SetsAccount(q.kind)) => Own(q.cfg, k)
  /\ q.at = "delete" =>
       /\ q.cfg = f
       /\ o # "killed" \/ A!SetsAccount(q.kind) => Own(f, k)
  /\ q.at \notin Between /\ o # "killed" => Own(f, k)
  /\ q.at \notin Between /\ o = "ok" /\ f.cloud = None => k = None
  /\ q.at # "idle" /\ q.kind = "cloud" => q.token \in A!Tokens /\ q.org = q.token[1]
  /\ q.at # "idle" /\ q.kind = "login" => q.org \in Workspaces

(* The agent uploads where the file says.                                    *)
Follows(f, a) ==
  /\ a.s3 = f.s3 /\ (a.otlp <=> f.otlp)
  /\ f.cloud = None \/ f.paused => a.cloud = None
  /\ f.cloud # None /\ ~f.paused =>
       /\ a.cloud # None /\ a.cloud.org = f.cloud.org
       /\ a.cloud.token # None => a.cloud.token[1] = f.cloud.org
AgentOK(at, f, a, o) ==
  a.at = "up" /\ ~a.asked /\ o = "ok" /\ at \notin Between \cup {"notify"} => Follows(f, a)

AccountTypeOK ==
  /\ file \in Configs /\ keychain \in A!Tokens \cup {None}
  /\ command \in [Terminals -> Running \cup {A!NoCommand}]
  /\ agent \in Agents /\ outcome \in {"ok", "failed", "killed"}

AccountInv ==
  /\ AccountTypeOK
  /\ \A p \in Terminals :
       /\ StepOK(command[p], file, keychain, outcome)
       /\ AgentOK(command[p].at, file, agent, outcome)

(* Naming None apart from what is a value.                                   *)
LEMMA NoToken == None \notin A!Tokens
BY AccountAssumption DEF A!Tokens

LEMMA NoUpload == None \notin Uploads
BY AccountAssumption DEF Uploads, A!Tokens

LEMMA NoCloud == None \notin Clouds
BY AccountAssumption DEF Clouds, A!Tokens

LEMMA NothingTyped == A!Nothing \in Configs /\ A!Nothing.cloud = None /\ ~A!Nothing.paused
BY DEF A!Nothing, Configs

LEMMA StoppedTyped == A!Stopped \in Agents /\ A!Stopped.at = "down"
BY DEF A!Stopped, Agents

LEMMA AccountInit == DeviceInit => AccountInv
<1> SUFFICES ASSUME A!AccountInit
             PROVE  AccountInv
  BY DEF DeviceInit
<1>1. A!NoCommand.at = "idle"
  BY DEF A!NoCommand
<1>2. AccountTypeOK
  BY NothingTyped, StoppedTyped DEF A!AccountInit, AccountTypeOK
<1>3. \A p \in Terminals : command[p].at = "idle"
  BY <1>1 DEF A!AccountInit
<1>4. file.cloud = None /\ keychain = None /\ agent.at = "down"
  BY NothingTyped, StoppedTyped DEF A!AccountInit
<1>5. QED
  BY <1>2, <1>3, <1>4 DEF AccountInv, StepOK, AgentOK, Own, Between

(* The token of a file moves between the file and the Keychain.              *)
WithToken(c, t) == [c EXCEPT !.cloud.token = t]

LEMMA TokenTaken ==
  ASSUME NEW c \in Configs, c.cloud # None, NEW t \in A!Tokens \cup {None},
         NEW d, d = WithToken(c, t)
  PROVE  /\ d \in Configs /\ d.cloud # None
         /\ d.cloud.token = t /\ d.cloud.org = c.cloud.org
         /\ d.paused = c.paused /\ d.s3 = c.s3 /\ d.otlp = c.otlp
<1>1. c.cloud \in Clouds
  BY DEF Configs
<1>2. PICK cloud : cloud = [c.cloud EXCEPT !.token = t]
  OBVIOUS
<1>3. cloud \in Clouds /\ cloud.token = t /\ cloud.org = c.cloud.org
  BY <1>1, <1>2 DEF Clouds
<1>4. d = [c EXCEPT !.cloud = cloud]
  BY <1>2 DEF WithToken
<1>5. cloud # None
  BY <1>3, NoCloud
<1>6. QED
  BY <1>3, <1>4, <1>5 DEF Configs

(* The token a file stands for is of its organisation.                       *)
LEMMA Resolved ==
  ASSUME NEW c \in Configs, keychain \in A!Tokens \cup {None}, NEW r, r = A!Resolve(c)
  PROVE  /\ r \in Configs /\ r.paused = c.paused /\ r.s3 = c.s3 /\ r.otlp = c.otlp
         /\ r.cloud = None <=> c.cloud = None
         /\ c.cloud # None => r.cloud.org = c.cloud.org
         /\ Own(c, keychain) => Own(r, keychain)
         /\ Own(c, keychain) /\ c.cloud # None /\ r.cloud.token # None =>
              r.cloud.token[1] = c.cloud.org
<1>1. CASE c.cloud = None \/ A!Plain(c) \/ locked
  <2>1. r = c
    BY <1>1 DEF A!Resolve
  <2>2. QED
    BY <2>1 DEF Own
<1>2. CASE c.cloud # None /\ ~A!Plain(c) /\ ~locked
  <2>1. r = WithToken(c, keychain)
    BY <1>2 DEF A!Resolve, WithToken
  <2>2. /\ r \in Configs /\ r.cloud # None
        /\ r.cloud.token = keychain /\ r.cloud.org = c.cloud.org
        /\ r.paused = c.paused /\ r.s3 = c.s3 /\ r.otlp = c.otlp
    BY <1>2, <2>1, TokenTaken
  <2>3. c.cloud.token = None
    BY <1>2 DEF A!Plain
  <2>4. QED
    BY <1>2, <2>2, <2>3 DEF Own
<1>3. QED
  BY <1>1, <1>2

(* The only command goes on, and nothing else is left to show.               *)
LEMMA OneCommand ==
  ASSUME OneAtATime, AccountInv, NEW p \in Terminals, NEW q \in Running \cup {A!NoCommand},
         command' = [command EXCEPT ![p] = q],
         file' \in Configs, keychain' \in A!Tokens \cup {None},
         agent' \in Agents, outcome' \in {"ok", "failed", "killed"},
         StepOK(q, file', keychain', outcome'), AgentOK(q.at, file', agent', outcome')
  PROVE  AccountInv'
<1>1. \A r \in Terminals : r = p
  BY DEF OneAtATime
<1>2. command \in [Terminals -> Running \cup {A!NoCommand}]
  BY DEF AccountInv, AccountTypeOK
<1>3. command' \in [Terminals -> Running \cup {A!NoCommand}] /\ command'[p] = q
  BY <1>2
<1>4. QED
  BY <1>1, <1>3 DEF AccountInv, AccountTypeOK

(* What is known of the command that takes a step.                           *)
LEMMA TheCommand ==
  ASSUME AccountInv, NEW p \in Terminals
  PROVE  /\ file \in Configs /\ keychain \in A!Tokens \cup {None}
         /\ agent \in Agents /\ outcome \in {"ok", "failed", "killed"}
         /\ StepOK(command[p], file, keychain, outcome)
         /\ AgentOK(command[p].at, file, agent, outcome)
         /\ command[p] \in Running \cup {A!NoCommand}
         /\ command[p].at # "idle" => command[p] \in Running
BY DEF AccountInv, AccountTypeOK, A!NoCommand

LEMMA NoCommandIdle == A!NoCommand.at = "idle"
BY DEF A!NoCommand

AccountSteps == {"load", "move", "moved", "change", "set", "write", "delete", "notify", "revoke"}
Advanced(r, at) == [r EXCEPT !.at = at]
Replaced(r, at, c) == [r EXCEPT !.at = at, !.cfg = c]

LEMMA AdvancedRuns ==
  ASSUME NEW r \in Running, NEW at \in AccountSteps
  PROVE  /\ Advanced(r, at) \in Running /\ Advanced(r, at).at = at
         /\ Advanced(r, at).cfg = r.cfg /\ Advanced(r, at).kind = r.kind
         /\ Advanced(r, at).token = r.token /\ Advanced(r, at).org = r.org
BY DEF Running, AccountSteps, Advanced

LEMMA ReplacedRuns ==
  ASSUME NEW r \in Running, NEW at \in AccountSteps, NEW c \in Configs
  PROVE  /\ Replaced(r, at, c) \in Running /\ Replaced(r, at, c).at = at
         /\ Replaced(r, at, c).cfg = c /\ Replaced(r, at, c).kind = r.kind
         /\ Replaced(r, at, c).token = r.token /\ Replaced(r, at, c).org = r.org
BY DEF Running, AccountSteps, Replaced

-----------------------------------------------------------------------------
(* The steps of a command.                                                   *)

LEMMA TokensOrgs == \A t \in A!Tokens : t[1] \in Workspaces
BY DEF A!Tokens

LEMMA DescribedTyped ==
  ASSUME NEW c \in Configs
  PROVE  A!Describe(c) \in Descriptions
BY DEF A!Describe, Descriptions, Configs, Clouds

LEMMA BeginKeepsAccount ==
  ASSUME OneAtATime, AccountInv, NEW p \in Terminals, NEW kind \in CommandKinds, A!Begin(p, kind)
  PROVE  AccountInv'
<1>1. command[p].at = "idle" /\ UNCHANGED <<file, keychain, locked, agent, outcome>>
  BY DEF A!Begin, A!Idle
<1>2. PICK t \in A!Tokens, b \in Buckets, r \in Repos :
        command' = [command EXCEPT ![p] =
          [at |-> "load", kind |-> kind, cfg |-> A!Nothing, old |-> None,
           expected |-> IF kind \in A!Switches THEN A!Describe(file) ELSE A!Describe(A!Nothing),
           token |-> IF kind = "cloud" THEN t ELSE None,
           org |-> IF kind \in {"login", "cloud"} THEN t[1] ELSE None,
           bucket |-> IF kind \in {"s3", "add s3"} THEN b ELSE None,
           repo |-> IF kind \in {"allow", "forget"} THEN r ELSE None]]
  BY DEF A!Begin
<1>3. PICK expected \in Descriptions :
        expected = IF kind \in A!Switches THEN A!Describe(file) ELSE A!Describe(A!Nothing)
  BY TheCommand, NothingTyped, DescribedTyped
<1>4. PICK token \in A!Tokens \cup {None} : token = IF kind = "cloud" THEN t ELSE None
  OBVIOUS
<1>5. PICK org \in Workspaces \cup {None} : org = IF kind \in {"login", "cloud"} THEN t[1] ELSE None
  BY TokensOrgs
<1>6. PICK bucket1 \in Buckets \cup {None} : bucket1 = IF kind \in {"s3", "add s3"} THEN b ELSE None
  OBVIOUS
<1>7. PICK repo \in Repos \cup {None} : repo = IF kind \in {"allow", "forget"} THEN r ELSE None
  OBVIOUS
<1>8. PICK q : q = [at |-> "load", kind |-> kind, cfg |-> A!Nothing, old |-> None,
                    expected |-> expected, token |-> token, org |-> org, bucket |-> bucket1,
                    repo |-> repo]
  OBVIOUS
<1>9. q \in Running
  BY <1>8, NothingTyped DEF Running
<1>10. command' = [command EXCEPT ![p] = q]
  BY <1>2, <1>3, <1>4, <1>5, <1>6, <1>7, <1>8
<1>11. StepOK(q, file, keychain, outcome) /\ AgentOK(q.at, file, agent, outcome)
  BY <1>1, <1>4, <1>5, <1>8, TheCommand, TokensOrgs DEF StepOK, AgentOK, Between
<1>12. QED
  BY <1>1, <1>9, <1>10, <1>11, TheCommand, OneCommand

LEMMA LoadKeepsAccount ==
  ASSUME OneAtATime, AccountInv, NEW p \in Terminals, A!Load(p)
  PROVE  AccountInv'
<1>1. PICK resolved : resolved = A!Resolve(file)
  OBVIOUS
<1>2. resolved \in Configs /\ (Own(file, keychain) => Own(resolved, keychain))
  BY <1>1, TheCommand, Resolved
<1>3. command[p].at = "load" /\ command[p] \in Running
  BY TheCommand DEF A!Load
<1>4. UNCHANGED <<file, keychain, locked, agent, outcome>>
  BY DEF A!Load
<1>5. \/ command' = [command EXCEPT ![p] = Replaced(command[p], "move", file)] /\ A!Plain(file)
      \/ command' = [command EXCEPT ![p] = Replaced(command[p], "change", resolved)]
      \/ command' = [command EXCEPT ![p] = Replaced(command[p], "change", file)]
  BY <1>1 DEF A!Load, A!Keep, Replaced
<1>6. ASSUME NEW at \in {"move", "change"}, NEW c \in Configs,
             command' = [command EXCEPT ![p] = Replaced(command[p], at, c)],
             Own(file, keychain) => Own(c, keychain), at = "move" => c = file /\ A!Plain(file)
      PROVE  AccountInv'
  <2>1. PICK q : q = Replaced(command[p], at, c)
    OBVIOUS
  <2>2. /\ q \in Running /\ q.at = at /\ q.cfg = c /\ q.kind = command[p].kind
        /\ q.token = command[p].token /\ q.org = command[p].org
    <3>1. at \in AccountSteps
      BY DEF AccountSteps
    <3>2. QED
      BY <1>3, <2>1, <3>1, ReplacedRuns
  <2>3. StepOK(q, file, keychain, outcome)
    BY <1>3, <1>6, <2>2, TheCommand DEF StepOK, Between
  <2>4. AgentOK(q.at, file, agent, outcome)
    BY <1>3, <1>6, <2>2, TheCommand DEF AgentOK, Between
  <2>5. QED
    BY <1>4, <1>6, <2>1, <2>2, <2>3, <2>4, TheCommand, OneCommand
<1>7. QED
  BY <1>2, <1>5, <1>6, TheCommand

LEMMA MoveKeepsAccount ==
  ASSUME OneAtATime, AccountInv, NEW p \in Terminals, A!MoveSecret(p) \/ A!MoveWritten(p)
  PROVE  AccountInv'
<1>1. command[p] \in Running /\ command[p].at \in {"move", "moved"}
  BY TheCommand DEF A!MoveSecret, A!MoveWritten
<1>2. file = command[p].cfg /\ A!Plain(file) /\ file.cloud \in Clouds /\ file.cloud.token \in A!Tokens
  BY <1>1, TheCommand DEF StepOK, A!Plain, Configs, Clouds
<1>3. UNCHANGED <<locked, agent, outcome>>
  BY DEF A!MoveSecret, A!MoveWritten
<1>4. ASSUME NEW at \in {"moved", "change"}
      PROVE  /\ Advanced(command[p], at) \in Running /\ Advanced(command[p], at).at = at
             /\ Advanced(command[p], at).cfg = file /\ Advanced(command[p], at).kind = command[p].kind
             /\ Advanced(command[p], at).token = command[p].token
             /\ Advanced(command[p], at).org = command[p].org
  <2>1. at \in AccountSteps
    BY DEF AccountSteps
  <2>2. QED
    BY <1>1, <1>2, <2>1, AdvancedRuns
<1>5. CASE A!MoveSecret(p) /\ locked
  <2>1. PICK q : q = Advanced(command[p], "change")
    OBVIOUS
  <2>2. command' = [command EXCEPT ![p] = q] /\ UNCHANGED <<file, keychain>>
    BY <1>5, <2>1 DEF A!MoveSecret, A!To, Advanced
  <2>3. q \in Running /\ q.at = "change" /\ q.cfg = file /\ q.kind = command[p].kind
        /\ q.token = command[p].token /\ q.org = command[p].org
    BY <1>4, <2>1
  <2>4. StepOK(q, file, keychain, outcome) /\ AgentOK(q.at, file, agent, outcome)
    BY <1>1, <2>3, TheCommand DEF StepOK, AgentOK, Between
  <2>5. QED
    BY <1>3, <2>2, <2>3, <2>4, TheCommand, OneCommand
<1>6. CASE A!MoveSecret(p) /\ ~locked
  <2>1. PICK q : q = Advanced(command[p], "moved")
    OBVIOUS
  <2>2. command' = [command EXCEPT ![p] = q] /\ UNCHANGED file /\ keychain' = file.cloud.token
    BY <1>2, <1>6, <2>1 DEF A!MoveSecret, A!To, Advanced
  <2>3. q \in Running /\ q.at = "moved" /\ q.cfg = file /\ q.kind = command[p].kind
        /\ q.token = command[p].token /\ q.org = command[p].org
    BY <1>4, <2>1
  <2>4. StepOK(q, file, keychain', outcome)
    BY <1>1, <1>2, <2>2, <2>3, TheCommand DEF StepOK, Between, A!Plain, Own
  <2>5. AgentOK(q.at, file, agent, outcome)
    BY <1>1, <2>3, TheCommand DEF AgentOK, Between
  <2>6. QED
    BY <1>2, <1>3, <2>2, <2>3, <2>4, <2>5, TheCommand, OneCommand
<1>7. CASE A!MoveWritten(p)
  <2>1. PICK q : q = Advanced(command[p], "change")
    OBVIOUS
  <2>2. PICK f : f = WithToken(file, None)
    OBVIOUS
  <2>3. command' = [command EXCEPT ![p] = q] /\ file' = f /\ UNCHANGED keychain
    BY <1>2, <1>7, <2>1, <2>2 DEF A!MoveWritten, A!To, Advanced, WithToken
  <2>4. q \in Running /\ q.at = "change" /\ q.cfg = file /\ q.kind = command[p].kind
        /\ q.token = command[p].token /\ q.org = command[p].org
    BY <1>4, <2>1
  <2>5. /\ f \in Configs /\ f.cloud # None
        /\ f.cloud.token = None /\ f.cloud.org = file.cloud.org
        /\ f.paused = file.paused /\ f.s3 = file.s3 /\ f.otlp = file.otlp
    BY <1>2, <2>2, TokenTaken, TheCommand DEF A!Plain
  <2>6. command[p].at = "moved" /\ keychain = file.cloud.token
    BY <1>7, TheCommand DEF A!MoveWritten, StepOK
  <2>7. StepOK(q, f, keychain, outcome)
    BY <1>2, <2>4, <2>5, <2>6, TheCommand DEF StepOK, Between, A!Plain, Own
  <2>8. AgentOK(q.at, f, agent, outcome)
    BY <1>2, <2>4, <2>5, <2>6, TheCommand DEF AgentOK, Between, Follows, A!Plain
  <2>9. QED
    BY <1>3, <2>3, <2>4, <2>5, <2>7, <2>8, TheCommand, OneCommand
<1>8. QED
  BY <1>5, <1>6, <1>7

(* A command that has written nothing, or all, ends.                         *)
LEMMA DoneKeepsAccount ==
  ASSUME OneAtATime, AccountInv, NEW p \in Terminals, command[p] \in Running,
         command[p].at \notin Between \cup {"notify"}, A!Done(p),
         UNCHANGED <<file, keychain, agent, outcome>>
  PROVE  AccountInv'
<1>1. command' = [command EXCEPT ![p] = A!NoCommand]
  BY DEF A!Done
<1>2. StepOK(A!NoCommand, file, keychain, outcome) /\ AgentOK(A!NoCommand.at, file, agent, outcome)
  BY TheCommand, NoCommandIdle DEF StepOK, AgentOK, Between
<1>3. QED
  BY <1>1, <1>2, TheCommand, OneCommand

(* What a command is about to save.                                          *)
LEMMA SetKeepsAccount ==
  ASSUME OneAtATime, AccountInv, NEW p \in Terminals, command[p] \in Running,
         command[p].at = "change", NEW c \in Configs, NEW q \in Running,
         command' = [command EXCEPT ![p] = q],
         q.at = "set", q.cfg = c, q.kind = command[p].kind,
         q.token = command[p].token, q.org = command[p].org,
         outcome # "killed" \/ A!SetsAccount(q.kind) => Own(c, keychain),
         UNCHANGED <<file, keychain, agent, outcome>>
  PROVE  AccountInv'
<1>1. StepOK(q, file, keychain, outcome) /\ AgentOK(q.at, file, agent, outcome)
  BY TheCommand DEF StepOK, AgentOK, Between
<1>2. QED
  BY <1>1, TheCommand, OneCommand

LEMMA LoginKeepsAccount ==
  ASSUME OneAtATime, AccountInv, NEW p \in Terminals, A!LoginAnswered(p)
  PROVE  AccountInv'
<1>1. command[p] \in Running /\ command[p].at = "change" /\ command[p].kind = "login"
  BY TheCommand DEF A!LoginAnswered
<1>2. UNCHANGED <<file, keychain, agent, outcome>>
  BY DEF A!LoginAnswered
<1>3. PICK c : c = command[p].cfg
  OBVIOUS
<1>4. c \in Configs
  BY <1>1, <1>3 DEF Running
<1>5. PICK repos : repos = IF c.cloud = None THEN {} ELSE c.cloud.repos
  OBVIOUS
<1>6. repos \in SUBSET (Repos \cup {None})
  BY <1>4, <1>5 DEF Configs, Clouds
<1>7. CASE A!Done(p)
  BY <1>1, <1>2, <1>7, DoneKeepsAccount DEF Between
<1>8. ASSUME NEW t \in A!Tokens,
             A!Change(p, [c EXCEPT !.paused = FALSE, !.cloud = A!Cloud(t[1], t, repos)])
      PROVE  AccountInv'
  <2>1. PICK cloud : cloud = A!Cloud(t[1], t, repos)
    OBVIOUS
  <2>2. cloud \in Clouds /\ cloud.token = t /\ cloud.org = t[1]
    BY <1>6, <2>1, TokensOrgs DEF A!Cloud, Clouds
  <2>3. PICK d : d = [c EXCEPT !.paused = FALSE, !.cloud = cloud]
    OBVIOUS
  <2>4. d \in Configs /\ d.cloud = cloud
    BY <1>4, <2>2, <2>3 DEF Configs
  <2>5. PICK q : q = Replaced(command[p], "set", d)
    OBVIOUS
  <2>6. command' = [command EXCEPT ![p] = q]
    BY <1>8, <2>1, <2>3, <2>5 DEF A!Change, A!Keep, Replaced
  <2>7. /\ q \in Running /\ q.at = "set" /\ q.cfg = d /\ q.kind = command[p].kind
        /\ q.token = command[p].token /\ q.org = command[p].org
    <3>1. "set" \in AccountSteps
      BY DEF AccountSteps
    <3>2. QED
      BY <1>1, <2>4, <2>5, <3>1, ReplacedRuns
  <2>8. Own(d, keychain)
    BY <2>2, <2>4, NoToken DEF Own
  <2>9. QED
    BY <1>1, <1>2, <2>4, <2>6, <2>7, <2>8, SetKeepsAccount
<1>9. QED
  BY <1>3, <1>5, <1>7, <1>8 DEF A!LoginAnswered

(* What a switch makes of a configuration.                                   *)
LEMMA SwitchedOwn ==
  ASSUME NEW r \in Running, r.kind \in A!Switches,
         r.kind = "cloud" => r.token \in A!Tokens /\ r.org = r.token[1],
         NEW d, d = A!Switched(r, r.cfg)
  PROVE  /\ d \in Configs
         /\ Own(r.cfg, keychain) \/ A!SetsAccount(r.kind) => Own(d, keychain)
<1>1. r.cfg \in Configs
  BY DEF Running
<1>2. CASE r.kind \in {"pause", "resume"}
  <2>1. PICK b \in BOOLEAN : d = [r.cfg EXCEPT !.paused = b]
    <3>1. (r.kind = "pause") \in BOOLEAN
      OBVIOUS
    <3>2. d = [r.cfg EXCEPT !.paused = (r.kind = "pause")]
      BY <1>2 DEF A!Switched
    <3>3. QED
      BY <3>1, <3>2
  <2>2. d \in Configs /\ d.cloud = r.cfg.cloud
    BY <1>1, <2>1 DEF Configs
  <2>3. ~A!SetsAccount(r.kind)
    BY <1>2 DEF A!SetsAccount
  <2>4. QED
    BY <2>2, <2>3 DEF Own
<1>3. CASE r.kind \in {"local", "s3"}
  <2>1. d = [r.cfg EXCEPT !.paused = FALSE, !.cloud = None, !.s3 = r.bucket]
    BY <1>3 DEF A!Switched
  <2>2. d \in Configs /\ d.cloud = None
    BY <1>1, <2>1 DEF Configs, Running
  <2>3. QED
    BY <2>2 DEF Own
<1>4. CASE r.kind = "cloud"
  <2>1. PICK cloud : cloud = A!Cloud(r.org, r.token, {})
    OBVIOUS
  <2>2. d = [r.cfg EXCEPT !.paused = FALSE, !.cloud = cloud]
    BY <1>4, <2>1 DEF A!Switched
  <2>3. cloud \in Clouds /\ cloud.token = r.token /\ cloud.org = r.token[1]
    BY <1>4, <2>1, TokensOrgs DEF A!Cloud, Clouds
  <2>4. d \in Configs /\ d.cloud = cloud
    BY <1>1, <2>2, <2>3 DEF Configs
  <2>5. QED
    BY <1>4, <2>3, <2>4, NoToken DEF Own
<1>5. QED
  BY <1>2, <1>3, <1>4 DEF A!Switches

LEMMA SwitchKeepsAccount ==
  ASSUME OneAtATime, AccountInv, NEW p \in Terminals, A!Switch(p)
  PROVE  AccountInv'
<1>1. command[p] \in Running /\ command[p].at = "change" /\ command[p].kind \in A!Switches
  BY TheCommand DEF A!Switch
<1>2. UNCHANGED <<file, keychain, agent, outcome>>
  BY DEF A!Switch
<1>3. CASE A!Done(p)
  BY <1>1, <1>2, <1>3, DoneKeepsAccount DEF Between
<1>4. CASE A!Change(p, A!Switched(command[p], command[p].cfg))
  <2>1. PICK d : d = A!Switched(command[p], command[p].cfg)
    OBVIOUS
  <2>2. /\ d \in Configs
        /\ Own(command[p].cfg, keychain) \/ A!SetsAccount(command[p].kind) => Own(d, keychain)
    BY <1>1, <2>1, TheCommand, SwitchedOwn DEF StepOK
  <2>3. PICK q : q = Replaced(command[p], "set", d)
    OBVIOUS
  <2>4. command' = [command EXCEPT ![p] = q]
    BY <1>4, <2>1, <2>3 DEF A!Change, A!Keep, Replaced
  <2>5. /\ q \in Running /\ q.at = "set" /\ q.cfg = d /\ q.kind = command[p].kind
        /\ q.token = command[p].token /\ q.org = command[p].org
    <3>1. "set" \in AccountSteps
      BY DEF AccountSteps
    <3>2. QED
      BY <1>1, <2>2, <2>3, <3>1, ReplacedRuns
  <2>6. outcome # "killed" => Own(command[p].cfg, keychain)
    BY <1>1, TheCommand DEF StepOK
  <2>7. QED
    BY <1>1, <1>2, <2>2, <2>4, <2>5, <2>6, SetKeepsAccount
<1>5. QED
  BY <1>3, <1>4 DEF A!Switch

LEMMA EditedOwn ==
  ASSUME NEW kind, NEW c \in Configs, NEW bucket1 \in Buckets \cup {None},
         NEW repo \in Repos \cup {None}, NEW d, d = A!Edited(kind, c, bucket1, repo),
         kind \notin {"login"} \cup A!Switches
  PROVE  /\ d \in Configs
         /\ Own(c, keychain) \/ A!SetsAccount(kind) => Own(d, keychain)
<1>1. CASE kind = "logout"
  <2>1. d = [c EXCEPT !.cloud = None]
    BY <1>1 DEF A!Edited
  <2>2. d \in Configs /\ d.cloud = None
    BY <2>1 DEF Configs
  <2>3. QED
    BY <2>2 DEF Own
<1>2. CASE kind # "logout"
  <2>1. ~A!SetsAccount(kind)
    BY <1>2 DEF A!SetsAccount, A!Switches
  <2>2. ASSUME NEW s \in SUBSET (Repos \cup {None}), c.cloud # None, d = [c EXCEPT !.cloud.repos = s]
        PROVE  d \in Configs /\ (Own(c, keychain) => Own(d, keychain))
    <3>1. c.cloud \in Clouds
      BY <2>2 DEF Configs
    <3>2. PICK cloud : cloud = [c.cloud EXCEPT !.repos = s]
      OBVIOUS
    <3>3. cloud \in Clouds /\ cloud.token = c.cloud.token /\ cloud.org = c.cloud.org
      BY <3>1, <3>2 DEF Clouds
    <3>4. d = [c EXCEPT !.cloud = cloud]
      BY <2>2, <3>2
    <3>5. d \in Configs /\ d.cloud = cloud
      BY <3>3, <3>4 DEF Configs
    <3>6. QED
      BY <2>2, <3>3, <3>5 DEF Own
  <2>3. CASE kind \in {"allow", "forget"} /\ c.cloud # None
    <3>1. c.cloud.repos \in SUBSET (Repos \cup {None})
      BY <2>3 DEF Configs, Clouds
    <3>2. c.cloud.repos \cup {repo} \in SUBSET (Repos \cup {None})
      BY <3>1
    <3>3. c.cloud.repos \ {repo} \in SUBSET (Repos \cup {None})
      BY <3>1
    <3>4. \/ d = [c EXCEPT !.cloud.repos = c.cloud.repos \cup {repo}]
          \/ d = [c EXCEPT !.cloud.repos = c.cloud.repos \ {repo}]
      BY <2>3 DEF A!Edited
    <3>5. QED
      BY <2>1, <2>2, <2>3, <3>2, <3>3, <3>4
  <2>4. CASE kind = "add s3"
    <3>1. d = [c EXCEPT !.s3 = bucket1]
      BY <2>4 DEF A!Edited
    <3>2. d \in Configs /\ d.cloud = c.cloud
      BY <3>1 DEF Configs
    <3>3. QED
      BY <2>1, <3>2 DEF Own
  <2>5. CASE kind = "remove s3"
    <3>1. d = [c EXCEPT !.s3 = None]
      BY <2>5 DEF A!Edited
    <3>2. d \in Configs /\ d.cloud = c.cloud
      BY <3>1 DEF Configs
    <3>3. QED
      BY <2>1, <3>2 DEF Own
  <2>6. CASE kind = "init"
    <3>1. d = [c EXCEPT !.otlp = TRUE]
      BY <2>6 DEF A!Edited
    <3>2. d \in Configs /\ d.cloud = c.cloud
      BY <3>1 DEF Configs
    <3>3. QED
      BY <2>1, <3>2 DEF Own
  <2>7. CASE /\ kind \notin {"logout", "add s3", "remove s3", "init"}
             /\ ~(kind \in {"allow", "forget"} /\ c.cloud # None)
    <3>1. d = c
      BY <2>7 DEF A!Edited
    <3>2. QED
      BY <2>1, <3>1
  <2>8. QED
    BY <1>2, <2>3, <2>4, <2>5, <2>6, <2>7
<1>3. QED
  BY <1>1, <1>2

LEMMA EditKeepsAccount ==
  ASSUME OneAtATime, AccountInv, NEW p \in Terminals, A!Edit(p)
  PROVE  AccountInv'
<1>1. /\ command[p] \in Running /\ command[p].at = "change"
      /\ command[p].kind \notin {"login"} \cup A!Switches
  BY TheCommand DEF A!Edit
<1>2. UNCHANGED <<file, keychain, agent, outcome>>
  BY DEF A!Edit
<1>3. PICK d : d = A!Edited(command[p].kind, command[p].cfg, command[p].bucket, command[p].repo)
  OBVIOUS
<1>4. /\ command[p].cfg \in Configs /\ command[p].bucket \in Buckets \cup {None}
      /\ command[p].repo \in Repos \cup {None}
  BY <1>1 DEF Running
<1>5. /\ d \in Configs
      /\ Own(command[p].cfg, keychain) \/ A!SetsAccount(command[p].kind) => Own(d, keychain)
  <2>1. PICK kind, c, bucket1, repo :
          /\ kind = command[p].kind /\ c = command[p].cfg
          /\ bucket1 = command[p].bucket /\ repo = command[p].repo
    OBVIOUS
  <2>2. d = A!Edited(kind, c, bucket1, repo)
    BY <1>3, <2>1
  <2>3. /\ c \in Configs /\ bucket1 \in Buckets \cup {None} /\ repo \in Repos \cup {None}
        /\ kind \notin {"login"} \cup A!Switches
    BY <1>1, <1>4, <2>1
  <2>4. d \in Configs /\ (Own(c, keychain) \/ A!SetsAccount(kind) => Own(d, keychain))
    BY <2>2, <2>3, EditedOwn
  <2>5. QED
    BY <2>1, <2>4
<1>6. CASE A!Done(p)
  BY <1>1, <1>2, <1>6, DoneKeepsAccount DEF Between
<1>7. CASE command' = [command EXCEPT ![p].at = "set", ![p].cfg = d, ![p].old = command[p].cfg.cloud]
  <2>1. PICK q : q = [command[p] EXCEPT !.at = "set", !.cfg = d, !.old = command[p].cfg.cloud]
    OBVIOUS
  <2>2. command' = [command EXCEPT ![p] = q]
    BY <1>7, <2>1
  <2>3. command[p].cfg.cloud \in Clouds \cup {None}
    BY <1>4 DEF Configs
  <2>4. /\ q \in Running /\ q.at = "set" /\ q.cfg = d /\ q.kind = command[p].kind
        /\ q.token = command[p].token /\ q.org = command[p].org
    BY <1>1, <1>5, <2>1, <2>3 DEF Running
  <2>5. outcome # "killed" => Own(command[p].cfg, keychain)
    BY <1>1, TheCommand DEF StepOK
  <2>6. QED
    BY <1>1, <1>2, <1>5, <2>2, <2>4, <2>5, SetKeepsAccount
<1>8. QED
  BY <1>3, <1>6, <1>7 DEF A!Edit

LEMMA RevokesKeepAccount ==
  ASSUME OneAtATime, AccountInv, NEW p \in Terminals, A!RevokeDevice(p) \/ A!RevokeOld(p)
  PROVE  AccountInv'
<1>1. /\ command[p] \in Running /\ command[p].at \in {"change", "revoke"}
      /\ A!Done(p) /\ UNCHANGED <<file, keychain, agent, outcome>>
  BY TheCommand DEF A!RevokeDevice, A!RevokeOld
<1>2. QED
  BY <1>1, DoneKeepsAccount DEF Between

(* The token goes to the Keychain when that can be written.                  *)
LEMMA SetSecretKeepsAccount ==
  ASSUME OneAtATime, AccountInv, NEW p \in Terminals, A!SetSecret(p)
  PROVE  AccountInv'
<1>1. command[p] \in Running /\ command[p].at = "set" /\ UNCHANGED <<file, agent, outcome>>
  BY TheCommand DEF A!SetSecret
<1>2. PICK c : c = command[p].cfg
  OBVIOUS
<1>3. c \in Configs
  BY <1>1, <1>2 DEF Running
<1>4. PICK stored : stored = IF A!Plain(c) /\ ~locked THEN WithToken(c, None) ELSE c
  OBVIOUS
<1>5. /\ keychain' = IF stored # c THEN c.cloud.token ELSE keychain
      /\ command' = [command EXCEPT ![p] = Replaced(command[p], "write", stored)]
  BY <1>2, <1>4 DEF A!SetSecret, A!Keep, Replaced, WithToken
<1>6. /\ stored \in Configs /\ keychain' \in A!Tokens \cup {None}
      /\ Own(c, keychain) => Own(stored, keychain')
  <2>1. CASE A!Plain(c) /\ ~locked
    <3>1. stored = WithToken(c, None) /\ c.cloud # None /\ c.cloud.token # None
      BY <1>4, <2>1 DEF A!Plain
    <3>2. stored \in Configs /\ stored.cloud # None /\ stored.cloud.token = None
          /\ stored.cloud.org = c.cloud.org
      BY <1>3, <3>1, TokenTaken
    <3>3. stored # c /\ keychain' = c.cloud.token
      BY <1>5, <3>1, <3>2
    <3>4. c.cloud.token \in A!Tokens
      BY <1>3, <3>1 DEF Configs, Clouds
    <3>5. QED
      BY <3>1, <3>2, <3>3, <3>4 DEF Own
  <2>2. CASE ~(A!Plain(c) /\ ~locked)
    <3>1. stored = c
      BY <1>4, <2>2
    <3>2. keychain' = keychain
      BY <1>5, <3>1
    <3>3. QED
      BY <1>3, <3>1, <3>2, TheCommand
  <2>3. QED
    BY <2>1, <2>2
<1>7. PICK q : q = Replaced(command[p], "write", stored)
  OBVIOUS
<1>8. /\ q \in Running /\ q.at = "write" /\ q.cfg = stored /\ q.kind = command[p].kind
      /\ q.token = command[p].token /\ q.org = command[p].org
  <2>1. "write" \in AccountSteps
    BY DEF AccountSteps
  <2>2. QED
    BY <1>1, <1>6, <1>7, <2>1, ReplacedRuns
<1>9. StepOK(q, file, keychain', outcome)
  BY <1>1, <1>2, <1>6, <1>8, TheCommand DEF StepOK, Between
<1>10. AgentOK(q.at, file, agent, outcome)
  BY <1>8 DEF AgentOK, Between
<1>11. QED
  BY <1>1, <1>5, <1>6, <1>7, <1>8, <1>9, <1>10, TheCommand, OneCommand

LEMMA WriteKeepsAccount ==
  ASSUME OneAtATime, AccountInv, NEW p \in Terminals, A!WriteFile(p)
  PROVE  AccountInv'
<1>1. /\ command[p] \in Running /\ command[p].at = "write" /\ UNCHANGED <<keychain, agent, outcome>>
      /\ file' = command[p].cfg
  BY TheCommand DEF A!WriteFile
<1>2. PICK q : q = Advanced(command[p], "delete")
  OBVIOUS
<1>3. command' = [command EXCEPT ![p] = q]
  BY <1>2 DEF A!WriteFile, A!To, Advanced
<1>4. /\ q \in Running /\ q.at = "delete" /\ q.cfg = command[p].cfg /\ q.kind = command[p].kind
      /\ q.token = command[p].token /\ q.org = command[p].org
  <2>1. "delete" \in AccountSteps
    BY DEF AccountSteps
  <2>2. QED
    BY <1>1, <1>2, <2>1, AdvancedRuns
<1>5. file' \in Configs
  BY <1>1 DEF Running
<1>6. StepOK(q, file', keychain, outcome)
  BY <1>1, <1>4, TheCommand DEF StepOK, Between
<1>7. AgentOK(q.at, file', agent, outcome)
  BY <1>4 DEF AgentOK, Between
<1>8. QED
  BY <1>1, <1>3, <1>4, <1>5, <1>6, <1>7, TheCommand, OneCommand

LEMMA DeleteKeepsAccount ==
  ASSUME OneAtATime, AccountInv, NEW p \in Terminals, A!DeleteSecret(p)
  PROVE  AccountInv'
<1>1. /\ command[p] \in Running /\ command[p].at = "delete" /\ command[p].cfg = file
      /\ UNCHANGED <<file, agent>>
  BY TheCommand DEF A!DeleteSecret, StepOK
<1>2. keychain' = IF file.cloud = None /\ ~locked THEN None ELSE keychain
  BY <1>1 DEF A!DeleteSecret
<1>3. CASE file.cloud = None /\ locked
  <2>1. command' = [command EXCEPT ![p] = A!NoCommand] /\ outcome' = "failed" /\ keychain' = keychain
    BY <1>1, <1>2, <1>3 DEF A!DeleteSecret, A!Done
  <2>2. StepOK(A!NoCommand, file, keychain, "failed") /\ AgentOK(A!NoCommand.at, file, agent, "failed")
    BY <1>3, NoCommandIdle DEF StepOK, AgentOK, Own, Between
  <2>3. QED
    BY <1>1, <2>1, <2>2, TheCommand, OneCommand
<1>4. CASE ~(file.cloud = None /\ locked)
  <2>1. PICK q : q = Advanced(command[p], "notify")
    OBVIOUS
  <2>2. command' = [command EXCEPT ![p] = q]
    BY <1>1, <1>4, <2>1 DEF A!DeleteSecret, A!To, Advanced
  <2>3. /\ q \in Running /\ q.at = "notify" /\ q.cfg = command[p].cfg /\ q.kind = command[p].kind
        /\ q.token = command[p].token /\ q.org = command[p].org
    <3>1. "notify" \in AccountSteps
      BY DEF AccountSteps
    <3>2. QED
      BY <1>1, <2>1, <3>1, AdvancedRuns
  <2>4. outcome' = IF outcome = "killed" /\ ~A!SetsAccount(command[p].kind) THEN outcome ELSE "ok"
    BY <1>1, <1>4 DEF A!DeleteSecret
  <2>5. outcome' \in {"ok", "failed", "killed"} /\ keychain' \in A!Tokens \cup {None}
    BY <1>2, <2>4, TheCommand
  <2>6. outcome' # "killed" => Own(file, keychain')
    BY <1>1, <1>2, <2>4, TheCommand DEF StepOK, Own
  <2>7. file.cloud = None => keychain' = None
    BY <1>2, <1>4
  <2>8. StepOK(q, file, keychain', outcome')
    BY <1>1, <2>3, <2>6, <2>7, TheCommand DEF StepOK, Between
  <2>9. AgentOK(q.at, file, agent, outcome')
    BY <2>3 DEF AgentOK, Between
  <2>10. QED
    BY <1>1, <2>2, <2>3, <2>5, <2>8, <2>9, TheCommand, OneCommand
<1>5. QED
  BY <1>3, <1>4

LEMMA NotifyKeepsAccount ==
  ASSUME OneAtATime, AccountInv, NEW p \in Terminals, A!Notify(p)
  PROVE  AccountInv'
<1>1. /\ command[p] \in Running /\ command[p].at = "notify" /\ UNCHANGED <<file, keychain, outcome>>
  BY TheCommand DEF A!Notify
<1>2. agent' = IF agent.at = "down" THEN agent ELSE [agent EXCEPT !.asked = TRUE]
  BY DEF A!Notify
<1>3. agent' \in Agents /\ (agent'.at = "up" => agent'.asked)
  <2>1. agent \in Agents
    BY TheCommand
  <2>2. [agent EXCEPT !.asked = TRUE] \in Agents /\ [agent EXCEPT !.asked = TRUE].asked
    BY <2>1 DEF Agents
  <2>3. QED
    BY <1>2, <2>1, <2>2
<1>4. CASE A!Done(p)
  <2>1. command' = [command EXCEPT ![p] = A!NoCommand]
    BY <1>4 DEF A!Done
  <2>2. StepOK(A!NoCommand, file, keychain, outcome) /\ AgentOK(A!NoCommand.at, file, agent', outcome)
    BY <1>1, <1>3, TheCommand, NoCommandIdle DEF StepOK, AgentOK, Between
  <2>3. QED
    BY <1>1, <1>3, <2>1, <2>2, TheCommand, OneCommand
<1>5. CASE A!To(p, "revoke")
  <2>1. PICK q : q = Advanced(command[p], "revoke")
    OBVIOUS
  <2>2. command' = [command EXCEPT ![p] = q]
    BY <1>5, <2>1 DEF A!To, Advanced
  <2>3. /\ q \in Running /\ q.at = "revoke" /\ q.cfg = command[p].cfg /\ q.kind = command[p].kind
        /\ q.token = command[p].token /\ q.org = command[p].org
    <3>1. "revoke" \in AccountSteps
      BY DEF AccountSteps
    <3>2. QED
      BY <1>1, <2>1, <3>1, AdvancedRuns
  <2>4. StepOK(q, file, keychain, outcome) /\ AgentOK(q.at, file, agent', outcome)
    BY <1>1, <1>3, <2>3, TheCommand DEF StepOK, AgentOK, Between
  <2>5. QED
    BY <1>1, <1>3, <2>2, <2>3, <2>4, TheCommand, OneCommand
<1>6. QED
  BY <1>4, <1>5 DEF A!Notify

(* A command that is killed between the two stores, or before it has told    *)
(* the agent, is remembered until the user signs in or out again.            *)
LEMMA KilledKeepsAccount ==
  ASSUME OneAtATime, AccountInv, NEW p \in Terminals, A!Killed(p)
  PROVE  AccountInv'
<1>1. /\ command[p] \in Running /\ UNCHANGED <<file, keychain, agent>>
      /\ command' = [command EXCEPT ![p] = A!NoCommand]
  BY TheCommand DEF A!Killed, A!Idle, A!Done
<1>2. outcome' = IF command[p].at \in {"write", "delete", "notify"} THEN "killed" ELSE outcome
  BY DEF A!Killed
<1>3. StepOK(A!NoCommand, file, keychain, outcome') /\ AgentOK(A!NoCommand.at, file, agent, outcome')
  BY <1>1, <1>2, TheCommand, NoCommandIdle DEF StepOK, AgentOK, Between
<1>4. outcome' \in {"ok", "failed", "killed"}
  BY <1>2, TheCommand
<1>5. QED
  BY <1>1, <1>3, <1>4, TheCommand, OneCommand

-----------------------------------------------------------------------------
(* The agent.                                                                *)

LEMMA AgentKeepsAccount ==
  ASSUME OneAtATime, AccountInv, A!AgentStarts \/ A!AgentLoads \/ A!AgentReloads \/ A!AgentStops
  PROVE  AccountInv'
<1>1. UNCHANGED <<file, keychain, command, outcome>>
  BY DEF A!AgentStarts, A!AgentLoads, A!AgentReloads, A!AgentStops
<1> DEFINE AgentFits == agent' \in Agents /\ \A p \in Terminals : AgentOK(command[p].at, file, agent', outcome)
<1>2. ASSUME A!AgentStarts \/ A!AgentStops
      PROVE  AgentFits
  <2>1. agent' \in Agents /\ agent'.at # "up"
    <3>1. agent' = A!Stopped \/ agent' = [A!Stopped EXCEPT !.at = "starting"]
      BY <1>2 DEF A!AgentStarts, A!AgentStops
    <3>2. QED
      BY <3>1, StoppedTyped DEF Agents
  <2>2. QED
    BY <2>1 DEF AgentOK
<1>3. ASSUME A!AgentLoads \/ A!AgentReloads
      PROVE  AgentFits
  <2>1. PICK c : c = A!Resolve(file)
    OBVIOUS
  <2>2. file \in Configs /\ keychain \in A!Tokens \cup {None} /\ agent \in Agents
    BY DEF AccountInv, AccountTypeOK
  <2>3. /\ c \in Configs /\ c.paused = file.paused /\ c.s3 = file.s3 /\ c.otlp = file.otlp
        /\ c.cloud = None <=> file.cloud = None
        /\ file.cloud # None => c.cloud.org = file.cloud.org
        /\ Own(file, keychain) /\ file.cloud # None /\ c.cloud.token # None =>
             c.cloud.token[1] = file.cloud.org
    BY <2>1, <2>2, Resolved
  <2>4. PICK a : a = A!Loaded("up")
    OBVIOUS
  <2>5. PICK cloud : cloud = IF c.cloud = None \/ c.paused THEN None
                             ELSE [org |-> c.cloud.org, token |-> c.cloud.token]
    OBVIOUS
  <2>6. cloud \in Uploads \cup {None}
    BY <2>3, <2>5 DEF Uploads, Configs, Clouds
  <2>7. a = [at |-> "up", asked |-> FALSE, otlp |-> c.otlp, s3 |-> c.s3, cloud |-> cloud]
    BY <2>1, <2>4, <2>5 DEF A!Loaded
  <2>8. a \in Agents /\ a.at = "up" /\ a.cloud = cloud /\ a.s3 = file.s3 /\ a.otlp = file.otlp
    BY <2>3, <2>6, <2>7 DEF Agents, Configs
  <2>9. Own(file, keychain) => Follows(file, a)
    <3>1. CASE file.cloud = None \/ file.paused
      BY <2>3, <2>5, <2>8, <3>1 DEF Follows
    <3>2. CASE file.cloud # None /\ ~file.paused
      <4>1. cloud = [org |-> c.cloud.org, token |-> c.cloud.token]
        BY <2>3, <2>5, <3>2
      <4>2. cloud \in Uploads
        BY <2>3, <3>2, <4>1 DEF Uploads, Configs, Clouds
      <4>3. cloud # None /\ cloud.org = file.cloud.org /\ cloud.token = c.cloud.token
        BY <2>3, <3>2, <4>1, <4>2, NoUpload
      <4>4. QED
        BY <2>3, <2>8, <3>2, <4>3 DEF Follows
    <3>3. QED
      BY <3>1, <3>2
  <2>10. agent' = [a EXCEPT !.asked = agent.asked] \/ agent' = a
    BY <1>3, <2>4 DEF A!AgentLoads, A!AgentReloads
  <2>11. agent.asked \in BOOLEAN
    BY <2>2 DEF Agents
  <2>12. /\ agent' \in Agents /\ agent'.cloud = a.cloud /\ agent'.s3 = a.s3 /\ agent'.otlp = a.otlp
    BY <2>8, <2>10, <2>11 DEF Agents
  <2>13. Own(file, keychain) => Follows(file, agent')
    BY <2>9, <2>12 DEF Follows
  <2>14. ASSUME NEW p \in Terminals
         PROVE  AgentOK(command[p].at, file, agent', outcome)
    BY <2>13, TheCommand DEF AgentOK, StepOK
  <2>15. QED
    BY <2>12, <2>14
<1>4. AgentFits
  BY <1>2, <1>3
<1>5. QED
  BY <1>1, <1>4 DEF AccountInv, AccountTypeOK

LEMMA AccountInvStep == OneAtATime /\ AccountInv /\ [A!AccountNext]_(A!accountVars) => AccountInv'
<1> SUFFICES ASSUME OneAtATime, AccountInv, [A!AccountNext]_(A!accountVars)
             PROVE  AccountInv'
  OBVIOUS
<1>1. CASE A!KeychainLocks \/ UNCHANGED A!accountVars
  BY <1>1 DEF A!KeychainLocks, A!accountVars, AccountInv, AccountTypeOK
<1>2. ASSUME NEW p \in Terminals,
             \/ \E kind \in CommandKinds : A!Begin(p, kind)
             \/ A!Load(p) \/ A!MoveSecret(p) \/ A!MoveWritten(p)
             \/ A!LoginAnswered(p) \/ A!Switch(p) \/ A!Edit(p) \/ A!RevokeDevice(p)
             \/ A!SetSecret(p) \/ A!WriteFile(p) \/ A!DeleteSecret(p) \/ A!Notify(p)
             \/ A!RevokeOld(p) \/ A!Killed(p)
      PROVE  AccountInv'
  BY <1>2, BeginKeepsAccount, LoadKeepsAccount, MoveKeepsAccount, LoginKeepsAccount,
     SwitchKeepsAccount, EditKeepsAccount, RevokesKeepAccount, SetSecretKeepsAccount,
     WriteKeepsAccount, DeleteKeepsAccount, NotifyKeepsAccount, KilledKeepsAccount
<1>3. QED
  BY <1>1, <1>2, AgentKeepsAccount DEF A!AccountNext

(* With no command under way the file and the Keychain name one account, a   *)
(* device that is signed out keeps no token, and the agent uploads where the *)
(* file says: whatever is locked, killed or read meanwhile, as long as the   *)
(* user runs one command at a time (config.rs, agent.rs).                    *)
THEOREM DeviceAccountHolds ==
  ASSUME OneAtATime
  PROVE  DeviceSpec => []AccountHolds
<1>1. AccountInv /\ [DeviceNext]_deviceVars => AccountInv'
  BY AccountStep, AccountInvStep
<1>2. AccountInv => AccountHolds
  <2> SUFFICES ASSUME AccountInv, A!Quiet
               PROVE  A!AccountIsWhole /\ A!AgentFollows
    BY DEF AccountHolds, A!AccountIsWhole, A!AgentFollows
  <2>1. PICK p \in Terminals : TRUE
    BY DEF OneAtATime
  <2>2. command[p].at = "idle" /\ outcome # "killed"
    BY DEF A!Quiet, A!Idle
  <2>3. Own(file, keychain) /\ (file.cloud = None /\ outcome = "ok" => keychain = None)
    BY <2>2, TheCommand DEF StepOK, Between
  <2>4. PICK c : c = A!Resolve(file)
    OBVIOUS
  <2>5. A!Plain(c) => c.cloud.token[1] = c.cloud.org
    BY <2>3, <2>4, TheCommand, Resolved DEF A!Plain
  <2>6. A!AccountIsWhole
    BY <2>3, <2>4, <2>5 DEF A!AccountIsWhole
  <2>7. agent.at = "up" /\ ~agent.asked /\ outcome = "ok" => Follows(file, agent)
    BY <2>2, TheCommand DEF AgentOK, Between
  <2>8. agent.otlp \in BOOLEAN /\ file.otlp \in BOOLEAN
    BY TheCommand DEF Agents, Configs
  <2>9. A!AgentFollows
    BY <2>7, <2>8 DEF A!AgentFollows, Follows
  <2>10. QED
    BY <2>6, <2>9
<1>3. QED
  BY <1>1, <1>2, AccountInit, PTL DEF DeviceSpec
=============================================================================

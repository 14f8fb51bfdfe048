------------------------------- MODULE Usage -------------------------------
(* Snapshots of a subscription's limits. The collector asks Codex's server *)
(* every five minutes, the command line when it is told to, and every      *)
(* status line of Claude Code reports its own: several processes write the *)
(* same file, and the profile may be signed in to another account while    *)
(* its limits are read.                                                    *)
EXTENDS Integers, FiniteSets

CONSTANTS
  Accounts,     \* the accounts Codex may be signed in to
  Labels,       \* names the user gives
  Processes,    \* processes at a time
  MaxTime,      \* the clock
  MaxSwitches,  \* sign-ins
  MaxAsked,     \* runs
  None

Names == Accounts \cup Labels

VARIABLES
  auth,      \* the account in auth.json, or None
  clock,
  files,     \* [Names -> the snapshot of the account or label]
  run,       \* [Processes -> what the process has so far]
  flocked,   \* who holds the lock of a file
  switches, asked,
  newest     \* history: [Names -> the latest time saved]

usageVars == <<auth, clock, files, run, flocked, switches, asked, newest>>

NoSnapshot == [at |-> 0, of |-> None, sure |-> TRUE]
NoRun == [stage |-> "none", label |-> None, before |-> None, reply |-> NoSnapshot,
          switched |-> 0, name |-> None]

UsageInit ==
  /\ auth \in Accounts /\ clock = 1
  /\ files = [a \in Names |-> NoSnapshot]
  /\ run = [p \in Processes |-> NoRun]
  /\ flocked = [a \in Names |-> None]
  /\ switches = 0 /\ asked = 0
  /\ newest = [a \in Names |-> 0]

Tick ==
  /\ clock < MaxTime /\ clock' = clock + 1
  /\ UNCHANGED <<auth, files, run, flocked, switches, asked, newest>>

(* The user signs in to another account, or out. *)
SignIn ==
  /\ switches < MaxSwitches /\ switches' = switches + 1
  /\ auth' \in (Accounts \cup {None}) \ {auth}
  /\ run' = [p \in Processes |->
       IF run[p].stage \in {"before", "replied"} THEN [run[p] EXCEPT !.switched = @ + 1] ELSE run[p]]
  /\ UNCHANGED <<clock, files, flocked, asked, newest>>

Begin(p, r) ==
  /\ run[p].stage = "none" /\ asked < MaxAsked
  /\ asked' = asked + 1
  /\ run' = [run EXCEPT ![p] = r]
  /\ UNCHANGED <<auth, clock, files, flocked, switches, newest>>

(* run: the limits a status line brings are stamped when they are read. *)
Claude(p) ==
  \E l \in Labels : Begin(p, [NoRun EXCEPT !.stage = "stamped", !.label = l, !.name = l,
                                !.reply = [at |-> clock, of |-> None, sure |-> TRUE]])

(* collect_codex: without an account there must be a label. *)
Codex(p) ==
  \E l \in Labels \cup {None} :
    /\ auth # None \/ l # None
    /\ Begin(p, [NoRun EXCEPT !.stage = "before", !.label = l, !.before = auth])

Stops(p) ==
  /\ run' = [run EXCEPT ![p] = NoRun]
  /\ UNCHANGED <<auth, clock, files, flocked, switches, asked, newest>>

(* fetch_codex_with: the server answers for the account it finds, and may  *)
(* or may not name it; or it does not answer.                              *)
Fetch(p) ==
  /\ run[p].stage = "before"
  /\ \/ /\ auth # None
        /\ \E named \in BOOLEAN :
             run' = [run EXCEPT ![p].stage = "replied",
                                ![p].reply = [at |-> 0, of |-> auth, sure |-> named]]
        /\ UNCHANGED <<auth, clock, files, flocked, switches, asked, newest>>
     \/ Stops(p)

(* codex_snapshot: the same account before and after, and the one named *)
Agrees(p) ==
  /\ run[p].before = auth
  /\ run[p].reply.sure /\ run[p].before # None => run[p].reply.of = run[p].before

NameOf(p) == IF run[p].label # None THEN run[p].label ELSE run[p].before

Stamp(p) ==
  /\ run[p].stage = "replied"
  /\ IF Agrees(p) /\ NameOf(p) # None
       THEN /\ run' = [run EXCEPT ![p].stage = "stamped", ![p].name = NameOf(p),
                                 ![p].reply.at = clock]
            /\ UNCHANGED <<auth, clock, files, flocked, switches, asked, newest>>
       ELSE Stops(p)

(* save: one at a time for an account *)
Lock(p) ==
  /\ run[p].stage = "stamped" /\ flocked[run[p].name] = None
  /\ flocked' = [flocked EXCEPT ![run[p].name] = p]
  /\ run' = [run EXCEPT ![p].stage = "locked"]
  /\ UNCHANGED <<auth, clock, files, switches, asked, newest>>

Newer(p) == files[run[p].name].at <= run[p].reply.at

(* A later one that is there already is left. *)
Save(p) ==
  /\ run[p].stage = "locked"
  /\ LET r == run[p]
     IN /\ files' = IF Newer(p)
                      THEN [files EXCEPT ![r.name] = [at |-> r.reply.at, of |-> r.reply.of,
                             sure |-> r.label # None \/ r.reply.sure \/ r.switched < 2]]
                      ELSE files
        /\ newest' = [newest EXCEPT ![r.name] = IF r.reply.at > @ THEN r.reply.at ELSE @]
        /\ flocked' = [flocked EXCEPT ![r.name] = None]
  /\ run' = [run EXCEPT ![p] = NoRun]
  /\ UNCHANGED <<auth, clock, switches, asked>>

(* A process may end at any time: its lock ends with it. *)
Killed(p) ==
  /\ run[p].stage # "none"
  /\ run' = [run EXCEPT ![p] = NoRun]
  /\ flocked' = [a \in Names |-> IF flocked[a] = p THEN None ELSE flocked[a]]
  /\ UNCHANGED <<auth, clock, files, switches, asked, newest>>

UsageNext ==
  \/ Tick \/ SignIn
  \/ \E p \in Processes :
       \/ Claude(p) \/ Codex(p) \/ Fetch(p) \/ Stamp(p) \/ Lock(p) \/ Save(p) \/ Killed(p)

UsageSpec == UsageInit /\ [][UsageNext]_usageVars

-----------------------------------------------------------------------------
(* Properties *)

(* The snapshot of an account is the latest that was saved, in whichever   *)
(* order the processes that read it come to save it.                       *)
NewestSnapshotKept == \A a \in Names : files[a].at = newest[a]

(* The limits shown for an account are that account's, although the user   *)
(* may have signed in to another one while they were read. Two sign-ins    *)
(* during one reading, there and back, and a server that does not name the *)
(* account escape the comparison.                                          *)
SnapshotOfAccount ==
  \A a \in Accounts : files[a].at # 0 /\ files[a].sure => files[a].of = a
=============================================================================

------------------------------- MODULE Account -------------------------------
(***************************************************************************)
(* Who the device is signed in as: config.json, the login Keychain that     *)
(* keeps the device token out of it, the server's list of live tokens, the  *)
(* commands that load, change and save the file, and the running agent that *)
(* reads it again when a command tells it to (config.rs, secret_store.rs,   *)
(* login_cmd.rs, collection_cmd.rs, sink_cmd.rs, repos_cmd.rs, devices_cmd.rs,*)
(* and the reload of agent.rs).  A token is the pair of the organisation it *)
(* was issued for and a number; None is "no value", and the empty string a  *)
(* file holds when the token is in the Keychain.                            *)
(***************************************************************************)
EXTENDS Integers, FiniteSets

CONSTANTS None,
          Orgs,         \* organisations the user may approve
          Buckets,      \* S3 destinations
          Repos,        \* repository patterns
          Offered,      \* kinds of command the user starts
          Commands,     \* commands that may run at the same time
          MaxTokens,    \* tokens the server issues
          MaxBegun,     \* commands the user starts
          MaxLocked,    \* times the Keychain gets locked
          MaxKilled     \* commands killed half-way

VARIABLES file,         \* config.json
          keychain,     \* the device-token item
          locked,       \* the Keychain refuses (over SSH, for example)
          live, issued, \* tokens the server accepts; how many it has issued
          command,      \* the commands under way
          agent,        \* what the running agent works with
          outcome,      \* how the last command that saved ended; history
          begun, lockings, killed

accountVars == <<file, keychain, locked, live, issued, command, agent, outcome,
                 begun, lockings, killed>>

(* The destinations of `collection switch`, which the application confirms.  *)
Switches == {"pause", "resume", "local", "s3", "cloud"}

Nothing == [cloud |-> None, paused |-> FALSE, s3 |-> None, otlp |-> FALSE]
NoCommand == [at |-> "idle"]
Stopped == [at |-> "down", asked |-> FALSE, cloud |-> None, s3 |-> None, otlp |-> FALSE]

Cloud(org, token, repos) == [org |-> org, token |-> token, repos |-> repos]
Plain(c) == c.cloud # None /\ c.cloud.token # None
Idle(p) == command[p].at = "idle"

AccountInit ==
    /\ file = Nothing /\ keychain = None /\ locked = FALSE
    /\ live = {} /\ issued = 0
    /\ command = [p \in Commands |-> NoCommand]
    /\ agent = Stopped /\ outcome = "ok"
    /\ begun = 0 /\ lockings = 0 /\ killed = 0

-----------------------------------------------------------------------------
(* Loading and saving.                                                       *)

(* Mutant of Resolve: the Keychain's before the file's own.                  *)
ResolveKeychain(c) ==
    IF c.cloud = None \/ locked THEN c ELSE [c EXCEPT !.cloud.token = keychain]

(* The token a file stands for: its own, else the Keychain's; none when the
   Keychain cannot be read.                                                  *)
Resolve(c) ==
    IF c.cloud = None \/ Plain(c) \/ locked THEN c
    ELSE [c EXCEPT !.cloud.token = keychain]

(* `load` fills the secrets in, `load_without_secrets` does not: login and
   the switches save what the second returned.                               *)
WithSecrets(kind) == kind \notin {"login"} \cup Switches

(* What the application shows before the user confirms: no credential.       *)
Describe(c) ==
    [cloud |-> IF c.cloud = None THEN None ELSE
                   [org |-> c.cloud.org, repos |-> c.cloud.repos, synced |-> ~c.paused],
     s3 |-> c.s3]

To(p, at) == command' = [command EXCEPT ![p].at = at]
Done(p) == command' = [command EXCEPT ![p] = NoCommand]
Keep(p, at, c) == command' = [command EXCEPT ![p].at = at, ![p].cfg = c]

(* The server issues a token for an organisation the user approves.          *)
Approved(token) ==
    /\ issued < MaxTokens
    /\ token[2] = issued + 1
    /\ issued' = issued + 1 /\ live' = live \cup {token}
Tokens == Orgs \X (1..MaxTokens)

(* A command starts.  The application has the description it showed and, for
   `cloud`, a token the user has just authorised.                            *)
Begin(p, kind) ==
    /\ Idle(p) /\ begun < MaxBegun
    /\ begun' = begun + 1
    /\ \E t \in Tokens, b \in Buckets, r \in Repos :
          /\ IF kind = "cloud" THEN Approved(t) ELSE UNCHANGED <<live, issued>>
          /\ command' = [command EXCEPT ![p] =
              [at |-> "load", kind |-> kind, cfg |-> Nothing, old |-> None,
               expected |-> IF kind \in Switches THEN Describe(file) ELSE Describe(Nothing),
               token |-> IF kind = "cloud" THEN t ELSE None,
               org |-> IF kind \in {"login", "cloud"} THEN t[1] ELSE None,
               bucket |-> IF kind \in {"s3", "add s3"} THEN b ELSE None,
               repo |-> IF kind \in {"allow", "forget"} THEN r ELSE None]]
    /\ UNCHANGED <<file, keychain, locked, agent, outcome, lockings, killed>>

(* The file is read; a token an older version left in it in plain text moves
   to the Keychain first, when that can be written.                          *)
Load(p) ==
    /\ command[p].at = "load"
    /\ IF WithSecrets(command[p].kind)
       THEN IF Plain(file) /\ ~locked THEN Keep(p, "move", file)
            ELSE Keep(p, "change", Resolve(file))
       ELSE Keep(p, "change", file)
    /\ UNCHANGED <<file, keychain, locked, live, issued, agent, outcome, begun, lockings, killed>>

MoveSecret(p) ==
    /\ command[p].at = "move"
    /\ keychain' = IF locked THEN keychain ELSE command[p].cfg.cloud.token
    /\ To(p, IF locked THEN "change" ELSE "moved")
    /\ UNCHANGED <<file, locked, live, issued, agent, outcome, begun, lockings, killed>>

MoveWritten(p) ==
    /\ command[p].at = "moved"
    /\ file' = [command[p].cfg EXCEPT !.cloud.token = None]
    /\ To(p, "change")
    /\ UNCHANGED <<keychain, locked, live, issued, agent, outcome, begun, lockings, killed>>

-----------------------------------------------------------------------------
(* What each command makes of what it loaded; `nothing to do` ends it.       *)

Change(p, c) == Keep(p, "set", c)

(* Up to thirty polls until the user approves: the server issues a token; or
   refuses, expires or is not reached, and nothing is saved.                 *)
LoginAnswered(p) ==
    /\ command[p].at = "change" /\ command[p].kind = "login"
    /\ LET c == command[p].cfg
           repos == IF c.cloud = None THEN {} ELSE c.cloud.repos
       IN \/ \E t \in Tokens :
                /\ t[1] = command[p].org /\ Approved(t)
                /\ Change(p, [c EXCEPT !.paused = FALSE, !.cloud = Cloud(t[1], t, repos)])
          \/ Done(p) /\ UNCHANGED <<issued, live>>
    /\ UNCHANGED <<file, keychain, locked, agent, outcome, begun, lockings, killed>>

(* `collection switch` first compares what it loaded with what the user saw. *)
Switched(q, c) ==
    CASE q.kind \in {"pause", "resume"} -> [c EXCEPT !.paused = q.kind = "pause"]
      [] q.kind \in {"local", "s3"} -> [c EXCEPT !.paused = FALSE, !.cloud = None, !.s3 = q.bucket]
      [] q.kind = "cloud" -> [c EXCEPT !.paused = FALSE, !.cloud = Cloud(q.org, q.token, {})]

Switch(p) ==
    /\ command[p].at = "change" /\ command[p].kind \in Switches
    /\ LET q == command[p]
           refused == \/ Describe(q.cfg) # q.expected
                      \/ (q.kind \in {"pause", "resume"} /\ q.cfg.cloud = None)
       IN IF refused THEN Done(p) ELSE Change(p, Switched(q, q.cfg))
    /\ UNCHANGED <<file, keychain, locked, live, issued, agent, outcome, begun, lockings, killed>>

(* The other commands; signing out keeps what it will revoke.                *)
Edited(kind, c, bucket, repo) ==
    CASE kind = "logout" -> [c EXCEPT !.cloud = None]
      [] kind = "add s3" -> [c EXCEPT !.s3 = bucket]
      [] kind = "remove s3" -> [c EXCEPT !.s3 = None]
      [] kind = "allow" /\ c.cloud # None -> [c EXCEPT !.cloud.repos = @ \cup {repo}]
      [] kind = "forget" /\ c.cloud # None -> [c EXCEPT !.cloud.repos = @ \ {repo}]
      [] kind = "init" -> [c EXCEPT !.otlp = TRUE]
      [] OTHER -> c

(* Adding a bucket and `init` save even what is already there.               *)
Edit(p) ==
    /\ command[p].at = "change"
    /\ command[p].kind \notin {"login", "revoke"} \cup Switches
    /\ LET c == command[p].cfg
           edited == Edited(command[p].kind, c, command[p].bucket, command[p].repo)
       IN IF edited = c /\ command[p].kind \notin {"add s3", "init"} THEN Done(p)
          ELSE command' = [command EXCEPT ![p].at = "set", ![p].cfg = edited,
                                          ![p].old = c.cloud]
    /\ UNCHANGED <<file, keychain, locked, live, issued, agent, outcome, begun, lockings, killed>>

(* `devices revoke`: any device of the account, when the caller's own token
   still counts.                                                             *)
RevokeDevice(p) ==
    /\ command[p].at = "change" /\ command[p].kind = "revoke"
    /\ LET c == command[p].cfg IN
       IF c.cloud # None /\ c.cloud.token \in live
       THEN \E t \in live : live' = live \ {t}
       ELSE UNCHANGED live
    /\ Done(p)
    /\ UNCHANGED <<file, keychain, locked, issued, agent, outcome, begun, lockings, killed>>

-----------------------------------------------------------------------------
(* `save_to`: the Keychain first, then the file, then the items nothing in
   the file stands for any more.                                             *)
SetSecret(p) ==
    /\ command[p].at = "set"
    /\ LET c == command[p].cfg
           stored == IF Plain(c) /\ ~locked THEN [c EXCEPT !.cloud.token = None] ELSE c
       IN /\ keychain' = IF stored # c THEN c.cloud.token ELSE keychain
          /\ Keep(p, "write", stored)
    /\ UNCHANGED <<file, locked, live, issued, agent, outcome, begun, lockings, killed>>

WriteFile(p) ==
    /\ command[p].at = "write"
    /\ file' = command[p].cfg
    /\ To(p, "delete")
    /\ UNCHANGED <<keychain, locked, live, issued, agent, outcome, begun, lockings, killed>>

(* Signing in or out writes both stores anew, whatever a kill has left.      *)
SetsAccount(kind) == kind \in {"login", "logout", "local", "s3", "cloud"}

(* A Keychain that refuses to delete ends the command here, with an error.   *)
DeleteSecret(p) ==
    /\ command[p].at = "delete"
    /\ LET gone == command[p].cfg.cloud = None IN
       /\ keychain' = IF gone /\ ~locked THEN None ELSE keychain
       /\ IF gone /\ locked THEN Done(p) /\ outcome' = "failed"
          ELSE /\ To(p, "notify")
               /\ outcome' = IF outcome = "killed" /\ ~SetsAccount(command[p].kind)
                             THEN outcome ELSE "ok"
    /\ UNCHANGED <<file, locked, live, issued, agent, begun, lockings, killed>>

Notify(p) ==
    /\ command[p].at = "notify"
    /\ agent' = IF agent.at = "down" THEN agent ELSE [agent EXCEPT !.asked = TRUE]
    /\ IF command[p].kind = "logout" THEN To(p, "revoke") ELSE Done(p)
    /\ UNCHANGED <<file, keychain, locked, live, issued, outcome, begun, lockings, killed>>

(* Signing out tells the server last, and does not mind when it cannot.      *)
RevokeOld(p) ==
    /\ command[p].at = "revoke"
    /\ \/ live' = live \ {command[p].old.token}
       \/ UNCHANGED live
    /\ Done(p)
    /\ UNCHANGED <<file, keychain, locked, issued, agent, outcome, begun, lockings, killed>>

-----------------------------------------------------------------------------
(* The agent, the Keychain and the end of a command that is killed.          *)

(* What uploads work with: a paused account and a token that cannot be read
   leave the agent without one.                                              *)
Loaded(at) ==
    LET c == Resolve(file) IN
    [at |-> at, asked |-> FALSE, otlp |-> c.otlp, s3 |-> c.s3,
     cloud |-> IF c.cloud = None \/ c.paused THEN None
               ELSE [org |-> c.cloud.org, token |-> c.cloud.token]]

(* The control socket is bound before the file is read, so what is told in
   between is read again.                                                    *)
AgentStarts ==
    /\ agent.at = "down"
    /\ agent' = [Stopped EXCEPT !.at = "starting"]
    /\ UNCHANGED <<file, keychain, locked, live, issued, command, outcome, begun, lockings, killed>>

AgentLoads ==
    /\ agent.at = "starting"
    /\ agent' = [Loaded("up") EXCEPT !.asked = agent.asked]
    /\ UNCHANGED <<file, keychain, locked, live, issued, command, outcome, begun, lockings, killed>>

AgentReloads ==
    /\ agent.at = "up" /\ agent.asked
    /\ agent' = Loaded("up")
    /\ UNCHANGED <<file, keychain, locked, live, issued, command, outcome, begun, lockings, killed>>

AgentStops ==
    /\ agent.at # "down"
    /\ agent' = Stopped
    /\ UNCHANGED <<file, keychain, locked, live, issued, command, outcome, begun, lockings, killed>>

KeychainLocks ==
    /\ IF locked THEN lockings' = lockings ELSE lockings < MaxLocked /\ lockings' = lockings + 1
    /\ locked' = ~locked
    /\ UNCHANGED <<file, keychain, live, issued, command, agent, outcome, begun, killed>>

Killed(p) ==
    /\ ~Idle(p) /\ killed < MaxKilled
    /\ killed' = killed + 1 /\ Done(p)
    /\ outcome' = IF command[p].at \in {"write", "delete", "notify"} THEN "killed" ELSE outcome
    /\ UNCHANGED <<file, keychain, locked, live, issued, agent, begun, lockings>>

AccountNext ==
    \/ \E p \in Commands :
          \/ \E kind \in Offered : Begin(p, kind)
          \/ Load(p) \/ MoveSecret(p) \/ MoveWritten(p)
          \/ LoginAnswered(p) \/ Switch(p) \/ Edit(p) \/ RevokeDevice(p)
          \/ SetSecret(p) \/ WriteFile(p) \/ DeleteSecret(p) \/ Notify(p) \/ RevokeOld(p)
          \/ Killed(p)
    \/ AgentStarts \/ AgentLoads \/ AgentReloads \/ AgentStops \/ KeychainLocks

AccountSpec == AccountInit /\ [][AccountNext]_accountVars

-----------------------------------------------------------------------------
(* No command under way; and of one that was killed between the two stores,
   or before it told the agent, nothing is left: the user has signed in or
   out since.                                                                *)
Quiet == outcome # "killed" /\ \A p \in Commands : Idle(p)

(* With no command under way, the token the file stands for is its own
   organisation's, and a device that is signed out keeps none: not in the
   file, and not in the Keychain unless the command said it failed.  The two
   stores are written one after the other, a locked Keychain turns the first
   write into a plain-text one and an unlocked one moves it back later.       *)
AccountIsWhole ==
    Quiet => /\ LET c == Resolve(file) IN Plain(c) => c.cloud.token[1] = c.cloud.org
             /\ (file.cloud = None /\ outcome = "ok") => keychain = None

(* A running agent that has read what it was told uploads where the file
   says, with a token of that organisation or none: neither a start that
   overlaps a command nor a Keychain locked while it reads leaves it at a
   former destination.                                                       *)
AgentFollows ==
    (Quiet /\ agent.at = "up" /\ ~agent.asked /\ outcome = "ok") =>
        /\ agent.s3 = file.s3 /\ agent.otlp = file.otlp
        /\ IF file.cloud = None \/ file.paused THEN agent.cloud = None
           ELSE /\ agent.cloud # None /\ agent.cloud.org = file.cloud.org
                /\ agent.cloud.token # None => agent.cloud.token[1] = file.cloud.org
=============================================================================

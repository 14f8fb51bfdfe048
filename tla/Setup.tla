-------------------------------- MODULE Setup --------------------------------
(***************************************************************************)
(* `kikimimi init` and `kikimimi uninstall`: the hooks and the environment  *)
(* they write into Claude Code's settings.json, the `[otel]` table of Codex,*)
(* and the port and token config.json keeps for the receiver (init_cmd.rs,  *)
(* claude_settings.rs, codex_otel.rs).  One hook event stands for the eight,*)
(* which the code treats alike; `Switch` stands for the four variables whose*)
(* value is fixed.  The files belong to the user as well, who edits them    *)
(* between two commands.                                                     *)
(***************************************************************************)
EXTENDS SequencesExt, Integers, FiniteSets

CONSTANTS None,
          Ports,       \* ports the receiver may be given; the first is 1
          MaxBegun,    \* commands the user starts
          MaxEdits,    \* edits the user makes
          MaxMerged,   \* edits that put two hooks into one entry
          MaxKilled,   \* commands killed half-way
          MaxFailed    \* writes of Codex's file that fail

VARIABLES settings,    \* settings.json: its entries for the event and its environment
          codexFile,   \* Codex's `[otel]`
          config,      \* the port and the token of config.json
          taken,       \* ports a foreign process holds
          daemon,      \* the port the running daemon reports, or None
          doing,       \* the command under way
          issued,      \* tokens made so far
          ended,       \* the last command that ran to its end
          wanted,      \* the user's own hooks, in their order
          edits, merged, crashed, unwritten, started

setupVars == <<settings, codexFile, config, taken, daemon, doing, issued, ended,
               wanted, edits, merged, crashed, unwritten, started>>

DefaultPort == 1
Keys == {"switch", "endpoint", "headers"}

(* A command of a hook entry: kikimimi's by name, kikimimi's by its absolute
   path, kikimimi's with a flag the user added, the former name, the user's. *)
Bare == "kikimimi hook"
Absolute == "/app/kikimimi hook"
Flagged == "kikimimi hook --quiet"
Legacy == "guru hook"
Own == {"own 1", "own 2"}

(* Values of the environment; the user's own is <<"own", 0>>.               *)
On == <<"on", 0>>
UserValue == <<"own", 0>>
Endpoint(port) == <<"localhost", port>>
Bearer(token) == <<"bearer", token>>

Resting == [at |-> "idle"]

SetupInit ==
    /\ \E hooks \in {<<>>, <<{"own 1"}>>, <<{Legacy}, {"own 1"}>>, <<{"own 1"}, {Flagged}>>} :
          /\ settings = [hooks |-> hooks, env |-> [k \in Keys |-> None]]
          /\ wanted = SelectSeq(hooks, LAMBDA e : e \subseteq Own)
    /\ codexFile \in {None, [by |-> "own", port |-> 0, token |-> 0]}
    /\ config = [port |-> None, token |-> None]
    /\ taken \in {{}, {DefaultPort}} /\ daemon = None
    /\ doing = Resting /\ issued = 0 /\ ended = "none"
    /\ edits = 0 /\ merged = 0 /\ crashed = 0 /\ unwritten = 0 /\ started = 0

-----------------------------------------------------------------------------
(* settings.json.                                                            *)

(* `entry_has_kikimimi_hook` and `entry_has_legacy_guru_hook`: what an entry
   holds, whatever else it holds.                                            *)
HasKikimimi(entry) == entry \cap {Bare, Absolute, Flagged} # {}
HasLegacy(entry) == Legacy \in entry

Without(hooks, Test(_)) == SelectSeq(hooks, LAMBDA e : ~Test(e))

(* An event that has the hook is left alone; else the former name's entries
   go and the hook is added last.  An application names its own executable in
   the commands generated, and in no other.                                  *)
WithHook(hooks, executable) ==
    LET added == IF \E i \in 1..Len(hooks) : HasKikimimi(hooks[i]) THEN hooks
                 ELSE Append(Without(hooks, HasLegacy), {Bare})
        Renamed(entry) == IF entry \cap {Bare, Absolute} = {} THEN entry
                          ELSE (entry \ {Bare, Absolute}) \cup {Absolute}
    IN IF executable THEN [i \in 1..Len(added) |-> Renamed(added[i])] ELSE added

(* `uninstall`: every entry with either name.                                *)
HasEither(entry) == HasKikimimi(entry) \/ HasLegacy(entry)
WithoutHook(hooks) == Without(hooks, HasEither)

Expected(port, token) ==
    [k \in Keys |-> CASE k = "switch" -> On
                      [] k = "endpoint" -> Endpoint(port)
                      [] k = "headers" -> IF token = None THEN None ELSE Bearer(token)]

(* `previous_endpoint`: what an earlier init wrote for a port now given up.  *)
Stale(port) ==
    LET previous == IF config.port = None THEN DefaultPort ELSE config.port
    IN IF previous # port THEN Endpoint(previous) ELSE None

(* Mutant of WithEnv: an endpoint stays at the port it was given first.      *)
WithEnvOnce(env, port, token) ==
    [k \in Keys |-> IF env[k] = None THEN Expected(port, token)[k] ELSE env[k]]

(* What is missing is set; an endpoint kikimimi itself wrote follows its port;
   any other value is the user's.                                            *)
WithEnv(env, port, token) ==
    [k \in Keys |-> IF \/ env[k] = None
                       \/ (k = "endpoint" /\ env[k] = Stale(port))
                    THEN Expected(port, token)[k] ELSE env[k]]

(* Removed are the values init would write with the port and token known now. *)
WithoutEnv(env) ==
    LET port == IF config.port = None THEN DefaultPort ELSE config.port
    IN [k \in Keys |-> IF env[k] = Expected(port, config.token)[k] THEN None ELSE env[k]]

(* The port preferred is kept when it is free, or held by this very daemon.  *)
Preferred == IF config.port = None THEN DefaultPort ELSE config.port
PortsFor == IF daemon = Preferred \/ Preferred \notin taken THEN {Preferred}
            ELSE Ports \ taken

(* Codex's table is rewritten when it is kikimimi's, and left alone otherwise. *)
Otel(port, token) == [by |-> "kikimimi", port |-> port, token |-> token]
WithOtel(table, port, token) ==
    IF table # None /\ table.by = "own" THEN table ELSE Otel(port, token)
WithoutOtel(table) == IF table # None /\ table.by = "kikimimi" THEN None ELSE table

-----------------------------------------------------------------------------
(* The two commands, a step per file they write.                             *)

(* Everything is read and decided first.  The token is the one config.json
   has, or a new one.                                                        *)
InitPlans ==
    /\ doing = Resting /\ started < MaxBegun
    /\ started' = started + 1
    /\ \E port \in PortsFor, executable \in BOOLEAN :
          LET token == IF config.token = None THEN issued + 1 ELSE config.token IN
          /\ issued' = IF config.token = None THEN issued + 1 ELSE issued
          /\ doing' = [at |-> "settings", port |-> port, token |-> token, purge |-> FALSE,
                       command |-> "init",
                       otel |-> WithOtel(codexFile, port, token),
                       settings |-> [hooks |-> WithHook(settings.hooks, executable),
                                     env |-> WithEnv(settings.env, port, token)]]
    /\ UNCHANGED <<settings, codexFile, config, taken, daemon, ended, wanted, edits, merged, crashed, unwritten>>

UninstallPlans ==
    /\ doing = Resting /\ started < MaxBegun
    /\ started' = started + 1
    /\ \E purge \in BOOLEAN :
          doing' = [at |-> "settings", port |-> None, token |-> None, purge |-> purge,
                    command |-> "uninstall",
                    otel |-> WithoutOtel(codexFile),
                    settings |-> [hooks |-> WithoutHook(settings.hooks),
                                  env |-> WithoutEnv(settings.env)]]
    /\ UNCHANGED <<settings, codexFile, config, taken, daemon, issued, ended, wanted, edits, merged, crashed, unwritten>>

WritesSettings ==
    /\ doing.at = "settings"
    /\ settings' = doing.settings
    /\ doing' = [doing EXCEPT !.at = "codex"]
    /\ UNCHANGED <<codexFile, config, taken, daemon, issued, ended, wanted, edits, merged, crashed, unwritten, started>>

(* A table Codex will not let be written ends an uninstall, and is only
   reported by init.                                                         *)
WritesCodex ==
    /\ doing.at = "codex"
    /\ \/ /\ codexFile' = doing.otel
          /\ doing' = [doing EXCEPT !.at = "config"]
          /\ UNCHANGED <<unwritten, ended>>
       \/ /\ doing.otel # codexFile /\ unwritten < MaxFailed
          /\ unwritten' = unwritten + 1 /\ UNCHANGED codexFile
          /\ IF doing.command = "init"
             THEN doing' = [doing EXCEPT !.at = "config"] /\ UNCHANGED ended
             ELSE doing' = Resting /\ ended' = "none"
    /\ UNCHANGED <<settings, config, taken, daemon, issued, wanted, edits, merged, crashed, started>>

(* The port and the token are saved last, and the running daemon is told.
   Purging removes the whole directory.                                      *)
SavesConfig ==
    /\ doing.at = "config"
    /\ config' = IF doing.command = "init" THEN [port |-> doing.port, token |-> doing.token]
                 ELSE IF doing.purge THEN [port |-> None, token |-> None] ELSE config
    /\ ended' = doing.command
    /\ doing' = Resting
    /\ UNCHANGED <<settings, codexFile, taken, daemon, issued, wanted, edits, merged, crashed, unwritten, started>>

SetupKilled ==
    /\ doing # Resting /\ crashed < MaxKilled
    /\ crashed' = crashed + 1
    /\ doing' = Resting /\ ended' = "none"
    /\ UNCHANGED <<settings, codexFile, config, taken, daemon, issued, wanted, edits, merged, unwritten, started>>

(* Collection resumed from the application writes Codex's table alone.       *)
EnsureCodex ==
    /\ doing = Resting /\ started < MaxBegun /\ config.token # None
    /\ started' = started + 1
    /\ codexFile' = WithOtel(codexFile, Preferred, config.token)
    /\ ended' = IF ended = "uninstall" THEN "none" ELSE ended
    /\ UNCHANGED <<settings, config, taken, daemon, doing, issued, wanted, edits, merged, crashed, unwritten>>

-----------------------------------------------------------------------------
(* The user, other programs, and the daemon.                                 *)

Edited ==
    /\ doing = Resting /\ edits < MaxEdits
    /\ edits' = edits + 1
    /\ \/ \E own \in Own : (* a hook of their own, first or last *)
             /\ \A i \in 1..Len(settings.hooks) : own \notin settings.hooks[i]
             /\ \/ /\ settings' = [settings EXCEPT !.hooks = Append(@, {own})]
                   /\ wanted' = Append(wanted, {own})
                \/ /\ settings' = [settings EXCEPT !.hooks = <<{own}>> \o @]
                   /\ wanted' = <<{own}>> \o wanted
             /\ UNCHANGED <<codexFile, merged>>
       \/ /\ \E own \in Own, i \in 1..Len(settings.hooks) : (* in an entry that is there *)
             /\ \A j \in 1..Len(settings.hooks) : own \notin settings.hooks[j]
             /\ settings' = [settings EXCEPT !.hooks[i] = @ \cup {own}]
             /\ wanted' = SelectSeq([j \in 1..Len(settings'.hooks) |-> settings'.hooks[j] \cap Own],
                                    LAMBDA e : e # {})
          /\ merged < MaxMerged /\ merged' = merged + 1
          /\ UNCHANGED codexFile
       \/ \E k \in Keys : (* a variable of their own *)
             /\ settings' = [settings EXCEPT !.env[k] = UserValue]
             /\ UNCHANGED <<codexFile, wanted, merged>>
       \/ /\ codexFile' = [by |-> "own", port |-> 0, token |-> 0]
          /\ UNCHANGED <<settings, wanted, merged>>
    /\ UNCHANGED <<config, taken, daemon, doing, issued, ended, crashed, unwritten, started>>

(* The daemon binds the port it is given when nobody else has it.            *)
DaemonStarts ==
    /\ daemon = None /\ Preferred \notin taken
    /\ daemon' = Preferred
    /\ UNCHANGED <<settings, codexFile, config, taken, doing, issued, ended, wanted, edits, merged, crashed, unwritten, started>>

DaemonStops ==
    /\ daemon # None
    /\ daemon' = None
    /\ UNCHANGED <<settings, codexFile, config, taken, doing, issued, ended, wanted, edits, merged, crashed, unwritten, started>>

PortTaken ==
    /\ taken = {} /\ edits < MaxEdits
    /\ edits' = edits + 1
    /\ \E port \in Ports : daemon # port /\ taken' = {port}
    /\ UNCHANGED <<settings, codexFile, config, daemon, doing, issued, ended, wanted, merged, crashed, unwritten, started>>

SetupNext ==
    \/ InitPlans \/ UninstallPlans \/ WritesSettings \/ WritesCodex \/ SavesConfig
    \/ SetupKilled \/ EnsureCodex \/ Edited \/ DaemonStarts \/ DaemonStops \/ PortTaken

SetupSpec == SetupInit /\ [][SetupNext]_setupVars

-----------------------------------------------------------------------------
OwnHooks == SelectSeq([i \in 1..Len(settings.hooks) |-> settings.hooks[i] \cap Own],
                      LAMBDA e : e # {})

(* The user's own hooks are never deleted nor put in another order, whatever
   is installed, upgraded from the former name or removed.                   *)
UserHooksKept == OwnHooks = wanted

(* The same of hooks that have an entry of their own, with a command killed
   half-way as well.                                                         *)
UserHooksSurvive == merged = 0 => UserHooksKept

(* Once init has ended, every event runs kikimimi once, by one name; and what
   the exporters were given is what the receiver is configured for: the port
   of config.json, and its token, unless the user set a value of their own or
   Codex's file could not be written.  A port that had to move, a token made
   by an earlier run and an uninstall in between do not part the two.        *)
ExportersMeetReceiver ==
    (ended = "init" /\ doing = Resting /\ crashed = 0) =>
        /\ Cardinality({i \in 1..Len(settings.hooks) : HasEither(settings.hooks[i])}) = 1
        /\ \A k \in Keys \ {"switch"} :
              settings.env[k] \in {UserValue, Expected(config.port, config.token)[k]}
        /\ (codexFile # None /\ unwritten = 0 /\ codexFile.by = "kikimimi") =>
              codexFile = Otel(config.port, config.token)

(* Once uninstall has ended nothing of kikimimi's is left behind: no hook by
   either name, no table of its own, and no variable init wrote unless a
   command was killed before it saved what it wrote.                         *)
NothingLeftBehind ==
    (ended = "uninstall" /\ doing = Resting) =>
        /\ \A i \in 1..Len(settings.hooks) : ~HasEither(settings.hooks[i])
        /\ crashed = 0 => \A k \in Keys : settings.env[k] \in {None, UserValue}
        /\ codexFile = None \/ codexFile.by = "own"
=============================================================================

------------------------------ MODULE Lifecycle ------------------------------
(***************************************************************************)
(* Which collector runs, and of which version: the agent's start and stop   *)
(* (agent.rs, daemonize.rs), the service manager that keeps it running and  *)
(* the commands that register, restart and remove it (service.rs,           *)
(* desktop_cmd.rs, init_cmd.rs), self-update (self_update_cmd.rs,           *)
(* update.rs), and the desktop application that updates itself, recovers    *)
(* after a crash and opens saved history (updates.rs, update_flow.rs,       *)
(* update_bundle.rs, main.rs, dashboard.rs).  There are two executables:    *)
(* the application's bundle, "app", and the installed command line, "cli".  *)
(***************************************************************************)
EXTENDS Integers, FiniteSets

CONSTANTS None,
          Managers,    \* service managers of the machines considered
          MaxVersion,  \* releases of each executable
          MaxBegun,    \* operations the user begins
          MaxStarts,   \* collectors started by hand
          MaxBroken    \* crashes, kills and reboots

VARIABLES manager,     \* "launchd" or "systemd"
          disk,        \* version of each executable on disk
          unit,        \* executable the plist or unit file names
          job,         \* what the service manager has registered
          agents,      \* the two possible collector processes
          socket,      \* who listens at the control socket's path
          holder,      \* who has the event database open
          saved,       \* the process state.json names
          marker,      \* the file update-pending exists
          viewer,      \* the application's history viewer
          proc,        \* the application's operation and the command line's
          open,        \* the application runs
          told, raced, slipped,  \* history: see the properties
          begun, started, broken

lifeVars == <<manager, disk, unit, job, agents, socket, holder, saved, marker, viewer,
              proc, open, told, raced, slipped, begun, started, broken>>
fixed == <<manager, begun, started, broken>>

Slots == {"service", "manual"}
Exes == {"app", "cli"}
Gone == [at |-> "none", exe |-> "cli", version |-> 0]
Idle == [kind |-> "none", at |-> "idle", pid |-> None, swapped |-> FALSE]
Resting(w) == proc[w].kind = "none"

Starting == {"probe", "bind", "open", "begin"}
Alive(s) == agents[s].at # "none"
(* `send_control(b'n')`: connecting succeeds as soon as a process has bound
   the path, whatever it is doing.                                           *)
Answers == socket \in Slots

LifeInit ==
    /\ manager \in Managers
    /\ disk = [e \in Exes |-> 1]
    /\ unit = None /\ job = None
    /\ agents = [s \in Slots |-> Gone]
    /\ socket = None /\ holder = None /\ saved = None
    /\ marker = FALSE /\ viewer = "none"
    /\ proc = [w \in Exes |-> Idle] /\ open = FALSE
    /\ told = FALSE /\ raced = FALSE /\ slipped = {}
    /\ begun = 0 /\ started = 0 /\ broken = 0

-----------------------------------------------------------------------------
(* The collector.                                                            *)

Exec(s, exe) ==
    agents' = [agents EXCEPT ![s] = [at |-> "probe", exe |-> exe, version |-> disk[exe]]]

(* The process ends.  A clean end removes the socket's path, whoever bound it
   last; the manager starts its job again after any other end.               *)
Ended(s, clean) ==
    /\ agents' = [agents EXCEPT ![s] = Gone]
    /\ socket' = IF clean THEN None ELSE IF socket = s THEN "dead" ELSE socket
    /\ holder' = IF holder = s THEN None ELSE holder
    /\ saved' = IF saved = s THEN "stale" ELSE saved
    /\ job' = IF s # "service" \/ job = None THEN job
              ELSE IF job.leaving THEN None
              ELSE [job EXCEPT !.due = @ \/ ~clean]
Released(s) == [w \in Exes |-> IF proc[w].pid = s THEN [proc[w] EXCEPT !.pid = None] ELSE proc[w]]
Dies(s, clean) == Ended(s, clean) /\ proc' = Released(s)

(* The manager starts the job it has registered.                             *)
JobStarts ==
    /\ job # None /\ job.due /\ ~job.leaving /\ ~Alive("service")
    /\ Exec("service", job.exe)
    /\ job' = [job EXCEPT !.due = FALSE]
    /\ UNCHANGED <<disk, unit, socket, holder, saved, marker, viewer, proc, open, told, raced, slipped, fixed>>

(* `kikimimi agent &`: the launcher forks twice and the grandchild runs.     *)
StartByHand ==
    /\ ~Alive("manual") /\ started < MaxStarts
    /\ started' = started + 1
    /\ Exec("manual", "cli")
    /\ UNCHANGED <<manager, disk, unit, job, socket, holder, saved, marker, viewer, proc, open, told, raced, slipped, begun, broken>>

(* Mutant of Welcome: a second instance takes the socket over.               *)
WelcomeAny(s) == TRUE

(* Someone answers at the socket: this is a second instance, and it ends.    *)
Welcome(s) == ~Answers
Probe(s) ==
    /\ agents[s].at = "probe"
    /\ IF Welcome(s)
       THEN /\ agents' = [agents EXCEPT ![s].at = "bind"]
            /\ UNCHANGED <<job, socket, holder, saved, proc>>
       ELSE Dies(s, FALSE)
    /\ UNCHANGED <<disk, unit, marker, viewer, open, told, raced, slipped, fixed>>

(* The path is removed, whatever it is, and bound.  Another collector that has
   probed before and not bound yet will do the same to this one.             *)
Bind(s) ==
    /\ agents[s].at = "bind"
    /\ raced' = (raced \/ \E other \in Slots \ {s} : agents[other].at = "bind")
    /\ socket' = s
    /\ agents' = [agents EXCEPT ![s].at = "open"]
    /\ UNCHANGED <<disk, unit, job, holder, saved, marker, viewer, proc, open, told, slipped, fixed>>

(* The event database opens for one process at a time.                       *)
OpenLedger(s) ==
    /\ agents[s].at = "open"
    /\ IF holder = None
       THEN /\ agents' = [agents EXCEPT ![s].at = "begin"] /\ holder' = s
            /\ UNCHANGED <<job, socket, saved, proc>>
       ELSE Dies(s, FALSE)
    /\ UNCHANGED <<disk, unit, marker, viewer, open, told, raced, slipped, fixed>>

(* state.json names the process from now on (agent.rs:239), and SIGTERM is   *)
(* handled (agent.rs:268): one step here. A SIGTERM between the two kills    *)
(* the named process as Crash does, with state.json saved and nothing ended. *)
Begun(s) ==
    /\ agents[s].at = "begin"
    /\ agents' = [agents EXCEPT ![s].at = "up"] /\ saved' = s
    /\ UNCHANGED <<disk, unit, job, socket, holder, marker, viewer, proc, open, told, raced, slipped, fixed>>

(* The last drain and flush, and the end.                                    *)
Finish(s) ==
    /\ agents[s].at = "ending"
    /\ Dies(s, TRUE)
    /\ UNCHANGED <<disk, unit, marker, viewer, open, told, raced, slipped, fixed>>

Crash(s) ==
    /\ Alive(s) /\ broken < MaxBroken /\ broken' = broken + 1
    /\ Dies(s, FALSE)
    /\ UNCHANGED <<manager, disk, unit, marker, viewer, open, told, raced, slipped, begun, started>>

-----------------------------------------------------------------------------
(* Operations: one of the application, which its mutex admits one at a time,
   and one of the command line.                                              *)

Goto(w, at) == proc' = [proc EXCEPT ![w].at = at]
(* An operation ends well; or with an error, which the user is shown; an
   update that fails leaves its marker instead.                              *)
Succeed(w) == proc' = [proc EXCEPT ![w] = Idle] /\ UNCHANGED told
Updates == {"update", "recover"}
Fail(w) ==
    /\ proc' = [proc EXCEPT ![w] = Idle]
    /\ told' = (told \/ proc[w].kind \notin Updates)

First(kind) == CASE kind \in {"enable", "resume"} -> "close"
                 [] kind \in Updates -> "recover"
                 [] kind = "install" -> "stop"
                 [] kind = "self-update" -> "fetch"
                 [] kind = "uninstall" -> "unload"
Offers(w) == IF w = "app" THEN {"enable", "resume", "update", "uninstall"}
                          ELSE {"install", "self-update", "uninstall"}
Begin(w, kind) ==
    /\ Resting(w) /\ begun < MaxBegun /\ (w = "app" => open)
    /\ begun' = begun + 1
    /\ proc' = [proc EXCEPT ![w] = [Idle EXCEPT !.kind = kind, !.at = First(kind)]]
    /\ told' = (told /\ kind \notin {"enable", "install"})
    /\ UNCHANGED <<manager, disk, unit, job, agents, socket, holder, saved, marker, viewer, open, raced, slipped, started, broken>>

(* The application starts and, before anything else, recovers.               *)
Launch ==
    /\ ~open /\ manager = "launchd"
    /\ open' = TRUE
    /\ proc' = [proc EXCEPT !["app"] = [Idle EXCEPT !.kind = "recover", !.at = "recover"]]
    /\ UNCHANGED <<disk, unit, job, agents, socket, holder, saved, marker, viewer, told, raced, slipped, fixed>>

(* An update a crash interrupted after the swap is finished first.           *)
Recover(w) ==
    /\ proc[w].at = "recover"
    /\ IF marker THEN Goto(w, "restart") /\ UNCHANGED told
       ELSE IF proc[w].kind = "update" THEN Goto(w, "check") /\ UNCHANGED told ELSE Succeed(w)
    /\ UNCHANGED <<disk, unit, job, agents, socket, holder, saved, marker, viewer, open, raced, slipped, fixed>>

(* A verified newer release has been downloaded, or there is none.           *)
Check(w) ==
    /\ proc[w].at = "check"
    /\ \/ disk["app"] < MaxVersion /\ Goto(w, "mark") /\ UNCHANGED told
       \/ Succeed(w)
       \/ Fail(w)
    /\ UNCHANGED <<disk, unit, job, agents, socket, holder, saved, marker, viewer, open, raced, slipped, fixed>>

Mark(w) ==
    /\ proc[w].at = "mark"
    /\ marker' = TRUE /\ Goto(w, "swap")
    /\ UNCHANGED <<disk, unit, job, agents, socket, holder, saved, viewer, open, told, raced, slipped, fixed>>

(* The unpacked bundle is the expected application, of that version, whole,
   executable and signed: it takes the old one's place in one rename.        *)
Swap(w) ==
    /\ proc[w].at = "swap"
    /\ \/ /\ disk' = [disk EXCEPT !["app"] = @ + 1]
          /\ proc' = [proc EXCEPT ![w].at = "restart", ![w].swapped = TRUE]
       \/ /\ proc' = [proc EXCEPT ![w].at = "unmark", ![w].swapped = TRUE]
          /\ UNCHANGED disk
    /\ UNCHANGED <<unit, job, agents, socket, holder, saved, marker, viewer, open, told, raced, slipped, fixed>>

(* `desktop restart-after-update`: only the service that runs the bundle's
   collector is restarted; one that answers is stopped first.                *)
RestartAfterUpdate(w) ==
    /\ proc[w].at = "restart"
    /\ IF unit # "app" THEN Goto(w, "unmark") /\ UNCHANGED told
       ELSE IF ~Answers THEN Goto(w, "kick") /\ UNCHANGED told
       ELSE IF saved \in Slots THEN Goto(w, "term") /\ UNCHANGED told
       ELSE Fail(w)
    /\ slipped' = slipped
         \cup (IF agents["service"].at \in Starting THEN {"starting"} ELSE {})
         \cup (IF unit = "cli" /\ agents["service"].at \in {"none", "ending"} THEN {"taken"} ELSE {})
    /\ UNCHANGED <<disk, unit, job, agents, socket, holder, saved, marker, viewer, open, raced, fixed>>

Unmark(w) ==
    /\ proc[w].at = "unmark"
    /\ marker' = FALSE
    /\ IF proc[w].kind = "update" /\ ~proc[w].swapped
       THEN Goto(w, "check") /\ UNCHANGED told ELSE Succeed(w)
    /\ UNCHANGED <<disk, unit, job, agents, socket, holder, saved, viewer, open, raced, slipped, fixed>>

(* The history viewer is killed before collection starts, so that it does not
   keep the event database.                                                  *)
CloseViewer(w) ==
    /\ proc[w].at = "close"
    /\ viewer' = "none"
    /\ holder' = IF holder = "viewer" THEN None ELSE holder
    /\ Goto(w, IF proc[w].kind = "resume" THEN "resume" ELSE "stop")
    /\ UNCHANGED <<disk, unit, job, agents, socket, saved, marker, open, told, raced, slipped, fixed>>

(* `desktop resume`: nothing to do for a collector that answers; a registered
   service is started, and one that is not is registered again.              *)
Resume(w) ==
    /\ proc[w].at = "resume"
    /\ IF unit = None THEN Fail(w)
       ELSE /\ Goto(w, IF Answers THEN "await" ELSE IF job # None THEN "kick" ELSE "write")
            /\ UNCHANGED told
    /\ UNCHANGED <<disk, unit, job, agents, socket, holder, saved, marker, viewer, open, raced, slipped, fixed>>

(* Setting up: a collector started by hand is stopped when there is no
   service yet.  `enable` refuses to go on without its process; `init` goes on. *)
StopManual(w) ==
    /\ proc[w].at = "stop"
    /\ IF Answers /\ unit = None
       THEN IF saved \in Slots THEN Goto(w, "term") /\ UNCHANGED told
            ELSE IF w = "app" THEN Fail(w) ELSE Goto(w, "write") /\ UNCHANGED told
       ELSE Goto(w, "write") /\ UNCHANGED told
    /\ UNCHANGED <<disk, unit, job, agents, socket, holder, saved, marker, viewer, open, raced, slipped, fixed>>

(* `kill_and_wait`: SIGTERM to the process state.json names, which may be
   gone by now.                                                              *)
Told(s) == [agents EXCEPT ![s].at = "ending"]
Terminate(w) ==
    /\ proc[w].at = "term"
    /\ proc' = [proc EXCEPT ![w].at = "wait", ![w].pid = IF saved \in Slots THEN saved ELSE None]
    /\ agents' = IF saved \in Slots THEN Told(saved) ELSE agents
    /\ UNCHANGED <<disk, unit, job, socket, holder, saved, marker, viewer, open, told, raced, slipped, fixed>>

AfterStop(w) == CASE proc[w].kind \in Updates -> "kick"
                  [] proc[w].kind = "self-update" -> "again"
                  [] OTHER -> "write"
Stopped(w) ==
    /\ proc[w].at = "wait" /\ proc[w].pid = None
    /\ Goto(w, AfterStop(w))
    /\ UNCHANGED <<disk, unit, job, agents, socket, holder, saved, marker, viewer, open, told, raced, slipped, fixed>>

(* Still there after the timeout: SIGKILL.                                   *)
KillStuck(w) ==
    /\ proc[w].at = "wait" /\ proc[w].pid # None
    /\ broken < MaxBroken /\ broken' = broken + 1
    /\ Ended(proc[w].pid, FALSE)
    /\ proc' = [Released(proc[w].pid) EXCEPT ![w].at = AfterStop(w)]
    /\ UNCHANGED <<manager, disk, unit, marker, viewer, open, told, raced, slipped, begun, started>>

-----------------------------------------------------------------------------
(* The service manager.                                                      *)

(* SIGTERM from the manager: a collector that does not handle it yet dies.   *)
Signalled == IF agents["service"].at = "up" THEN Told("service") ELSE agents

(* `kickstart` does nothing to a job that runs and knows none that was booted
   out; `systemctl restart` goes by the unit file, and stops the service first. *)
Kickable == IF manager = "systemd" THEN unit # None ELSE job # None /\ ~job.leaving
Kick(w) ==
    /\ proc[w].at = "kick"
    /\ IF ~Kickable THEN Fail(w) /\ UNCHANGED <<job, agents>>
       ELSE /\ IF manager = "systemd"
               THEN job' = [exe |-> unit, due |-> TRUE, leaving |-> FALSE] /\ agents' = Signalled
               ELSE job' = [job EXCEPT !.due = @ \/ ~Alive("service")] /\ UNCHANGED agents
            /\ IF proc[w].kind = "self-update" THEN Succeed(w) ELSE Goto(w, "await") /\ UNCHANGED told
    /\ UNCHANGED <<disk, unit, socket, holder, saved, marker, viewer, open, raced, slipped, fixed>>

(* Polled until a collector answers, or given up.                            *)
Await(w) ==
    /\ proc[w].at = "await"
    /\ \/ /\ Answers
          /\ IF proc[w].kind \in Updates THEN Goto(w, "unmark") /\ UNCHANGED told ELSE Succeed(w)
       \/ ~Answers /\ Fail(w)
    /\ UNCHANGED <<disk, unit, job, agents, socket, holder, saved, marker, viewer, open, raced, slipped, fixed>>

(* Registration names the executable that asks for it.                       *)
WriteUnit(w) ==
    /\ proc[w].at = "write"
    /\ unit' = w
    /\ Goto(w, IF manager = "launchd" THEN "bootout" ELSE "bootstrap")
    /\ UNCHANGED <<disk, job, agents, socket, holder, saved, marker, viewer, open, told, raced, slipped, fixed>>

(* `bootout` returns before the process it tells to end has ended.           *)
Unloaded(w, at) ==
    /\ job' = IF job # None /\ Alive("service") THEN [job EXCEPT !.leaving = TRUE] ELSE None
    /\ agents' = Signalled
    /\ Goto(w, at)
Bootout(w) ==
    /\ proc[w].at = "bootout"
    /\ Unloaded(w, "gone")
    /\ UNCHANGED <<disk, unit, socket, holder, saved, marker, viewer, open, told, raced, slipped, fixed>>

(* The wait for the old registration to go, ten seconds at most.             *)
Removed(w) ==
    /\ proc[w].at = "gone"
    /\ \/ job = None /\ Goto(w, "bootstrap") /\ UNCHANGED told
       \/ job # None /\ Fail(w)
    /\ UNCHANGED <<disk, unit, job, agents, socket, holder, saved, marker, viewer, open, raced, slipped, fixed>>

(* Loaded and started; a systemd unit that runs already goes on running, and
   one that systemd is stopping is started once it has stopped.              *)
Runs == Alive("service") /\ ~(job # None /\ job.leaving)
Bootstrap(w) ==
    /\ proc[w].at = "bootstrap"
    /\ \/ /\ unit # None
          /\ IF job = None \/ manager = "systemd"
             THEN job' = [exe |-> unit, due |-> ~Runs, leaving |-> FALSE]
             ELSE UNCHANGED job
          /\ IF w = "app" THEN Goto(w, "await") /\ UNCHANGED told ELSE Succeed(w)
       \/ Fail(w) /\ UNCHANGED job
    /\ slipped' = slipped \cup (IF Runs /\ agents["service"].at = "ending" THEN {"ending"} ELSE {})
    /\ UNCHANGED <<disk, unit, agents, socket, holder, saved, marker, viewer, open, raced, fixed>>

(* `uninstall` does not wait for the collector to end.                       *)
Unload(w) ==
    /\ proc[w].at = "unload"
    /\ IF unit = None THEN Succeed(w) /\ UNCHANGED <<job, agents>>
       ELSE Unloaded(w, "remove") /\ UNCHANGED told
    /\ UNCHANGED <<disk, unit, socket, holder, saved, marker, viewer, open, raced, slipped, fixed>>

RemoveUnit(w) ==
    /\ proc[w].at = "remove"
    /\ unit' = None /\ Succeed(w)
    /\ UNCHANGED <<disk, job, agents, socket, holder, saved, marker, viewer, open, raced, slipped, fixed>>

(* A process the manager told to end before it handles the signal.           *)
Perish ==
    /\ job # None /\ job.leaving /\ agents["service"].at \in Starting
    /\ Dies("service", FALSE)
    /\ UNCHANGED <<disk, unit, marker, viewer, open, told, raced, slipped, fixed>>

-----------------------------------------------------------------------------
(* `self-update`: an installation with a receipt is replaced, and a collector
   that runs is stopped and started again the way it was.                    *)

Fetch(w) ==
    /\ proc[w].at = "fetch"
    /\ \/ /\ disk["cli"] < MaxVersion
          /\ disk' = [disk EXCEPT !["cli"] = @ + 1]
          /\ Goto(w, "find") /\ UNCHANGED told
       \/ Succeed(w) /\ UNCHANGED disk
    /\ UNCHANGED <<unit, job, agents, socket, holder, saved, marker, viewer, open, raced, slipped, fixed>>

FindRunning(w) ==
    /\ proc[w].at = "find"
    /\ IF saved \in Slots THEN Goto(w, "term") /\ UNCHANGED told ELSE Succeed(w)
    /\ UNCHANGED <<disk, unit, job, agents, socket, holder, saved, marker, viewer, open, raced, slipped, fixed>>

StartAgain(w) ==
    /\ proc[w].at = "again"
    /\ IF unit # None THEN Goto(w, "kick") /\ UNCHANGED <<agents, told>>
       ELSE IF Alive("manual") THEN Succeed(w) /\ UNCHANGED agents
       ELSE Exec("manual", "cli") /\ Succeed(w)
    /\ UNCHANGED <<disk, unit, job, socket, holder, saved, marker, viewer, open, raced, slipped, fixed>>

-----------------------------------------------------------------------------
(* The history viewer: with no collector answering it opens the database.    *)

OpenViewer ==
    /\ open /\ viewer = "none"
    /\ viewer' = IF Answers THEN "remote" ELSE "probed"
    /\ UNCHANGED <<disk, unit, job, agents, socket, holder, saved, marker, proc, open, told, raced, slipped, fixed>>
ViewerOpens ==
    /\ viewer = "probed"
    /\ IF holder = None THEN viewer' = "local" /\ holder' = "viewer"
       ELSE viewer' = "none" /\ UNCHANGED holder
    /\ UNCHANGED <<disk, unit, job, agents, socket, saved, marker, proc, open, told, raced, slipped, fixed>>

-----------------------------------------------------------------------------
(* What goes wrong around them.                                              *)

(* The application quits or crashes, and its viewer with it.                 *)
Quit ==
    /\ open /\ open' = FALSE
    /\ broken < MaxBroken /\ broken' = broken + 1
    /\ viewer' = "none" /\ holder' = IF holder = "viewer" THEN None ELSE holder
    /\ IF Resting("app") THEN UNCHANGED <<proc, told>> ELSE Fail("app")
    /\ UNCHANGED <<manager, disk, unit, job, agents, socket, saved, marker, raced, slipped, begun, started>>

(* A command is interrupted, or the application's 45 seconds for it are over. *)
Interrupt(w) ==
    /\ ~Resting(w)
    /\ broken < MaxBroken /\ broken' = broken + 1
    /\ Fail(w)
    /\ UNCHANGED <<manager, disk, unit, job, agents, socket, holder, saved, marker, viewer, open, raced, slipped, begun, started>>

(* Everything ends; at login the manager starts what is registered on disk.  *)
Reboot ==
    /\ broken < MaxBroken /\ broken' = broken + 1
    /\ agents' = [s \in Slots |-> Gone]
    /\ socket' = IF socket = None THEN None ELSE "dead"
    /\ holder' = None /\ saved' = IF saved = None THEN None ELSE "stale"
    /\ viewer' = "none" /\ open' = FALSE
    /\ proc' = [w \in Exes |-> Idle]
    /\ job' = IF unit = None THEN None ELSE [exe |-> unit, due |-> TRUE, leaving |-> FALSE]
    /\ UNCHANGED <<manager, disk, unit, marker, told, raced, slipped, begun, started>>

AgentStep(s) == Probe(s) \/ Bind(s) \/ OpenLedger(s) \/ Begun(s) \/ Finish(s) \/ Crash(s)
UpdateStep(w) == Recover(w) \/ Check(w) \/ Mark(w) \/ Swap(w) \/ RestartAfterUpdate(w)
                 \/ Unmark(w) \/ Fetch(w) \/ FindRunning(w) \/ StartAgain(w)
ServiceStep(w) == CloseViewer(w) \/ Resume(w) \/ StopManual(w) \/ Terminate(w) \/ Stopped(w)
                  \/ KillStuck(w) \/ Kick(w) \/ Await(w) \/ WriteUnit(w) \/ Bootout(w)
                  \/ Removed(w) \/ Bootstrap(w) \/ Unload(w) \/ RemoveUnit(w) \/ Interrupt(w)
LifeNext ==
    \/ JobStarts \/ StartByHand \/ Launch \/ Perish \/ OpenViewer \/ ViewerOpens \/ Quit \/ Reboot
    \/ \E s \in Slots : AgentStep(s)
    \/ \E w \in Exes : UpdateStep(w) \/ ServiceStep(w) \/ \E k \in Offers(w) : Begin(w, k)

LifeSpec == LifeInit /\ [][LifeNext]_lifeVars

-----------------------------------------------------------------------------
(* Properties.                                                               *)

(* The collector that writes the database is the one the control socket
   reaches, so every command finds it: unless two collectors probed before
   either bound, which nothing prevents (agent.rs:60-68).                    *)
Reachable ==
    \A s \in Slots : agents[s].at = "up" => holder = s /\ (socket = s \/ raced)

(* A service that an operation stopped has someone who will start it: the
   manager, who has it registered and due or has it running and was not told
   to end it; the marker the application finds at its next launch; or the user,
   who was told that the operation failed. The code leaves it stopped in three
   ways: it was registered once more while the collector that had been told to
   end, by no manager, still ran, which `systemctl enable --now` takes for a
   service that runs (service.rs:510-517); the command line registered the
   service while an update had stopped it, and the application, started again,
   finds that it is no longer its own (desktop_cmd.rs:64-81); or two collectors
   bound one after the other, and the wrong one is found to answer.           *)
StoppedIsRemembered ==
    (unit # None /\ (\A w \in Exes : Resting(w)) /\ ~raced /\ slipped \cap {"ending", "taken"} = {}) =>
        \/ told \/ marker
        \/ /\ job # None /\ ~job.leaving
           /\ job.due \/ agents["service"].at \notin {"none", "ending"}

(* Once every operation is over, nothing is pending and none has failed, the
   bundle's service runs the version on disk: unless it was just starting when
   it was looked for, or another collector had bound its path.  The command
   line may take the service over during an update, which restarts nothing
   then; if the application takes it back and fails before it has started it
   again, the older release runs on, and the user has been told.              *)
Updated ==
    ((\A w \in Exes : Resting(w)) /\ ~told /\ ~marker /\ unit = "app" /\ agents["service"].at = "up"
     /\ agents["service"].exe = "app" /\ ~raced /\ "starting" \notin slipped)
        => agents["service"].version = disk["app"]
=============================================================================

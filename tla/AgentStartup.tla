---------------------------- MODULE AgentStartup ----------------------------
(***************************************************************************)
(* Installing and starting the agent of a user (src/internal/startup,      *)
(* src/internal/cli/agent_recovery.go, src/internal/cli/onboard.go, the    *)
(* startup commands of src/internal/cli/cli.go and the life of the agent   *)
(* process in src/internal/apphost/run.go).                                *)
(*                                                                         *)
(* A command is a process of its own.  `px startup X` runs the commands of *)
(* the service manager for X; any other command that finds no agent asks   *)
(* the user and installs or starts it; `px onboard` does the same and then *)
(* joins a context.  They exclude each other by the startup lock while     *)
(* they change the startup definition, but not while they ask the user.    *)
(*                                                                         *)
(* The service manager (systemd, launchd, the task scheduler) is external: *)
(* After says what its commands do to the definition it has loaded and to  *)
(* the process it runs.  A plan is an executable together with a PX home.  *)
(***************************************************************************)
EXTENDS Naturals, Sequences, FiniteSets

CONSTANTS
    Commands,   \* processes of the command line
    Plans,      \* an executable and a PX home
    HomeOf,     \* the home of a plan
    VersionOf,  \* the IPC version of its executable
    Settings,   \* settings of a context
    None,
    Scenes      \* what a behaviour consists of: records
                \* [os, most, kinds, plans, events]

ASSUME StartupAssumption ==
    /\ DOMAIN HomeOf = Plans
    /\ DOMAIN VersionOf = Plans
    /\ None \notin Plans \cup Settings

Homes == {HomeOf[p] : p \in Plans}

\* The actions of `px startup`.
Actions == {"install", "upgrade", "start", "stop", "restart", "status", "uninstall"}

\* The other commands that may start the agent.
Recoveries == {"agent", "onboard"}

VARIABLES
    scene,    \* the member of Scenes this behaviour follows
    host,     \* the service manager: the definition on disk and the one that is
              \* loaded, whether it starts at login, and the process it runs
    manual,   \* agents the user runs by hand, by home
    lock,     \* the command that holds the startup lock
    cmd,      \* the commands
    context   \* the context that is onboarded, by home

vars == <<scene, host, manual, lock, cmd, context>>

Stopped == [plan |-> None, st |-> "stopped"]

NoHost == [file |-> None, loaded |-> None, enabled |-> FALSE, unit |-> Stopped]

NoCommand ==
    [kind |-> "none", plan |-> None, pc |-> "new", approved |-> "none", action |-> "none",
     todo |-> <<>>, want |-> None, existing |-> FALSE, out |-> "none"]

NoContext == [set |-> None, st |-> "none"]

\* Where plan p was installed before.
Installed(p) ==
    [file |-> p, loaded |-> p, enabled |-> scene.os = "linux",
     unit |-> [plan |-> p, st |-> "starting"]]

Init ==
    /\ scene \in Scenes
    /\ host \in {NoHost} \cup {Installed(p) : p \in scene.plans}
    /\ manual = [h \in Homes |-> None]
    /\ lock = None
    /\ cmd = [c \in Commands |-> NoCommand]
    /\ context = [h \in Homes |-> NoContext]

At(c, pc) == cmd[c].pc = pc

Goes(c, pc) == cmd' = [cmd EXCEPT ![c].pc = pc]

Ends(c, out) == cmd' = [cmd EXCEPT ![c].pc = "done", ![c].out = out]

May(event) == event \in scene.events

-----------------------------------------------------------------------------
(***************************************************************************)
(* The service manager.                                                    *)
(***************************************************************************)

Must(name) == [name |-> name, ignore |-> FALSE]

\* A command whose failure is ignored.
Try(name) == [name |-> name, ignore |-> TRUE]

\* The commands of the plan for an action on Linux.
Systemctl(action) ==
    CASE action = "install" -> <<Must("reload"), Must("enable now")>>
      [] action = "upgrade" -> <<Must("reload"), Must("enable"), Must("restart")>>
      [] action = "start" -> <<Must("start")>>
      [] action = "stop" -> <<Must("stop")>>
      [] action = "restart" -> <<Must("restart")>>
      [] action = "uninstall" -> <<Must("disable now")>>
      [] action = "cleanup" -> <<Must("reload")>>

Launchctl(action) ==
    CASE action \in {"install", "upgrade"} -> <<Try("bootout"), Must("bootstrap")>>
      [] action = "start" -> <<Must("start")>>
      [] action = "stop" -> <<Must("kill")>>
      [] action = "restart" -> <<Must("restart")>>
      [] action = "uninstall" -> <<Must("bootout")>>
      [] action = "cleanup" -> <<>>

Schtasks(action) ==
    CASE action \in {"install", "upgrade"} -> <<Must("create"), Try("end"), Must("run")>>
      [] action = "start" -> <<Must("run")>>
      [] action = "stop" -> <<Must("end")>>
      [] action = "restart" -> <<Try("end"), Must("run")>>
      [] action = "uninstall" -> <<Try("end"), Must("delete")>>
      [] action = "cleanup" -> <<>>

CommandsFor(action) ==
    CASE scene.os = "linux" -> Systemctl(action)
      [] scene.os = "darwin" -> Launchctl(action)
      [] scene.os = "windows" -> Schtasks(action)

\* Mutant: the definition is started as it was loaded before.
ActivateUnread == CommandsFor("start")

\* Activate: the verified definition is loaded again, and started.
Activate ==
    CASE scene.os = "linux" -> <<Must("reload")>> \o CommandsFor("start")
      [] scene.os = "darwin" -> CommandsFor("upgrade")
      [] scene.os = "windows" -> CommandsFor("start")

Alive(unit) == unit.st \in {"starting", "ready"}

Starting(p) == [plan |-> p, st |-> "starting"]

\* A start leaves a running process alone.
Started(h) == IF Alive(h.unit) THEN h.unit ELSE Starting(h.loaded)

\* When a command of the service manager succeeds.
Works(name) ==
    CASE name \in {"reload", "create"} -> TRUE
      [] name \in {"enable", "enable now", "disable now", "run", "end", "delete"} -> host.file # None
      [] name \in {"start", "stop", "restart", "bootout"} -> host.loaded # None
      [] name = "kill" -> Alive(host.unit)
      [] name = "bootstrap" -> host.loaded = None /\ host.file # None

\* What it does then, for plan p.
After(name, p) ==
    CASE name = "reload" -> [host EXCEPT !.loaded = host.file]
      [] name = "enable" -> [host EXCEPT !.enabled = TRUE]
      [] name = "enable now" -> [host EXCEPT !.enabled = TRUE, !.unit = Started(host)]
      [] name \in {"start", "run"} -> [host EXCEPT !.unit = Started(host)]
      [] name = "restart" -> [host EXCEPT !.unit = Starting(host.loaded)]
      [] name \in {"stop", "kill", "end"} -> [host EXCEPT !.unit = Stopped]
      [] name = "disable now" -> [host EXCEPT !.enabled = FALSE, !.unit = Stopped]
      [] name = "bootout" -> [host EXCEPT !.loaded = None, !.unit = Stopped]
      [] name = "bootstrap" -> [host EXCEPT !.loaded = host.file, !.unit = Starting(host.file)]
      [] name = "create" -> [host EXCEPT !.file = p, !.loaded = p]
      [] name = "delete" -> [host EXCEPT !.file = None, !.loaded = None]

-----------------------------------------------------------------------------
(***************************************************************************)
(* The agent process: one per home, by the agent lock.                     *)
(***************************************************************************)

AgentAt(h) ==
    IF manual[h] # None THEN manual[h]
    ELSE IF host.unit.st = "ready" /\ HomeOf[host.unit.plan] = h THEN host.unit.plan
    ELSE None

\* agentReady, asked with the executable and home of plan p.
AgentReady(p) ==
    LET a == AgentAt(HomeOf[p]) IN
    IF a = None THEN "unavailable"
    ELSE IF VersionOf[a] = VersionOf[p] THEN "ready" ELSE "error"

\* RunAgent under the service manager.
UnitReady ==
    /\ host.unit.st = "starting"
    /\ manual[HomeOf[host.unit.plan]] = None
    /\ host' = [host EXCEPT !.unit.st = "ready"]
    /\ UNCHANGED <<scene, manual, lock, cmd, context>>

\* The agent is already running, cannot start or fails.  systemd and launchd
\* start it again later, with the definition they have by then.
UnitFails ==
    /\ Alive(host.unit)
    /\ May("failure") \/ (host.unit.st = "starting" /\ manual[HomeOf[host.unit.plan]] # None)
    /\ host' = [host EXCEPT !.unit = IF scene.os = "windows" THEN Stopped ELSE [@ EXCEPT !.st = "failed"]]
    /\ UNCHANGED <<scene, manual, lock, cmd, context>>

UnitRestarts ==
    /\ host.unit.st = "failed"
    /\ host' = [host EXCEPT !.unit = Starting(host.loaded)]
    /\ UNCHANGED <<scene, manual, lock, cmd, context>>

\* `px agent stop`: it ends without an error.
AgentStop ==
    /\ host.unit.st = "ready"
    /\ host' = [host EXCEPT !.unit = Stopped]
    /\ UNCHANGED <<scene, manual, lock, cmd, context>>

\* `px agent run`.
AgentRun(p) ==
    /\ May("manual")
    /\ AgentAt(HomeOf[p]) = None
    /\ manual' = [manual EXCEPT ![HomeOf[p]] = p]
    /\ UNCHANGED <<scene, host, lock, cmd, context>>

AgentExits(h) ==
    /\ manual[h] # None
    /\ manual' = [manual EXCEPT ![h] = None]
    /\ UNCHANGED <<scene, host, lock, cmd, context>>

-----------------------------------------------------------------------------
(***************************************************************************)
(* Commands, up to the startup lock.                                       *)
(***************************************************************************)

\* A command starts.  Those of `px startup` go for the lock at once.
Begin(c) ==
    /\ At(c, "new")
    /\ Cardinality({d \in Commands : cmd[d].pc # "new"}) < scene.most
    /\ \E k \in scene.kinds, p \in scene.plans, s \in Settings :
         /\ k # "onboard" => s = CHOOSE x \in Settings : TRUE
         /\ cmd' = [cmd EXCEPT ![c] = [@ EXCEPT !.kind = k, !.plan = p, !.want = s, !.action = k,
                        !.pc = IF k \in Recoveries THEN "ready" ELSE "lock"]]
    /\ UNCHANGED <<scene, host, manual, lock, context>>

\* What follows when the agent is there: the command itself, or onboarding.
Served(c) == IF cmd[c].kind = "onboard" THEN Goes(c, "check") ELSE Ends(c, "ready")

\* ensureAgentForCommand and runOnboard begin with the agent.
EnsureAgent(c) ==
    LET answer == AgentReady(cmd[c].plan) IN
    /\ At(c, "ready")
    /\ CASE answer = "ready" -> Served(c)
         [] answer = "error" -> Ends(c, "failed")
         [] answer = "unavailable" -> Goes(c, IF cmd[c].kind = "onboard" THEN "offer" ELSE "inspect")
    /\ UNCHANGED <<scene, host, manual, lock, context>>

\* Without a terminal, or in JSON mode, nothing is offered.
NotInteractive(c) ==
    /\ At(c, "ready")
    /\ AgentReady(cmd[c].plan) = "unavailable"
    /\ Ends(c, "unavailable")
    /\ UNCHANGED <<scene, host, manual, lock, context>>

\* InspectRuntime: the definition of the plan, of another one, or none.
Inspect(p) == IF host.file = None THEN "skipped" ELSE IF host.file = p THEN "pass" ELSE "fail"

\* inspectAgentStartup: what there is to do, or "refuse" for a foreign definition.
InspectAgentStartup(p) ==
    CASE Inspect(p) = "pass" -> "start"
      [] Inspect(p) = "skipped" -> "install"
      [] Inspect(p) = "fail" -> "refuse"

\* The first inspection decides what the user is asked.
InspectFirst(c) ==
    LET a == InspectAgentStartup(cmd[c].plan) IN
    /\ At(c, "inspect")
    /\ IF a = "refuse" THEN Ends(c, "failed")
       ELSE cmd' = [cmd EXCEPT ![c].approved = a,
                               ![c].pc = IF cmd[c].kind = "onboard" THEN "lock" ELSE "prompt"]
    /\ UNCHANGED <<scene, host, manual, lock, context>>

\* The user takes any time to answer; the agent is asked again after it.
Confirm(c) ==
    LET answer == AgentReady(cmd[c].plan) IN
    /\ At(c, "prompt")
    /\ CASE answer = "ready" -> Ends(c, "ready")
         [] answer = "error" -> Ends(c, "failed")
         [] answer = "unavailable" -> Goes(c, "lock")
    /\ UNCHANGED <<scene, host, manual, lock, context>>

\* Onboarding asks before it inspects.
Offer(c) ==
    /\ At(c, "offer")
    /\ Goes(c, "inspect")
    /\ UNCHANGED <<scene, host, manual, lock, context>>

Refuse(c) ==
    /\ cmd[c].pc \in {"prompt", "offer", "confirm"}
    /\ Ends(c, "unavailable")
    /\ UNCHANGED <<scene, host, manual, lock, context>>

-----------------------------------------------------------------------------
(***************************************************************************)
(* Under the startup lock.                                                 *)
(***************************************************************************)

\* acquireStartupLock does not wait for another command.
AcquireStartupLock(c) ==
    /\ At(c, "lock")
    /\ IF lock = None
       THEN /\ lock' = c
            /\ Goes(c, IF cmd[c].kind \in Recoveries THEN "recheck" ELSE "prepare")
       ELSE /\ Ends(c, "failed")
            /\ UNCHANGED lock
    /\ UNCHANGED <<scene, host, manual, context>>

\* With the lock, a command ends through its release.
Leaves(c, out) == cmd' = [cmd EXCEPT ![c].pc = "unlock", ![c].out = out]

\* activateAgentStartup asks for the agent once more.
Recheck(c) ==
    LET answer == AgentReady(cmd[c].plan) IN
    /\ At(c, "recheck")
    /\ CASE answer = "ready" -> Leaves(c, "ready")
         [] answer = "error" -> Leaves(c, "failed")
         [] answer = "unavailable" -> Goes(c, "reinspect")
    /\ UNCHANGED <<scene, host, manual, lock, context>>

\* Mutant: what was found before the user was asked is done.
ReinspectNot(c) ==
    /\ At(c, "reinspect")
    /\ cmd' = [cmd EXCEPT ![c].action = cmd[c].approved, ![c].pc = "prepare"]
    /\ UNCHANGED <<scene, host, manual, lock, context>>

\* And inspects the definition again: it does not install where the user agreed
\* to a start.
Reinspect(c) ==
    LET a == InspectAgentStartup(cmd[c].plan) IN
    /\ At(c, "reinspect")
    /\ IF a = "refuse" \/ (a = "install" /\ cmd[c].approved # "install") THEN Leaves(c, "failed")
       ELSE cmd' = [cmd EXCEPT ![c].action = a, ![c].pc = "prepare"]
    /\ UNCHANGED <<scene, host, manual, lock, context>>

\* Execute writes the definition first.  (On Windows there is no file: the task
\* is created by the first command.)
WritesFile(c) == cmd[c].action \in {"install", "upgrade"} /\ scene.os # "windows"

\* The commands of the action; a recovery that starts the agent uses Activate.
Listed(c) ==
    IF cmd[c].kind \in Recoveries /\ cmd[c].action = "start" THEN Activate
                                                             ELSE CommandsFor(cmd[c].action)

WriteArtifact(c) ==
    /\ At(c, "prepare")
    /\ cmd[c].action # "status"
    /\ host' = IF WritesFile(c) THEN [host EXCEPT !.file = cmd[c].plan] ELSE host
    /\ cmd' = [cmd EXCEPT ![c].pc = "commands", ![c].todo = Listed(c)]
    /\ UNCHANGED <<scene, manual, lock, context>>

WriteArtifactFails(c) ==
    /\ At(c, "prepare")
    /\ WritesFile(c)
    /\ Leaves(c, "failed")
    /\ UNCHANGED <<scene, host, manual, lock, context>>

\* Execute and Activate run the commands in order.
RunCommand(c) ==
    /\ At(c, "commands")
    /\ cmd[c].todo # <<>>
    /\ Works(Head(cmd[c].todo).name)
    /\ host' = After(Head(cmd[c].todo).name, cmd[c].plan)
    /\ cmd' = [cmd EXCEPT ![c].todo = Tail(@)]
    /\ UNCHANGED <<scene, manual, lock, context>>

\* A command may always fail.
CommandFails(c) ==
    /\ At(c, "commands")
    /\ cmd[c].todo # <<>>
    /\ IF Head(cmd[c].todo).ignore THEN cmd' = [cmd EXCEPT ![c].todo = Tail(@)] ELSE Leaves(c, "failed")
    /\ UNCHANGED <<scene, host, manual, lock, context>>

\* A recovery waits for the agent, an uninstallation removes the definition and
\* lets the service manager forget it.
CommandsDone(c) ==
    /\ At(c, "commands")
    /\ cmd[c].todo = <<>>
    /\ CASE cmd[c].kind \in Recoveries -> Goes(c, "wait")
         [] cmd[c].action = "uninstall" -> Goes(c, "remove")
         [] OTHER -> Leaves(c, "complete")
    /\ UNCHANGED <<scene, host, manual, lock, context>>

RemoveArtifact(c) ==
    /\ At(c, "remove")
    /\ host' = IF scene.os = "windows" THEN host ELSE [host EXCEPT !.file = None]
    /\ cmd' = [cmd EXCEPT ![c].pc = "commands", ![c].action = "cleanup", ![c].todo = CommandsFor("cleanup")]
    /\ UNCHANGED <<scene, manual, lock, context>>

RemoveArtifactFails(c) ==
    /\ At(c, "remove")
    /\ scene.os # "windows"
    /\ Leaves(c, "failed")
    /\ UNCHANGED <<scene, host, manual, lock, context>>

\* `px startup status`: on Windows the task must also be the one of this plan.
\* The query itself may fail, or answer what the command cannot read.
Active(c) == Alive(host.unit) /\ (scene.os = "windows" => Inspect(cmd[c].plan) = "pass")

Status(c) ==
    /\ At(c, "prepare")
    /\ cmd[c].action = "status"
    /\ \/ Active(c) /\ Leaves(c, "complete")
       \/ Leaves(c, "failed")
    /\ UNCHANGED <<scene, host, manual, lock, context>>

\* waitForAgentReady asks every 100 ms.
WaitForAgentReady(c) ==
    /\ At(c, "wait")
    /\ AgentReady(cmd[c].plan) # "unavailable"
    /\ Leaves(c, IF AgentReady(cmd[c].plan) = "ready" THEN "ready" ELSE "failed")
    /\ UNCHANGED <<scene, host, manual, lock, context>>

\* Mutant: it waits without a deadline.
WaitTimesOutNever(c) ==
    /\ At(c, "wait")
    /\ AgentReady(cmd[c].plan) = "error"
    /\ Leaves(c, "failed")
    /\ UNCHANGED <<scene, host, manual, lock, context>>

\* Its deadline is 10 s.
WaitTimesOut(c) ==
    /\ At(c, "wait")
    /\ AgentReady(cmd[c].plan) = "unavailable"
    /\ Leaves(c, "failed")
    /\ UNCHANGED <<scene, host, manual, lock, context>>

\* The deferred release of the lock; onboarding goes on with a ready agent.
Unlock(c) ==
    /\ At(c, "unlock")
    /\ lock' = None
    /\ Goes(c, IF cmd[c].kind = "onboard" /\ cmd[c].out = "ready" THEN "check" ELSE "done")
    /\ UNCHANGED <<scene, host, manual, context>>

-----------------------------------------------------------------------------
(***************************************************************************)
(* Onboarding, with an agent.                                              *)
(***************************************************************************)

Context(c) == context[HomeOf[cmd[c].plan]]

\* A request to the agent fails when there is none, or one of another version.
NoAnswer(c) ==
    /\ cmd[c].pc \in {"check", "join", "await"}
    /\ AgentReady(cmd[c].plan) # "ready"
    /\ Ends(c, "failed")
    /\ UNCHANGED <<scene, host, manual, lock, context>>

Resumable(c, x) == x.set = cmd[c].want /\ x.st \notin {"disabled", "revoked"}

\* ensureOnboardContextUnchanged: no such context, or one as it is asked for.
Check(c) ==
    /\ At(c, "check")
    /\ AgentReady(cmd[c].plan) = "ready"
    /\ IF Context(c) # NoContext /\ ~ Resumable(c, Context(c)) THEN Ends(c, "failed")
       ELSE cmd' = [cmd EXCEPT ![c].pc = "confirm", ![c].existing = Context(c) # NoContext]
    /\ UNCHANGED <<scene, host, manual, lock, context>>

\* The user confirms; the roots are made.
ConfirmOnboard(c) ==
    /\ At(c, "confirm")
    /\ Goes(c, "join")
    /\ UNCHANGED <<scene, host, manual, lock, context>>

\* The agent joins the context unless it was changed or removed since (require
\* unchanged, require existing), the server refuses the enrollment or cannot be
\* reached, or the row cannot be written.
Join(c) ==
    /\ At(c, "join")
    /\ AgentReady(cmd[c].plan) = "ready"
    /\ \/ /\ Ends(c, "failed")
          /\ UNCHANGED context
       \/ /\ IF Context(c) = NoContext THEN ~ cmd[c].existing ELSE Resumable(c, Context(c))
          /\ \E st \in {"pending", "connected"} :
                 context' = [context EXCEPT ![HomeOf[cmd[c].plan]] = [set |-> cmd[c].want, st |-> st]]
          /\ Goes(c, "await")
    /\ UNCHANGED <<scene, host, manual, lock>>

\* waitOnboardContext: until the context is connected, or cannot be.
WaitOnboardContext(c) ==
    /\ At(c, "await")
    /\ AgentReady(cmd[c].plan) = "ready"
    /\ Context(c).st # "pending"
    /\ Ends(c, IF Context(c).st = "connected" THEN "joined" ELSE "failed")
    /\ UNCHANGED <<scene, host, manual, lock, context>>

\* Without --wait onboarding ends with the answer to the join.
NoWait(c) ==
    /\ At(c, "await")
    /\ Ends(c, "joined")
    /\ UNCHANGED <<scene, host, manual, lock, context>>

\* Others change the context through the agent, or the server decides on it.
ContextChanges(h) ==
    /\ May("context")
    /\ AgentAt(h) # None
    /\ \/ \E s \in Settings, st \in {"pending", "connected", "disabled", "revoked"} :
            context' = [context EXCEPT ![h] = [set |-> s, st |-> st]]
       \/ context' = [context EXCEPT ![h] = NoContext]
    /\ UNCHANGED <<scene, host, manual, lock, cmd>>

-----------------------------------------------------------------------------
(***************************************************************************)
(* Interruptions.                                                          *)
(***************************************************************************)

Running(c) == cmd[c].pc \notin {"new", "done"}

\* A command is killed or interrupted: the operating system frees its lock.
Killed(c) ==
    /\ May("kill")
    /\ Running(c)
    /\ Ends(c, "killed")
    /\ lock' = IF lock = c THEN None ELSE lock
    /\ UNCHANGED <<scene, host, manual, context>>

\* The user logs out, which ends all processes, and in again.
Login ==
    /\ May("login")
    /\ host' = [host EXCEPT !.loaded = host.file,
                            !.unit = IF host.file # None /\ (scene.os = "linux" => host.enabled)
                                     THEN Starting(host.file) ELSE Stopped]
    /\ manual' = [h \in Homes |-> None]
    /\ lock' = None
    /\ cmd' = [c \in Commands |-> IF Running(c) THEN [cmd[c] EXCEPT !.pc = "done", !.out = "killed"]
                                                ELSE cmd[c]]
    /\ UNCHANGED <<scene, context>>

-----------------------------------------------------------------------------

\* Steps a command takes on its own.
Step(c) ==
    \/ EnsureAgent(c) \/ InspectFirst(c) \/ AcquireStartupLock(c) \/ Recheck(c)
    \/ Reinspect(c) \/ WriteArtifact(c) \/ WriteArtifactFails(c) \/ RunCommand(c)
    \/ CommandFails(c) \/ CommandsDone(c) \/ RemoveArtifact(c) \/ RemoveArtifactFails(c)
    \/ Status(c) \/ WaitForAgentReady(c) \/ WaitTimesOut(c) \/ Unlock(c)
    \/ NoAnswer(c) \/ Check(c) \/ Join(c) \/ WaitOnboardContext(c)

\* Those the user decides on.
Choice(c) ==
    \/ Begin(c) \/ NotInteractive(c) \/ Confirm(c) \/ Offer(c) \/ Refuse(c)
    \/ ConfirmOnboard(c) \/ NoWait(c) \/ Killed(c)

Next ==
    \/ \E c \in Commands : Step(c) \/ Choice(c)
    \/ UnitReady \/ UnitFails \/ UnitRestarts \/ AgentStop
    \/ \E p \in Plans : AgentRun(p)
    \/ \E h \in Homes : AgentExits(h) \/ ContextChanges(h)
    \/ Login

Spec == Init /\ [][Next]_vars

\* Commands run: the programs they call return and timers fire.
FairSpec == Spec /\ \A c \in Commands : WF_vars(Step(c))

-----------------------------------------------------------------------------

Recovering(c) == cmd[c].kind \in Recoveries

\* The types of the variables.
TypeOK ==
    /\ scene \in Scenes
    /\ host \in [file : Plans \cup {None}, loaded : Plans \cup {None}, enabled : BOOLEAN,
                 unit : [plan : Plans \cup {None}, st : {"stopped", "starting", "ready", "failed"}]]
    /\ Alive(host.unit) => host.unit.plan # None
    /\ manual \in [Homes -> Plans \cup {None}]
    /\ lock \in Commands \cup {None}
    /\ \A c \in Commands : Len(cmd[c].todo) <= 3
    /\ \A h \in Homes : context[h].set \in Settings \cup {None}

\* A command other than `px startup` only ever installs where there is no startup
\* definition, and only after the user agreed to an installation: it neither
\* replaces the definition of another executable or home nor brings back one that
\* was uninstalled while the user was asked to start the agent.
RecoveryRespectsDefinition ==
    [][\A c \in Commands :
          Recovering(c) /\ host'.file # host.file /\ cmd'[c] # cmd[c] /\ cmd'[c].out # "killed" =>
              host.file = None /\ cmd[c].approved = "install"]_vars

\* When such a command has had the agent started, the service manager has loaded
\* the definition that was inspected, whatever an earlier command that was
\* killed half-way had left loaded.
RecoveryStartsItsPlan ==
    \A c \in Commands : At(c, "wait") => host.loaded = cmd[c].plan

\* An uninstallation that reports success has left nothing that starts the agent
\* again: no definition on disk, none loaded.
UninstallIsComplete ==
    \A c \in Commands :
        At(c, "unlock") /\ cmd[c].kind = "uninstall" /\ cmd[c].out = "complete" =>
            host.file = None /\ host.loaded = None /\ ~ host.enabled

\* After a successful upgrade no process of another executable is left under the
\* service manager.  (Not on Windows, where a failure to end the old task is
\* ignored.)
UpgradeReplacesProcess ==
    \A c \in Commands :
        At(c, "unlock") /\ cmd[c].kind = "upgrade" /\ cmd[c].out = "complete" /\ scene.os # "windows" =>
            host.unit.plan \in {cmd[c].plan, None}

\* Onboarding never changes the settings of a context that exists, and does not
\* bring back one that it had found and that was removed: not even when the
\* context changes while the user is asked.
OnboardKeepsContext ==
    [][\A c \in Commands : At(c, "join") /\ cmd'[c].pc = "await" =>
          /\ Context(c).set \in {None, cmd[c].want}
          /\ cmd[c].existing => Context(c).set = cmd[c].want /\ Context(c).st # "disabled"]_vars

\* The startup lock is given back, even when the agent never becomes ready.
LockIsFreed == \A c \in Commands : lock = c ~> lock # c

\* What a command reports to have done to the startup of the agent is done.
SuccessIsTrue == TypeOK /\ RecoveryStartsItsPlan /\ UninstallIsComplete /\ UpgradeReplacesProcess

\* Nothing is changed that the user was not asked about, whatever happened
\* since the command looked.
ApprovalIsRespected == RecoveryRespectsDefinition /\ OnboardKeepsContext

=============================================================================

--------------------------- MODULE DaemonLifecycle ---------------------------
(***************************************************************************)
(* How sensoriumd processes come and go: `sensoriumctl daemon start' and   *)
(* `stop' (daemon_start and daemon_stop of cli/sensoriumctl.py, which the  *)
(* runtime commands call too), the way of a daemon from its launch to its  *)
(* end (serve_runtime_daemon and prepare_socket_path of runtime/rpc.py),   *)
(* systemd where it manages the unit, and the two files they share, the    *)
(* socket and the pidfile.                                                 *)
(*                                                                         *)
(* A daemon is one process; its number is its pid, and pids are not used   *)
(* again.  The kernel module is loaded.  A wait with a timeout may end at  *)
(* any moment.                                                             *)
(***************************************************************************)
EXTENDS Naturals

CONSTANTS
  Commands,   \* sensoriumctl processes at a time
  MaxCalls,   \* bound: commands ever run
  MaxDaemons, \* bound: daemons ever launched
  MaxFaults   \* bound: crashes, exceptions, refused status calls, abandoned commands,
              \* and systemctl stop, kill and rm without effect

ASSUME LifecycleAssumption ==
  MaxCalls \in Nat /\ MaxDaemons \in Nat \ {0} /\ MaxFaults \in Nat

Daemons == 1..MaxDaemons
NoFile == 0

VARIABLES
  phase,    \* per daemon, how far it is
  socket,   \* the daemon whose socket the path leads to, or NoFile
  pidfile,  \* the pid in the pidfile, or NoFile
  launched, \* daemons so far
  systemd,  \* _systemd_management_enabled()
  unit,     \* the daemon systemd launched last, or NoFile
  wanted,   \* the unit is started, and restarted on failure
  cmd,      \* per command: what it does and where it is
  calls, faults,
  \* History:
  overlapped, \* two commands ran at once
  abandoned,  \* a command ended by an exception or an interrupt
  refused     \* what had no effect: "systemctl" stop, "kill" -KILL, "rm"

daemonVars  == <<phase, socket, pidfile>>
systemdVars == <<systemd, unit, wanted>>
vars == <<daemonVars, launched, systemdVars, cmd, calls, faults, overlapped, abandoned,
          refused>>

\* spared (history): the command's systemctl stop or kill -KILL had no effect.
Idle == [at |-> "idle", op |-> "none", targets |-> {}, spared |-> FALSE]
Over == {"idle", "ok", "failed"}
Running(c) == cmd[c].at \notin Over

Alive(d) == phase[d] \notin {"none", "dead"}
Pids == {d \in Daemons : Alive(d)}

\* The bridge device admits one process at a time (-EBUSY).
HoldsBridge(d) == phase[d] \in {"open", "bound", "listening", "serving", "closing"}
Listens(d) == phase[d] \in {"listening", "serving"}

\* A status call is answered.
Answers == socket # NoFile /\ phase[socket] = "serving"

NoFault == UNCHANGED <<faults, refused>>
Fault == faults < MaxFaults /\ faults' = faults + 1 /\ UNCHANGED refused

\* A privileged command is refused, or does nothing: its exit status is ignored.
Refused(what) ==
  faults < MaxFaults /\ faults' = faults + 1 /\ refused' = refused \cup {what}

-----------------------------------------------------------------------------
(* A daemon: serve_runtime_daemon.                                         *)

\* The daemon moves on; what else the step changes is up to the action.
Daemon(d, from, to) ==
  /\ phase[d] = from
  /\ phase' = [phase EXCEPT ![d] = to]
  /\ UNCHANGED <<launched, systemdVars, cmd, calls, overlapped, abandoned>>

\* prepare_socket_path: a socket that somebody listens on is not replaced.
Probe(d) ==
  /\ Daemon(d, "new", IF socket = NoFile THEN "clear"
                      ELSE IF Listens(socket) THEN "dead" ELSE "stale")
  /\ NoFault /\ UNCHANGED <<socket, pidfile>>

\* The path may be another socket's by now, or gone (FileNotFoundError).
RemoveStale(d) ==
  /\ Daemon(d, "stale", IF socket = NoFile THEN "dead" ELSE "clear")
  /\ socket' = NoFile
  /\ NoFault /\ UNCHANGED pidfile

\* Mutant: the bridge admits everybody.
AlwaysFree(d) == TRUE

BridgeFree(d) == \A e \in Daemons \ {d} : ~HoldsBridge(e)

\* manager.start, which opens the bridge and restores the snapshot.
OpenBridge(d) ==
  /\ Daemon(d, "clear", IF BridgeFree(d) THEN "open" ELSE "dead")
  /\ NoFault /\ UNCHANGED <<socket, pidfile>>

\* install_signal_handlers, and bind, which fails if the path exists.
Bind(d) ==
  /\ Daemon(d, "open", IF socket = NoFile THEN "bound" ELSE "dead")
  /\ socket' = IF socket = NoFile THEN d ELSE socket
  /\ NoFault /\ UNCHANGED pidfile

Listen(d) ==
  /\ Daemon(d, "bound", "listening")
  /\ NoFault /\ UNCHANGED <<socket, pidfile>>

\* chown and chmod of the path come first, and raise if it is gone.
WritePidfile(d) ==
  /\ Daemon(d, "listening", IF socket = NoFile THEN "dead" ELSE "serving")
  /\ pidfile' = IF socket = NoFile THEN pidfile ELSE d
  /\ NoFault /\ UNCHANGED socket

\* An exception leaves serve_forever, the only way out of it: server_close.
ServeRaises(d) ==
  /\ Daemon(d, "serving", "closing")
  /\ Fault /\ UNCHANGED <<socket, pidfile>>

\* manager.shutdown closes the bridge.
ShutDown(d) ==
  /\ Daemon(d, "closing", "released")
  /\ NoFault /\ UNCHANGED <<socket, pidfile>>

\* The files are removed by name, whoever wrote them.
UnlinkPidfile(d) ==
  /\ Daemon(d, "released", "unlinked")
  /\ pidfile' = NoFile
  /\ NoFault /\ UNCHANGED socket

UnlinkSocket(d) ==
  /\ Daemon(d, "unlinked", "dead")
  /\ socket' = NoFile
  /\ NoFault /\ UNCHANGED pidfile

\* The process dies, and leaves its files.
Crash(d) ==
  /\ Alive(d) /\ Daemon(d, phase[d], "dead")
  /\ Fault /\ UNCHANGED <<socket, pidfile>>

\* SIGTERM: before the handlers are installed it kills, afterwards it sets stop_event,
\* which ends the bridge's threads (not part of this model) and not serve_forever.
Handled(d) == phase[d] \in {"bound", "listening", "serving", "closing", "released", "unlinked"}
Terminated(ds) ==
  phase' = [d \in Daemons |-> IF d \in ds /\ Alive(d) /\ ~Handled(d) THEN "dead" ELSE phase[d]]

Killed(ds) ==
  phase' = [d \in Daemons |-> IF d \in ds /\ Alive(d) THEN "dead" ELSE phase[d]]

-----------------------------------------------------------------------------
(* Launches, and systemd (Type=simple, Restart=on-failure).                *)

Launch ==
  /\ launched < MaxDaemons
  /\ launched' = launched + 1
  /\ phase' = [phase EXCEPT ![launched + 1] = "new"]

UnitAlive == unit # NoFile /\ Alive(unit)

\* Every end of the daemon is a failure to systemd, unless it was stopped.
SystemdRestart ==
  /\ wanted /\ ~UnitAlive
  /\ Launch
  /\ unit' = launched + 1
  /\ UNCHANGED <<socket, pidfile, systemd, wanted, cmd, calls, faults, overlapped,
                 abandoned, refused>>

\* The end of TimeoutStopSec.
SystemdKill ==
  /\ systemd /\ ~wanted /\ UnitAlive
  /\ Killed({unit})
  /\ UNCHANGED <<socket, pidfile, launched, systemdVars, cmd, calls, faults, overlapped,
                 abandoned, refused>>

-----------------------------------------------------------------------------
(* sensoriumctl.                                                           *)

Begin(c, op) ==
  /\ ~Running(c) /\ calls < MaxCalls /\ calls' = calls + 1
  /\ cmd' = [cmd EXCEPT ![c] = [Idle EXCEPT !.op = op,
                                             !.at = IF op = "start" THEN "ask" ELSE "list"]]
  /\ overlapped' = (overlapped \/ \E e \in Commands : Running(e))
  /\ UNCHANGED <<daemonVars, launched, systemdVars, faults, abandoned, refused>>

\* A step of a command from one place to another.
Goes(c, from, to) ==
  /\ cmd[c].at = from
  /\ cmd' = [cmd EXCEPT ![c] = IF to \in Over THEN [Idle EXCEPT !.at = to]
                               ELSE [@ EXCEPT !.at = to]]
  /\ UNCHANGED <<systemd, calls, overlapped, abandoned>>

Quietly == UNCHANGED <<daemonVars, launched, unit, wanted>>

\* daemon_start begins: a daemon that answers is good enough.  A daemon that is busy, or
\* takes more than a second, does not answer.
FindRunning(c) ==
  /\ Answers /\ Goes(c, "ask", "ok")
  /\ NoFault /\ Quietly

FindNone(c) ==
  /\ Goes(c, "ask", "look")
  /\ IF Answers THEN Fault ELSE NoFault
  /\ Quietly

\* Mutant: what is left of other daemons is not looked for.
LeavesAlone == FALSE

Leftovers == Pids # {} \/ socket # NoFile \/ pidfile # NoFile

Look(c) ==
  /\ Goes(c, "look", IF Leftovers THEN "list" ELSE "launch")
  /\ NoFault /\ Quietly

\* daemonize_runtime, or systemctl start, which waits for a stop in progress.
StartDaemon(c) ==
  /\ Goes(c, "launch", "poll")
  /\ systemd /\ UnitAlive => wanted
  /\ wanted' = systemd
  /\ IF systemd /\ UnitAlive THEN UNCHANGED <<phase, launched, unit>>
     ELSE Launch /\ unit' = IF systemd THEN launched + 1 ELSE unit
  /\ NoFault /\ UNCHANGED <<socket, pidfile>>

\* Ten seconds of status calls.
PollEnds(c) ==
  /\ Goes(c, "poll", IF Answers THEN "ok" ELSE "failed")
  /\ NoFault /\ Quietly

\* daemon_stop begins: the processes /proc shows, and the one of the pidfile.

PidfilePid == {pidfile} \ {NoFile}

List(c) ==
  /\ cmd[c].at = "list"
  /\ cmd' = [cmd EXCEPT ![c].at = "tell", ![c].targets = Pids \cup PidfilePid]
  /\ NoFault /\ Quietly /\ UNCHANGED <<systemd, calls, overlapped, abandoned>>

\* systemctl stop, which returns when the unit has ended ...
SystemctlStop(c) ==
  /\ systemd /\ Goes(c, "tell", "systemctl")
  /\ wanted' = FALSE
  /\ Terminated({unit} \ {NoFile})
  /\ NoFault /\ UNCHANGED <<socket, pidfile, launched, unit>>

\* A privileged command that should have ended processes did not.
Spares(c, from, to, what) ==
  /\ cmd[c].at = from /\ Refused(what)
  /\ cmd' = [cmd EXCEPT ![c].at = to, ![c].spared = TRUE]
  /\ UNCHANGED <<systemd, calls, overlapped, abandoned>>

\* ... or fails, and nothing is asked of the unit; the code takes it for asked ...
SystemctlFails(c) ==
  /\ systemd /\ Spares(c, "tell", "asked", "systemctl")
  /\ Quietly

SystemctlReturns(c) ==
  /\ Goes(c, "systemctl", "asked") /\ ~UnitAlive
  /\ NoFault /\ Quietly

\* ... or daemon.stop, which sets stop_event as SIGTERM does ...
TellDaemon(c) ==
  /\ ~systemd /\ Answers /\ Goes(c, "tell", "asked")
  /\ NoFault /\ Quietly

\* ... or nothing, if nobody answers.
TellNobody(c) ==
  /\ ~systemd /\ Goes(c, "tell", "unasked")
  /\ IF Answers THEN Fault ELSE NoFault
  /\ Quietly

\* The processes /proc shows now are added; only what was asked to end is waited for.
Relist(c) ==
  /\ cmd[c].at \in {"asked", "unasked"}
  /\ cmd' = [cmd EXCEPT ![c].at = IF @ = "asked" THEN "waiting" ELSE "term",
                        ![c].targets = @ \cup Pids]
  /\ NoFault /\ Quietly /\ UNCHANGED <<systemd, calls, overlapped, abandoned>>

\* _wait_for_daemon_exit: all processes gone, and their files.
Gone(c) == (\A d \in cmd[c].targets : ~Alive(d)) /\ socket = NoFile /\ pidfile = NoFile

\* daemon_stop returns, to daemon_start if that called it.
Stopped(c) == IF cmd[c].op = "start" THEN "launch" ELSE "ok"

\* Mutant: the wait has no deadline.
WaitsForGone(c) ==
  /\ \E at \in {"waiting", "terminated", "killed"} : Goes(c, at, Stopped(c)) /\ Gone(c)
  /\ NoFault /\ Quietly

WaitEnds(c) ==
  /\ \E next \in {<<"waiting", "term">>, <<"terminated", "kill">>, <<"killed", "clean">>} :
       Goes(c, next[1], IF Gone(c) THEN Stopped(c) ELSE next[2])
  /\ NoFault /\ Quietly

\* kill, which may be refused ...
Terminate(c) ==
  /\ Goes(c, "term", "terminated")
  /\ \/ Terminated(cmd[c].targets) /\ NoFault
     \/ UNCHANGED phase /\ Fault
  /\ UNCHANGED <<socket, pidfile, launched, unit, wanted>>

\* ... and kill -KILL.
Kill(c) ==
  /\ Goes(c, "kill", "killed")
  /\ Killed(cmd[c].targets)
  /\ NoFault /\ UNCHANGED <<socket, pidfile, launched, unit, wanted>>

\* ... which some processes outlive: sudo refuses it, or they are in the kernel.
KillFails(c) ==
  /\ Spares(c, "kill", "killed", "kill")
  /\ \E left \in SUBSET (cmd[c].targets \cap Pids) :
       left # {} /\ Killed(cmd[c].targets \ left)
  /\ UNCHANGED <<socket, pidfile, launched, unit, wanted>>

\* A daemon that still answers is an error ...
StillAnswers(c) ==
  /\ Answers /\ Goes(c, "clean", "failed")
  /\ NoFault /\ Quietly

\* ... otherwise the files go, whatever processes there are.
Clean(c) ==
  /\ Goes(c, "clean", "remove")
  /\ IF Answers THEN Fault ELSE NoFault
  /\ Quietly

\* Mutant: the pidfile is forgotten.
RemovesSocket == socket' = NoFile /\ UNCHANGED pidfile

RemovesFiles == socket' = NoFile /\ pidfile' = NoFile

Remove(c) ==
  /\ Goes(c, "remove", Stopped(c))
  /\ \/ RemovesFiles /\ NoFault
     \/ UNCHANGED <<socket, pidfile>> /\ Refused("rm")
  /\ UNCHANGED <<phase, launched, unit, wanted>>

\* An interrupt, or an RPC that raises.
Abandon(c) ==
  /\ Running(c) /\ Fault
  /\ cmd' = [cmd EXCEPT ![c] = [Idle EXCEPT !.at = "failed"]]
  /\ abandoned' = TRUE
  /\ Quietly /\ UNCHANGED <<systemd, calls, overlapped>>

-----------------------------------------------------------------------------
Init ==
  /\ phase = [d \in Daemons |-> "none"]
  /\ socket = NoFile /\ pidfile = NoFile /\ launched = 0
  /\ systemd \in BOOLEAN /\ unit = NoFile /\ wanted = FALSE
  /\ cmd = [c \in Commands |-> Idle]
  /\ calls = 0 /\ faults = 0 /\ overlapped = FALSE /\ abandoned = FALSE
  /\ refused = {}

DaemonStep(d) ==
  \/ Probe(d) \/ RemoveStale(d) \/ OpenBridge(d) \/ Bind(d) \/ Listen(d) \/ WritePidfile(d)
  \/ ServeRaises(d) \/ ShutDown(d) \/ UnlinkPidfile(d) \/ UnlinkSocket(d) \/ Crash(d)

StopStep(c) ==
  \/ List(c) \/ SystemctlStop(c) \/ SystemctlFails(c) \/ SystemctlReturns(c)
  \/ TellDaemon(c) \/ TellNobody(c) \/ Relist(c) \/ WaitEnds(c) \/ Terminate(c)
  \/ Kill(c) \/ KillFails(c) \/ StillAnswers(c) \/ Clean(c) \/ Remove(c)

StartStep(c) ==
  FindRunning(c) \/ FindNone(c) \/ Look(c) \/ StartDaemon(c) \/ PollEnds(c)

Next ==
  \/ \E d \in Daemons : DaemonStep(d)
  \/ \E c \in Commands : \/ \E op \in {"start", "stop"} : Begin(c, op)
                         \/ StartStep(c) \/ StopStep(c) \/ Abandon(c)
  \/ SystemdRestart \/ SystemdKill

Spec == Init /\ [][Next]_vars

\* sensoriumctl runs, and systemd keeps TimeoutStopSec.  Nothing is assumed of daemons.
FairSpec ==
  Spec /\ WF_vars(SystemdKill) /\ \A c \in Commands : WF_vars(StopStep(c))

-----------------------------------------------------------------------------
Phases == {"none", "new", "stale", "clear", "open", "bound", "listening", "serving",
           "closing", "released", "unlinked", "dead"}
StopPlaces == {"systemctl", "asked", "unasked", "waiting", "term", "terminated", "kill",
               "killed", "clean", "remove"}
Places == Over \cup {"ask", "look", "launch", "poll", "list", "tell"} \cup StopPlaces
Records == [at : Places, op : {"none", "start", "stop"}, targets : SUBSET Daemons,
            spared : BOOLEAN]

TypeOK ==
  /\ phase \in [Daemons -> Phases]
  /\ launched \in 0..MaxDaemons
  /\ {socket, pidfile, unit} \subseteq Daemons \cup {NoFile}
  /\ systemd \in BOOLEAN /\ wanted \in BOOLEAN
  /\ cmd \in [Commands -> Records]
  /\ calls \in 0..MaxCalls /\ faults \in 0..MaxFaults
  /\ overlapped \in BOOLEAN /\ abandoned \in BOOLEAN
  /\ refused \subseteq {"systemctl", "kill", "rm"}

\* "one live runtime daemon" (docs/abi.md): no two accept RPCs, however many commands
\* start and stop them at once, and whatever files they take from each other.
OneAnswers ==
  /\ TypeOK
  /\ \A d, e \in Daemons : Listens(d) /\ Listens(e) => d = e

\* A process outlived kill -KILL, or the unit its systemctl stop.
Survivors == refused \cap {"systemctl", "kill"} # {}

\* A daemon that serves can be found: the socket and the pidfile are its own, as long as
\* commands have been run one after the other and no process survived a stop, whatever
\* crashed or was abandoned.
OwnFiles ==
  \/ overlapped \/ Survivors
  \/ \A d \in Daemons : phase[d] = "serving" => socket = d /\ pidfile = d

\* daemon_stop, run alone, leaves nothing when it returns: no process and no unit that
\* comes back, unless its own systemctl stop or kill -KILL had no effect, whose exit
\* status it ignores; and no file, unless an rm had none.  It holds after stops that left
\* processes behind, and when kill was refused but kill -KILL was not.
StopLeavesNothing ==
  [][\A c \in Commands :
       /\ Running(c) /\ cmd[c].op = "stop" /\ cmd'[c].at = "ok" /\ ~overlapped
       => /\ cmd[c].spared \/ (Pids' = {} /\ ~wanted')
          /\ "rm" \in refused' \/ (socket' = NoFile /\ pidfile' = NoFile)]_vars

\* Every process that daemon_stop has found ends, unless the command is abandoned or a
\* kill -KILL had no effect, although SIGTERM and daemon.stop end none that serves: it is
\* left without bridge threads and answers status calls, until the command comes to
\* kill -KILL.
StopEndsDaemons ==
  \A c \in Commands, d \in Daemons :
    Running(c) /\ d \in cmd[c].targets ~> (~Alive(d) \/ abandoned \/ "kill" \in refused)

-----------------------------------------------------------------------------
(* Strengthenings that make the safety properties inductive.               *)

\* The bridge device is opened by one process at a time.
BridgeInv == \A d, e \in Daemons : HoldsBridge(d) /\ HoldsBridge(e) => d = e

\* systemd runs one daemon at a time, whatever the commands do; without systemd nothing
\* is wanted of it.
UnitInv ==
  /\ wanted => systemd
  /\ systemd => \A d \in Daemons : Alive(d) => d = unit

\* Where the steps of daemon_start are only its own.
OpInv ==
  \A c \in Commands : cmd[c].at \in {"ask", "look", "launch", "poll"} => cmd[c].op = "start"

\* A stop knows every daemon until it is dead, and systemd brings none back from the
\* moment it is told, unless one of the two is refused.
Ends(c) ==
  /\ cmd[c].at \in StopPlaces => ~wanted
  /\ cmd[c].at \in {"waiting", "term", "terminated", "kill"} => Pids \subseteq cmd[c].targets
  /\ cmd[c].at \in {"killed", "clean", "remove"} => Pids = {}
  /\ cmd[c].at = "launch" /\ ~systemd => Pids = {}

PlaceInv(c) == cmd[c].spared \/ Ends(c)

SparedInv == \A c \in Commands : cmd[c].spared => Survivors

\* While commands run one after the other there is one daemon at most, until one survives
\* a stop.
AloneInv ==
  ~overlapped =>
    /\ \A c, e \in Commands : Running(c) /\ Running(e) => c = e
    /\ Survivors \/ \A d, e \in Daemons : Alive(d) /\ Alive(e) => d = e
    /\ \A c \in Commands : PlaceInv(c)

\* The files are the daemon's own from the moment it makes them.
FilesInv ==
  \/ overlapped \/ Survivors
  \/ \A d \in Daemons :
       /\ phase[d] \in {"bound", "listening", "serving"} => socket = d
       /\ phase[d] = "serving" => pidfile = d

=============================================================================

------------------------ MODULE DaemonLifecycleProofs ------------------------
(***************************************************************************)
(* Proofs about the daemon's processes and files, for any number of        *)
(* commands, daemons and faults: one daemon accepts RPCs, a daemon that    *)
(* serves owns the files while commands run one after the other, and a     *)
(* stop leaves nothing.                                                    *)
(***************************************************************************)
EXTENDS DaemonLifecycle, TLAPS

-----------------------------------------------------------------------------
(* Types.                                                                  *)

\* What a step of a command does to the commands' records.
LEMMA GoesTo ==
  ASSUME TypeOK, NEW c \in Commands, NEW from, NEW to \in Places, Goes(c, from, to)
  PROVE  /\ cmd' \in [Commands -> Records]
         /\ cmd'[c].at = to
         /\ \A e \in Commands \ {c} : cmd'[e] = cmd[e]
         /\ to \notin Over => /\ cmd'[c].op = cmd[c].op /\ cmd'[c].targets = cmd[c].targets
                             /\ cmd'[c].spared = cmd[c].spared
         /\ to \in Over => ~cmd'[c].spared
         /\ cmd[c].at = from /\ UNCHANGED <<systemd, calls, overlapped, abandoned>>
BY DEF TypeOK, Goes, Idle, Over, Places, Records

\* What a refused command does to them.
LEMMA SparesTo ==
  ASSUME TypeOK, NEW c \in Commands, NEW from, NEW to \in Places,
         NEW what \in {"systemctl", "kill"}, Spares(c, from, to, what)
  PROVE  /\ cmd' \in [Commands -> Records]
         /\ cmd'[c].at = to /\ cmd'[c].spared
         /\ cmd'[c].op = cmd[c].op
         /\ \A e \in Commands \ {c} : cmd'[e] = cmd[e]
         /\ faults' \in 0..MaxFaults /\ refused' \subseteq {"systemctl", "kill", "rm"}
         /\ Survivors'
         /\ cmd[c].at = from /\ UNCHANGED <<systemd, calls, overlapped, abandoned>>
<1>1. /\ cmd' \in [Commands -> Records]
      /\ cmd'[c].at = to /\ cmd'[c].spared
      /\ cmd'[c].op = cmd[c].op
      /\ \A e \in Commands \ {c} : cmd'[e] = cmd[e]
  BY DEF TypeOK, Spares, Records
<1>2. faults' \in 0..MaxFaults
  BY LifecycleAssumption DEF TypeOK, Spares, Refused
<1>3. refused' \subseteq {"systemctl", "kill", "rm"} /\ Survivors'
  BY DEF TypeOK, Spares, Refused, Survivors
<1>4. cmd[c].at = from /\ UNCHANGED <<systemd, calls, overlapped, abandoned>>
  BY DEF Spares
<1> QED BY <1>1, <1>2, <1>3, <1>4

\* The record of a command that is over.
LEMMA IdleType ==
  ASSUME NEW to \in Over
  PROVE  /\ Idle \in Records
         /\ [Idle EXCEPT !.at = to] \in
              Records
         /\ [Idle EXCEPT !.at = to].at = to
         /\ ~[Idle EXCEPT !.at = to].spared
<1>1. Idle \in Records
  BY DEF Idle, Places, Over, Records
<1>2. to \in Places
  BY DEF Places
<1> QED BY <1>1, <1>2 DEF Records, Idle

\* The record of a command that begins.
LEMMA BeginRecord ==
  ASSUME TypeOK, NEW c \in Commands, NEW op \in {"start", "stop"}, Begin(c, op)
  PROVE  /\ cmd' \in [Commands -> Records]
         /\ cmd'[c].at \in {"ask", "list"} /\ cmd'[c].op = op /\ ~cmd'[c].spared
         /\ cmd'[c].at = "ask" => op = "start"
         /\ \A e \in Commands \ {c} : cmd'[e] = cmd[e]
<1> DEFINE begun == [Idle EXCEPT !.op = op, !.at = IF op = "start" THEN "ask" ELSE "list"]
<1>1. Idle \in Records /\ ~Idle.spared
  BY IdleType DEF Over, Idle
<1>2. /\ begun \in Records /\ begun.at \in {"ask", "list"} /\ begun.op = op
      /\ ~begun.spared /\ (begun.at = "ask" => op = "start")
  BY <1>1 DEF Records, Places
<1>3. cmd' = [cmd EXCEPT ![c] = begun]
  BY DEF Begin
<1> HIDE DEF begun
<1> QED BY <1>2, <1>3 DEF TypeOK

\* The initial state is type correct.
LEMMA InitTypes == Init => TypeOK
<1> SUFFICES ASSUME Init PROVE TypeOK
  OBVIOUS
<1>1. cmd \in [Commands -> Records]
  <2>1. Idle \in Records
    BY IdleType DEF Over
  <2> QED BY <2>1 DEF Init
<1>2. phase \in [Daemons -> Phases]
  BY DEF Init, Phases
<1>3. 0 \in 0..MaxDaemons /\ 0 \in 0..MaxCalls /\ 0 \in 0..MaxFaults
  BY LifecycleAssumption
<1> QED BY <1>1, <1>2, <1>3 DEF Init, TypeOK

\* What a command that is abandoned leaves.
LEMMA AbandonRecord ==
  ASSUME TypeOK, NEW c \in Commands, Abandon(c)
  PROVE  /\ cmd' \in [Commands -> Records]
         /\ cmd'[c].at = "failed" /\ ~cmd'[c].spared
         /\ \A e \in Commands \ {c} : cmd'[e] = cmd[e]
<1>1. /\ [Idle EXCEPT !.at = "failed"] \in Records
      /\ [Idle EXCEPT !.at = "failed"].at = "failed"
      /\ ~[Idle EXCEPT !.at = "failed"].spared
  <2>1. "failed" \in Over
    BY DEF Over
  <2> QED BY <2>1, IdleType, Zenon
<1> DEFINE ended == [Idle EXCEPT !.at = "failed"]
<1>2. cmd' = [cmd EXCEPT ![c] = ended]
  BY DEF Abandon
<1> HIDE DEF ended
<1> QED BY <1>1, <1>2 DEF TypeOK, ended

\* What a daemon's steps leave alone.
LEMMA DaemonRest ==
  ASSUME NEW d \in Daemons, DaemonStep(d)
  PROVE  UNCHANGED <<launched, systemd, unit, wanted, cmd, calls, overlapped, abandoned, refused>>
BY DEF Fault, NoFault, DaemonStep, Probe, RemoveStale, OpenBridge, Bind, Listen, WritePidfile, ServeRaises,
   ShutDown, UnlinkPidfile, UnlinkSocket, Crash, Daemon, systemdVars

\* A daemon's steps keep the types.
LEMMA DaemonTypes ==
  ASSUME TypeOK, NEW d \in Daemons, DaemonStep(d)
  PROVE  TypeOK'
<1>1. faults' \in 0..MaxFaults
  BY LifecycleAssumption DEF TypeOK, DaemonStep, Probe, RemoveStale, OpenBridge, Bind, Listen,
     WritePidfile, ServeRaises, ShutDown, UnlinkPidfile, UnlinkSocket, Crash, Fault, NoFault
<1>2. phase' \in [Daemons -> Phases]
  BY DEF TypeOK, DaemonStep, Probe, RemoveStale, OpenBridge, Bind, Listen, WritePidfile,
     ServeRaises, ShutDown, UnlinkPidfile, UnlinkSocket, Crash, Daemon, Phases
<1>3. {socket', pidfile'} \subseteq Daemons \cup {NoFile}
  BY DEF TypeOK, DaemonStep, Probe, RemoveStale, OpenBridge, Bind, Listen, WritePidfile,
     ServeRaises, ShutDown, UnlinkPidfile, UnlinkSocket, Crash
<1> QED BY <1>1, <1>2, <1>3, DaemonRest DEF TypeOK

\* Signals keep the types.
LEMMA SignalTypes ==
  ASSUME TypeOK, NEW ds \in SUBSET Daemons, Terminated(ds) \/ Killed(ds)
  PROVE  phase' \in [Daemons -> Phases]
BY DEF TypeOK, Terminated, Killed, Phases

\* A launch keeps the types.
LEMMA LaunchTypes ==
  ASSUME TypeOK, Launch
  PROVE  /\ phase' \in [Daemons -> Phases] /\ launched' \in 0..MaxDaemons
         /\ launched + 1 \in Daemons
BY LifecycleAssumption DEF TypeOK, Launch, Phases, Daemons

\* systemd's steps keep the types.
LEMMA SystemdTypes ==
  ASSUME TypeOK, SystemdRestart \/ SystemdKill
  PROVE  TypeOK'
<1> USE DEF systemdVars
<1>1. CASE SystemdRestart
  BY <1>1, LaunchTypes DEF SystemdRestart, TypeOK
<1>2. CASE SystemdKill
  <2>1. {unit} \in SUBSET Daemons
    BY <1>2 DEF TypeOK, SystemdKill, UnitAlive
  <2> QED BY <1>2, <2>1, SignalTypes DEF SystemdKill, TypeOK
<1> QED BY <1>1, <1>2

\* The steps of daemon_start, and the beginning and the end of a command, keep the types.
LEMMA StartTypes ==
  ASSUME TypeOK, NEW c \in Commands,
         StartStep(c) \/ (\E op \in {"start", "stop"} : Begin(c, op)) \/ Abandon(c)
  PROVE  TypeOK'
<1> USE DEF systemdVars, daemonVars, Quietly, NoFault
<1>1. CASE \E op \in {"start", "stop"} : Begin(c, op)
  <2>1. PICK op \in {"start", "stop"} : Begin(c, op)
    BY <1>1
  <2>2. calls' \in 0..MaxCalls /\ overlapped' \in BOOLEAN
    BY <2>1, LifecycleAssumption DEF TypeOK, Begin
  <2>3. UNCHANGED <<daemonVars, launched, systemdVars, faults, abandoned, refused>>
    BY <2>1 DEF Begin
  <2> QED BY <2>1, <2>2, <2>3, BeginRecord DEF TypeOK
<1>2. CASE FindRunning(c) \/ FindNone(c) \/ Look(c) \/ PollEnds(c)
  <2>1. PICK from, to \in Places : Goes(c, from, to)
    BY <1>2 DEF FindRunning, FindNone, Look, PollEnds, Places, Over
  <2>2. faults' \in 0..MaxFaults /\ refused' = refused
    BY <1>2, LifecycleAssumption DEF TypeOK, FindRunning, FindNone, Look, PollEnds, Fault
  <2>3. UNCHANGED <<daemonVars, launched, unit, wanted>>
    BY <1>2 DEF FindRunning, FindNone, Look, PollEnds
  <2> QED BY <2>1, <2>2, <2>3, GoesTo DEF TypeOK
<1>3. CASE StartDaemon(c)
  <2>1. "poll" \in Places
    BY DEF Places
  <2>2. phase' \in [Daemons -> Phases] /\ launched' \in 0..MaxDaemons
        /\ unit' \in Daemons \cup {NoFile}
    BY <1>3, LaunchTypes DEF TypeOK, StartDaemon
  <2> QED BY <1>3, <2>1, <2>2, GoesTo DEF StartDaemon, TypeOK
<1>4. CASE Abandon(c)
  <2>1. faults' \in 0..MaxFaults /\ refused' = refused
    BY <1>4, LifecycleAssumption DEF TypeOK, Abandon, Fault
  <2> QED BY <1>4, <2>1, AbandonRecord DEF TypeOK, Abandon
<1> QED BY <1>1, <1>2, <1>3, <1>4 DEF StartStep

\* The steps of daemon_stop keep the types.
LEMMA StopTypes ==
  ASSUME TypeOK, NEW c \in Commands, StopStep(c)
  PROVE  TypeOK'
<1> USE DEF systemdVars, daemonVars, Quietly, NoFault
<1>0. CASE SystemctlFails(c) \/ KillFails(c)
  <2>1. PICK from, to \in Places, what \in {"systemctl", "kill"} : Spares(c, from, to, what)
    BY <1>0 DEF SystemctlFails, KillFails, Places, StopPlaces
  <2>2. phase' \in [Daemons -> Phases]
    BY <1>0 DEF TypeOK, SystemctlFails, KillFails, Killed, Phases
  <2>3. UNCHANGED <<socket, pidfile, launched, unit, wanted>>
    BY <1>0 DEF SystemctlFails, KillFails
  <2> QED BY <2>1, <2>2, <2>3, SparesTo DEF TypeOK
<1>1. CASE List(c) \/ Relist(c)
  <2>1. cmd' \in [Commands -> Records]
    <3>1. Pids \subseteq Daemons /\ PidfilePid \subseteq Daemons
      BY DEF TypeOK, Pids, PidfilePid
    <3> QED BY <1>1, <3>1 DEF TypeOK, List, Relist, Places, StopPlaces, Records
  <2> QED BY <1>1, <2>1 DEF TypeOK, List, Relist
<1>2. CASE SystemctlStop(c) \/ Terminate(c) \/ Kill(c)
  <2>1. PICK from, to \in Places : Goes(c, from, to)
    BY <1>2 DEF SystemctlStop, Terminate, Kill, Places, StopPlaces
  <2>2. phase' \in [Daemons -> Phases]
    <3>1. {unit} \ {NoFile} \in SUBSET Daemons /\ cmd[c].targets \in SUBSET Daemons
      BY DEF TypeOK, Records
    <3> QED BY <1>2, <3>1, SignalTypes DEF TypeOK, SystemctlStop, Terminate, Kill
  <2>3. UNCHANGED <<socket, pidfile, launched, unit, refused>> /\ wanted' \in BOOLEAN
    BY <1>2 DEF TypeOK, SystemctlStop, Terminate, Kill, Fault
  <2>4. faults' \in 0..MaxFaults
    BY <1>2, LifecycleAssumption DEF TypeOK, SystemctlStop, Terminate, Kill, Fault
  <2> QED BY <2>1, <2>2, <2>3, <2>4, GoesTo DEF TypeOK
<1>3. CASE \/ SystemctlReturns(c) \/ TellDaemon(c) \/ TellNobody(c) \/ WaitEnds(c)
           \/ StillAnswers(c) \/ Clean(c)
  <2>1. PICK from, to \in Places : Goes(c, from, to)
    BY <1>3 DEF SystemctlReturns, TellDaemon, TellNobody, WaitEnds, StillAnswers, Clean, Stopped,
       Places, StopPlaces, Over
  <2>2. faults' \in 0..MaxFaults /\ refused' = refused
    BY <1>3, LifecycleAssumption DEF TypeOK, SystemctlReturns, TellDaemon, TellNobody, WaitEnds,
       StillAnswers, Clean, Fault
  <2>3. UNCHANGED <<daemonVars, launched, unit, wanted>>
    BY <1>3 DEF SystemctlReturns, TellDaemon, TellNobody, WaitEnds, StillAnswers, Clean
  <2> QED BY <2>1, <2>2, <2>3, GoesTo DEF TypeOK
<1>4. CASE Remove(c)
  <2>1. Stopped(c) \in Places
    BY DEF Stopped, Places, Over
  <2>2. faults' \in 0..MaxFaults /\ refused' \subseteq {"systemctl", "kill", "rm"}
    <3>1. UNCHANGED <<faults, refused>> \/ Refused("rm")
      BY <1>4 DEF Remove
    <3>2. CASE UNCHANGED <<faults, refused>>
      BY <3>2 DEF TypeOK
    <3>3. CASE Refused("rm")
      BY <3>3, LifecycleAssumption DEF TypeOK, Refused
    <3> QED BY <3>1, <3>2, <3>3
  <2>3. {socket', pidfile'} \subseteq Daemons \cup {NoFile}
    BY <1>4 DEF TypeOK, Remove, RemovesFiles
  <2> QED BY <1>4, <2>1, <2>2, <2>3, GoesTo DEF Remove, TypeOK
<1> QED BY <1>0, <1>1, <1>2, <1>3, <1>4 DEF StopStep

\* Every step keeps the types.
LEMMA NextTypes == TypeOK /\ [Next]_vars => TypeOK'
<1> SUFFICES ASSUME TypeOK, [Next]_vars PROVE TypeOK'
  OBVIOUS
<1>1. CASE UNCHANGED vars
  BY <1>1 DEF TypeOK, vars, daemonVars, systemdVars
<1>2. CASE Next
  BY <1>2, DaemonTypes, SystemdTypes, StartTypes, StopTypes DEF Next
<1> QED BY <1>1, <1>2

-----------------------------------------------------------------------------
(* One daemon opens the bridge, and one is systemd's.                      *)

\* A daemon's step moves this daemon, and to the bridge only past BridgeFree.
LEMMA DaemonMoves ==
  ASSUME TypeOK, NEW d \in Daemons, DaemonStep(d)
  PROVE  /\ \A e \in Daemons \ {d} : phase'[e] = phase[e]
         /\ phase[d] \notin {"none", "dead"}
         /\ HoldsBridge(d)' => HoldsBridge(d) \/ BridgeFree(d)
BY DEF TypeOK, DaemonStep, Probe, RemoveStale, OpenBridge, Bind, Listen, WritePidfile,
   ServeRaises, ShutDown, UnlinkPidfile, UnlinkSocket, Crash, Daemon, HoldsBridge, Alive

\* daemon_stop ends daemons and starts none, and tells systemd only to stop.
LEMMA StopMoves ==
  ASSUME TypeOK, NEW c \in Commands, StopStep(c)
  PROVE  /\ \A d \in Daemons : phase'[d] \in {phase[d], "dead"}
         /\ systemd' = systemd /\ unit' = unit /\ (wanted' => wanted)
         /\ overlapped' = overlapped /\ (Survivors => Survivors')
<1> USE DEF TypeOK, daemonVars, Quietly, Terminated, Killed, StopStep, List, SystemctlStop,
        SystemctlFails, SystemctlReturns, TellDaemon, TellNobody, Relist, WaitEnds, Terminate,
        Kill, KillFails, StillAnswers, Clean, Remove
<1>1. ASSUME NEW d \in Daemons
      PROVE  phase'[d] \in {phase[d], "dead"}
  OBVIOUS
<1>2. systemd' = systemd /\ unit' = unit /\ (wanted' => wanted) /\ overlapped' = overlapped
  BY DEF Goes, Spares
<1>3. refused \subseteq refused'
  BY DEF NoFault, Fault, Refused, Spares
<1> QED BY <1>1, <1>2, <1>3 DEF Survivors

\* The other steps refuse nothing.
LEMMA NoRefusal ==
  ASSUME [Next]_vars, \A c \in Commands : ~StopStep(c)
  PROVE  refused' = refused
<1> USE DEF NoFault, Fault
<1>1. ASSUME NEW d \in Daemons, DaemonStep(d)
      PROVE  refused' = refused
  BY <1>1, DaemonRest
<1>2. ASSUME NEW c \in Commands, NEW op \in {"start", "stop"}, Begin(c, op)
      PROVE  refused' = refused
  BY <1>2 DEF Begin
<1>3. ASSUME NEW c \in Commands, StartStep(c) \/ Abandon(c)
      PROVE  refused' = refused
  BY <1>3 DEF StartStep, FindRunning, FindNone, Look, StartDaemon, PollEnds, Abandon
<1>4. CASE SystemdRestart \/ SystemdKill \/ UNCHANGED vars
  BY <1>4 DEF SystemdRestart, SystemdKill, vars
<1> QED BY <1>1, <1>2, <1>3, <1>4 DEF Next

\* Whatever is not a daemon's step leaves a daemon where it is, ends it, or launches it.
LEMMA OtherMoves ==
  ASSUME TypeOK, [Next]_vars, \A d \in Daemons : ~DaemonStep(d), NEW e \in Daemons
  PROVE  \/ phase'[e] \in {phase[e], "dead"}
         \/ /\ SystemdRestart \/ \E c \in Commands : StartDaemon(c)
            /\ Launch /\ e = launched + 1 /\ phase'[e] = "new"
<1> USE DEF TypeOK, daemonVars, Quietly, Terminated, Killed
<1>1. CASE UNCHANGED vars
  BY <1>1 DEF vars
<1>2. CASE SystemdRestart \/ SystemdKill
  BY <1>2 DEF SystemdRestart, SystemdKill, Launch
<1>3. ASSUME NEW c \in Commands, NEW op \in {"start", "stop"}, Begin(c, op)
      PROVE  phase' = phase
  BY <1>3 DEF Begin
<1>4. ASSUME NEW c \in Commands, StartStep(c) \/ Abandon(c), phase'[e] # phase[e]
      PROVE  StartDaemon(c) /\ Launch /\ e = launched + 1 /\ phase'[e] = "new"
  BY <1>4 DEF StartStep, FindRunning, FindNone, Look, StartDaemon, PollEnds, Abandon, Launch
<1>5. ASSUME NEW c \in Commands, StopStep(c)
      PROVE  phase'[e] \in {phase[e], "dead"}
  BY <1>5, StopMoves
<1> HIDE DEF TypeOK, daemonVars, Quietly, Terminated, Killed
<1> QED BY <1>1, <1>2, <1>3, <1>4, <1>5 DEF Next

\* Every step keeps the bridge with one daemon.
LEMMA NextBridge == TypeOK /\ BridgeInv /\ [Next]_vars => BridgeInv'
<1> SUFFICES ASSUME TypeOK, BridgeInv, [Next]_vars,
                    NEW d \in Daemons, NEW e \in Daemons, HoldsBridge(d)', HoldsBridge(e)'
             PROVE  d = e
  BY DEF BridgeInv
<1>1. ASSUME NEW f \in Daemons, DaemonStep(f)
      PROVE  d = e
  BY <1>1, DaemonMoves DEF BridgeInv, BridgeFree, HoldsBridge
<1>2. CASE \A f \in Daemons : ~DaemonStep(f)
  BY <1>2, OtherMoves DEF BridgeInv, HoldsBridge
<1> QED BY <1>1, <1>2

\* "one live runtime daemon" (docs/abi.md): of all the daemons that ever run, at most one
\* accepts RPCs, whatever the commands, systemd and the crashes do at once.
THEOREM OneDaemonAnswers == Spec => []OneAnswers
<1>1. Init => TypeOK /\ BridgeInv
  BY InitTypes DEF Init, BridgeInv, HoldsBridge
<1>2. TypeOK /\ BridgeInv /\ [Next]_vars => TypeOK' /\ BridgeInv'
  BY NextTypes, NextBridge
<1>3. TypeOK /\ BridgeInv => OneAnswers
  BY DEF BridgeInv, OneAnswers, HoldsBridge, Listens
<1> QED BY <1>1, <1>2, <1>3, PTL DEF Spec

-----------------------------------------------------------------------------
(* Commands that run one after the other.                                  *)

Alone == TypeOK /\ UnitInv /\ OpInv /\ SparedInv /\ AloneInv

\* A step that launches nothing revives nobody.
LEMMA NoRevival ==
  ASSUME TypeOK, [Next]_vars, ~SystemdRestart, \A c \in Commands : ~StartDaemon(c)
  PROVE  /\ \A d \in Daemons : Alive(d)' => Alive(d)
         /\ systemd' = systemd /\ unit' = unit /\ (wanted' => wanted)
<1>1. systemd' = systemd /\ unit' = unit /\ (wanted' => wanted)
  <2> USE DEF daemonVars, systemdVars, Quietly, Goes
  <2>1. CASE UNCHANGED vars
    BY <2>1 DEF vars
  <2>2. ASSUME NEW d \in Daemons, DaemonStep(d)
        PROVE  UNCHANGED systemdVars
    BY <2>2, DaemonRest
  <2>3. CASE SystemdKill
    BY <2>3 DEF SystemdKill
  <2>4. ASSUME NEW c \in Commands, NEW op \in {"start", "stop"}, Begin(c, op)
        PROVE  UNCHANGED systemdVars
    BY <2>4 DEF Begin
  <2>5. ASSUME NEW c \in Commands, StartStep(c) \/ Abandon(c)
        PROVE  UNCHANGED systemdVars
    BY <2>5 DEF StartStep, FindRunning, FindNone, Look, PollEnds, Abandon
  <2>6. ASSUME NEW c \in Commands, StopStep(c)
        PROVE  systemd' = systemd /\ unit' = unit /\ (wanted' => wanted)
    BY <2>6, StopMoves
  <2> QED BY <2>1, <2>2, <2>3, <2>4, <2>5, <2>6 DEF Next, systemdVars
<1>2. ASSUME NEW d \in Daemons, Alive(d)'
      PROVE  Alive(d)
  <2>1. ASSUME NEW f \in Daemons, DaemonStep(f)
        PROVE  Alive(d)
    BY <1>2, <2>1, DaemonMoves DEF Alive
  <2>2. CASE \A f \in Daemons : ~DaemonStep(f)
    BY <1>2, <2>2, OtherMoves DEF Alive
  <2> QED BY <2>1, <2>2
<1> QED BY <1>1, <1>2

\* Every step keeps systemd's daemon the only one under systemd.
LEMMA NextUnit == TypeOK /\ UnitInv /\ [Next]_vars => UnitInv'
<1> SUFFICES ASSUME TypeOK, UnitInv, [Next]_vars PROVE UnitInv'
  OBVIOUS
<1>1. CASE SystemdRestart
  BY <1>1 DEF TypeOK, UnitInv, SystemdRestart, Launch, UnitAlive, Alive, Daemons, NoFile
<1>2. ASSUME NEW c \in Commands, StartDaemon(c)
      PROVE  UnitInv'
  <2>1. systemd' = systemd
    BY <1>2 DEF StartDaemon, Goes
  <2>2. CASE systemd /\ UnitAlive
    BY <1>2, <2>1, <2>2 DEF UnitInv, StartDaemon, Alive
  <2>3. CASE ~(systemd /\ UnitAlive)
    <3>1. Launch /\ unit' = (IF systemd THEN launched + 1 ELSE unit)
      BY <1>2, <2>3 DEF StartDaemon
    <3>2. ASSUME systemd, NEW d \in Daemons
          PROVE  ~Alive(d)
      BY <2>3, <3>2 DEF TypeOK, UnitInv, UnitAlive, Daemons, NoFile
    <3>3. ASSUME systemd, NEW d \in Daemons, Alive(d)'
          PROVE  d = unit'
      BY <3>1, <3>2, <3>3 DEF TypeOK, Launch, Alive
    <3>4. wanted' => systemd
      BY <1>2 DEF StartDaemon
    <3> QED BY <2>1, <3>3, <3>4 DEF UnitInv
  <2> QED BY <2>2, <2>3
<1>3. CASE ~SystemdRestart /\ \A c \in Commands : ~StartDaemon(c)
  BY <1>3, NoRevival DEF UnitInv
<1> QED BY <1>1, <1>2, <1>3

\* Every step keeps daemon_start's places its own.
LEMMA NextOp == TypeOK /\ OpInv /\ [Next]_vars => OpInv'
<1> SUFFICES ASSUME TypeOK, OpInv, [Next]_vars, NEW e \in Commands,
                    cmd'[e].at \in {"ask", "look", "launch", "poll"}
             PROVE  cmd'[e].op = "start"
  BY DEF OpInv
<1>1. CASE UNCHANGED cmd
  BY <1>1 DEF OpInv
<1>2. ASSUME NEW c \in Commands, NEW op \in {"start", "stop"}, Begin(c, op)
      PROVE  cmd'[e].op = "start"
  BY <1>2, BeginRecord DEF OpInv
<1>3. ASSUME NEW c \in Commands, StartStep(c)
      PROVE  cmd'[e].op = "start"
  <2>1. PICK from \in {"ask", "look", "launch", "poll"}, to \in Places : Goes(c, from, to)
    BY <1>3 DEF StartStep, FindRunning, FindNone, Look, StartDaemon, PollEnds, Places, StopPlaces, Over
  <2> QED BY <2>1, GoesTo DEF OpInv, Over
<1>4. ASSUME NEW c \in Commands, Abandon(c)
      PROVE  cmd'[e].op = "start"
  BY <1>4, AbandonRecord DEF TypeOK, OpInv
<1>5. ASSUME NEW c \in Commands, StopStep(c)
      PROVE  cmd'[e].op = "start"
  <2>1. CASE List(c) \/ Relist(c)
    BY <2>1 DEF TypeOK, Records, OpInv, List, Relist
  <2>2. CASE SystemctlFails(c) \/ KillFails(c)
    <3>1. PICK from \in {"tell", "kill"}, to \in StopPlaces, what \in {"systemctl", "kill"} :
            Spares(c, from, to, what)
      BY <2>2 DEF SystemctlFails, KillFails, StopPlaces
    <3>2. to \in Places /\ to \notin {"ask", "look", "launch", "poll"}
      BY <3>1 DEF Places, StopPlaces
    <3> QED BY <3>1, <3>2, SparesTo DEF OpInv
  <2>3. CASE ~(List(c) \/ Relist(c) \/ SystemctlFails(c) \/ KillFails(c))
    <3>1. PICK from, to \in Places :
            Goes(c, from, to) /\ (to \notin {"ask", "look", "launch", "poll"} \/ to = Stopped(c))
      BY <1>5, <2>3 DEF StopStep, SystemctlStop, SystemctlReturns, TellDaemon, TellNobody,
         WaitEnds, Terminate, Kill, StillAnswers, Clean, Remove, Stopped, Places, StopPlaces, Over
    <3> QED BY <3>1, GoesTo DEF OpInv, Over, Stopped
  <2> QED BY <2>1, <2>2, <2>3
<1>6. CASE SystemdRestart \/ SystemdKill \/ \E d \in Daemons : DaemonStep(d)
  <2>1. UNCHANGED cmd
    BY <1>6, DaemonRest DEF SystemdRestart, SystemdKill
  <2> QED BY <1>1, <2>1
<1> QED BY <1>1, <1>2, <1>3, <1>4, <1>5, <1>6 DEF Next, vars

\* Every step keeps a command that spared a process one whose command was refused.
LEMMA NextSpared == TypeOK /\ SparedInv /\ [Next]_vars => SparedInv'
<1> SUFFICES ASSUME TypeOK, SparedInv, [Next]_vars, NEW e \in Commands, cmd'[e].spared
             PROVE  Survivors'
  BY DEF SparedInv
<1>1. CASE \A c \in Commands : ~StopStep(c)
  <2>1. Survivors => Survivors'
    BY <1>1, NoRefusal DEF Survivors
  <2>2. cmd[e].spared
    <3>1. CASE UNCHANGED cmd
      BY <3>1
    <3>2. ASSUME NEW c \in Commands, NEW op \in {"start", "stop"}, Begin(c, op)
          PROVE  cmd[e].spared
      BY <3>2, BeginRecord
    <3>3. ASSUME NEW c \in Commands, StartStep(c)
          PROVE  cmd[e].spared
      <4>1. PICK from, to \in Places : Goes(c, from, to)
        BY <3>3 DEF StartStep, FindRunning, FindNone, Look, StartDaemon, PollEnds, Places,
           StopPlaces, Over
      <4> QED BY <4>1, GoesTo
    <3>4. ASSUME NEW c \in Commands, Abandon(c)
          PROVE  cmd[e].spared
      BY <3>4, AbandonRecord
    <3>5. CASE SystemdRestart \/ SystemdKill \/ \E d \in Daemons : DaemonStep(d)
      BY <3>1, <3>5, DaemonRest DEF SystemdRestart, SystemdKill
    <3> QED BY <1>1, <3>1, <3>2, <3>3, <3>4, <3>5 DEF Next, vars
  <2> QED BY <2>1, <2>2 DEF SparedInv
<1>2. ASSUME NEW c \in Commands, StopStep(c)
      PROVE  Survivors'
  <2>1. Survivors => Survivors'
    BY <1>2, StopMoves
  <2>2. CASE List(c) \/ Relist(c)
    <3>1. cmd[e].spared
      BY <2>2 DEF TypeOK, List, Relist, Records
    <3> QED BY <2>1, <3>1 DEF SparedInv
  <2>3. CASE SystemctlFails(c) \/ KillFails(c)
    <3>1. PICK from, to \in Places, what \in {"systemctl", "kill"} : Spares(c, from, to, what)
      BY <2>3 DEF SystemctlFails, KillFails, Places, StopPlaces
    <3> QED BY <3>1, SparesTo
  <2>4. CASE ~(List(c) \/ Relist(c) \/ SystemctlFails(c) \/ KillFails(c))
    <3>1. PICK from, to \in Places : Goes(c, from, to)
      BY <1>2, <2>4 DEF StopStep, SystemctlStop, SystemctlReturns, TellDaemon, TellNobody,
         WaitEnds, Terminate, Kill, StillAnswers, Clean, Remove, Stopped, Places, StopPlaces, Over
    <3>2. cmd[e].spared
      BY <3>1, GoesTo
    <3> QED BY <2>1, <3>2 DEF SparedInv
  <2> QED BY <2>2, <2>3, <2>4
<1> QED BY <1>1, <1>2

\* What has to be shown of a step of a command that runs alone: the other commands have
\* ended.
LEMMA CommandAlone ==
  ASSUME AloneInv, ~overlapped, NEW c \in Commands, Running(c),
         \A e \in Commands \ {c} : cmd'[e] = cmd[e],
         Survivors' \/ \A d, e \in Daemons : Alive(d)' /\ Alive(e)' => d = e,
         PlaceInv(c)'
  PROVE  AloneInv'
<1>1. \A e \in Commands \ {c} : cmd'[e].at \in Over
  BY DEF AloneInv, Running
<1>2. \A e \in Commands \ {c} : PlaceInv(e)' /\ ~Running(e)'
  BY <1>1 DEF PlaceInv, Ends, Running, Over, StopPlaces
<1> QED BY <1>2 DEF AloneInv

\* A command that waits for the daemons to be gone, and finds that, has ended them all.
LEMMA GoneMeansNone ==
  ASSUME NEW c \in Commands, Ends(c), Gone(c),
         cmd[c].at \in {"waiting", "terminated", "killed"}
  PROVE  Pids = {}
BY DEF Ends, Gone, Pids

\* The steps of daemon_stop, run alone.
LEMMA StopAlone ==
  ASSUME Alone, ~overlapped, NEW c \in Commands, StopStep(c)
  PROVE  AloneInv'
<1> USE DEF Alone
<1>1. Running(c)
  BY DEF StopStep, List, SystemctlStop, SystemctlFails, SystemctlReturns, TellDaemon, TellNobody,
     Relist, WaitEnds, Terminate, Kill, KillFails, StillAnswers, Clean, Remove, Goes, Spares,
     Running, Over
<1>2. /\ Pids' \subseteq Pids
      /\ Survivors' \/ \A d, e \in Daemons : Alive(d)' /\ Alive(e)' => d = e
      /\ systemd' = systemd /\ (wanted' => wanted)
  BY StopMoves DEF AloneInv, Alive, Pids
<1>3. cmd[c].spared \/ Ends(c)
  BY DEF AloneInv, PlaceInv
<1> SUFFICES /\ \A e \in Commands \ {c} : cmd'[e] = cmd[e]
             /\ cmd'[c].spared \/ Ends(c)'
  BY <1>1, <1>2, CommandAlone DEF PlaceInv
<1>4. CASE SystemctlFails(c) \/ KillFails(c)
  <2>1. PICK from, to \in Places, what \in {"systemctl", "kill"} : Spares(c, from, to, what)
    BY <1>4 DEF SystemctlFails, KillFails, Places, StopPlaces
  <2> QED BY <2>1, SparesTo
<1> USE DEF StopPlaces, Over
<1>5. CASE cmd[c].spared /\ ~(SystemctlFails(c) \/ KillFails(c))
  <2>1. CASE List(c) \/ Relist(c)
    BY <1>5, <2>1 DEF TypeOK, List, Relist, Records
  <2>2. CASE ~(List(c) \/ Relist(c))
    <3>1. PICK from, to \in Places : Goes(c, from, to)
      BY <1>5, <2>2 DEF StopStep, SystemctlStop, SystemctlReturns, TellDaemon, TellNobody,
         WaitEnds, Terminate, Kill, StillAnswers, Clean, Remove, Stopped, Places
    <3> QED BY <1>5, <3>1, GoesTo DEF Ends
  <2> QED BY <2>1, <2>2
<1>6. SUFFICES ASSUME ~cmd[c].spared
               PROVE  /\ \A e \in Commands \ {c} : cmd'[e] = cmd[e]
                      /\ cmd'[c].spared \/ Ends(c)'
  BY <1>4, <1>5
<1>7. Ends(c)
  BY <1>3, <1>6
<1>8. CASE List(c)
  BY <1>8 DEF TypeOK, List, Ends
<1>9. CASE Relist(c)
  <2>1. Pids' = Pids
    BY <1>9 DEF Relist, Quietly, daemonVars, Pids, Alive
  <2> QED BY <1>2, <1>7, <1>9, <2>1 DEF TypeOK, Relist, Ends
<1>10. CASE SystemctlStop(c)
  <2>1. Goes(c, "tell", "systemctl") /\ "systemctl" \in Places /\ ~wanted'
    BY <1>10 DEF SystemctlStop, Places
  <2> QED BY <2>1, GoesTo DEF Ends
<1>11. CASE SystemctlReturns(c)
  <2>1. Goes(c, "systemctl", "asked") /\ "asked" \in Places
    BY <1>11 DEF SystemctlReturns, Places
  <2> QED BY <1>2, <1>7, <2>1, GoesTo DEF Ends
<1>12. CASE TellDaemon(c) \/ TellNobody(c)
  <2>1. PICK to \in {"asked", "unasked"} : Goes(c, "tell", to) /\ to \in Places
    BY <1>12 DEF TellDaemon, TellNobody, Places
  <2>2. ~wanted'
    BY <1>2, <1>12 DEF TellDaemon, TellNobody, UnitInv
  <2> QED BY <2>1, <2>2, GoesTo DEF Ends
<1>13. CASE WaitEnds(c)
  <2>1. PICK next \in {<<"waiting", "term">>, <<"terminated", "kill">>, <<"killed", "clean">>} :
          Goes(c, next[1], IF Gone(c) THEN Stopped(c) ELSE next[2])
    BY <1>13 DEF WaitEnds
  <2>2. (IF Gone(c) THEN Stopped(c) ELSE next[2]) \in Places
    BY DEF Places, Stopped
  <2>3. cmd[c].at = next[1]
    BY <2>1 DEF Goes
  <2>4. CASE Gone(c)
    <3>1. Pids = {}
      BY <1>7, <2>3, <2>4, GoneMeansNone
    <3> QED BY <1>2, <2>1, <2>2, <2>4, <3>1, GoesTo DEF Stopped, Ends
  <2>5. CASE ~Gone(c)
    BY <1>2, <1>7, <2>1, <2>2, <2>3, <2>5, GoesTo DEF Ends
  <2> QED BY <2>4, <2>5
<1>14. CASE Terminate(c)
  <2>1. Goes(c, "term", "terminated") /\ "terminated" \in Places
    BY <1>14 DEF Terminate, Places
  <2> QED BY <1>2, <1>7, <2>1, GoesTo DEF Ends
<1>15. CASE Kill(c)
  <2>1. Goes(c, "kill", "killed") /\ "killed" \in Places
    BY <1>15 DEF Kill, Places
  <2>2. cmd[c].at = "kill" /\ Pids \subseteq cmd[c].targets
    BY <1>7, <2>1 DEF Goes, Ends
  <2>3. Pids' = {}
    BY <1>15, <2>2 DEF Kill, Killed, Pids, Alive
  <2> QED BY <1>2, <1>7, <2>1, <2>2, <2>3, GoesTo DEF Ends
<1>16. CASE StillAnswers(c) \/ Clean(c)
  <2>1. PICK to \in {"failed", "remove"} : Goes(c, "clean", to) /\ to \in Places
    BY <1>16 DEF StillAnswers, Clean, Places
  <2> QED BY <1>2, <1>7, <2>1, GoesTo DEF Ends
<1>17. CASE Remove(c)
  <2>1. Goes(c, "remove", Stopped(c)) /\ Stopped(c) \in Places /\ Stopped(c) \in {"launch", "ok"}
    BY <1>17 DEF Remove, Stopped, Places
  <2> QED BY <1>2, <1>7, <2>1, GoesTo DEF Ends
<1> QED BY <1>4, <1>8, <1>9, <1>10, <1>11, <1>12, <1>13, <1>14, <1>15, <1>16, <1>17 DEF StopStep

\* The steps of daemon_start, run alone.
LEMMA StartAlone ==
  ASSUME Alone, ~overlapped, NEW c \in Commands, StartStep(c) \/ Abandon(c)
  PROVE  AloneInv'
<1> USE DEF Alone, StopPlaces, Over
<1>1. Running(c)
  BY DEF StartStep, FindRunning, FindNone, Look, StartDaemon, PollEnds, Abandon, Goes, Running
<1>2. PlaceInv(c) /\ Survivors' = Survivors
  <2>1. refused' = refused
    BY DEF StartStep, FindRunning, FindNone, Look, StartDaemon, PollEnds, Abandon, NoFault, Fault
  <2> QED BY <2>1 DEF AloneInv, Survivors
<1>3. CASE FindRunning(c) \/ FindNone(c) \/ Look(c) \/ PollEnds(c)
  <2>1. PICK from \in {"ask", "look", "poll"}, to \in {"ok", "failed", "look", "list", "launch"} :
          Goes(c, from, to) /\ to \in Places /\ (to = "launch" => Pids = {})
    BY <1>3 DEF FindRunning, FindNone, Look, PollEnds, Leftovers, Places
  <2>2. Pids' = Pids /\ \A d \in Daemons : Alive(d)' <=> Alive(d)
    BY <1>3 DEF FindRunning, FindNone, Look, PollEnds, Quietly, daemonVars, Pids, Alive
  <2>3. PlaceInv(c)'
    BY <2>1, <2>2, GoesTo DEF PlaceInv, Ends
  <2>4. Survivors' \/ \A d, e \in Daemons : Alive(d)' /\ Alive(e)' => d = e
    BY <1>2, <2>2 DEF AloneInv
  <2>5. \A e \in Commands \ {c} : cmd'[e] = cmd[e]
    BY <2>1, GoesTo
  <2> QED BY <1>1, <2>3, <2>4, <2>5, CommandAlone
<1>4. CASE Abandon(c)
  <2>1. Pids' = Pids /\ \A d \in Daemons : Alive(d)' <=> Alive(d)
    BY <1>4 DEF Abandon, Quietly, daemonVars, Pids, Alive
  <2>2. PlaceInv(c)'
    BY <1>4, AbandonRecord DEF PlaceInv, Ends
  <2>3. Survivors' \/ \A d, e \in Daemons : Alive(d)' /\ Alive(e)' => d = e
    BY <1>2, <2>1 DEF AloneInv
  <2>4. \A e \in Commands \ {c} : cmd'[e] = cmd[e]
    BY <1>4, AbandonRecord
  <2> QED BY <1>1, <2>2, <2>3, <2>4, CommandAlone
<1>5. CASE StartDaemon(c)
  <2>1. Goes(c, "launch", "poll") /\ "poll" \in Places
    BY <1>5 DEF StartDaemon, Places
  <2>2. PlaceInv(c)'
    BY <2>1, GoesTo DEF PlaceInv, Ends
  <2>3. Survivors' \/ \A d, e \in Daemons : Alive(d)' /\ Alive(e)' => d = e
    <3>1. CASE systemd /\ UnitAlive
      <4>1. phase' = phase
        BY <1>5, <3>1 DEF StartDaemon
      <4> QED BY <1>2, <4>1 DEF AloneInv, Alive
    <3>2. CASE ~(systemd /\ UnitAlive) /\ ~Survivors
      <4>1. Launch
        BY <1>5, <3>2 DEF StartDaemon
      <4>2. ASSUME NEW d \in Daemons
            PROVE  ~Alive(d)
        <5>1. CASE systemd
          BY <3>2, <5>1 DEF TypeOK, UnitInv, UnitAlive, Daemons, NoFile
        <5>2. CASE ~systemd
          BY <1>2, <2>1, <3>2, <5>2, GoesTo DEF SparedInv, PlaceInv, Ends, Pids
        <5> QED BY <5>1, <5>2
      <4> QED BY <4>1, <4>2 DEF TypeOK, Launch, Alive
    <3> QED BY <1>2, <3>1, <3>2
  <2>4. \A e \in Commands \ {c} : cmd'[e] = cmd[e]
    BY <2>1, GoesTo
  <2> QED BY <1>1, <2>2, <2>3, <2>4, CommandAlone
<1> QED BY <1>3, <1>4, <1>5 DEF StartStep

\* Every step keeps the daemons and the commands one at a time.
LEMMA NextAlone == Alone /\ [Next]_vars => Alone'
<1> SUFFICES ASSUME Alone, [Next]_vars PROVE AloneInv'
  BY NextTypes, NextUnit, NextOp, NextSpared DEF Alone
<1> USE DEF Alone
<1>1. CASE overlapped'
  BY <1>1 DEF AloneInv
<1>2. ASSUME ~overlapped', UNCHANGED <<systemd, cmd, overlapped, refused>>, wanted' => wanted,
             \A d \in Daemons : Alive(d)' => Alive(d)
      PROVE  AloneInv'
  <2>1. Pids' \subseteq Pids
    BY <1>2 DEF Pids
  <2>2. \A c \in Commands : PlaceInv(c)'
    BY <1>2, <2>1 DEF AloneInv, PlaceInv, Ends
  <2>3. Survivors' \/ \A d, e \in Daemons : Alive(d)' /\ Alive(e)' => d = e
    BY <1>2 DEF AloneInv, Survivors
  <2> QED BY <1>2, <2>2, <2>3 DEF AloneInv, Running
<1>3. ASSUME ~overlapped', NEW d \in Daemons, DaemonStep(d)
      PROVE  AloneInv'
  <2>1. \A e \in Daemons : Alive(e)' => Alive(e)
    BY <1>3, DaemonMoves DEF Alive
  <2> QED BY <1>2, <1>3, <2>1, DaemonRest
<1>4. ASSUME ~overlapped', SystemdKill
      PROVE  AloneInv'
  <2>1. \A e \in Daemons : Alive(e)' => Alive(e)
    BY <1>4 DEF TypeOK, SystemdKill, Killed, Alive
  <2> QED BY <1>2, <1>4, <2>1 DEF SystemdKill, systemdVars
<1>5. ASSUME ~overlapped', SystemdRestart
      PROVE  AloneInv'
  <2>1. wanted /\ systemd /\ ~UnitAlive /\ Launch
        /\ UNCHANGED <<systemd, wanted, cmd, overlapped>>
    BY <1>5 DEF SystemdRestart, UnitInv
  <2>2. \A d \in Daemons : ~Alive(d)
    BY <2>1 DEF TypeOK, UnitInv, UnitAlive, Daemons, NoFile
  <2>3. \A d, e \in Daemons : Alive(d)' /\ Alive(e)' => d = e
    BY <2>1, <2>2 DEF TypeOK, Launch, Alive
  <2>4. \A c \in Commands : PlaceInv(c)'
    BY <1>5, <2>1 DEF AloneInv, PlaceInv, Ends, StopPlaces
  <2> QED BY <1>5, <2>1, <2>3, <2>4 DEF AloneInv, Running
<1>6. ASSUME ~overlapped', NEW c \in Commands, NEW op \in {"start", "stop"}, Begin(c, op)
      PROVE  AloneInv'
  <2>1. ~overlapped /\ \A e \in Commands : ~Running(e)
    BY <1>6 DEF TypeOK, Begin
  <2>2. \A e \in Commands \ {c} : cmd'[e] = cmd[e]
    BY <1>6, BeginRecord
  <2>3. cmd'[c].at \in {"ask", "list"}
    BY <1>6, BeginRecord
  <2>4. \A e \in Commands : PlaceInv(e)' /\ (Running(e)' => e = c)
    BY <2>1, <2>2, <2>3 DEF PlaceInv, Ends, Running, Over, StopPlaces
  <2>5. (\A d \in Daemons : Alive(d)' <=> Alive(d)) /\ Survivors' = Survivors
    BY <1>6 DEF Begin, daemonVars, Alive, Survivors
  <2> QED BY <2>1, <2>4, <2>5 DEF AloneInv
<1>7. ASSUME ~overlapped', NEW c \in Commands, StartStep(c) \/ Abandon(c)
      PROVE  AloneInv'
  <2>1. overlapped' = overlapped
    BY <1>7 DEF StartStep, FindRunning, FindNone, Look, StartDaemon, PollEnds, Abandon, Goes
  <2> QED BY <1>7, <2>1, StartAlone
<1>8. ASSUME ~overlapped', NEW c \in Commands, StopStep(c)
      PROVE  AloneInv'
  BY <1>8, StopAlone, StopMoves
<1>9. ASSUME ~overlapped', UNCHANGED vars
      PROVE  AloneInv'
  BY <1>2, <1>9 DEF vars, daemonVars, systemdVars, Alive
<1> QED BY <1>1, <1>3, <1>4, <1>5, <1>6, <1>7, <1>8, <1>9 DEF Next

\* The initial state.
LEMMA InitAlone == Init => Alone
<1> SUFFICES ASSUME Init PROVE Alone
  OBVIOUS
<1>1. \A d \in Daemons : ~Alive(d)
  BY DEF Init, Alive
<1>2. \A c \in Commands : cmd[c].at = "idle"
  BY DEF Init, Idle
<1>3. UnitInv /\ SparedInv
  BY <1>1 DEF Init, UnitInv, SparedInv, Idle
<1>4. OpInv
  BY <1>2 DEF OpInv
<1>5. AloneInv
  BY <1>1, <1>2 DEF AloneInv, PlaceInv, Ends, Running, Over, StopPlaces
<1> QED BY InitTypes, <1>3, <1>4, <1>5 DEF Alone

-----------------------------------------------------------------------------
(* The files.                                                              *)

\* Every step keeps a daemon's files its own.
LEMMA NextFiles == Alone /\ FilesInv /\ [Next]_vars => FilesInv'
<1> SUFFICES ASSUME Alone, FilesInv, [Next]_vars, ~overlapped', ~Survivors', NEW d \in Daemons,
                    phase'[d] \in {"bound", "listening", "serving"}
             PROVE  socket' = d /\ (phase'[d] = "serving" => pidfile' = d)
  BY DEF FilesInv
<1> USE DEF Alone, TypeOK
<1>0. ~Survivors
  <2>1. CASE \E c \in Commands : StopStep(c)
    BY <2>1, StopMoves
  <2>2. CASE \A c \in Commands : ~StopStep(c)
    BY <2>2, NoRefusal DEF Survivors
  <2> QED BY <2>1, <2>2
<1>1. ASSUME ~overlapped, phase'[d] = phase[d], UNCHANGED <<socket, pidfile>>
      PROVE  socket' = d /\ (phase'[d] = "serving" => pidfile' = d)
  BY <1>0, <1>1 DEF FilesInv
<1>2. ASSUME NEW e \in Daemons, DaemonStep(e)
      PROVE  socket' = d /\ (phase'[d] = "serving" => pidfile' = d)
  <2>1. ~overlapped
    BY <1>2, DaemonRest
  <2>2. d = e
    BY <1>0, <1>2, <2>1, DaemonMoves DEF AloneInv, Alive
  <2> QED BY <1>0, <1>2, <2>1, <2>2 DEF FilesInv, NoFile, Daemons, DaemonStep, Probe, RemoveStale, OpenBridge, Bind,
        Listen, WritePidfile, ServeRaises, ShutDown, UnlinkPidfile, UnlinkSocket, Crash, Daemon
<1>3. CASE \A e \in Daemons : ~DaemonStep(e)
  <2>1. phase'[d] = phase[d]
    BY <1>3, OtherMoves
  <2>2. ASSUME NEW c \in Commands, NEW op \in {"start", "stop"}, Begin(c, op)
        PROVE  ~overlapped /\ UNCHANGED <<socket, pidfile>>
    BY <2>2 DEF Begin, daemonVars
  <2>3. ASSUME NEW c \in Commands, StartStep(c) \/ Abandon(c)
        PROVE  ~overlapped /\ UNCHANGED <<socket, pidfile>>
    BY <2>3 DEF StartStep, FindRunning, FindNone, Look, StartDaemon, PollEnds, Abandon, Goes,
       Quietly, daemonVars
  <2>4. ASSUME NEW c \in Commands, StopStep(c)
        PROVE  ~overlapped /\ UNCHANGED <<socket, pidfile>>
    <3>1. ~overlapped
      BY <2>4, StopMoves
    <3>2. CASE Remove(c)
      <4>1. Pids = {}
        BY <1>0, <3>1, <3>2 DEF Remove, Goes, AloneInv, PlaceInv, Ends, SparedInv
      <4> QED BY <2>1, <4>1 DEF Pids, Alive
    <3>3. CASE ~Remove(c)
      BY <2>4, <3>1, <3>3 DEF StopStep, List, SystemctlStop, SystemctlFails, SystemctlReturns,
         TellDaemon, TellNobody, Relist, WaitEnds, Terminate, Kill, KillFails, StillAnswers, Clean,
         Quietly, daemonVars
    <3> QED BY <3>2, <3>3
  <2>5. CASE SystemdRestart \/ SystemdKill \/ UNCHANGED vars
    BY <1>1, <2>1, <2>5 DEF SystemdRestart, SystemdKill, vars, daemonVars
  <2> QED BY <1>1, <1>3, <2>1, <2>2, <2>3, <2>4, <2>5 DEF Next
<1> QED BY <1>2, <1>3

\* The inductive invariant holds of every behaviour.
LEMMA Invariant == Spec => [](Alone /\ FilesInv)
<1>1. Init => Alone /\ FilesInv
  BY InitAlone DEF Init, FilesInv
<1>2. Alone /\ FilesInv /\ [Next]_vars => (Alone /\ FilesInv)'
  BY NextAlone, NextFiles
<1> QED BY <1>1, <1>2, PTL DEF Spec

\* A daemon that serves owns the socket and the pidfile while commands are run one after
\* the other, whatever crashed, was abandoned or was restarted by systemd before.
THEOREM FilesOwned == Spec => []OwnFiles
<1>1. Alone /\ FilesInv => OwnFiles
  BY DEF FilesInv, OwnFiles
<1> QED BY <1>1, Invariant, PTL

\* daemon_stop, run alone, leaves no process and no unit that comes back unless its own
\* systemctl stop or kill -KILL had no effect, and no file unless an rm had none, whatever
\* earlier stops left behind.
THEOREM StopComplete == Spec => StopLeavesNothing
<1> DEFINE Step == \A c \in Commands :
             /\ Running(c) /\ cmd[c].op = "stop" /\ cmd'[c].at = "ok" /\ ~overlapped
             => /\ cmd[c].spared \/ (Pids' = {} /\ ~wanted')
                /\ "rm" \in refused' \/ (socket' = NoFile /\ pidfile' = NoFile)
<1>1. ASSUME Alone, [Next]_vars PROVE [Step]_vars
  <2> SUFFICES ASSUME NEW c \in Commands, Running(c), cmd[c].op = "stop", cmd'[c].at = "ok",
                      ~overlapped
               PROVE  /\ cmd[c].spared \/ (Pids' = {} /\ ~wanted')
                      /\ "rm" \in refused' \/ (socket' = NoFile /\ pidfile' = NoFile)
    OBVIOUS
  <2> USE <1>1 DEF Alone, TypeOK, Over
  <2>1. cmd' # cmd
    BY DEF Running
  <2>2. PICK e \in Commands : \/ \E op \in {"start", "stop"} : Begin(e, op)
                             \/ StartStep(e) \/ StopStep(e) \/ Abandon(e)
    BY <2>1, DaemonRest DEF Next, vars, SystemdRestart, SystemdKill
  <2>3. ASSUME \A f \in Commands \ {e} : cmd'[f] = cmd[f]
        PROVE  c = e
    BY <2>3 DEF Running
  <2>4. CASE \E op \in {"start", "stop"} : Begin(e, op)
    BY <2>3, <2>4, BeginRecord
  <2>5. CASE Abandon(e)
    BY <2>3, <2>5, AbandonRecord
  <2>6. CASE StartStep(e)
    <3>1. PICK from \in {"ask", "look", "launch", "poll"}, to \in Places : Goes(e, from, to)
      BY <2>6 DEF StartStep, FindRunning, FindNone, Look, StartDaemon, PollEnds, Places, StopPlaces
    <3> QED BY <2>3, <3>1, GoesTo DEF OpInv
  <2>7. CASE StopStep(e)
    <3>1. CASE List(e) \/ Relist(e)
      BY <2>3, <3>1 DEF List, Relist, Records
    <3>2. CASE SystemctlFails(e) \/ KillFails(e)
      <4>1. PICK from, to \in Places \ {"ok"}, what \in {"systemctl", "kill"} :
              Spares(e, from, to, what)
        BY <3>2 DEF SystemctlFails, KillFails, Places, StopPlaces
      <4> QED BY <2>3, <4>1, SparesTo
    <3>3. CASE ~(List(e) \/ Relist(e) \/ SystemctlFails(e) \/ KillFails(e))
      <4>1. PICK from, to \in Places :
              Goes(e, from, to) /\ (to = "ok" => Remove(e) \/ (WaitEnds(e) /\ Gone(e)))
        BY <2>7, <3>3 DEF StopStep, SystemctlStop, SystemctlReturns, TellDaemon, TellNobody,
           WaitEnds, Terminate, Kill, StillAnswers, Clean, Remove, Stopped, Places, StopPlaces
      <4>2. c = e /\ to = "ok"
        BY <2>3, <4>1, GoesTo
      <4>3. PlaceInv(c)
        BY DEF AloneInv
      <4>4. CASE Remove(c)
        <5>1. cmd[c].at = "remove" /\ wanted' = wanted /\ phase' = phase
          BY <4>4 DEF Remove, Goes
        <5>2. "rm" \in refused' \/ (socket' = NoFile /\ pidfile' = NoFile)
          BY <4>4 DEF Remove, Refused, RemovesFiles
        <5> QED BY <4>3, <5>1, <5>2 DEF PlaceInv, Ends, StopPlaces, Pids, Alive
      <4>5. CASE WaitEnds(c) /\ Gone(c)
        <5>1. cmd[c].at \in {"waiting", "terminated", "killed"}
              /\ UNCHANGED <<phase, socket, pidfile, wanted>>
          BY <4>5 DEF WaitEnds, Goes, Quietly, daemonVars
        <5>2. cmd[c].spared \/ Pids = {}
          BY <4>3, <4>5, <5>1, GoneMeansNone DEF PlaceInv
        <5> QED BY <4>3, <4>5, <5>1, <5>2 DEF PlaceInv, Ends, StopPlaces, Gone, Pids, Alive
      <4> QED BY <4>1, <4>2, <4>4, <4>5
    <3> QED BY <3>1, <3>2, <3>3
  <2> QED BY <2>2, <2>4, <2>5, <2>6, <2>7
<1> QED BY <1>1, Invariant, PTL DEF Spec, StopLeavesNothing

=============================================================================

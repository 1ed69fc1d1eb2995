------------------------ MODULE ManagedWorkersProofs ------------------------
(***************************************************************************)
(* Proofs about the managed workers, for any restart limit, any number of  *)
(* requests and any number of operations and failures: one live process, a *)
(* restart per failure within the limit, no entry of pending_controller    *)
(* left behind, no failure forgotten.                                      *)
(***************************************************************************)
EXTENDS ManagedWorkers, FiniteSetTheorems, TLAPS

-----------------------------------------------------------------------------
(* The records of the workers.                                             *)

Workers ==
  [proc : {"none", "running", "hung", "deaf", "dead"}, open : BOOLEAN, reader : BOOLEAN,
   monitor : {"none", "waiting", "back-off", "giving up", "done"},
   restarts : 0..RestartLimit, box : SUBSET Requests, replies : SUBSET Requests]

\* The empty set is finite and has no elements; sets of requests are finite.
LEMMA SmallSets ==
  /\ Cardinality({}) = 0
  /\ \A S \in SUBSET Requests : IsFiniteSet(S) /\ Cardinality(S) \in Nat
<1>1. Cardinality({}) = 0
  BY FS_EmptySet
<1>2. IsFiniteSet(Requests)
  BY FS_Interval, WorkersAssumption DEF Requests
<1>3. ASSUME NEW S \in SUBSET Requests
      PROVE  IsFiniteSet(S) /\ Cardinality(S) \in Nat
  BY <1>2, <1>3, FS_Subset, FS_CardinalityType
<1> QED BY <1>1, <1>3

\* What stopping the registered worker leaves of the others: they are not touched, and
\* this one is dead.
LEMMA StoppedWorkers ==
  ASSUME worker \in [Launches -> Workers], current \in Launches \cup {NoWorker}
  PROVE  /\ Stopped \in [Launches -> Workers]
         /\ \A k \in Launches :
              /\ Stopped[k].monitor = worker[k].monitor
              /\ Stopped[k].restarts = worker[k].restarts
              /\ Stopped[k].replies = worker[k].replies
              /\ k # current => Stopped[k] = worker[k]
              /\ k = current => Stopped[k].proc = "dead" /\ ~Stopped[k].open
              /\ Stopped[k].box \in {worker[k].box, {}}
<1>1. CASE current = NoWorker
  <2>1. Stopped = worker /\ \A k \in Launches : k # current
    BY <1>1 DEF Stopped, NoWorker, Launches
  <2> QED BY <2>1
<1>2. CASE current # NoWorker
  <2>1. current \in Launches
    BY <1>2
  <2> DEFINE w == worker[current]
             s == [w EXCEPT !.open = FALSE, !.proc = "dead", !.box = {}]
  <2>2. w \in Workers
    BY <2>1
  <2>3. s \in Workers /\ s.monitor = w.monitor /\ s.restarts = w.restarts
        /\ s.replies = w.replies /\ s.proc = "dead" /\ s.open = FALSE /\ s.box = {}
    <3> HIDE DEF w
    <3> QED BY <2>2 DEF Workers
  <2>4. Stopped = [worker EXCEPT ![current] = s]
    BY <1>2, <2>1 DEF Stopped
  <2> HIDE DEF s
  <2> QED BY <2>1, <2>3, <2>4
<1> QED BY <1>1, <1>2

\* The record of a launch that has not been made.
LEMMA NoLaunchType == NoLaunch \in Workers /\ NoLaunch.box = {}
<1>1. 0 \in 0..RestartLimit
  BY WorkersAssumption
<1> QED BY <1>1, Zenon DEF NoLaunch, Workers

\* What a launch adds: a running worker in the next place, the one before stopped.
LEMMA LaunchedWorkers ==
  ASSUME worker \in [Launches -> Workers], current \in Launches \cup {NoWorker},
         launched + 1 \in Launches, NEW n \in 0..RestartLimit, Launched(n)
  PROVE  /\ worker' \in [Launches -> Workers]
         /\ worker'[launched + 1].proc = "running" /\ worker'[launched + 1].open = TRUE
         /\ worker'[launched + 1].monitor = "waiting" /\ worker'[launched + 1].box = {}
         /\ \A k \in Launches \ {launched + 1} : worker'[k] = Stopped[k]
<1> DEFINE w == [NoLaunch EXCEPT !.proc = "running", !.open = TRUE, !.reader = TRUE,
                                 !.monitor = "waiting", !.restarts = n]
<1>1. NoLaunch \in Workers /\ NoLaunch.box = {}
  BY NoLaunchType
<1>2. w \in Workers /\ w.proc = "running" /\ w.open = TRUE /\ w.monitor = "waiting"
      /\ w.box = NoLaunch.box
  BY <1>1 DEF Workers
<1>3. worker' = [Stopped EXCEPT ![launched + 1] = w]
  BY DEF Launched
<1> HIDE DEF w
<1> QED BY <1>1, <1>2, <1>3, StoppedWorkers

\* What an action does that replaces one record.
LEMMA OneRecord ==
  ASSUME worker \in [Launches -> Workers], NEW k \in Launches, NEW w \in Workers,
         worker' = [worker EXCEPT ![k] = w]
  PROVE  /\ worker' \in [Launches -> Workers] /\ worker'[k] = w
         /\ \A j \in Launches \ {k} : worker'[j] = worker[j]
OBVIOUS

-----------------------------------------------------------------------------
(* The inductive invariant.                                                *)

OneAlive == \A k \in Launches : Alive(k) => current = k

Inv == TypeOK /\ OneAlive /\ LaunchInv /\ RegisteredInv /\ LimitInv /\ CountInv

\* The sets that CountInv counts are finite.
LEMMA DoomedFinite == IsFiniteSet(Doomed) /\ Cardinality(Doomed) \in Nat
<1>1. IsFiniteSet(Launches)
  BY FS_Interval, WorkersAssumption DEF Launches
<1>2. Doomed \in SUBSET Launches
  BY DEF Doomed
<1> QED BY <1>1, <1>2, FS_Subset, FS_CardinalityType

\* The counters are numbers within their bounds.
LEMMA Numbers ==
  ASSUME TypeOK
  PROVE  launched \in Nat /\ ops \in Nat /\ faults \in Nat /\ ops <= MaxOps /\ faults <= MaxFaults
<1>1. launched \in 0..(MaxOps + MaxFaults) /\ ops \in 0..MaxOps /\ faults \in 0..MaxFaults
  BY DEF TypeOK
<1> QED BY <1>1, WorkersAssumption

\* There is a place for the launch that the holder of the lock makes.
LEMMA PlaceForLaunch ==
  ASSUME TypeOK, CountInv, job.kind \in {"install", "update", "relaunch"}
  PROVE  launched + 1 \in Launches /\ launched + 1 \in 0..(MaxOps + MaxFaults)
<1>1. launched \in Nat /\ ops <= MaxOps /\ faults <= MaxFaults /\ ops \in Nat /\ faults \in Nat
  BY Numbers
<1>2. launched + Cardinality(Doomed) + 1 <= ops + faults
  BY DEF CountInv, Ahead
<1> QED BY <1>1, <1>2, DoomedFinite, WorkersAssumption DEF Launches

\* The count of a launch is within the limit.
LEMMA CountOfJob ==
  ASSUME TypeOK, job.kind \in {"update", "relaunch"}
  PROVE  job.count \in 0..RestartLimit
BY DEF TypeOK, Jobs

\* TypeOK names the records' type.
LEMMA Records ==
  ASSUME TypeOK
  PROVE  /\ worker \in [Launches -> Workers] /\ current \in Launches \cup {NoWorker}
         /\ current \in 0..launched /\ launched \in Nat
<1>1. worker \in [Launches -> Workers]
  BY DEF TypeOK, Workers
<1>2. current \in 0..launched /\ launched \in 0..(MaxOps + MaxFaults)
  BY DEF TypeOK
<1>3. current \in Launches \cup {NoWorker} /\ launched \in Nat
  BY <1>2, WorkersAssumption DEF Launches, NoWorker
<1> QED BY <1>1, <1>2, <1>3

\* A socket that is not filled stays within its room.
LEMMA BoxesKept ==
  ASSUME TypeOK, \A k \in Launches : worker'[k].box \in {worker[k].box, {}}
  PROVE  \A k \in Launches : Cardinality(worker'[k].box) <= Room
<1> SUFFICES ASSUME NEW k \in Launches PROVE Cardinality(worker'[k].box) <= Room
  OBVIOUS
<1>1. Cardinality(worker[k].box) <= Room
  BY DEF TypeOK
<1>2. Cardinality({}) <= Room
  BY SmallSets, WorkersAssumption
<1>3. worker'[k].box = worker[k].box \/ worker'[k].box = {}
  OBVIOUS
<1> QED BY <1>1, <1>2, <1>3

-----------------------------------------------------------------------------
(* Types.                                                                  *)

\* The initial state.
LEMMA InitTypes == Init => TypeOK
<1> SUFFICES ASSUME Init PROVE TypeOK
  OBVIOUS
<1>1. NoLaunch \in Workers /\ NoLaunch.box = {}
  BY NoLaunchType
<1>2. worker \in [Launches -> Workers] /\ \A k \in Launches : worker[k].box = {}
  BY <1>1 DEF Init
<1>3. \A k \in Launches : Cardinality(worker[k].box) <= Room
  BY <1>2, SmallSets, WorkersAssumption
<1>4. job \in Jobs
  BY DEF Init, Idle, Jobs
<1>5. 0 \in 0..(MaxOps + MaxFaults) /\ 0 \in 0..MaxOps /\ 0 \in 0..MaxFaults /\ 0 \in 0..0
  BY WorkersAssumption
<1> QED BY <1>2, <1>3, <1>4, <1>5 DEF Init, TypeOK, NoWorker, Workers

\* The holder of the lock.
LEMMA HolderTypes ==
  ASSUME TypeOK, CountInv, Holder
  PROVE  TypeOK'
<1>1. worker \in [Launches -> Workers] /\ current \in Launches \cup {NoWorker}
      /\ current \in 0..launched /\ launched \in Nat
  BY Records
<1> DEFINE Fits == /\ worker' \in [Launches -> Workers]
                   /\ \A k \in Launches : Cardinality(worker'[k].box) <= Room
                   /\ current' \in 0..launched' /\ launched' \in 0..(MaxOps + MaxFaults)
<1>2. Fits
  <2>1. ASSUME worker' = Stopped, current' = NoWorker, launched' = launched
        PROVE  Fits
    <3>1. \A k \in Launches : worker'[k].box \in {worker[k].box, {}}
      BY <1>1, <2>1, StoppedWorkers
    <3>2. \A k \in Launches : Cardinality(worker'[k].box) <= Room
      BY <3>1, BoxesKept
    <3>3. launched \in 0..(MaxOps + MaxFaults)
      BY DEF TypeOK
    <3> QED BY <1>1, <2>1, <3>2, <3>3, StoppedWorkers DEF NoWorker
  <2>2. ASSUME NEW n \in 0..RestartLimit, Launched(n),
               job.kind \in {"install", "update", "relaunch"}
        PROVE  Fits
    <3>1. launched + 1 \in Launches /\ launched + 1 \in 0..(MaxOps + MaxFaults)
      BY <2>2, PlaceForLaunch
    <3>2. \A k \in Launches : worker'[k].box \in {worker[k].box, {}}
      BY <1>1, <2>2, <3>1, LaunchedWorkers, StoppedWorkers
    <3>3. \A k \in Launches : Cardinality(worker'[k].box) <= Room
      BY <3>2, BoxesKept
    <3>4. current' = launched + 1 /\ launched' = launched + 1
      BY <2>2 DEF Launched
    <3>5. worker' \in [Launches -> Workers]
      BY <1>1, <2>2, <3>1, LaunchedWorkers
    <3>6. current' \in 0..launched'
      BY <1>1, <3>4
    <3> QED BY <3>1, <3>3, <3>4, <3>5, <3>6
  <2>3. 0 \in 0..RestartLimit
    BY WorkersAssumption
  <2>4. CASE FinishLaunch
    BY <2>2, <2>4, CountOfJob DEF FinishLaunch, Finish
  <2>5. CASE LaunchFails
    BY <2>1, <2>5 DEF LaunchFails
  <2>6. CASE FinishInstall
    BY <2>1, <2>2, <2>3, <2>6 DEF FinishInstall, Finish
  <2>7. CASE FinishStop
    BY <2>1, <2>7 DEF FinishStop, launchVars
  <2> QED BY <2>4, <2>5, <2>6, <2>7 DEF Holder
<1>3. job' \in Jobs /\ route' \subseteq Requests
      /\ UNCHANGED <<at, via, result, stop, ops, faults, done>>
  <2>1. Idle \in Jobs
    BY DEF Idle, Jobs
  <2> QED BY <2>1 DEF Holder, FinishLaunch, LaunchFails, FinishInstall, FinishStop, Finish,
            TypeOK
<1>4. pending' \subseteq Requests /\ config' \in {"absent", "plain", "managed"}
  BY DEF Holder, FinishLaunch, LaunchFails, FinishInstall, FinishStop, Finish, Jobs, TypeOK,
     deviceVars
<1>5. /\ status' \in {"none", "running", "restarting", "failed", "stopped"}
      /\ state' \in {"ready", "degraded"}
  BY DEF Holder, FinishLaunch, LaunchFails, FinishInstall, FinishStop, Launched, Refresh, TypeOK,
     deviceVars
<1>6. degraded' \in BOOLEAN /\ raised' \in BOOLEAN
  BY DEF Holder, FinishLaunch, LaunchFails, FinishInstall, FinishStop, Launched, TypeOK,
     deviceVars, launchVars
<1> QED BY <1>2, <1>3, <1>4, <1>5, <1>6 DEF TypeOK, Workers

\* The operator.
LEMMA OperatorTypes ==
  ASSUME TypeOK, Operator
  PROVE  TypeOK'
<1> USE DEF Operate, requestVars, launchVars, deviceVars
<1>1. CASE Quit
  BY <1>1 DEF TypeOK, Quit
<1>2. CASE ~Quit
  <2>1. UNCHANGED <<status, degraded, state, current, launched, worker, at, via, pending, done,
                    result, route, stop, faults, raised>>
    BY <1>2 DEF Operator, StopAll, Install, UpdateDevice
  <2>2. ops' \in 0..MaxOps
    <3>1. ops \in 0..MaxOps /\ ops < MaxOps /\ ops' = ops + 1
      BY <1>2 DEF TypeOK, Operator, StopAll, Install, UpdateDevice
    <3> QED BY <3>1, WorkersAssumption
  <2>3. config' \in {"absent", "plain", "managed"}
    BY <1>2 DEF TypeOK, Operator, StopAll, Install, UpdateDevice
  <2>4. job' \in Jobs
    <3>1. 0 \in 0..RestartLimit
      BY WorkersAssumption
    <3>2. Idle \in Jobs /\ [kind |-> "quit"] \in Jobs /\ [kind |-> "unmanage"] \in Jobs
      BY DEF Idle, Jobs
    <3>3. [kind |-> "update", count |-> 0] \in Jobs
      BY <3>1 DEF Jobs
    <3>4. \A to \in {"absent", "plain", "managed"} : [kind |-> "install", to |-> to] \in Jobs
      BY DEF Jobs
    <3> QED BY <1>2, <3>2, <3>3, <3>4 DEF Operator, StopAll, Install, UpdateDevice
  <2> QED BY <2>1, <2>2, <2>3, <2>4 DEF TypeOK
<1> QED BY <1>1, <1>2

\* The fields a step of the process or the reader writes.
LEMMA ProcessRecord ==
  ASSUME TypeOK, NEW k \in Launches, Process(k) \/ Reader(k)
  PROVE  /\ worker' \in [Launches -> Workers]
         /\ \A j \in Launches \ {k} : worker'[j] = worker[j]
         /\ worker'[k].monitor = worker[k].monitor /\ worker'[k].open = worker[k].open
         /\ worker'[k].restarts = worker[k].restarts
         /\ worker'[k].box \subseteq worker[k].box
         /\ \/ worker'[k].proc = worker[k].proc
            \/ /\ worker[k].proc = "running" /\ worker'[k].proc \in {"dead", "hung", "deaf"}
               /\ faults' = faults + 1
         /\ UNCHANGED <<config, degraded, state, current, launched, job, at, via, result, route,
                        stop, ops, pending, raised>>
         /\ faults' = faults \/ (faults' = faults + 1 /\ faults < MaxFaults)
         /\ status' \in {status, "running"} /\ (status' # status => current = k)
<1> DEFINE w == worker[k]
<1>1. worker \in [Launches -> Workers] /\ w \in Workers
  BY Records
<1>2. ASSUME NEW v \in Workers, Worker(k, v)
      PROVE  /\ worker' \in [Launches -> Workers] /\ worker'[k] = v
             /\ \A j \in Launches \ {k} : worker'[j] = worker[j]
             /\ UNCHANGED <<config, degraded, state, current, launched, job, at, via, result,
                            route, stop, ops, status, raised>>
  BY <1>1, <1>2, OneRecord DEF Worker, deviceVars, launchVars
<1>4. CASE \E r \in Requests : AnswerEvent(k, r)
  <2>1. PICK r \in Requests : AnswerEvent(k, r)
    BY <1>4
  <2> DEFINE v == [w EXCEPT !.box = @ \ {r}, !.replies = @ \cup {r}]
  <2>2. v \in Workers /\ v.monitor = w.monitor /\ v.open = w.open /\ v.restarts = w.restarts
        /\ v.box \subseteq w.box /\ v.proc = w.proc
    <3> HIDE DEF w
    <3> QED BY <1>1 DEF Workers
  <2>3. Worker(k, v) /\ UNCHANGED <<pending, faults>>
    BY <2>1 DEF AnswerEvent
  <2> HIDE DEF v
  <2> QED BY <1>2, <2>2, <2>3
<1>5. CASE \E how \in {"dead", "hung", "deaf"} : WorkerFails(k, how)
  <2>1. PICK how \in {"dead", "hung", "deaf"} : WorkerFails(k, how)
    BY <1>5
  <2> DEFINE v == [w EXCEPT !.proc = how, !.box = IF how = "hung" THEN @ ELSE {}]
  <2>2. v \in Workers /\ v.monitor = w.monitor /\ v.open = w.open /\ v.restarts = w.restarts
        /\ v.box \subseteq w.box /\ v.proc = how
    <3> HIDE DEF w
    <3> QED BY <1>1 DEF Workers
  <2>3. Worker(k, v) /\ pending' = pending /\ w.proc = "running" /\ faults' = faults + 1
        /\ faults < MaxFaults
    BY <2>1 DEF WorkerFails
  <2> HIDE DEF v
  <2> QED BY <1>2, <2>2, <2>3
<1>6. CASE ReaderRaises(k)
  <2> DEFINE v == [w EXCEPT !.reader = FALSE, !.replies = {}]
  <2>2. v \in Workers /\ v.monitor = w.monitor /\ v.open = w.open /\ v.restarts = w.restarts
        /\ v.box \subseteq w.box /\ v.proc = w.proc
    <3> HIDE DEF w
    <3> QED BY <1>1 DEF Workers
  <2>3. Worker(k, v) /\ pending' = pending /\ faults' = faults + 1 /\ faults < MaxFaults
    BY <1>6 DEF ReaderRaises
  <2> HIDE DEF v
  <2> QED BY <1>2, <2>2, <2>3
<1>7. CASE ReadHeartbeat(k)
  BY <1>1, <1>7 DEF ReadHeartbeat, requestVars, launchVars
<1>8. CASE \E r \in Requests : ReadReply(k, r)
  <2>1. PICK r \in Requests : ReadReply(k, r)
    BY <1>8
  <2> DEFINE v == [w EXCEPT !.replies = @ \ {r}]
  <2>2. v \in Workers /\ v.monitor = w.monitor /\ v.open = w.open /\ v.restarts = w.restarts
        /\ v.box \subseteq w.box /\ v.proc = w.proc
    <3> HIDE DEF w
    <3> QED BY <1>1 DEF Workers
  <2>3. Worker(k, v) /\ UNCHANGED <<pending, faults>>
    BY <2>1 DEF ReadReply
  <2> HIDE DEF v
  <2> QED BY <1>2, <2>2, <2>3
<1> QED BY <1>4, <1>5, <1>6, <1>7, <1>8 DEF Process, Reader

\* The worker process and the reader thread.
LEMMA ProcessTypes ==
  ASSUME TypeOK, NEW k \in Launches, Process(k) \/ Reader(k)
  PROVE  TypeOK'
<1>1. \A j \in Launches : Cardinality(worker'[j].box) <= Room
  <2> SUFFICES ASSUME NEW j \in Launches PROVE Cardinality(worker'[j].box) <= Room
    OBVIOUS
  <2>1. worker'[j].box \subseteq worker[j].box
    BY ProcessRecord
  <2>2. worker[j].box \in SUBSET Requests /\ Cardinality(worker[j].box) <= Room
    BY DEF TypeOK
  <2>3. IsFiniteSet(worker[j].box) /\ Cardinality(worker[j].box) \in Nat
    BY <2>2, SmallSets
  <2>4. Cardinality(worker'[j].box) <= Cardinality(worker[j].box)
        /\ IsFiniteSet(worker'[j].box)
    BY <2>1, <2>3, FS_Subset
  <2>5. Cardinality(worker'[j].box) \in Nat
    BY <2>4, FS_CardinalityType
  <2> QED BY <2>2, <2>3, <2>4, <2>5, WorkersAssumption
<1>2. done' \in [Requests -> {"no", "ok", "epipe"}]
  BY DEF TypeOK, Process, Reader, AnswerEvent, WorkerFails, ReaderRaises, ReadHeartbeat, ReadReply,
     requestVars
<1>3. faults' \in 0..MaxFaults
  <2>1. faults \in 0..MaxFaults
    BY DEF TypeOK
  <2> QED BY <2>1, ProcessRecord, WorkersAssumption
<1>4. worker' \in [Launches -> Workers] /\ status' \in {status, "running"}
      /\ UNCHANGED <<config, degraded, state, current, launched, job, at, via, result, route, stop,
                     ops, pending, raised>>
  BY ProcessRecord
<1> QED BY <1>1, <1>2, <1>3, <1>4 DEF TypeOK, Workers

\* The fields a step of the monitor writes.
LEMMA MonitorRecord ==
  ASSUME TypeOK, NEW k \in Launches, MonitorStep(k)
  PROVE  /\ worker' \in [Launches -> Workers]
         /\ \A j \in Launches \ {k} : worker'[j] = worker[j]
         /\ worker'[k].proc = worker[k].proc /\ worker'[k].box = worker[k].box
         /\ worker'[k].restarts = worker[k].restarts
         /\ worker'[k].open = worker[k].open \/ (~worker'[k].open /\ worker[k].proc = "dead")
         /\ \/ worker'[k].monitor = "done"
            \/ /\ Reap(k) /\ ~stop /\ worker'[k].monitor = Duty(k)
         /\ Unlocked /\ worker[k].monitor \in {"waiting", "back-off", "giving up"}
         /\ UNCHANGED <<config, launched, at, via, result, route, stop, ops, faults, raised>>
<1> DEFINE w == worker[k]
<1>1. worker \in [Launches -> Workers] /\ w \in Workers
  BY Records
<1>2. UNCHANGED <<config, launched, at, via, result, route, stop, ops, faults, raised>>
      /\ Unlocked /\ w.monitor \in {"waiting", "back-off", "giving up"}
  BY DEF MonitorStep, Reap, Dismissed, GiveUp, Relaunch, Monitor, launchVars
<1>3. Duty(k) \in {"back-off", "giving up"}
  BY DEF Duty
<1>4. CASE GiveUp(k) \/ Relaunch(k)
  <2> DEFINE v == [w EXCEPT !.monitor = "done"]
  <2>1. v \in Workers /\ v.proc = w.proc /\ v.box = w.box /\ v.restarts = w.restarts
        /\ v.open = w.open /\ v.monitor = "done"
    <3> HIDE DEF w
    <3> QED BY <1>1 DEF Workers
  <2>2. worker' = [worker EXCEPT ![k] = v]
    BY <1>4 DEF GiveUp, Relaunch
  <2> HIDE DEF v
  <2> QED BY <1>1, <1>2, <2>1, <2>2, OneRecord
<1>5. CASE Dismissed(k) \/ Reap(k)
  <2>1. PICK m \in {"done", "back-off", "giving up"} :
          /\ worker' = [worker EXCEPT ![k].open = FALSE, ![k].monitor = m]
          /\ m = "done" \/ (Reap(k) /\ ~stop /\ m = Duty(k))
    BY <1>3, <1>5 DEF Dismissed, Reap
  <2> DEFINE v == [w EXCEPT !.open = FALSE, !.monitor = m]
  <2>2. v \in Workers /\ v.proc = w.proc /\ v.box = w.box /\ v.restarts = w.restarts
        /\ v.open = FALSE /\ v.monitor = m
    <3> HIDE DEF w
    <3> QED BY <1>1 DEF Workers
  <2>3. worker' = [worker EXCEPT ![k] = v]
    BY <2>1
  <2>4. w.proc = "dead"
    BY <1>5 DEF Dismissed, Reap
  <2> HIDE DEF v
  <2> QED BY <1>1, <1>2, <2>1, <2>2, <2>3, <2>4, OneRecord
<1> QED BY <1>4, <1>5 DEF MonitorStep

\* The monitor thread: a restart it begins is within the limit.
LEMMA MonitorTypes ==
  ASSUME TypeOK, LimitInv, NEW k \in Launches, MonitorStep(k)
  PROVE  TypeOK'
<1>1. \A j \in Launches : worker'[j].box \in {worker[j].box, {}}
  BY MonitorRecord
<1>2. current' \in {current, NoWorker}
  BY DEF MonitorStep, Reap, Dismissed, GiveUp, Relaunch
<1>3. current' \in 0..launched
  BY <1>2, Records DEF NoWorker
<1>4. job' \in Jobs
  <2>1. Idle \in Jobs /\ job \in Jobs
    BY DEF Idle, Jobs, TypeOK
  <2>2. CASE Relaunch(k)
    <3>1. worker[k].restarts \in 0..RestartLimit /\ worker[k].monitor = "back-off"
      BY <2>2 DEF TypeOK, Relaunch, Monitor
    <3>2. worker[k].restarts + 1 \in 0..RestartLimit
      BY <3>1, WorkersAssumption DEF LimitInv
    <3>3. [kind |-> "relaunch", count |-> worker[k].restarts + 1] \in Jobs
      BY <3>2 DEF Jobs
    <3> QED BY <2>1, <2>2, <3>3 DEF Relaunch
  <2>3. CASE ~Relaunch(k)
    BY <2>1, <2>3 DEF MonitorStep, Reap, Dismissed, GiveUp
  <2> QED BY <2>2, <2>3
<1>5. pending' \subseteq Requests /\ done' \in [Requests -> {"no", "ok", "epipe"}]
  <2>1. pending \subseteq Requests /\ done \in [Requests -> {"no", "ok", "epipe"}]
    BY DEF TypeOK
  <2>2. UNCHANGED <<pending, done>> \/ FailPending
    BY DEF MonitorStep, Reap, Dismissed, GiveUp, Relaunch
  <2> QED BY <2>1, <2>2 DEF FailPending
<1>6. status' \in {"none", "running", "restarting", "failed", "stopped"}
      /\ state' \in {"ready", "degraded"}
  BY DEF TypeOK, MonitorStep, Reap, Dismissed, GiveUp, Relaunch, Refresh
<1>7. degraded' \in BOOLEAN
  BY DEF TypeOK, MonitorStep, Reap, Dismissed, GiveUp, Relaunch
<1>8. \A j \in Launches : Cardinality(worker'[j].box) <= Room
  BY <1>1, BoxesKept
<1> QED BY <1>3, <1>4, <1>5, <1>6, <1>7, <1>8, MonitorRecord DEF TypeOK, Workers

\* What a step of a request's handler writes.
LEMMA HandlerRecord ==
  ASSUME TypeOK, LaunchInv, NEW r \in Requests, Register(r) \/ Handler(r)
  PROVE  /\ worker' \in [Launches -> Workers]
         /\ \A j \in Launches :
              /\ worker'[j].monitor = worker[j].monitor
              /\ worker'[j].restarts = worker[j].restarts
              /\ \/ worker'[j].proc = worker[j].proc /\ worker'[j].open = worker[j].open
                 \/ /\ ForceRestart(r) /\ current = j /\ Broken(j)
                    /\ worker'[j].proc = "dead" /\ ~worker'[j].open
         /\ \A j \in Launches : Cardinality(worker'[j].box) <= Room
         /\ UNCHANGED <<config, status, degraded, state, current, launched, job, stop, ops,
                        faults, raised>>
<1>1. worker \in [Launches -> Workers] /\ current \in Launches \cup {NoWorker}
  BY Records
<1>2. UNCHANGED <<config, status, degraded, state, current, launched, job, stop, ops, faults,
                  raised>>
  BY DEF Register, Handler, Refuse, LookUp, Send, Block, SendFails, ForceRestart, Leave,
     Request, deviceVars, launchVars
<1>3. CASE worker' = worker
  BY <1>1, <1>2, <1>3 DEF TypeOK
<1>4. CASE Send(r)
  <2>1. at[r] \in {"sending", "blocked"} /\ ~Full(via[r])
        /\ worker' = [worker EXCEPT ![via[r]].box = @ \cup {r}]
    BY <1>4 DEF Send, Request
  <2>2. via[r] \in Launches
    <3>1. via[r] \in 1..launched /\ launched \in 0..(MaxOps + MaxFaults)
      BY <2>1 DEF LaunchInv, TypeOK
    <3> QED BY <3>1, WorkersAssumption DEF Launches
  <2> DEFINE k == via[r]
             w == worker[k]
             v == [w EXCEPT !.box = @ \cup {r}]
  <2>3. w \in Workers
    BY <1>1, <2>2
  <2>4. v \in Workers /\ v.monitor = w.monitor /\ v.open = w.open /\ v.restarts = w.restarts
        /\ v.box = w.box \cup {r} /\ v.proc = w.proc
    <3> HIDE DEF w
    <3> QED BY <2>3 DEF Workers
  <2>5. worker' = [worker EXCEPT ![k] = v]
    BY <2>1, <2>2
  <2>6. Cardinality(v.box) <= Room
    <3>1. w.box \in SUBSET Requests
      BY <2>3 DEF Workers
    <3>2. IsFiniteSet(w.box) /\ Cardinality(w.box) \in Nat
      BY <3>1, SmallSets
    <3>3. Cardinality(w.box) < Room
      BY <2>1, <3>2, WorkersAssumption DEF Full
    <3> HIDE DEF w, v
    <3>4. Cardinality(w.box \cup {r}) <= Cardinality(w.box) + 1
          /\ Cardinality(w.box \cup {r}) \in Nat
      BY <3>2, FS_AddElement
    <3> QED BY <2>4, <3>2, <3>3, <3>4, WorkersAssumption
  <2>7. \A j \in Launches : Cardinality(worker[j].box) <= Room
    BY DEF TypeOK
  <2> HIDE DEF v, k
  <2> QED BY <1>1, <1>2, <2>2, <2>4, <2>5, <2>6, <2>7, OneRecord DEF k
<1>5. CASE ForceRestart(r) /\ worker' # worker
  <2>1. worker' = Stopped /\ current = via[r] /\ at[r] = "failed"
    BY <1>5 DEF ForceRestart, Request
  <2>2. Broken(current)
    BY <2>1 DEF LaunchInv
  <2>3. \A j \in Launches : worker'[j].box \in {worker[j].box, {}}
    BY <1>1, <2>1, StoppedWorkers
  <2>4. \A j \in Launches : Cardinality(worker'[j].box) <= Room
    BY <2>3, BoxesKept
  <2> QED BY <1>1, <1>2, <1>5, <2>1, <2>2, <2>4, StoppedWorkers
<1> QED BY <1>3, <1>4, <1>5 DEF Register, Handler, Refuse, LookUp, Block, SendFails, Leave

\* The handlers of kernel requests.
LEMMA HandlerTypes ==
  ASSUME TypeOK, LaunchInv, NEW r \in Requests, Register(r) \/ Handler(r)
  PROVE  TypeOK'
<1>1. at' \in [Requests -> {"new", "registered", "sending", "blocked", "failed", "waiting",
                           "done"}]
  <2>1. at \in [Requests -> {"new", "registered", "sending", "blocked", "failed", "waiting",
                             "done"}]
    BY DEF TypeOK
  <2>2. \E to \in {"registered", "sending", "blocked", "failed", "waiting", "done"} :
          at' = [at EXCEPT ![r] = to]
    BY Zenon DEF Register, Handler, Refuse, LookUp, Send, Block, SendFails, ForceRestart, Leave,
       Request
  <2> QED BY <2>1, <2>2
<1>2. via' \in [Requests -> Launches \cup {NoWorker}]
  <2>1. via \in [Requests -> Launches \cup {NoWorker}] /\ current \in Launches \cup {NoWorker}
    BY Records DEF TypeOK
  <2>2. via' = via \/ via' = [via EXCEPT ![r] = current]
    BY DEF Register, Handler, Refuse, LookUp, Send, Block, SendFails, ForceRestart, Leave
  <2> QED BY <2>1, <2>2
<1>3. pending' \subseteq Requests /\ done' \in [Requests -> {"no", "ok", "epipe"}]
      /\ route' \subseteq Requests
  <2>1. pending \subseteq Requests /\ done \in [Requests -> {"no", "ok", "epipe"}]
        /\ route \subseteq Requests
    BY DEF TypeOK
  <2>2. /\ pending' \in {pending, pending \cup {r}, pending \ {r}, {}}
        /\ done' \in {done, [q \in Requests |-> IF q \in pending THEN "epipe" ELSE done[q]]}
        /\ route' \in {route, {r}}
    BY DEF Register, Handler, Refuse, LookUp, Send, Block, SendFails, ForceRestart, Leave,
       FailPending, EntryPopped
  <2> QED BY <2>1, <2>2
<1>4. result' \in [Requests -> {"none", "ok", "epipe", "timeout", "refused", "error"}]
  <2> DEFINE Results == {"none", "ok", "epipe", "timeout", "refused", "error"}
  <2>1. result \in [Requests -> Results] /\ done[r] \in {"no", "ok", "epipe"}
    BY DEF TypeOK
  <2>2. CASE result' = result
    BY <2>1, <2>2
  <2>3. CASE Refuse(r)
    BY <2>1, <2>3 DEF Refuse
  <2>4. CASE LookUp(r)
    BY <2>1, <2>4 DEF LookUp
  <2>5. CASE ForceRestart(r)
    BY <2>1, <2>5 DEF ForceRestart
  <2>6. CASE Leave(r)
    BY <2>1, <2>6 DEF Leave
  <2> QED BY <2>2, <2>3, <2>4, <2>5, <2>6 DEF Register, Handler, Send, Block, SendFails
<1>5. worker' \in [Launches -> Workers]
      /\ (\A j \in Launches : Cardinality(worker'[j].box) <= Room)
      /\ UNCHANGED <<config, status, degraded, state, current, launched, job, stop, ops, faults,
                     raised>>
  BY HandlerRecord
<1> QED BY <1>1, <1>2, <1>3, <1>4, <1>5 DEF TypeOK, Workers

\* Every step keeps the types.
LEMMA NextTypes ==
  ASSUME TypeOK, LaunchInv, LimitInv, CountInv, [Next]_vars
  PROVE  TypeOK'
<1>1. CASE UNCHANGED vars
  BY <1>1 DEF TypeOK, vars, deviceVars, launchVars, requestVars
<1>2. CASE Next
  BY <1>2, OperatorTypes, HolderTypes, ProcessTypes, MonitorTypes, HandlerTypes DEF Next
<1> QED BY <1>1, <1>2

-----------------------------------------------------------------------------
(* Launches, processes and restarts.                                       *)

\* What the holder of the lock does to the records: stops one worker, and makes the
\* next launch or none.
LEMMA HolderRecord ==
  ASSUME TypeOK, CountInv, Holder
  PROVE  /\ job.kind # "idle" /\ job' = Idle
         /\ UNCHANGED <<at, via, ops, faults>>
         /\ \/ /\ current' = NoWorker /\ launched' = launched /\ worker' = Stopped
            \/ /\ job.kind \in {"install", "update", "relaunch"}
               /\ current' = launched + 1 /\ launched' = launched + 1
               /\ launched + 1 \in Launches /\ ~degraded'
               /\ worker'[launched + 1].proc = "running" /\ worker'[launched + 1].open = TRUE
               /\ worker'[launched + 1].monitor = "waiting"
               /\ \A k \in Launches \ {launched + 1} : worker'[k] = Stopped[k]
<1>1. /\ job.kind # "idle" /\ job' = Idle /\ UNCHANGED <<at, via, ops, faults>>
      /\ \/ current' = NoWorker /\ launched' = launched /\ worker' = Stopped
         \/ \E n \in 0..RestartLimit :
              Launched(n) /\ job.kind \in {"install", "update", "relaunch"}
  <2>1. 0 \in 0..RestartLimit
    BY WorkersAssumption
  <2>2. job.kind \in {"update", "relaunch"} => job.count \in 0..RestartLimit
    BY CountOfJob
  <2> QED BY <2>1, <2>2 DEF Holder, FinishLaunch, LaunchFails, FinishInstall, FinishStop, Finish,
             launchVars
<1>2. ASSUME NEW n \in 0..RestartLimit, Launched(n),
             job.kind \in {"install", "update", "relaunch"}
      PROVE  /\ current' = launched + 1 /\ launched' = launched + 1
             /\ launched + 1 \in Launches /\ ~degraded'
             /\ worker'[launched + 1].proc = "running" /\ worker'[launched + 1].open = TRUE
             /\ worker'[launched + 1].monitor = "waiting"
             /\ \A k \in Launches \ {launched + 1} : worker'[k] = Stopped[k]
  <2>1. launched + 1 \in Launches
    BY <1>2, PlaceForLaunch
  <2> QED BY <1>2, <2>1, LaunchedWorkers, Records DEF Launched
<1> QED BY <1>1, <1>2

\* The launches made are launches.
LEMMA LaunchesCover == TypeOK => \A k \in 1..launched : k \in Launches
<1> SUFFICES ASSUME TypeOK PROVE \A k \in 1..launched : k \in Launches
  OBVIOUS
<1>1. launched \in 0..(MaxOps + MaxFaults)
  BY DEF TypeOK
<1> QED BY <1>1, WorkersAssumption DEF Launches

\* A live process is the registered one, after every step.
LEMMA NextAlive ==
  ASSUME Inv, [Next]_vars
  PROVE  OneAlive'
<1> USE DEF Inv
<1> SUFFICES ASSUME NEW k \in Launches, Alive(k)' PROVE current' = k
  BY DEF OneAlive
<1>1. worker \in [Launches -> Workers] /\ current \in Launches \cup {NoWorker}
  BY Records
<1>2. CASE Holder
  <2>1. \A j \in Launches : Stopped[j].proc \notin {"running", "hung", "deaf"}
    BY <1>1, StoppedWorkers DEF OneAlive, Alive
  <2> QED BY <1>2, <2>1, HolderRecord DEF Alive
<1>3. ASSUME NEW j \in Launches, Process(j) \/ Reader(j)
      PROVE  current' = k
  BY <1>3, ProcessRecord DEF OneAlive, Alive
<1>4. ASSUME NEW j \in Launches, MonitorStep(j)
      PROVE  current' = k
  <2>1. worker'[k].proc = worker[k].proc
    BY <1>4, MonitorRecord
  <2>2. current' = current \/ worker[current].proc = "dead"
    BY <1>4 DEF MonitorStep, Reap, Dismissed, GiveUp, Relaunch
  <2> QED BY <2>1, <2>2 DEF OneAlive, Alive
<1>5. ASSUME NEW r \in Requests, Register(r) \/ Handler(r)
      PROVE  current' = k
  BY <1>5, HandlerRecord DEF OneAlive, Alive
<1>6. CASE UNCHANGED <<worker, current>>
  BY <1>6 DEF OneAlive, Alive
<1> QED BY <1>2, <1>3, <1>4, <1>5, <1>6 DEF Next, Operator, Quit, StopAll, Install, UpdateDevice,
           Operate, vars

\* A socket is closed on a dead process only, after every step.
LEMMA NextRegistered ==
  ASSUME Inv, [Next]_vars
  PROVE  RegisteredInv'
<1> USE DEF Inv
<1>1. worker \in [Launches -> Workers] /\ current \in Launches \cup {NoWorker}
  BY Records
<1>2. ASSUME NEW k \in Launches, ~worker'[k].open
      PROVE  worker'[k].proc \in {"none", "dead"}
  <2>1. CASE Holder
    <3>1. worker'[k] = Stopped[k] \/ worker'[k].open = TRUE
      BY <2>1, HolderRecord
    <3>2. Stopped[k] = worker[k] \/ Stopped[k].proc = "dead"
      BY <1>1, StoppedWorkers
    <3> QED BY <1>2, <3>1, <3>2 DEF RegisteredInv
  <2>2. ASSUME NEW j \in Launches, Process(j) \/ Reader(j)
        PROVE  worker'[k].proc \in {"none", "dead"}
    BY <1>2, <2>2, ProcessRecord DEF RegisteredInv
  <2>3. ASSUME NEW j \in Launches, MonitorStep(j)
        PROVE  worker'[k].proc \in {"none", "dead"}
    BY <1>2, <2>3, MonitorRecord DEF RegisteredInv
  <2>4. ASSUME NEW r \in Requests, Register(r) \/ Handler(r)
        PROVE  worker'[k].proc \in {"none", "dead"}
    BY <1>2, <2>4, HandlerRecord DEF RegisteredInv
  <2>5. CASE UNCHANGED worker
    BY <1>2, <2>5 DEF RegisteredInv
  <2> QED BY <2>1, <2>2, <2>3, <2>4, <2>5 DEF Next, Operator, Quit, StopAll, Install,
             UpdateDevice, Operate, vars
<1>3. ASSUME current' # NoWorker
      PROVE  ~degraded'
  <2>1. CASE Holder
    BY <1>3, <2>1, HolderRecord
  <2>2. ASSUME NEW j \in Launches, Process(j) \/ Reader(j)
        PROVE  ~degraded'
    BY <1>3, <2>2, ProcessRecord DEF RegisteredInv
  <2>3. ASSUME NEW j \in Launches, MonitorStep(j)
        PROVE  ~degraded'
    BY <1>3, <2>3 DEF MonitorStep, Reap, Dismissed, GiveUp, Relaunch, RegisteredInv
  <2>4. ASSUME NEW r \in Requests, Register(r) \/ Handler(r)
        PROVE  ~degraded'
    BY <1>3, <2>4, HandlerRecord DEF RegisteredInv
  <2>5. CASE UNCHANGED <<current, degraded>>
    BY <1>3, <2>5 DEF RegisteredInv
  <2> QED BY <2>1, <2>2, <2>3, <2>4, <2>5 DEF Next, Operator, Quit, StopAll, Install,
             UpdateDevice, Operate, vars, deviceVars
<1> QED BY <1>2, <1>3 DEF RegisteredInv

\* A restart that is begun is within the limit, after every step.
LEMMA NextLimit ==
  ASSUME Inv, [Next]_vars
  PROVE  LimitInv'
<1> USE DEF Inv
<1> SUFFICES ASSUME NEW k \in Launches, worker'[k].monitor = "back-off"
             PROVE  worker'[k].restarts < RestartLimit
  BY DEF LimitInv
<1>1. worker \in [Launches -> Workers] /\ current \in Launches \cup {NoWorker}
  BY Records
<1>2. CASE Holder
  <2>1. worker'[k] = Stopped[k]
    BY <1>1, <1>2, HolderRecord
  <2>2. Stopped[k].monitor = worker[k].monitor /\ Stopped[k].restarts = worker[k].restarts
    BY <1>1, StoppedWorkers
  <2> QED BY <2>1, <2>2 DEF LimitInv
<1>3. ASSUME NEW j \in Launches, Process(j) \/ Reader(j)
      PROVE  worker'[k].restarts < RestartLimit
  BY <1>3, ProcessRecord DEF LimitInv
<1>4. ASSUME NEW j \in Launches, MonitorStep(j)
      PROVE  worker'[k].restarts < RestartLimit
  <2>1. CASE k # j
    BY <1>4, <2>1, MonitorRecord DEF LimitInv
  <2>2. CASE k = j
    <3>1. Duty(k) = "back-off" /\ worker'[k].restarts = worker[k].restarts
      BY <1>4, <2>2, MonitorRecord
    <3>2. worker[k].restarts \in 0..RestartLimit /\ ~(worker[k].restarts + 1 > RestartLimit)
      BY <1>1, <3>1 DEF Duty, GivesUp, Workers
    <3> QED BY <3>1, <3>2, WorkersAssumption
  <2> QED BY <2>1, <2>2
<1>5. ASSUME NEW r \in Requests, Register(r) \/ Handler(r)
      PROVE  worker'[k].restarts < RestartLimit
  BY <1>5, HandlerRecord DEF LimitInv
<1>6. CASE UNCHANGED worker
  BY <1>6 DEF LimitInv
<1> QED BY <1>2, <1>3, <1>4, <1>5, <1>6 DEF Next, Operator, Quit, StopAll, Install, UpdateDevice,
           Operate, vars

\* Launches stay in order, and what is broken stays broken, after every step.
LEMMA NextLaunch ==
  ASSUME Inv, [Next]_vars
  PROVE  LaunchInv'
<1> USE DEF Inv
<1>1. worker \in [Launches -> Workers] /\ current \in Launches \cup {NoWorker}
      /\ current \in 0..launched /\ launched \in Nat
  BY Records
<1>2. \A k \in Launches : k \in Nat
  BY WorkersAssumption DEF Launches
<1>3. CASE Holder
  <2>1. \A k \in Launches : Stopped[k].proc # "none" <=> k <= launched
    BY <1>1, <1>2, StoppedWorkers DEF LaunchInv, NoWorker
  <2>2. \A k \in Launches : k > launched => Stopped[k].monitor = "none"
    BY <1>1, StoppedWorkers DEF LaunchInv
  <2>3. \A r \in Requests :
          at[r] \in {"sending", "blocked", "failed", "waiting"} =>
            via[r] \in 1..launched /\ via[r] \in Launches /\ via[r] # launched + 1
    <3>1. \A k \in 1..launched : k # launched + 1
      BY <1>1
    <3> QED BY <3>1, LaunchesCover DEF LaunchInv
  <2>4. \A k \in Launches :
          Broken(k) => ~Stopped[k].open \/ Stopped[k].proc \notin {"running", "hung"}
    BY <1>1, StoppedWorkers DEF Broken
  <2>5. CASE current' = NoWorker /\ launched' = launched /\ worker' = Stopped
    BY <1>3, <2>1, <2>2, <2>3, <2>4, <2>5, HolderRecord DEF LaunchInv, Broken
  <2>6. CASE /\ launched' = launched + 1 /\ worker'[launched + 1].proc = "running"
             /\ \A k \in Launches \ {launched + 1} : worker'[k] = Stopped[k]
    <3>1. \A k \in Launches : worker'[k].proc # "none" <=> k <= launched'
      BY <1>1, <1>2, <2>1, <2>6
    <3>2. \A k \in Launches : k > launched' => worker'[k].monitor = "none"
      BY <1>1, <1>2, <2>2, <2>6
    <3>3. at' = at /\ via' = via
      BY <1>3, HolderRecord
    <3>4. \A r \in Requests :
            at[r] \in {"sending", "blocked", "failed", "waiting"} => via[r] \in 1..launched'
      BY <1>1, <2>3, <2>6
    <3>5. \A r \in Requests : at[r] = "failed" => Broken(via[r])'
      BY <2>3, <2>4, <2>6, <3>3 DEF Broken, LaunchInv
    <3> QED BY <3>1, <3>2, <3>3, <3>4, <3>5 DEF LaunchInv
  <2> QED BY <1>3, <2>5, <2>6, HolderRecord
<1>4. ASSUME NEW j \in Launches, Process(j) \/ Reader(j)
      PROVE  LaunchInv'
  <2>1. \A k \in Launches : /\ worker'[k].proc # "none" <=> worker[k].proc # "none"
                            /\ worker'[k].monitor = worker[k].monitor
                            /\ Broken(k) => Broken(k)'
    BY <1>4, ProcessRecord DEF Broken
  <2> QED BY <1>4, <2>1, ProcessRecord, LaunchesCover DEF LaunchInv
<1>5. ASSUME NEW j \in Launches, MonitorStep(j)
      PROVE  LaunchInv'
  <2>1. \A k \in Launches : /\ worker'[k].proc = worker[k].proc
                            /\ Broken(k) => Broken(k)'
    BY <1>5, MonitorRecord DEF Broken
  <2>2. \A k \in Launches : worker[k].monitor = "none" => worker'[k].monitor = "none"
    BY <1>5, MonitorRecord
  <2>3. UNCHANGED <<launched, at, via>>
    BY <1>5, MonitorRecord
  <2>4. \A r \in Requests : at[r] = "failed" => Broken(via[r])'
    BY <2>1, <2>3, LaunchesCover DEF LaunchInv, Broken
  <2> QED BY <2>1, <2>2, <2>3, <2>4 DEF LaunchInv
<1>6. ASSUME NEW r \in Requests, Register(r) \/ Handler(r)
      PROVE  LaunchInv'
  <2>1. \A k \in Launches : /\ worker'[k].monitor = worker[k].monitor
                            /\ Broken(k) => Broken(k)'
    BY <1>6, HandlerRecord DEF Broken
  <2>2. \A k \in Launches : worker'[k].proc # "none" <=> worker[k].proc # "none"
    <3>1. ForceRestart(r) => \A k \in Launches : k = current => worker[k].proc # "none"
      BY <1>1, <1>2 DEF LaunchInv
    <3> QED BY <1>6, <3>1, HandlerRecord
  <2>3. launched' = launched
    BY <1>6, HandlerRecord
  <2>4. \A q \in Requests :
          at'[q] \in {"sending", "blocked", "failed", "waiting"} => via'[q] \in 1..launched
    <3>1. CASE LookUp(r)
      <4>1. current \in 1..launched
        BY <1>1, <3>1 DEF LookUp, NoWorker
      <4> QED BY <3>1, <4>1 DEF TypeOK, LaunchInv, LookUp, Request
    <3>2. CASE ~LookUp(r)
      <4>1. /\ at \in [Requests -> {"new", "registered", "sending", "blocked", "failed",
                                   "waiting", "done"}]
            /\ \A q \in Requests :
                 at[q] \in {"sending", "blocked", "failed", "waiting"} => via[q] \in 1..launched
        BY DEF TypeOK, LaunchInv
      <4>2. /\ via' = via
            /\ \/ at[r] \in {"sending", "blocked"}
                  /\ \E to \in {"waiting", "blocked", "failed"} : at' = [at EXCEPT ![r] = to]
               \/ \E to \in {"registered", "done"} : at' = [at EXCEPT ![r] = to]
        BY <1>6, <3>2 DEF Register, Handler, Refuse, Send, Block, SendFails, ForceRestart, Leave,
           Request
      <4> QED BY <4>1, <4>2
    <3> QED BY <3>1, <3>2
  <2>5. \A q \in Requests : at'[q] = "failed" => via'[q] = via[q] /\ Broken(via[q])
    <3>1. /\ at \in [Requests -> {"new", "registered", "sending", "blocked", "failed", "waiting",
                                 "done"}]
          /\ via \in [Requests -> Launches \cup {NoWorker}]
          /\ \A q \in Requests : at[q] = "failed" => Broken(via[q])
      BY DEF TypeOK, LaunchInv
    <3>2. via' = via \/ (via' = [via EXCEPT ![r] = current] /\ at'[r] # "failed")
      <4>1. CASE LookUp(r)
        BY <3>1, <4>1 DEF LookUp, Request
      <4>2. CASE ~LookUp(r)
        BY <1>6, <4>2 DEF Register, Handler, Refuse, Send, Block, SendFails, ForceRestart, Leave
      <4> QED BY <4>1, <4>2
    <3>3. \/ \E to \in {"registered", "sending", "blocked", "waiting", "done"} :
               at' = [at EXCEPT ![r] = to]
          \/ at' = [at EXCEPT ![r] = "failed"] /\ Broken(via[r])
      BY <1>6, Zenon DEF Register, Handler, Refuse, LookUp, Send, Block, SendFails, ForceRestart,
         Leave, Request
    <3> QED BY <3>1, <3>2, <3>3
  <2>6. \A q \in Requests : at'[q] = "failed" => Broken(via[q])'
    BY <2>1, <2>4, <2>5, LaunchesCover DEF Broken
  <2> QED BY <2>1, <2>2, <2>3, <2>4, <2>6 DEF LaunchInv
<1>7. CASE UNCHANGED <<worker, launched, at, via>>
  BY <1>7 DEF LaunchInv, Broken
<1> QED BY <1>3, <1>4, <1>5, <1>6, <1>7 DEF Next, Operator, Quit, StopAll, Install, UpdateDevice,
           Operate, vars, requestVars, launchVars

\* A job has one launch ahead or none.
LEMMA AheadType ==
  /\ Ahead(job) \in {0, 1} /\ Ahead(job') \in {0, 1}
  /\ job.kind = "idle" => Ahead(job) = 0
  /\ job'.kind = "idle" => Ahead(job') = 0
  /\ job.kind \in {"install", "update", "relaunch"} => Ahead(job) = 1
BY DEF Ahead

\* The count of launches is kept where no new restart comes into sight.
LEMMA CountKept ==
  ASSUME TypeOK, CountInv, Doomed' \subseteq Doomed,
         launched' \in Nat, ops' \in Nat, faults' \in Nat,
         launched' + Ahead(job') + ops + faults <= launched + Ahead(job) + ops' + faults'
  PROVE  CountInv'
<1>1. Ahead(job) \in Nat /\ Ahead(job') \in Nat
  BY AheadType
<1>2. launched \in Nat /\ ops \in Nat /\ faults \in Nat
  BY Numbers
<1>3. IsFiniteSet(Doomed) /\ Cardinality(Doomed) \in Nat
  BY DoomedFinite
<1>4. Cardinality(Doomed') <= Cardinality(Doomed) /\ Cardinality(Doomed') \in Nat
  <2>1. Doomed' \in SUBSET Doomed
    OBVIOUS
  <2> QED BY <1>3, <2>1, FS_Subset, FS_CardinalityType
<1>5. launched + Cardinality(Doomed) + Ahead(job) <= ops + faults
  BY DEF CountInv
<1>6. launched' + Cardinality(Doomed') + Ahead(job') <= ops' + faults'
  BY <1>1, <1>2, <1>3, <1>4, <1>5
<1> QED BY <1>6 DEF CountInv

\* Every failure is restarted once, after every step.
LEMMA NextCount ==
  ASSUME Inv, [Next]_vars
  PROVE  CountInv'
<1> USE DEF Inv
<1>1. worker \in [Launches -> Workers] /\ current \in Launches \cup {NoWorker}
      /\ current \in 0..launched /\ launched \in Nat
  BY Records
<1>2. Ahead(job) \in {0, 1} /\ Ahead(job') \in {0, 1}
  BY AheadType
<1>3. launched \in Nat /\ ops \in Nat /\ faults \in Nat
  BY Numbers
<1>4. CASE Operator
  <2>1. Doomed' = Doomed
    BY <1>4 DEF Operator, Quit, StopAll, Install, UpdateDevice, Operate, Doomed
  <2>2. UNCHANGED <<launched, faults>>
    BY <1>4 DEF Operator, Quit, StopAll, Install, UpdateDevice, Operate, launchVars
  <2>3. UNCHANGED <<job, ops>> \/ (Ahead(job) = 0 /\ ops' = ops + 1)
    BY <1>4, AheadType DEF Operator, Quit, StopAll, Install, UpdateDevice, Operate, Unlocked, Idle
  <2> QED BY <1>2, <1>3, <2>1, <2>2, <2>3, CountKept
<1>5. CASE Holder
  <2>1. Doomed' \subseteq Doomed
    <3> SUFFICES ASSUME NEW k \in Launches, k \in Doomed' PROVE k \in Doomed
      BY DEF Doomed
    <3>1. worker'[k].monitor = "back-off"
          \/ (worker'[k].monitor = "waiting" /\ current' = k /\ worker'[k].proc # "running")
      BY DEF Doomed
    <3>2. k # NoWorker
      BY DEF Launches, NoWorker
    <3>3. worker'[k] = Stopped[k] /\ current' # k
      BY <1>1, <1>5, <3>1, <3>2, HolderRecord
    <3>4. Stopped[k].monitor = worker[k].monitor
      BY <1>1, StoppedWorkers
    <3> QED BY <3>1, <3>3, <3>4 DEF Doomed
  <2>2. Ahead(job') = 0 /\ UNCHANGED <<ops, faults>>
    BY <1>5, HolderRecord, AheadType DEF Idle
  <2>3. launched' = launched \/ (launched' = launched + 1 /\ Ahead(job) = 1)
    BY <1>5, HolderRecord, AheadType
  <2> QED BY <1>2, <1>3, <2>1, <2>2, <2>3, CountKept
<1>6. ASSUME NEW k \in Launches, Process(k) \/ Reader(k)
      PROVE  CountInv'
  <2>1. CASE worker'[k].proc = worker[k].proc
    <3>1. Doomed' \subseteq Doomed
      BY <1>6, <2>1, ProcessRecord DEF Doomed
    <3>2. UNCHANGED <<launched, ops, job>> /\ faults' \in {faults, faults + 1}
      BY <1>6, ProcessRecord
    <3> QED BY <1>2, <1>3, <3>1, <3>2, CountKept
  <2>2. CASE worker'[k].proc # worker[k].proc
    <3>1. Doomed' \in SUBSET (Doomed \cup {k})
      BY <1>6, <2>2, ProcessRecord DEF Doomed
    <3>2. UNCHANGED <<launched, ops, job>> /\ faults' = faults + 1
      BY <1>6, <2>2, ProcessRecord
    <3>3. IsFiniteSet(Doomed) /\ Cardinality(Doomed) \in Nat
      BY DoomedFinite
    <3>4. /\ IsFiniteSet(Doomed \cup {k})
          /\ Cardinality(Doomed \cup {k}) <= Cardinality(Doomed) + 1
          /\ Cardinality(Doomed \cup {k}) \in Nat
      BY <3>3, FS_AddElement
    <3>5. Cardinality(Doomed') <= Cardinality(Doomed \cup {k}) /\ Cardinality(Doomed') \in Nat
      BY <3>1, <3>4, FS_Subset, FS_CardinalityType
    <3>6. launched + Cardinality(Doomed) + Ahead(job) <= ops + faults
      BY DEF CountInv
    <3>7. launched' + Cardinality(Doomed') + Ahead(job') <= ops' + faults'
      BY <1>2, <1>3, <3>2, <3>3, <3>4, <3>5, <3>6
    <3> QED BY <3>7 DEF CountInv
  <2> QED BY <2>1, <2>2
<1>7. ASSUME NEW k \in Launches, MonitorStep(k)
      PROVE  CountInv'
  <2>1. current' \in {current, NoWorker} /\ \A j \in Launches : j # NoWorker
    <3>1. current' \in {current, NoWorker}
      BY <1>7 DEF MonitorStep, Reap, Dismissed, GiveUp, Relaunch
    <3>2. \A j \in Launches : j # NoWorker
      BY DEF Launches, NoWorker
    <3> QED BY <3>1, <3>2
  <2>2. Reap(k) => k \in Doomed
    BY <1>7 DEF Reap, Monitor, Doomed
  <2>3. Doomed' \subseteq Doomed
    <3> SUFFICES ASSUME NEW j \in Launches, j \in Doomed' PROVE j \in Doomed
      BY DEF Doomed
    <3>1. CASE j # k
      <4>1. worker'[j] = worker[j]
        BY <1>7, <3>1, MonitorRecord
      <4> QED BY <2>1, <4>1 DEF Doomed
    <3>2. CASE j = k
      <4>1. worker'[k].monitor \in {"back-off", "waiting"}
        BY <3>2 DEF Doomed
      <4> QED BY <1>7, <2>2, <3>2, <4>1, MonitorRecord
    <3> QED BY <3>1, <3>2
  <2>4. UNCHANGED <<launched, ops, faults>>
    BY <1>7, MonitorRecord
  <2>5. job.kind = "idle"
    <3>1. job = Idle
      BY <1>7, MonitorRecord DEF Unlocked
    <3> QED BY <3>1 DEF Idle
  <2>6. CASE ~Relaunch(k)
    <3>1. job' = job
      BY <1>7, <2>6 DEF MonitorStep, Reap, Dismissed, GiveUp
    <3> QED BY <1>2, <1>3, <2>3, <2>4, <3>1, CountKept
  <2>7. CASE Relaunch(k)
    <3>1. k \in Doomed /\ k \notin Doomed'
      BY <1>1, <2>7 DEF Relaunch, Monitor, Doomed, Workers
    <3>2. IsFiniteSet(Doomed) /\ Cardinality(Doomed) \in Nat
      BY DoomedFinite
    <3>3. /\ IsFiniteSet(Doomed \ {k}) /\ Cardinality(Doomed \ {k}) = Cardinality(Doomed) - 1
      BY <3>1, <3>2, FS_RemoveElement
    <3>4. Doomed' \in SUBSET (Doomed \ {k})
      BY <2>3, <3>1
    <3>5. Cardinality(Doomed') <= Cardinality(Doomed) - 1 /\ Cardinality(Doomed') \in Nat
      BY <3>3, <3>4, FS_Subset, FS_CardinalityType
    <3>6. launched + Cardinality(Doomed) + 0 <= ops + faults
      BY <2>5, AheadType DEF CountInv
    <3>7. launched' + Cardinality(Doomed') + Ahead(job') <= ops' + faults'
      BY <1>2, <1>3, <2>4, <3>2, <3>5, <3>6
    <3> QED BY <3>7 DEF CountInv
  <2> QED BY <2>6, <2>7
<1>8. ASSUME NEW r \in Requests, Register(r) \/ Handler(r)
      PROVE  CountInv'
  <2>1. UNCHANGED <<launched, ops, faults, job, current>>
    BY <1>8, HandlerRecord
  <2>2. Doomed' \subseteq Doomed
    <3> SUFFICES ASSUME NEW k \in Launches, k \in Doomed' PROVE k \in Doomed
      BY DEF Doomed
    <3>1. worker'[k].proc = worker[k].proc \/ Broken(k)
      BY <1>8, HandlerRecord
    <3>2. Broken(k) => worker[k].proc # "running"
      BY DEF Broken, RegisteredInv
    <3> QED BY <1>8, <2>1, <3>1, <3>2, HandlerRecord DEF Doomed
  <2> QED BY <1>2, <1>3, <2>1, <2>2, CountKept
<1>9. CASE UNCHANGED vars
  <2>1. UNCHANGED <<launched, ops, faults, job>> /\ Doomed' = Doomed
    BY <1>9 DEF vars, launchVars, Doomed
  <2> QED BY <1>2, <1>3, <2>1, CountKept
<1> QED BY <1>4, <1>5, <1>6, <1>7, <1>8, <1>9 DEF Next

-----------------------------------------------------------------------------
(* The theorems.                                                           *)

\* The initial state.
LEMMA InitInv == Init => Inv
<1> SUFFICES ASSUME Init PROVE Inv
  OBVIOUS
<1>1. \A k \in Launches : worker[k].proc = "none" /\ worker[k].monitor = "none" /\ k \in Nat
                          /\ k > 0
  BY WorkersAssumption DEF Init, NoLaunch, Launches
<1>2. OneAlive /\ LimitInv
  BY <1>1 DEF OneAlive, Alive, LimitInv
<1>3. LaunchInv
  BY <1>1 DEF Init, LaunchInv
<1>4. RegisteredInv
  BY <1>1 DEF Init, RegisteredInv
<1>5. Doomed = {}
  BY <1>1 DEF Doomed
<1>6. CountInv
  BY <1>5, SmallSets DEF Init, CountInv, Ahead, Idle
<1> QED BY <1>2, <1>3, <1>4, <1>6, InitTypes DEF Inv

\* The invariant holds of every behaviour.
LEMMA Invariant == Spec => []Inv
<1>1. Inv /\ [Next]_vars => Inv'
  <2> SUFFICES ASSUME Inv, [Next]_vars PROVE Inv'
    OBVIOUS
  <2>1. TypeOK'
    BY NextTypes DEF Inv
  <2> QED BY <2>1, NextAlive, NextLaunch, NextRegistered, NextLimit, NextCount DEF Inv
<1> QED BY <1>1, InitInv, PTL DEF Spec

\* No process is orphaned and no two serve the device, and no worker is restarted more
\* often than restart_limit, for any limit and any number of failures and operations.
THEOREM WorkerExclusive == Spec => []OneWorker
<1>1. Inv => OneWorker
  BY DEF Inv, OneWorker, OneAlive
<1> QED BY <1>1, Invariant, PTL

\* Every launch is paid for by an operation or a failure: a failure is restarted once.
THEOREM RestartsCounted == Spec => []CountInv
<1>1. Inv => CountInv
  BY DEF Inv
<1> QED BY <1>1, Invariant, PTL

\* A request that has ended leaves no entry in pending_controller, unless it found no
\* worker: whichever way it and its worker end.
THEOREM PendingSafe == Spec => []PendingReleased
<1>1. Init => PendingReleased
  BY DEF Init, PendingReleased
<1>2. TypeOK /\ PendingReleased /\ [Next]_vars => PendingReleased'
  <2> SUFFICES ASSUME TypeOK, PendingReleased, [Next]_vars PROVE PendingReleased'
    OBVIOUS
  <2>1. CASE UNCHANGED <<at, result>> /\ pending' \in {pending, {}}
    BY <2>1 DEF PendingReleased
  <2>2. ASSUME NEW r \in Requests, Register(r) \/ Handler(r)
        PROVE  PendingReleased'
    <3>1. CASE Register(r)
      <4>1. \A s \in Requests : s # r => at'[s] = at[s]
        BY <3>1 DEF TypeOK, Register, Request
      <4>2. at'[r] = "registered" /\ pending' = pending \cup {r} /\ result' = result
        BY <3>1 DEF TypeOK, Register, Request
      <4> QED BY <4>1, <4>2 DEF TypeOK, PendingReleased
    <3>5. CASE Refuse(r)
      BY <3>5 DEF TypeOK, PendingReleased, Refuse, Request
    <3>4. CASE LookUp(r)
      <4>1. CASE r \in pending
        BY <3>4, <4>1 DEF TypeOK, PendingReleased, LookUp, Request
      <4>2. CASE r \notin pending
        <5>1. \A s \in Requests \ {r} : at'[s] = at[s] /\ result'[s] = result[s]
          BY <3>4 DEF TypeOK, LookUp, Request
        <5> QED BY <3>4, <4>2, <5>1 DEF TypeOK, PendingReleased, LookUp
      <4> QED BY <4>1, <4>2
    <3>2. CASE Send(r) \/ Block(r) \/ SendFails(r)
      BY <3>2 DEF TypeOK, PendingReleased, Send, Block, SendFails, Request
    <3>3. CASE ForceRestart(r) \/ Leave(r)
      BY <3>3 DEF TypeOK, PendingReleased, ForceRestart, FailPending, Leave, EntryPopped, Request
    <3> QED BY <2>2, <3>1, <3>2, <3>3, <3>4, <3>5 DEF Handler
  <2>3. CASE Operator \/ UNCHANGED vars
    BY <2>1, <2>3 DEF Operator, Quit, StopAll, Install, UpdateDevice, Operate, vars, requestVars
  <2>4. CASE Holder
    BY <2>1, <2>4 DEF Holder, FinishLaunch, LaunchFails, FinishInstall, FinishStop, Finish
  <2>5. ASSUME NEW k \in Launches, Process(k) \/ Reader(k)
        PROVE  PendingReleased'
    BY <2>1, <2>5, ProcessRecord
  <2>6. ASSUME NEW k \in Launches, MonitorStep(k)
        PROVE  PendingReleased'
    <3>1. pending' \in {pending, {}}
      BY <2>6 DEF MonitorStep, Reap, Dismissed, GiveUp, Relaunch, FailPending
    <3> QED BY <2>1, <2>6, <3>1, MonitorRecord
  <2> QED BY <2>2, <2>3, <2>4, <2>5, <2>6 DEF Next
<1>3. Inv => TypeOK
  BY DEF Inv
<1> QED BY <1>1, <1>2, <1>3, Invariant, PTL DEF Spec

\* A failed worker shows in runtime_state, and "restarting" is somebody's work or the
\* end of a launch that raised.
THEOREM FailureShown == Spec => []FailureInHand
<1>1. Init => FailureInHand
  BY DEF Init, FailureInHand
<1>2. Inv /\ FailureInHand /\ [Next]_vars => FailureInHand'
  <2> SUFFICES ASSUME Inv, FailureInHand, [Next]_vars PROVE FailureInHand'
    OBVIOUS
  <2> USE DEF Inv
  <2>1. CASE Operator \/ UNCHANGED vars
    <3>1. UNCHANGED <<degraded, status, state, worker, raised>>
      BY <2>1 DEF TypeOK, Operator, Quit, StopAll, Install, UpdateDevice, Operate, vars, deviceVars,
         launchVars
    <3>2. CASE Quit \/ UNCHANGED vars
      BY <3>1, <3>2 DEF FailureInHand, TypeOK, Quit, vars, deviceVars
    <3>3. CASE ~(Quit \/ UNCHANGED vars)
      <4>1. job = Idle
        BY <2>1, <3>3 DEF Operator, StopAll, Install, UpdateDevice, Operate, Unlocked
      <4>2. job.kind = "idle"
        BY <4>1 DEF Idle
      <4>3. config' = config \/ (config' = "managed" => job'.kind = "update")
        BY <2>1, <3>3 DEF Operator, StopAll, Install, UpdateDevice
      <4>4. job.kind \notin {"relaunch", "update"}
        BY <4>2
      <4>5. ~stop' => ~stop
        BY <2>1, <3>3 DEF Operator, StopAll, Install, UpdateDevice, Operate
      <4> HIDE DEF Inv
      <4> QED BY <3>1, <4>3, <4>4, <4>5, FailureInHand DEF FailureInHand
    <3> QED BY <3>2, <3>3
  <2>2. CASE Holder
    <3>1. CASE FinishLaunch
      BY <3>1 DEF FailureInHand, FinishLaunch, Launched
    <3>2. CASE LaunchFails
      BY <3>2 DEF FailureInHand, LaunchFails, deviceVars
    <3>3. CASE FinishInstall
      BY <3>3 DEF FailureInHand, FinishInstall, Launched
    <3>4. CASE FinishStop
      <4>1. \A k \in Launches : worker'[k].monitor = worker[k].monitor
        BY <3>4, StoppedWorkers, Records DEF FinishStop
      <4> QED BY <3>4, <4>1 DEF FailureInHand, FinishStop, Finish, deviceVars, launchVars
    <3> QED BY <2>2, <3>1, <3>2, <3>3, <3>4 DEF Holder
  <2>3. ASSUME NEW k \in Launches, Process(k) \/ Reader(k)
        PROVE  FailureInHand'
    <3>1. \A j \in Launches : worker'[j].monitor = worker[j].monitor
      BY <2>3, ProcessRecord
    <3>2. UNCHANGED <<degraded, state, config, stop, job, raised>>
      BY <2>3, ProcessRecord
    <3>3. status' = status \/ (status' = "running" /\ ~degraded)
      BY <2>3, ProcessRecord DEF RegisteredInv, Launches, NoWorker
    <3> QED BY <3>1, <3>2, <3>3 DEF FailureInHand
  <2>4. ASSUME NEW k \in Launches, MonitorStep(k)
        PROVE  FailureInHand'
    <3>1. UNCHANGED <<config, stop, raised>> /\ \A j \in Launches \ {k} : worker'[j] = worker[j]
      BY <2>4, MonitorRecord
    <3>2. CASE Reap(k)
      <4>1. degraded' => state' = "degraded"
        BY <3>2 DEF Reap, Refresh
      <4>2. ~stop => worker'[k].monitor \in {"back-off", "giving up"}
        BY <3>2, Records DEF Reap, Duty, Workers
      <4>3. stop => status' = "stopped"
        BY <3>2 DEF Reap
      <4> QED BY <3>1, <4>1, <4>2, <4>3 DEF FailureInHand
    <3>3. CASE Dismissed(k)
      <4>1. \A j \in Launches : worker[j].monitor \in {"back-off", "giving up"} =>
                                 worker'[j] = worker[j]
        BY <3>1, <3>3 DEF Dismissed, Monitor
      <4> QED BY <3>1, <3>3, <4>1 DEF FailureInHand, Dismissed
    <3>4. CASE GiveUp(k)
      <4>1. degraded' => state' = "degraded"
        BY <3>4 DEF GiveUp, Refresh
      <4>2. config = "managed" => status' = "failed"
        BY <3>4 DEF GiveUp
      <4> QED BY <3>1, <4>1, <4>2 DEF FailureInHand
    <3>5. CASE Relaunch(k)
      <4>1. config = "managed" /\ ~stop => job'.kind = "relaunch"
        BY <3>5 DEF Relaunch
      <4>2. UNCHANGED <<status, degraded, state>>
        BY <3>5 DEF Relaunch
      <4> QED BY <3>1, <4>1, <4>2 DEF FailureInHand
    <3> QED BY <2>4, <3>2, <3>3, <3>4, <3>5 DEF MonitorStep
  <2>5. ASSUME NEW r \in Requests, Register(r) \/ Handler(r)
        PROVE  FailureInHand'
    BY <2>5, HandlerRecord DEF FailureInHand
  <2> QED BY <2>1, <2>2, <2>3, <2>4, <2>5 DEF Next
<1> QED BY <1>1, <1>2, Invariant, PTL DEF Spec

=============================================================================

---------------------------- MODULE ManagedWorkers ----------------------------
(***************************************************************************)
(* The worker process the daemon runs for a broker-managed device: its     *)
(* launches, the monitor thread that restarts it after a back-off, the     *)
(* reader thread that takes its replies, and the kernel requests sent to   *)
(* it, while the operator updates, installs and stops                      *)
(* (src/sensorium/runtime/managed_workers.py, worker_protocol.py,          *)
(* worker_client.py, and what backends.py and inventory.py call of it).    *)
(*                                                                         *)
(* One managed device; others have workers of their own.  A section under  *)
(* the manager's lock is one step, except that stopping a worker may block *)
(* in its socket with the lock held: then the lock belongs to a job.       *)
(***************************************************************************)
EXTENDS Naturals, FiniteSets

CONSTANTS
  RestartLimit, \* restart_limit
  Room,         \* messages that fit into a worker's socket
  MaxRequests,  \* bound: kernel requests
  MaxOps,       \* bound: installations, updates and stops of the worker
  MaxFaults     \* bound: worker processes that fail

ASSUME WorkersAssumption ==
  /\ RestartLimit \in Nat /\ Room \in Nat \ {0}
  /\ MaxRequests \in Nat /\ MaxOps \in Nat /\ MaxFaults \in Nat

Requests == 1..MaxRequests
Launches == 1..(MaxOps + MaxFaults)
NoWorker == 0
Idle == [kind |-> "idle"]

VARIABLES
  config,   \* the device: "absent", "plain", or "managed" by a worker
  status,   \* managed_worker status of the device
  degraded, \* the device has a degraded_reason
  state,    \* runtime_state: "ready" or "degraded"
  current,  \* managed_workers: the launch it holds, or NoWorker
  launched, \* launches so far
  worker,   \* per launch: process, socket, threads, messages
  job,      \* what the holder of the lock does after stopping the worker
  at,       \* per request, where its bridge worker is
  via,      \* per request, the launch it goes to
  pending,  \* keys of pending_controller
  done,     \* per request: "no", or how its ControllerPending was completed
  result,   \* per request, the status of the handler
  route,    \* requests that took the device's route lock of this installation
  stop,     \* stop_event
  ops, faults,
  raised    \* history: the last launch raised

deviceVars  == <<config, status, degraded, state>>
requestVars == <<at, via, pending, done, result>>
launchVars  == <<launched, raised>>
vars == <<deviceVars, current, launchVars, worker, job, requestVars, route, stop, ops, faults>>

NoLaunch == [proc |-> "none", open |-> FALSE, reader |-> FALSE, monitor |-> "none",
             restarts |-> 0, box |-> {}, replies |-> {}]

Alive(k)  == worker[k].proc \in {"running", "hung", "deaf"}
Broken(k) == ~worker[k].open \/ worker[k].proc \notin {"running", "hung"}
Unlocked  == job = Idle

Full(k) == Cardinality(worker[k].box) >= Room

\* Some bridge worker is inside sendall, with the worker's send_lock.
Sending(k) == \E r \in Requests : at[r] = "blocked" /\ via[r] = k

\* _refresh_managed_worker_runtime_state_locked, for what the step makes of the device.
Refresh == state' = IF degraded' THEN "degraded" ELSE "ready"

\* _fail_managed_pending_locked.
FailPending ==
  /\ pending' = {}
  /\ done' = [r \in Requests |-> IF r \in pending THEN "epipe" ELSE done[r]]

-----------------------------------------------------------------------------
(* _launch_managed_worker_locked and _stop_managed_worker_locked.          *)

\* Mutant: the worker before is left alone.
StoppedNot == worker

\* The current worker after a stop: told, disconnected, and killed if it has to be.
Stopped ==
  IF current = NoWorker THEN worker
  ELSE [worker EXCEPT ![current].open = FALSE, ![current].proc = "dead",
                      ![current].box = {}]

\* Sending "shutdown" needs the send_lock and room in the socket; there is no timeout.
StopReturns ==
  current # NoWorker => ~Sending(current) /\ (Broken(current) \/ ~Full(current))

Launched(count) ==
  /\ launched' = launched + 1
  /\ current' = launched + 1
  /\ worker' = [Stopped EXCEPT ![launched + 1] =
                  [NoLaunch EXCEPT !.proc = "running", !.open = TRUE, !.reader = TRUE,
                                   !.monitor = "waiting", !.restarts = count]]
  /\ status' = "running" /\ degraded' = FALSE /\ raised' = FALSE

\* The holder of the lock ends, after a launch ...
Finish(kinds) ==
  /\ job.kind \in kinds /\ StopReturns
  /\ job' = Idle
  /\ route' = IF job.kind = "install" THEN {} ELSE route
  /\ UNCHANGED <<at, via, result, stop, ops, faults>>

FinishLaunch ==
  /\ Finish({"relaunch", "update"})
  /\ Launched(job.count) /\ Refresh
  /\ UNCHANGED <<config, pending, done>>

\* ... or Popen raises.  That ends the monitor thread, or the update.
LaunchFails ==
  /\ Finish({"relaunch", "update"})
  /\ worker' = Stopped /\ current' = NoWorker /\ raised' = TRUE
  /\ UNCHANGED <<deviceVars, launched, pending, done>>

\* _clear_state and _apply_model_locked, which ends with "ready" whatever
\* _start_managed_workers_locked recorded.
FinishInstall ==
  /\ Finish({"install"})
  /\ config' = job.to /\ state' = "ready"
  /\ pending' = {} /\ UNCHANGED done
  /\ \/ job.to = "managed" /\ Launched(0)
     \/ /\ worker' = Stopped /\ current' = NoWorker /\ UNCHANGED launched
        /\ degraded' = (job.to = "managed") /\ raised' = (job.to = "managed")
        /\ status' = IF job.to = "managed" THEN "failed" ELSE "none"

\* device.update to another backend, and shutdown, only stop the worker.
FinishStop ==
  /\ Finish({"unmanage", "quit"})
  /\ worker' = Stopped /\ current' = NoWorker
  /\ UNCHANGED <<deviceVars, launchVars, pending, done>>

-----------------------------------------------------------------------------
(* The operator.                                                           *)

Operate ==
  /\ Unlocked /\ ops < MaxOps /\ ops' = ops + 1
  /\ UNCHANGED <<status, degraded, state, current, launchVars, worker, requestVars, route, stop,
                 faults>>

Install(to) ==
  /\ Operate
  /\ job' = [kind |-> "install", to |-> to]
  /\ UNCHANGED config

\* update_device, from the assignment of the new backend on.
UpdateDevice(to) ==
  /\ Operate
  /\ config # "absent" /\ config' = to
  /\ job' = IF to = "managed" THEN [kind |-> "update", count |-> 0]
            ELSE IF config = "managed" THEN [kind |-> "unmanage"] ELSE Idle

\* stop_event is set without the lock: by daemon.stop and SIGTERM, after which RPCs are
\* still served, and by shutdown ...
Quit ==
  /\ ~stop /\ stop' = TRUE
  /\ UNCHANGED <<deviceVars, current, launchVars, worker, job, requestVars, route, ops, faults>>

\* ... which goes on to _stop_all_managed_workers_locked.
StopAll ==
  /\ Operate /\ stop
  /\ job' = [kind |-> "quit"]
  /\ UNCHANGED config

-----------------------------------------------------------------------------
(* The worker process and the reader thread.                               *)

Worker(k, w) ==
  /\ worker' = [worker EXCEPT ![k] = w]
  /\ UNCHANGED <<deviceVars, current, launchVars, job, at, via, result, route, stop, ops>>

\* ManagedControllerSession: an event is taken and answered.
AnswerEvent(k, r) ==
  /\ worker[k].proc = "running" /\ r \in worker[k].box
  /\ Worker(k, [worker[k] EXCEPT !.box = @ \ {r}, !.replies = @ \cup {r}])
  /\ UNCHANGED <<pending, done, faults>>

\* The process exits, stops reading, or closes its end and stays.
WorkerFails(k, how) ==
  /\ worker[k].proc = "running" /\ faults < MaxFaults /\ faults' = faults + 1
  /\ Worker(k, [worker[k] EXCEPT !.proc = how, !.box = IF how = "hung" THEN @ ELSE {}])
  /\ UNCHANGED <<pending, done>>

\* _managed_worker_reader_loop and _complete_pending_controller.
ReadReply(k, r) ==
  /\ Unlocked /\ worker[k].reader /\ r \in worker[k].replies
  /\ done' = IF r \in pending THEN [done EXCEPT ![r] = "ok"] ELSE done
  /\ Worker(k, [worker[k] EXCEPT !.replies = @ \ {r}])
  /\ UNCHANGED <<pending, faults>>

\* A heartbeat of the registered worker makes it "running" again, after GiveUp of an
\* earlier worker's monitor has made it "failed".
ReadHeartbeat(k) ==
  /\ Unlocked /\ worker[k].reader /\ worker[k].proc = "running" /\ worker[k].open
  /\ current = k
  /\ status' = "running"
  /\ UNCHANGED <<config, degraded, state, current, launchVars, worker, job, requestVars, route,
                 stop, ops, faults>>

\* A reply the reader cannot decode: the thread ends, the worker stays registered.
\* (At the end of file there is nothing left to read.)
ReaderRaises(k) ==
  /\ worker[k].proc = "running" /\ worker[k].reader
  /\ faults < MaxFaults /\ faults' = faults + 1
  /\ Worker(k, [worker[k] EXCEPT !.reader = FALSE, !.replies = {}])
  /\ UNCHANGED <<pending, done>>

-----------------------------------------------------------------------------
(* _managed_worker_monitor_loop.                                           *)

Monitor(k, from) ==
  /\ Unlocked /\ worker[k].monitor = from
  /\ UNCHANGED <<config, launchVars, at, via, result, route, stop, ops, faults>>

GivesUp(k) == worker[k].restarts + 1 > RestartLimit

\* Mutant: the last failure is not recorded.
GoesQuietly(k) == IF config # "managed" \/ GivesUp(k) THEN "done" ELSE "back-off"

Duty(k) == IF config # "managed" \/ GivesUp(k) THEN "giving up" ELSE "back-off"

\* The process is gone; its death is the monitor's business while it is registered.
Reap(k) ==
  /\ Monitor(k, "waiting") /\ worker[k].proc = "dead"
  /\ current = k /\ current' = NoWorker
  /\ IF stop
     THEN /\ status' = "stopped" /\ degraded' = FALSE
          /\ worker' = [worker EXCEPT ![k].open = FALSE, ![k].monitor = "done"]
          /\ UNCHANGED <<pending, done>>
     ELSE /\ status' = "restarting" /\ degraded' = TRUE
          /\ worker' = [worker EXCEPT ![k].open = FALSE, ![k].monitor = Duty(k)]
          /\ FailPending
  /\ Refresh
  /\ UNCHANGED job

Dismissed(k) ==
  /\ Monitor(k, "waiting") /\ worker[k].proc = "dead" /\ current # k
  /\ worker' = [worker EXCEPT ![k].open = FALSE, ![k].monitor = "done"]
  /\ UNCHANGED <<status, degraded, state, current, job, pending, done>>

\* The lock was free since Reap: the status may be another worker's by now, and a stop
\* that came in between is a reason too.
GiveUp(k) ==
  /\ Monitor(k, "giving up") \/ (Monitor(k, "back-off") /\ stop)
  /\ status' = IF config = "absent" THEN status ELSE "failed"
  /\ worker' = [worker EXCEPT ![k].monitor = "done"]
  /\ UNCHANGED <<degraded, current, job, pending, done>>
  /\ Refresh

\* After the back-off: whoever is registered by now is stopped.
Relaunch(k) ==
  /\ Monitor(k, "back-off")
  /\ worker' = [worker EXCEPT ![k].monitor = "done"]
  /\ job' = IF stop \/ config # "managed" THEN Idle
            ELSE [kind |-> "relaunch", count |-> worker[k].restarts + 1]
  /\ UNCHANGED <<status, degraded, state, current, pending, done>>

-----------------------------------------------------------------------------
(* A kernel request: _dispatch_controller, _dispatch_managed_controller.   *)

Request(r, from, to) ==
  /\ at[r] \in from /\ at' = [at EXCEPT ![r] = to]
  /\ UNCHANGED <<deviceVars, current, launchVars, job, stop, ops, faults>>

\* The route lock lets one request of the device in, until an installation makes
\* another lock.
Register(r) ==
  /\ Request(r, {"new"}, "registered") /\ Unlocked /\ config = "managed"
  /\ \A s \in route : at[s] = "done"
  /\ route' = {r}
  /\ pending' = pending \cup {r}
  /\ UNCHANGED <<worker, via, done, result>>

\* No worker: -EPIPE, and the entry stays in pending_controller.
Refuse(r) ==
  /\ Request(r, {"registered"}, "done") /\ Unlocked /\ current = NoWorker
  /\ result' = [result EXCEPT ![r] = "refused"]
  /\ UNCHANGED <<worker, via, pending, done, route>>

\* The entry is gone if an installation came between: KeyError, which is -EIO.
LookUp(r) ==
  /\ Unlocked /\ current # NoWorker
  /\ Request(r, {"registered"}, IF r \in pending THEN "sending" ELSE "done")
  /\ via' = [via EXCEPT ![r] = current]
  /\ result' = [result EXCEPT ![r] = IF r \in pending THEN @ ELSE "error"]
  /\ UNCHANGED <<worker, pending, done, route>>

Send(r) ==
  /\ Request(r, {"sending", "blocked"}, "waiting")
  /\ at[r] = "blocked" \/ ~Sending(via[r])
  /\ ~Broken(via[r]) /\ ~Full(via[r])
  /\ worker' = [worker EXCEPT ![via[r]].box = @ \cup {r}]
  /\ UNCHANGED <<via, pending, done, result, route>>

\* sendall blocks, with the send_lock.
Block(r) ==
  /\ Request(r, {"sending"}, "blocked")
  /\ ~Sending(via[r]) /\ ~Broken(via[r]) /\ Full(via[r])
  /\ UNCHANGED <<worker, via, pending, done, result, route>>

\* The send raises, which releases the send_lock: the socket is broken (an event over the
\* protocol's 8 MiB raises too, before it is sent, and costs a healthy worker its life; no
\* event of the model is that large) ...
SendFails(r) ==
  /\ Request(r, {"sending", "blocked"}, "failed")
  /\ at[r] = "blocked" \/ ~Sending(via[r])
  /\ Broken(via[r])
  /\ UNCHANGED <<worker, via, pending, done, result, route>>

\* ... before _force_managed_worker_restart_locked kills the worker.
ForceRestart(r) ==
  /\ Request(r, {"failed"}, "done") /\ Unlocked
  /\ worker' = IF current # via[r] THEN worker ELSE Stopped
  /\ FailPending
  /\ result' = [result EXCEPT ![r] = "epipe"]
  /\ UNCHANGED <<via, route>>

\* Mutant: the wait has no deadline.
DoneOnly(r) == done[r] # "no"

WaitEnds(r) == TRUE

\* Mutant: the entry of a request that timed out stays.
EntryStays(r) == IF done[r] = "no" THEN pending ELSE pending \ {r}

EntryPopped(r) == pending \ {r}

\* The wait is over: done, or the controller's deadline passed.
Leave(r) ==
  /\ Request(r, {"waiting"}, "done") /\ Unlocked /\ WaitEnds(r)
  /\ pending' = EntryPopped(r)
  /\ result' = [result EXCEPT ![r] = IF done[r] = "no" THEN "timeout" ELSE done[r]]
  /\ UNCHANGED <<worker, via, done, route>>

-----------------------------------------------------------------------------
Init ==
  /\ config = "absent" /\ status = "none" /\ degraded = FALSE /\ state = "ready"
  /\ current = NoWorker /\ launched = 0
  /\ worker = [k \in Launches |-> NoLaunch]
  /\ job = Idle
  /\ at = [r \in Requests |-> "new"] /\ via = [r \in Requests |-> NoWorker]
  /\ pending = {} /\ done = [r \in Requests |-> "no"]
  /\ result = [r \in Requests |-> "none"] /\ route = {}
  /\ stop = FALSE /\ ops = 0 /\ faults = 0 /\ raised = FALSE

Operator ==
  \/ Quit \/ StopAll
  \/ \E to \in {"absent", "plain", "managed"} : Install(to)
  \/ \E to \in {"plain", "managed"} : UpdateDevice(to)

Process(k) ==
  \/ \E r \in Requests : AnswerEvent(k, r)
  \/ \E how \in {"dead", "hung", "deaf"} : WorkerFails(k, how)

Reader(k) == ReaderRaises(k) \/ ReadHeartbeat(k) \/ \E r \in Requests : ReadReply(k, r)
MonitorStep(k) == Reap(k) \/ Dismissed(k) \/ GiveUp(k) \/ Relaunch(k)
Holder == FinishLaunch \/ LaunchFails \/ FinishInstall \/ FinishStop

Handler(r) ==
  \/ Refuse(r) \/ LookUp(r) \/ Send(r) \/ Block(r) \/ SendFails(r)
  \/ ForceRestart(r) \/ Leave(r)

Next ==
  \/ Operator \/ Holder
  \/ \E k \in Launches : Process(k) \/ Reader(k) \/ MonitorStep(k)
  \/ \E r \in Requests : Register(r) \/ Handler(r)

Spec == Init /\ [][Next]_vars

\* The daemon's threads run, and so does a worker process until it fails: one that
\* stops reading is "hung".
FairSpec ==
  /\ Spec /\ WF_vars(Holder)
  /\ \A k \in Launches :
       WF_vars(MonitorStep(k)) /\ WF_vars(\E r \in Requests : AnswerEvent(k, r))
  /\ \A r \in Requests : WF_vars(Handler(r))

-----------------------------------------------------------------------------
Jobs == [kind : {"idle", "unmanage", "quit"}]
          \cup [kind : {"update", "relaunch"}, count : 0..RestartLimit]
          \cup [kind : {"install"}, to : {"absent", "plain", "managed"}]

TypeOK ==
  /\ config \in {"absent", "plain", "managed"}
  /\ status \in {"none", "running", "restarting", "failed", "stopped"}
  /\ degraded \in BOOLEAN /\ state \in {"ready", "degraded"}
  /\ current \in 0..launched /\ launched \in 0..(MaxOps + MaxFaults)
  /\ worker \in [Launches -> [proc : {"none", "running", "hung", "deaf", "dead"},
                              open : BOOLEAN, reader : BOOLEAN,
                              monitor : {"none", "waiting", "back-off", "giving up",
                                         "done"},
                              restarts : 0..RestartLimit, box : SUBSET Requests,
                              replies : SUBSET Requests]]
  /\ \A k \in Launches : Cardinality(worker[k].box) <= Room
  /\ job \in Jobs
  /\ at \in [Requests -> {"new", "registered", "sending", "blocked", "failed", "waiting", "done"}]
  /\ via \in [Requests -> Launches \cup {NoWorker}]
  /\ pending \subseteq Requests /\ done \in [Requests -> {"no", "ok", "epipe"}]
  /\ result \in [Requests -> {"none", "ok", "epipe", "timeout", "refused", "error"}]
  /\ route \subseteq Requests
  /\ stop \in BOOLEAN /\ ops \in 0..MaxOps /\ faults \in 0..MaxFaults /\ raised \in BOOLEAN

\* No process is orphaned and no two serve the device: whatever crashes, restarts,
\* updates and installations met, a live process is the registered one, and its monitor
\* has restarted it restart_limit times at most (TypeOK).
OneWorker ==
  /\ TypeOK
  /\ \A k \in Launches : Alive(k) => current = k

\* pending_controller does not leak, but for one case: a request that found no worker
\* leaves its entry behind.
PendingReleased ==
  \A r \in pending : at[r] = "done" => result[r] = "refused"

\* The failure of a worker is shown and in hand: the runtime is "degraded", except where
\* an installation could not start the worker and ends with "ready" all the same; and a
\* device is not "restarting" for ever: a monitor or an update is at it, or the last
\* launch raised, of which whoever updates is told, and nobody if it was a monitor's.
FailureInHand ==
  /\ degraded /\ status # "failed" => state = "degraded"
  /\ status = "restarting" /\ config = "managed" /\ ~stop =>
       \/ \E k \in Launches : worker[k].monitor \in {"back-off", "giving up"}
       \/ job.kind \in {"relaunch", "update"} \/ raised

\* A worker that stopped reading, with its socket full, holds up who sends to it, and
\* who stops it with the manager's lock.
Wedged ==
  \E k \in Launches :
    /\ worker[k].proc = "hung" /\ Full(k)
    /\ Sending(k) \/ (~Unlocked /\ current = k)

\* Every request of the kernel is answered, whatever becomes of the worker, except
\* behind one that stopped reading.
RequestAnswered ==
  \A r \in Requests : at[r] \notin {"new", "done"} ~> (at[r] = "done" \/ Wedged)

-----------------------------------------------------------------------------
(* Strengthenings that make the safety properties inductive.               *)

\* Launches that were made are the first ones; a request that left for a worker left for
\* one of them, and found it broken if its send failed.
LaunchInv ==
  /\ \A k \in Launches : worker[k].proc # "none" <=> k <= launched
  /\ \A k \in Launches : k > launched => worker[k].monitor = "none"
  /\ \A r \in Requests :
       at[r] \in {"sending", "blocked", "failed", "waiting"} => via[r] \in 1..launched
  /\ \A r \in Requests : at[r] = "failed" => Broken(via[r])

\* A socket is closed only on a dead process; the device of a registered worker is well.
RegisteredInv ==
  /\ \A k \in Launches : ~worker[k].open => worker[k].proc \in {"none", "dead"}
  /\ current # NoWorker => ~degraded

\* A back-off is begun only for a restart that the limit allows.
LimitInv ==
  \A k \in Launches : worker[k].monitor = "back-off" => worker[k].restarts < RestartLimit

\* Launches whose monitor has a restart ahead.
Doomed ==
  {k \in Launches : \/ worker[k].monitor = "back-off"
                    \/ worker[k].monitor = "waiting" /\ current = k /\ worker[k].proc # "running"}

\* The launch that the holder of the lock has ahead.
Ahead(j) == IF j.kind \in {"install", "update", "relaunch"} THEN 1 ELSE 0

\* Every launch is for an operation or for a failure of an earlier one: a failure is
\* not restarted twice, however the monitors, the updates and the forced restarts meet.
CountInv == launched + Cardinality(Doomed) + Ahead(job) <= ops + faults

=============================================================================

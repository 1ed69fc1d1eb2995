-------------------------- MODULE ControllerDispatch --------------------------
(***************************************************************************)
(* The daemon's path of a kernel request: the bridge reader, the bounded   *)
(* request queue, the bridge workers with their route locks, the external  *)
(* controllers that poll events and answer them, and the installations and *)
(* attachments that change the routes meanwhile                            *)
(* (src/sensorium/runtime/bridge.py, backends.py, transport.py).           *)
(*                                                                         *)
(* A section under the manager's lock is one step; so is a whole           *)
(* installation, which holds it.  A device handle is the device's name:    *)
(* handles restart with every installation.  Managed workers are a         *)
(* component of their own and not devices of this module.                  *)
(***************************************************************************)
EXTENDS Naturals, Sequences

CONSTANTS
  Workers,     \* bridge worker threads
  Templates,   \* devices whose model names a template
  Controlled,  \* devices whose model names an external controller
  Backends,    \* external controllers
  Inventories, \* the device sets an operator installs
  QueueLimit,  \* max_pending_requests
  MaxRequests, \* bound: requests of the kernel
  MaxInstalls, \* bound: applies, resets and resyncs
  MaxRoutes,   \* bound: attach, detach and update calls
  NoBackend,   \* attached_backend is None
  NoLock       \* no route lock: the handle names no device

ASSUME DispatchAssumption ==
  /\ Workers # {} /\ Templates \cap Controlled = {}
  /\ Inventories \subseteq SUBSET (Templates \cup Controlled)
  /\ NoBackend \notin Backends
  /\ QueueLimit \in Nat \ {0}
  /\ MaxRequests \in Nat /\ MaxInstalls \in Nat /\ MaxRoutes \in Nat

Devices  == Templates \cup Controlled
Kinds    == {"template", "controller"}
Requests == 1..MaxRequests
Epochs   == 0..MaxInstalls
NoId == 0
NoRequest == [id |-> NoId, dev |-> "none"]

VARIABLES
  epoch,     \* installations so far
  present,   \* devices of this installation
  attached,  \* per installation and device, attached_backend of that object
  kind,      \* per installation and device, backend.kind of that object
  arrived,   \* requests the bridge reader has taken off the ring
  queue,     \* request_queue: request id and device handle
  pc,        \* per worker, where it is
  req,       \* per worker, its request
  lock,      \* per worker, the route lock it looked up
  found,     \* per worker, the installation whose device object it handles
  result,    \* per request, what became of it
  pending,   \* keys of pending_controller
  done,      \* requests whose ControllerPending is done
  events,    \* backend_queues
  polled,    \* per backend, events its controller has and has not answered
  call,      \* per backend, its backend.reply call: where it is, for which request
  late,      \* requests counted in late_replies
  desynced,  \* runtime_state is "desynced"
  routes,    \* attach, detach and update calls left
  switched   \* history: installation and device of updates from controller to template

workerVars  == <<pc, req, lock, found>>
pendingVars == <<pending, done, events>>
backendVars == <<polled, call, late>>
routeVars   == <<epoch, present, attached, kind, routes, switched>>
vars == <<routeVars, arrived, queue, workerVars, result, pendingVars,
          backendVars, desynced>>

Goto(w, label) == pc' = [pc EXCEPT ![w] = label]

-----------------------------------------------------------------------------
(* Routes.                                                                 *)

\* _route_key_for_device.
RouteKey(d) ==
  IF kind[epoch][d] = "controller" /\ attached[epoch][d] # NoBackend
  THEN <<"backend", attached[epoch][d]>>
  ELSE <<"device", d>>

\* _request_route_lock: the lock object, by key and installation, because
\* _clear_state empties route_locks.
RouteLock(d) ==
  IF d \in present THEN [key |-> RouteKey(d), epoch |-> epoch] ELSE NoLock

\* The worker is inside _handle_bridge_request.
Handling(w) == pc[w] \in {"handling", "serving", "dispatch", "waiting", "leaving"}

\* Mutant: the lock is not taken.
RouteOpen(w) == TRUE

RouteFree(w) ==
  lock[w] = NoLock \/ \A v \in Workers \ {w} : Handling(v) => lock[v] # lock[w]

-----------------------------------------------------------------------------
(* _bridge_loop.                                                           *)

Arrives(d) ==
  /\ arrived < MaxRequests
  /\ arrived' = arrived + 1
  /\ UNCHANGED <<routeVars, workerVars, pendingVars, backendVars, desynced>>

\* Mutant: the queue has no limit.
EnqueueUnlimited(d) ==
  /\ queue' = Append(queue, [id |-> arrived + 1, dev |-> d])
  /\ result' = [result EXCEPT ![arrived + 1] = "inside"]
  /\ Arrives(d)

Enqueue(d) ==
  /\ Len(queue) < QueueLimit
  /\ queue' = Append(queue, [id |-> arrived + 1, dev |-> d])
  /\ result' = [result EXCEPT ![arrived + 1] = "inside"]
  /\ Arrives(d)

\* request_queue is full: -EBUSY.  A failure to write that reply is swallowed.
Overload(d) ==
  /\ Len(queue) >= QueueLimit
  /\ \E s \in {"answered", "dropped"} : result' = [result EXCEPT ![arrived + 1] = s]
  /\ Arrives(d)
  /\ UNCHANGED queue

-----------------------------------------------------------------------------
(* _bridge_worker_loop.                                                    *)

\* Takes a request and looks its route up, before it has the lock.
Take(w) ==
  /\ pc[w] = "idle" /\ queue # <<>>
  /\ queue' = Tail(queue)
  /\ req' = [req EXCEPT ![w] = Head(queue)]
  /\ lock' = [lock EXCEPT ![w] = RouteLock(Head(queue).dev)]
  /\ Goto(w, "locking")
  /\ UNCHANGED <<routeVars, arrived, found, result, pendingVars, backendVars,
                 desynced>>

Acquire(w) ==
  /\ pc[w] = "locking" /\ RouteFree(w)
  /\ Goto(w, "handling")
  /\ UNCHANGED <<routeVars, arrived, queue, req, lock, found, result,
                 pendingVars, backendVars, desynced>>

\* The handle is looked up again, in the inventory of now.
Handle(w) ==
  /\ pc[w] = "handling"
  /\ req[w].dev \in present
  /\ found' = [found EXCEPT ![w] = epoch]
  /\ Goto(w, IF kind[epoch][req[w].dev] = "template" THEN "serving" ELSE "dispatch")
  /\ UNCHANGED <<routeVars, arrived, queue, req, lock, result, pendingVars,
                 backendVars, desynced>>

\* -ENOENT without a device; a malformed request, an injected fault or an
\* exception ends the handler early too.
Reject(w) ==
  /\ pc[w] = "handling"
  /\ Goto(w, "replying")
  /\ UNCHANGED <<routeVars, arrived, queue, req, lock, found, result, pendingVars,
                 backendVars, desynced>>

\* The template answers.
Serve(w) ==
  /\ pc[w] = "serving"
  /\ Goto(w, "replying")
  /\ UNCHANGED <<routeVars, arrived, queue, req, lock, found, result, pendingVars,
                 backendVars, desynced>>

\* _dispatch_controller: the backend of the device object found before gets
\* the event.
Dispatch(w) ==
  LET b == attached[found[w]][req[w].dev] IN
  /\ pc[w] = "dispatch" /\ b # NoBackend
  /\ pending' = pending \cup {req[w].id}
  /\ events' = [events EXCEPT ![b] = Append(@, req[w].id)]
  /\ Goto(w, "waiting")
  /\ UNCHANGED <<routeVars, arrived, queue, req, lock, found, result, done,
                 backendVars, desynced>>

\* Nobody is attached: -ENODEV.
Unattached(w) ==
  /\ pc[w] = "dispatch" /\ attached[found[w]][req[w].dev] = NoBackend
  /\ Goto(w, "replying")
  /\ UNCHANGED <<routeVars, arrived, queue, req, lock, found, result, pendingVars,
                 backendVars, desynced>>

\* Mutant: the wait has no deadline.
WaitForDone(w) ==
  /\ pc[w] = "waiting" /\ req[w].id \in done
  /\ Goto(w, "leaving")
  /\ UNCHANGED <<routeVars, arrived, queue, req, lock, found, result,
                 pendingVars, backendVars, desynced>>

\* The wait on pending.cond ends: done, or the controller's deadline passed.
StopWaiting(w) ==
  /\ pc[w] = "waiting"
  /\ Goto(w, "leaving")
  /\ UNCHANGED <<routeVars, arrived, queue, req, lock, found, result,
                 pendingVars, backendVars, desynced>>

\* Mutant: the entry of a request that timed out stays.
LeaveEntry(w) ==
  /\ pc[w] = "leaving"
  /\ pending' = IF req[w].id \in done THEN pending \ {req[w].id} ELSE pending
  /\ Goto(w, IF req[w].id \in done THEN "relaying" ELSE "replying")
  /\ UNCHANGED <<routeVars, arrived, queue, req, lock, found, result, done, events,
                 backendVars, desynced>>

\* The entry goes; the status is the controller's, or the timeout's.
Leave(w) ==
  /\ pc[w] = "leaving"
  /\ pending' = pending \ {req[w].id}
  /\ Goto(w, IF req[w].id \in done THEN "relaying" ELSE "replying")
  /\ UNCHANGED <<routeVars, arrived, queue, req, lock, found, result, done, events,
                 backendVars, desynced>>

\* The handler has returned, and with it the route lock: the worker is done with the request.
Finish(w, from, label, outcome) ==
  /\ pc[w] \in from
  /\ result' = [result EXCEPT ![req[w].id] = outcome]
  /\ Goto(w, label)
  /\ req' = [req EXCEPT ![w] = NoRequest]
  /\ lock' = [lock EXCEPT ![w] = NoLock]
  /\ found' = [found EXCEPT ![w] = 0]
  /\ UNCHANGED <<routeVars, arrived, queue, pendingVars, backendVars>>

\* _write_bridge_reply ...
Reply(w) ==
  Finish(w, {"replying", "relaying"}, "idle", "answered") /\ UNCHANGED desynced

\* ... whose failure desynchronises the runtime ...
ReplyFails(w) == Finish(w, {"replying", "relaying"}, "idle", "lost") /\ desynced' = TRUE

\* ... and which is not reached if the controller's status is no 32-bit number: pack raises
\* outside of the inner try, and the thread ends.
ReplyRaises(w) == Finish(w, {"relaying"}, "ended", "raised") /\ UNCHANGED desynced

-----------------------------------------------------------------------------
(* The controllers: backend.next_event and backend.reply.                  *)

Poll(b) ==
  /\ events[b] # <<>>
  /\ polled' = [polled EXCEPT ![b] = @ \cup {Head(events[b])}]
  /\ events' = [events EXCEPT ![b] = Tail(@)]
  /\ UNCHANGED <<routeVars, arrived, queue, workerVars, result, pending, done,
                 call, late, desynced>>

\* reply_event, first section: an unknown id is counted and refused.
ReplyEvent(b, r) ==
  /\ call[b].at = "idle" /\ r \in polled[b]
  /\ polled' = [polled EXCEPT ![b] = @ \ {r}]
  /\ IF r \in pending
     THEN call' = [call EXCEPT ![b] = [at |-> "checked", for |-> r]] /\ UNCHANGED late
     ELSE late' = late \cup {r} /\ UNCHANGED call
  /\ UNCHANGED <<routeVars, arrived, queue, workerVars, result, pendingVars,
                 desynced>>

\* _complete_pending_controller looks the id up again ...
Lookup(b) ==
  /\ call[b].at = "checked"
  /\ IF call[b].for \in pending
     THEN call' = [call EXCEPT ![b].at = "found"] /\ UNCHANGED late
     ELSE /\ late' = late \cup {call[b].for}
          /\ call' = [call EXCEPT ![b] = [at |-> "idle", for |-> NoId]]
  /\ UNCHANGED <<routeVars, arrived, queue, workerVars, result, pendingVars,
                 polled, desynced>>

\* ... and completes what it found, without the manager's lock.
CompletePending(b) ==
  /\ call[b].at = "found"
  /\ done' = done \cup {call[b].for}
  /\ call' = [call EXCEPT ![b] = [at |-> "idle", for |-> NoId]]
  /\ UNCHANGED <<routeVars, arrived, queue, workerVars, result, pending, events,
                 polled, late, desynced>>

-----------------------------------------------------------------------------
(* RPCs that change the routes.                                            *)

\* An RPC about one device, which is refused while the runtime is desynced.
RouteCall(d) ==
  /\ routes > 0 /\ ~desynced /\ d \in present
  /\ routes' = routes - 1
  /\ UNCHANGED <<epoch, present, arrived, queue, workerVars, result, pendingVars,
                 backendVars, desynced>>

SetBackend(d, b) ==
  /\ RouteCall(d)
  /\ attached' = [attached EXCEPT ![epoch][d] = b]
  /\ UNCHANGED <<kind, switched>>

AttachBackend(b, d) == kind[epoch][d] = "controller" /\ SetBackend(d, b)
DetachBackend(b, d) == attached[epoch][d] = b /\ SetBackend(d, NoBackend)

\* device.update with another kind of backend: the object found by workers changes, and
\* the route, under them; the attachment stays.
UpdateDevice(d, k) ==
  /\ RouteCall(d) /\ kind[epoch][d] # k
  /\ kind' = [kind EXCEPT ![epoch][d] = k]
  /\ switched' = IF k = "template" THEN switched \cup {<<epoch, d>>} ELSE switched
  /\ UNCHANGED attached

\* Mutant: pending_controller survives.
InstallKeepsPending(devs, kinds, att) ==
  /\ epoch < MaxInstalls
  /\ epoch' = epoch + 1
  /\ present' = devs
  /\ attached' = [attached EXCEPT ![epoch + 1] = att]
  /\ kind' = [kind EXCEPT ![epoch + 1] = kinds]
  /\ events' = [b \in Backends |-> <<>>]
  /\ desynced' = FALSE
  /\ UNCHANGED <<arrived, queue, workerVars, result, pending, done, backendVars,
                 routes, switched>>

\* _clear_state and the installation of another inventory.
Install(devs, kinds, att) ==
  /\ epoch < MaxInstalls
  /\ epoch' = epoch + 1
  /\ present' = devs
  /\ attached' = [attached EXCEPT ![epoch + 1] = att]
  /\ kind' = [kind EXCEPT ![epoch + 1] = kinds]
  /\ pending' = {}
  /\ events' = [b \in Backends |-> <<>>]
  /\ desynced' = FALSE
  /\ UNCHANGED <<arrived, queue, workerVars, result, done, backendVars, routes,
                 switched>>

Unrouted == [d \in Devices |-> NoBackend]
Modelled == [d \in Devices |-> IF d \in Templates THEN "template" ELSE "controller"]

\* runtime.apply attaches nobody, runtime.resync everybody again (that its RESET
\* and its snapshot come in steps of their own is the subject of RuntimeInventory).  It is
\* refused if an update has made a template of an attached device.
Apply(devs) == ~desynced /\ Install(devs, Modelled, Unrouted)
Resync ==
  /\ \A d \in present : attached[epoch][d] # NoBackend => kind[epoch][d] = "controller"
  /\ Install(present, kind[epoch], attached[epoch])

-----------------------------------------------------------------------------
\* A restored inventory: every device, some of them attached.
Init ==
  /\ epoch = 0 /\ present = Devices
  /\ \E att \in [Controlled -> Backends \cup {NoBackend}] :
       attached = [e \in Epochs |-> [d \in Devices |->
                     IF e = 0 /\ d \in Controlled THEN att[d] ELSE NoBackend]]
  /\ kind = [e \in Epochs |-> Modelled] /\ switched = {}
  /\ arrived = 0
  /\ queue = <<>>
  /\ pc = [w \in Workers |-> "idle"]
  /\ req = [w \in Workers |-> NoRequest]
  /\ lock = [w \in Workers |-> NoLock]
  /\ found = [w \in Workers |-> 0]
  /\ result = [r \in Requests |-> "none"]
  /\ pending = {} /\ done = {}
  /\ events = [b \in Backends |-> <<>>]
  /\ polled = [b \in Backends |-> {}]
  /\ call = [b \in Backends |-> [at |-> "idle", for |-> NoId]]
  /\ late = {} /\ desynced = FALSE /\ routes = MaxRoutes

Worker(w) ==
  \/ Take(w) \/ Acquire(w) \/ Handle(w) \/ Reject(w) \/ Serve(w) \/ Dispatch(w)
  \/ Unattached(w) \/ StopWaiting(w) \/ Leave(w) \/ Reply(w) \/ ReplyFails(w)
  \/ ReplyRaises(w)

Controller(b) ==
  Poll(b) \/ Lookup(b) \/ CompletePending(b) \/ \E r \in polled[b] : ReplyEvent(b, r)

Operator ==
  \/ \E b \in Backends, d \in Devices : AttachBackend(b, d) \/ DetachBackend(b, d)
  \/ \E d \in Devices, k \in Kinds : UpdateDevice(d, k)
  \/ \E devs \in Inventories : Apply(devs)
  \/ Resync

Next ==
  \/ \E d \in Devices : Enqueue(d) \/ Overload(d)
  \/ \E w \in Workers : Worker(w)
  \/ \E b \in Backends : Controller(b)
  \/ Operator

Spec == Init /\ [][Next]_vars

\* The workers run; nothing is assumed of controllers and operators.
FairSpec == Spec /\ \A w \in Workers : WF_vars(Worker(w))

-----------------------------------------------------------------------------
Labels == {"idle", "locking", "handling", "serving", "dispatch", "waiting", "leaving",
           "replying", "relaying", "ended"}
Results == {"none", "inside", "answered", "dropped", "lost", "raised"}
Messages == [id : Requests, dev : Devices]
Locks == [key : ({"backend"} \X Backends) \cup ({"device"} \X Devices), epoch : Epochs]

TypeOK ==
  /\ epoch \in Epochs /\ present \subseteq Devices
  /\ attached \in [Epochs -> [Devices -> Backends \cup {NoBackend}]]
  /\ kind \in [Epochs -> [Devices -> Kinds]] /\ switched \subseteq Epochs \X Devices
  /\ arrived \in 0..MaxRequests
  /\ queue \in Seq(Messages) /\ Len(queue) <= QueueLimit
  /\ pc \in [Workers -> Labels]
  /\ req \in [Workers -> Messages \cup {NoRequest}]
  /\ lock \in [Workers -> Locks \cup {NoLock}]
  /\ found \in [Workers -> Epochs]
  /\ result \in [Requests -> Results]
  /\ pending \subseteq Requests /\ done \subseteq Requests
  /\ events \in [Backends -> Seq(Requests)]
  /\ polled \in [Backends -> SUBSET Requests]
  /\ call \in [Backends -> [at : {"idle", "checked", "found"},
                            for : Requests \cup {NoId}]]
  /\ late \subseteq Requests
  /\ desynced \in BOOLEAN /\ routes \in 0..MaxRoutes

\* pending_controller does not leak: an entry belongs to a request some worker
\* still waits for, whatever timeouts, late replies and installations did.
PendingReleased ==
  \A r \in pending : \E w \in Workers : req[w].id = r /\ pc[w] \in {"waiting", "leaving"}

Queued(b, r) == \E i \in DOMAIN events[b] : events[b][i] = r

\* A registered request can still be answered: its event waits for the controller,
\* is with it, or is being answered.  Workers that meet an installation halfway
\* register in the new tables, never in one of them only.
PendingReachable ==
  \A r \in pending \ done :
    \E b \in Backends : Queued(b, r) \/ r \in polled[b] \/ call[b].for = r

\* Templates are not thread-safe; route locks guard them.  Two workers are in the
\* same template only if one of them looked its lock up in an earlier installation
\* (or found no device then), as _request_route_lock and _handle_bridge_request look
\* the handle up separately; or if device.update has made a template of a controlled
\* device in this installation: who looked the lock up before has its backend's.
TemplateExclusive ==
  \A v, w \in Workers :
    /\ v # w /\ pc[v] = "serving" /\ pc[w] = "serving"
    /\ req[v].dev = req[w].dev /\ found[v] = found[w]
    => \/ <<found[v], req[v].dev>> \in switched
       \/ \E u \in {v, w} : lock[u] = NoLock \/ lock[u].epoch # found[u]

-----------------------------------------------------------------------------
(* Strengthenings that make the safety properties inductive.               *)

\* Whoever is at work has something to work on.
BusyInv ==
  /\ \A w \in Workers : pc[w] \notin {"idle", "ended"} => req[w] \in Messages
  /\ \A b \in Backends : call[b].at # "idle" => call[b].for \in Requests

\* A reply call that is over names no request.
CallInv == \A b \in Backends : call[b].at = "idle" => call[b].for = NoId

\* The lock of an installation that a worker holds for a device: the device's, unless it was
\* a controller's when the lock was looked up, and then it has not become a template since.
KeyInv(w) ==
  lock[w] # NoLock =>
    /\ req[w].dev \in Devices /\ lock[w].epoch <= epoch
    /\ \/ lock[w].key = <<"device", req[w].dev>>
       \/ kind[lock[w].epoch][req[w].dev] = "controller"
       \/ <<lock[w].epoch, req[w].dev>> \in switched
    /\ pc[w] = "serving" /\ lock[w].epoch = found[w] =>
         \/ lock[w].key = <<"device", req[w].dev>>
         \/ <<found[w], req[w].dev>> \in switched

\* Two workers in the handler never hold the same lock.
RouteInv ==
  /\ \A w \in Workers : KeyInv(w)
  /\ \A v, w \in Workers :
       v # w /\ Handling(v) /\ Handling(w) /\ lock[v] # NoLock => lock[v] # lock[w]

-----------------------------------------------------------------------------
\* Every request that entered request_queue is answered, or the loss of its reply has
\* desynchronised the runtime, even if no controller ever polls (controller_timeout_ms).
\* The exceptions are a controller's status that cannot be packed, which costs the request
\* and the worker thread, and no thread left.  (A request refused for a full queue gets
\* -EBUSY, or nothing if that reply cannot be written: it is "dropped".)
RequestAnswered ==
  \A r \in Requests :
    result[r] = "inside" ~> \/ result[r] \in {"answered", "raised"}
                            \/ result[r] = "lost" /\ desynced
                            \/ \A w \in Workers : pc[w] = "ended"

=============================================================================

------------------------ MODULE ControllerDispatchProofs ------------------------
(***************************************************************************)
(* Proofs about the daemon's request path, for any number of workers,      *)
(* devices and controllers: types, the entries of pending_controller, and  *)
(* the exclusion that the route locks give to templates.                   *)
(***************************************************************************)
EXTENDS ControllerDispatch, TLAPS

Inductive == TypeOK /\ BusyInv

-----------------------------------------------------------------------------
(* Types.                                                                  *)

\* A route lock is a lock object or none (_request_route_lock).
LEMMA RouteLockType ==
  ASSUME TypeOK, NEW d \in Devices
  PROVE  RouteLock(d) \in Locks \cup {NoLock}
<1>1. CASE kind[epoch][d] = "controller" /\ attached[epoch][d] # NoBackend
  <2>1. attached[epoch][d] \in Backends
    BY <1>1 DEF TypeOK
  <2> QED BY <1>1, <2>1 DEF TypeOK, RouteLock, RouteKey, Locks
<1>2. CASE ~(kind[epoch][d] = "controller" /\ attached[epoch][d] # NoBackend)
  BY <1>2 DEF TypeOK, RouteLock, RouteKey, Locks
<1> QED BY <1>1, <1>2

\* The initial state is type correct.
LEMMA InitTypes == Init => Inductive
<1> SUFFICES ASSUME Init PROVE TypeOK /\ BusyInv
  BY DEF Inductive
<1>1. 0 \in Epochs /\ 0 \in 0..MaxRequests /\ MaxRoutes \in 0..MaxRoutes
      /\ 0 <= QueueLimit
  BY DispatchAssumption DEF Epochs
<1>2. /\ attached \in [Epochs -> [Devices -> Backends \cup {NoBackend}]]
      /\ kind \in [Epochs -> [Devices -> Kinds]] /\ switched \subseteq Epochs \X Devices
  BY DEF Init, Modelled, Kinds
<1>3. queue \in Seq(Messages) /\ Len(queue) <= QueueLimit
      /\ events \in [Backends -> Seq(Requests)]
  BY <1>1 DEF Init
<1>4. /\ pc \in [Workers -> Labels] /\ req \in [Workers -> Messages \cup {NoRequest}]
      /\ lock \in [Workers -> Locks \cup {NoLock}] /\ found \in [Workers -> Epochs]
  BY <1>1 DEF Init, Labels
<1>5. call \in [Backends -> [at : {"idle", "checked", "found"},
                            for : Requests \cup {NoId}]]
  BY DEF Init
<1>6. polled \in [Backends -> SUBSET Requests]
  BY DEF Init
<1>7. BusyInv
  BY DEF Init, BusyInv
<1>8. result \in [Requests -> Results]
  BY DEF Init, Results
<1> QED BY <1>1, <1>2, <1>3, <1>4, <1>5, <1>6, <1>7, <1>8 DEF Init, TypeOK

\* The bridge reader's steps keep the types.
LEMMA ReaderTypes ==
  ASSUME Inductive, NEW d \in Devices, Enqueue(d) \/ Overload(d)
  PROVE  Inductive'
<1> USE DEF Inductive, routeVars, workerVars, pendingVars, backendVars
<1>1. arrived + 1 \in Requests /\ arrived' \in 0..MaxRequests
  BY DispatchAssumption DEF TypeOK, Enqueue, Overload, Arrives, Requests
<1>2. [id |-> arrived + 1, dev |-> d] \in Messages
  BY <1>1 DEF Messages
<1>3. queue' \in Seq(Messages) /\ Len(queue') <= QueueLimit
  <2>1. queue \in Seq(Messages) /\ Len(queue) <= QueueLimit /\ QueueLimit \in Nat
    BY DispatchAssumption DEF TypeOK
  <2>2. CASE Overload(d)
    BY <2>1, <2>2 DEF Overload
  <2>3. CASE Enqueue(d)
    <3>1. queue' = Append(queue, [id |-> arrived + 1, dev |-> d])
          /\ Len(queue) < QueueLimit
      BY <2>3 DEF Enqueue
    <3> HIDE DEF Inductive
    <3> QED BY <1>2, <2>1, <3>1
  <2> QED BY <2>2, <2>3
<1>4. result' \in [Requests -> Results]
  BY DEF TypeOK, Enqueue, Overload, Results
<1> QED BY <1>1, <1>3, <1>4 DEF TypeOK, BusyInv, Enqueue, Overload, Arrives

\* A worker's steps keep the types.
LEMMA WorkerTypes ==
  ASSUME Inductive, NEW w \in Workers, Worker(w)
  PROVE  Inductive'
<1> USE DEF Inductive, Labels, routeVars, workerVars, pendingVars, backendVars, Goto
<1>1. CASE Take(w)
  <2>1. Head(queue) \in Messages /\ Tail(queue) \in Seq(Messages)
        /\ Len(Tail(queue)) <= QueueLimit
    BY <1>1, DispatchAssumption DEF TypeOK, Take
  <2>2. RouteLock(Head(queue).dev) \in Locks \cup {NoLock}
    BY <2>1, RouteLockType DEF Messages
  <2> QED BY <1>1, <2>1, <2>2 DEF TypeOK, BusyInv, Take
<1>2. CASE Acquire(w)
  BY <1>2 DEF TypeOK, BusyInv, Acquire
<1>3. CASE Handle(w)
  BY <1>3 DEF TypeOK, BusyInv, Handle
<1>4. CASE Reject(w) \/ Serve(w) \/ Unattached(w)
  <2>1. CASE Reject(w)
    BY <2>1 DEF TypeOK, BusyInv, Reject
  <2>2. CASE Serve(w)
    BY <2>2 DEF TypeOK, BusyInv, Serve
  <2>3. CASE Unattached(w)
    BY <2>3 DEF TypeOK, BusyInv, Unattached
  <2> QED BY <1>4, <2>1, <2>2, <2>3
<1>5. CASE Dispatch(w)
  <2>1. req[w].id \in Requests
    BY <1>5 DEF BusyInv, Dispatch, Messages
  <2>2. events' \in [Backends -> Seq(Requests)]
    <3> DEFINE b == attached[found[w]][req[w].dev]
    <3>1. events' = [events EXCEPT ![b] = Append(@, req[w].id)]
      BY <1>5 DEF Dispatch
    <3>2. events \in [Backends -> Seq(Requests)]
      BY DEF TypeOK
    <3>3. \A c \in Backends : Append(events[c], req[w].id) \in Seq(Requests)
      BY <2>1, <3>2
    <3> HIDE DEF b, Inductive
    <3> QED BY <3>1, <3>2, <3>3
  <2>3. pending' \subseteq Requests
    BY <1>5, <2>1 DEF TypeOK, Dispatch
  <2>4. pc' \in [Workers -> Labels] /\ BusyInv'
    BY <1>5 DEF TypeOK, BusyInv, Dispatch
  <2> QED BY <1>5, <2>2, <2>3, <2>4 DEF TypeOK, Dispatch
<1>6. CASE StopWaiting(w)
  BY <1>6 DEF TypeOK, BusyInv, StopWaiting
<1>7. CASE Leave(w)
  BY <1>7 DEF TypeOK, BusyInv, Leave
<1>8. CASE Reply(w) \/ ReplyFails(w) \/ ReplyRaises(w)
  <2>1. PICK from \in SUBSET Labels, label \in {"idle", "ended"}, outcome \in Results :
          Finish(w, from, label, outcome)
    BY <1>8 DEF Reply, ReplyFails, ReplyRaises, Results
  <2>2. desynced' \in BOOLEAN
    BY <1>8 DEF TypeOK, Reply, ReplyFails, ReplyRaises
  <2>3. 0 \in Epochs
    BY DispatchAssumption DEF Epochs
  <2>4. result' \in [Requests -> Results]
    BY <2>1 DEF TypeOK, Finish
  <2>5. /\ pc' \in [Workers -> Labels] /\ req' \in [Workers -> Messages \cup {NoRequest}]
        /\ lock' \in [Workers -> Locks \cup {NoLock}] /\ found' \in [Workers -> Epochs]
    BY <2>1, <2>3 DEF TypeOK, Finish
  <2>6. BusyInv'
    BY <2>1 DEF TypeOK, BusyInv, Finish
  <2> QED BY <2>1, <2>2, <2>4, <2>5, <2>6 DEF TypeOK, Finish
<1> QED BY <1>1, <1>2, <1>3, <1>4, <1>5, <1>6, <1>7, <1>8 DEF Worker

\* A controller's steps keep the types.
LEMMA ControllerTypes ==
  ASSUME Inductive, NEW b \in Backends, Controller(b)
  PROVE  Inductive'
<1> USE DEF Inductive, routeVars, workerVars, pendingVars, backendVars
<1>1. CASE Poll(b)
  <2>1. Head(events[b]) \in Requests /\ Tail(events[b]) \in Seq(Requests)
    BY <1>1 DEF TypeOK, Poll
  <2> QED BY <1>1, <2>1 DEF TypeOK, BusyInv, Poll
<1>2. CASE Lookup(b)
  <2>1. call[b].for \in Requests
    BY <1>2 DEF BusyInv, Lookup
  <2>2. call \in [Backends -> [at : {"idle", "checked", "found"},
                               for : Requests \cup {NoId}]]
    BY DEF TypeOK
  <2>3. CASE call[b].for \in pending
    <3>1. call' = [call EXCEPT ![b].at = "found"] /\ late' = late
      BY <1>2, <2>3 DEF Lookup
    <3>2. call' \in [Backends -> [at : {"idle", "checked", "found"},
                               for : Requests \cup {NoId}]]
      BY <2>2, <3>1
    <3>3. BusyInv'
      BY <1>2, <2>1, <2>2, <3>1 DEF BusyInv, Lookup
    <3> QED BY <1>2, <3>1, <3>2, <3>3 DEF TypeOK, Lookup
  <2>4. CASE call[b].for \notin pending
    <3>1. call' = [call EXCEPT ![b] = [at |-> "idle", for |-> NoId]]
          /\ late' = late \cup {call[b].for}
      BY <1>2, <2>4 DEF Lookup
    <3>2. call' \in [Backends -> [at : {"idle", "checked", "found"},
                               for : Requests \cup {NoId}]] /\ late' \subseteq Requests
      BY <2>1, <2>2, <3>1 DEF TypeOK
    <3>3. BusyInv'
      BY <1>2, <2>2, <3>1 DEF BusyInv, Lookup
    <3> QED BY <1>2, <3>1, <3>2, <3>3 DEF TypeOK, Lookup
  <2> QED BY <2>3, <2>4
<1>3. CASE CompletePending(b)
  <2>1. done' \subseteq Requests
    BY <1>3 DEF TypeOK, BusyInv, CompletePending
  <2>2. call' \in [Backends -> [at : {"idle", "checked", "found"},
                               for : Requests \cup {NoId}]]
    BY <1>3 DEF TypeOK, CompletePending
  <2>3. BusyInv'
    BY <1>3 DEF TypeOK, BusyInv, CompletePending
  <2> QED BY <1>3, <2>1, <2>2, <2>3 DEF TypeOK, CompletePending
<1>4. ASSUME NEW r \in polled[b], ReplyEvent(b, r) PROVE Inductive'
  <2>1. r \in Requests
    BY DEF TypeOK
  <2>2. polled' \in [Backends -> SUBSET Requests] /\ late' \subseteq Requests
    BY <1>4, <2>1 DEF TypeOK, ReplyEvent
  <2>3. call' \in [Backends -> [at : {"idle", "checked", "found"},
                               for : Requests \cup {NoId}]]
        /\ \A c \in Backends : call'[c].at # "idle" => call'[c].for \in Requests
    <3>1. call \in [Backends -> [at : {"idle", "checked", "found"},
                               for : Requests \cup {NoId}]]
      BY DEF TypeOK
    <3>2. \/ call' = [call EXCEPT ![b] = [at |-> "checked", for |-> r]]
          \/ call' = call
      BY <1>4 DEF ReplyEvent
    <3>3. \A c \in Backends : call[c].at # "idle" => call[c].for \in Requests
      BY DEF BusyInv
    <3> HIDE DEF Inductive
    <3> QED BY <2>1, <3>1, <3>2, <3>3
  <2>4. BusyInv'
    BY <1>4, <2>3 DEF BusyInv, ReplyEvent
  <2> QED BY <1>4, <2>2, <2>3, <2>4 DEF TypeOK, ReplyEvent
<1> QED BY <1>1, <1>2, <1>3, <1>4 DEF Controller

\* An operator's steps keep the types.
LEMMA OperatorTypes == ASSUME Inductive, Operator PROVE Inductive'
<1> USE DEF Inductive, routeVars, workerVars, pendingVars, backendVars
<1>1. ASSUME NEW d \in Devices, RouteCall(d),
             attached' \in [Epochs -> [Devices -> Backends \cup {NoBackend}]],
             kind' \in [Epochs -> [Devices -> Kinds]], switched' \subseteq Epochs \X Devices
      PROVE  Inductive'
  <2>1. routes' \in 0..MaxRoutes
    BY <1>1, DispatchAssumption DEF TypeOK, RouteCall
  <2> QED BY <1>1, <2>1 DEF TypeOK, BusyInv, RouteCall
<1>2. ASSUME NEW b \in Backends, NEW d \in Devices,
             AttachBackend(b, d) \/ DetachBackend(b, d)
      PROVE  Inductive'
  <2>1. PICK c \in Backends \cup {NoBackend} : SetBackend(d, c)
    BY <1>2 DEF AttachBackend, DetachBackend
  <2>2. attached' \in [Epochs -> [Devices -> Backends \cup {NoBackend}]]
    BY <2>1 DEF TypeOK, SetBackend
  <2> QED BY <1>1, <2>1, <2>2 DEF TypeOK, SetBackend
<1>3. ASSUME NEW d \in Devices, NEW k \in Kinds, UpdateDevice(d, k)
      PROVE  Inductive'
  <2>1. kind' \in [Epochs -> [Devices -> Kinds]]
    BY <1>3 DEF TypeOK, UpdateDevice
  <2>2. switched' \subseteq Epochs \X Devices
    BY <1>3 DEF TypeOK, UpdateDevice
  <2> QED BY <1>1, <1>3, <2>1, <2>2 DEF TypeOK, UpdateDevice
<1>4. ASSUME NEW devs, NEW kinds, NEW att, devs \subseteq Devices, kinds \in [Devices -> Kinds],
             att \in [Devices -> Backends \cup {NoBackend}], Install(devs, kinds, att)
      PROVE  Inductive'
  <2>1. epoch' \in Epochs
    BY <1>4, DispatchAssumption DEF TypeOK, Install, Epochs
  <2>2. attached' \in [Epochs -> [Devices -> Backends \cup {NoBackend}]]
        /\ kind' \in [Epochs -> [Devices -> Kinds]]
    BY <1>4 DEF TypeOK, Install
  <2>3. events' \in [Backends -> Seq(Requests)]
    BY <1>4 DEF Install
  <2>4. pending' \subseteq Requests /\ desynced' \in BOOLEAN /\ present' \subseteq Devices
    BY <1>4 DEF Install
  <2> QED BY <1>4, <2>1, <2>2, <2>3, <2>4 DEF TypeOK, BusyInv, Install
<1>5. ASSUME NEW devs \in Inventories, Apply(devs) PROVE Inductive'
  <2>1. devs \subseteq Devices
    BY DispatchAssumption DEF Devices
  <2>2. Modelled \in [Devices -> Kinds] /\ Unrouted \in [Devices -> Backends \cup {NoBackend}]
    BY DEF Modelled, Unrouted, Kinds
  <2> QED BY <1>4, <1>5, <2>1, <2>2 DEF Apply
<1>6. CASE Resync
  BY <1>4, <1>6 DEF Resync, TypeOK
<1> QED BY <1>2, <1>3, <1>5, <1>6 DEF Operator

\* Every step keeps the types.
LEMMA NextTypes == Inductive /\ [Next]_vars => Inductive'
<1> SUFFICES ASSUME Inductive, [Next]_vars PROVE Inductive'
  OBVIOUS
<1>1. CASE UNCHANGED vars
  BY <1>1
  DEF Inductive, TypeOK, BusyInv, vars, routeVars, workerVars, pendingVars, backendVars
<1>2. CASE Next
  BY <1>2, ReaderTypes, WorkerTypes, ControllerTypes, OperatorTypes DEF Next
<1> QED BY <1>1, <1>2

\* TypeOK holds always: in particular request_queue never exceeds its limit.
THEOREM TypeCorrect == Spec => []TypeOK
<1>1. Spec => []Inductive
  BY InitTypes, NextTypes, PTL DEF Spec
<1> QED BY <1>1, PTL DEF Inductive

-----------------------------------------------------------------------------
(* pending_controller.                                                     *)

\* Entries come with a waiting worker and go with it.
LEMMA NextPending == Inductive /\ PendingReleased /\ [Next]_vars => PendingReleased'
<1> SUFFICES ASSUME Inductive, PendingReleased, [Next]_vars,
                    NEW r \in pending'
             PROVE  \E w \in Workers : req'[w].id = r /\ pc'[w] \in {"waiting", "leaving"}
  BY DEF PendingReleased
<1> USE DEF routeVars, workerVars, pendingVars, backendVars, Goto
<1>0. pc \in [Workers -> Labels] /\ req \in [Workers -> Messages \cup {NoRequest}]
  BY DEF Inductive, TypeOK
\* An entry that was there before keeps its worker while that worker stays.
<1>1. ASSUME r \in pending, pc' = pc, req' = req
      PROVE  \E w \in Workers : req'[w].id = r /\ pc'[w] \in {"waiting", "leaving"}
  BY <1>1 DEF PendingReleased
<1>2. ASSUME NEW w \in Workers, r \in pending,
             \A v \in Workers \ {w} : pc'[v] = pc[v] /\ req'[v] = req[v],
             \/ pc[w] \notin {"waiting", "leaving"}
             \/ req[w].id # r
             \/ req'[w] = req[w] /\ pc'[w] \in {"waiting", "leaving"}
      PROVE  \E v \in Workers : req'[v].id = r /\ pc'[v] \in {"waiting", "leaving"}
  <2>1. PICK v \in Workers : req[v].id = r /\ pc[v] \in {"waiting", "leaving"}
    BY <1>2 DEF PendingReleased
  <2> QED BY <1>2, <2>1
<1>3. CASE UNCHANGED vars
  BY <1>1, <1>3 DEF vars
<1>4. ASSUME NEW d \in Devices, Enqueue(d) \/ Overload(d)
      PROVE  r \in pending /\ pc' = pc /\ req' = req
  BY <1>4 DEF Enqueue, Overload, Arrives
<1>5. ASSUME NEW b \in Backends, Controller(b)
      PROVE  r \in pending /\ pc' = pc /\ req' = req
  BY <1>5 DEF Controller, Poll, Lookup, CompletePending, ReplyEvent
<1>6. CASE Operator
  <2>1. r \in pending /\ pc' = pc /\ req' = req
    BY <1>6
    DEF Operator, AttachBackend, DetachBackend, SetBackend, UpdateDevice, RouteCall, Apply, Resync, Install
  <2> QED BY <1>1, <2>1
<1>7. ASSUME NEW w \in Workers, Worker(w)
      PROVE  \E v \in Workers : req'[v].id = r /\ pc'[v] \in {"waiting", "leaving"}
  <2>1. CASE Take(w)
    BY <1>0, <1>2, <2>1 DEF Take
  <2>2. CASE Acquire(w)
    BY <1>0, <1>2, <2>2 DEF Acquire
  <2>3. CASE Handle(w)
    BY <1>0, <1>2, <2>3 DEF Handle
  <2>4. CASE Reject(w) \/ Serve(w) \/ Unattached(w)
    BY <1>0, <1>2, <2>4 DEF Reject, Serve, Unattached
  <2>5. CASE Dispatch(w)
    <3>1. pc'[w] = "waiting" /\ req' = req
      BY <1>0, <2>5 DEF Dispatch
    <3>2. CASE r = req[w].id
      BY <3>1, <3>2
    <3>3. CASE r # req[w].id
      BY <1>0, <1>2, <2>5, <3>1, <3>3 DEF Dispatch
    <3> QED BY <3>2, <3>3
  <2>6. CASE StopWaiting(w)
    BY <1>0, <1>2, <2>6 DEF StopWaiting
  <2>7. CASE Leave(w)
    BY <1>0, <1>2, <2>7 DEF Leave
  <2>8. CASE Reply(w) \/ ReplyFails(w) \/ ReplyRaises(w)
    <3>1. PICK from, label, outcome :
            Finish(w, from, label, outcome) /\ from \subseteq {"replying", "relaying"}
      BY <2>8 DEF Reply, ReplyFails, ReplyRaises
    <3> QED BY <1>0, <1>2, <3>1 DEF Finish
  <2> QED BY <1>7, <2>1, <2>2, <2>3, <2>4, <2>5, <2>6, <2>7, <2>8 DEF Worker
<1> QED BY <1>1, <1>3, <1>4, <1>5, <1>6, <1>7 DEF Next

\* pending_controller never keeps an entry nobody waits for (PendingReleased).
THEOREM PendingSafe == Spec => []PendingReleased
<1>1. Init => Inductive /\ PendingReleased
  BY InitTypes DEF Init, PendingReleased
<1> QED BY <1>1, NextTypes, NextPending, PTL DEF Spec

-----------------------------------------------------------------------------
(* Route locks.                                                            *)

\* A worker's steps keep every worker's lock what it was looked up as.
LEMMA WorkerKeys ==
  ASSUME Inductive, RouteInv, NEW w \in Workers, Worker(w), NEW v \in Workers
  PROVE  KeyInv(v)'
<1> USE DEF routeVars, workerVars, pendingVars, backendVars, Goto
<1>0. /\ pc \in [Workers -> Labels] /\ req \in [Workers -> Messages \cup {NoRequest}]
      /\ lock \in [Workers -> Locks \cup {NoLock}] /\ found \in [Workers -> Epochs]
      /\ epoch \in Nat /\ present \subseteq Devices /\ KeyInv(v)
  BY DispatchAssumption DEF Inductive, TypeOK, RouteInv, Epochs
<1>1. UNCHANGED <<epoch, kind, switched>>
  BY DEF Worker, Take, Acquire, Handle, Reject, Serve, Dispatch, Unattached, StopWaiting, Leave,
     Reply, ReplyFails, ReplyRaises, Finish
<1>2. ASSUME lock'[v] = NoLock \/ (lock'[v] = lock[v] /\ req'[v] = req[v]),
             pc'[v] # "serving" \/ (pc[v] = "serving" /\ found'[v] = found[v])
      PROVE  KeyInv(v)'
  BY <1>0, <1>1, <1>2 DEF KeyInv
<1>3. CASE Take(w)
  <2>1. /\ pc' = [pc EXCEPT ![w] = "locking"]
        /\ req' = [req EXCEPT ![w] = Head(queue)]
        /\ lock' = [lock EXCEPT ![w] = RouteLock(Head(queue).dev)]
        /\ found' = found
    BY <1>3 DEF Take
  <2>2. CASE v # w
    BY <1>0, <1>2, <2>1, <2>2
  <2>3. CASE v = w
    <3>1. PICK d : d = Head(queue).dev
      OBVIOUS
    <3>2. pc'[v] = "locking" /\ req'[v].dev = d /\ lock'[v] = RouteLock(d)
      BY <1>0, <2>1, <2>3, <3>1
    <3>3. RouteLock(d) # NoLock =>
            /\ d \in Devices /\ RouteLock(d).epoch = epoch
            /\ RouteLock(d).key = <<"device", d>> \/ kind[epoch][d] = "controller"
      BY <1>0 DEF RouteLock, RouteKey
    <3> QED BY <1>0, <1>1, <3>2, <3>3 DEF KeyInv
  <2> QED BY <2>2, <2>3
<1>4. CASE Handle(w)
  <2>1. lock' = lock /\ req' = req /\ epoch' = epoch
    BY <1>4 DEF Handle
  <2>2. CASE v # w
    BY <1>0, <1>2, <1>4, <2>1, <2>2 DEF Handle
  <2>3. CASE v = w /\ pc'[v] # "serving"
    BY <1>2, <2>1, <2>3
  <2>4. CASE v = w /\ pc'[v] = "serving"
    <3>1. found'[v] = epoch /\ kind[epoch][req[v].dev] # "controller"
      BY <1>0, <1>4, <2>4 DEF Handle
    <3> QED BY <1>0, <1>1, <2>1, <3>1 DEF KeyInv
  <2> QED BY <2>2, <2>3, <2>4
<1>5. CASE Reply(w) \/ ReplyFails(w) \/ ReplyRaises(w)
  <2>1. PICK label \in {"idle", "ended"} :
          /\ pc' = [pc EXCEPT ![w] = label] /\ req' = [req EXCEPT ![w] = NoRequest]
          /\ lock' = [lock EXCEPT ![w] = NoLock] /\ found' = [found EXCEPT ![w] = 0]
    BY <1>5 DEF Reply, ReplyFails, ReplyRaises, Finish
  <2> QED BY <1>0, <1>2, <2>1
<1>6. CASE Acquire(w) \/ Reject(w) \/ Serve(w) \/ Dispatch(w) \/ Unattached(w) \/ StopWaiting(w)
           \/ Leave(w)
  <2>1. lock' = lock /\ req' = req /\ found' = found
    BY <1>6 DEF Acquire, Reject, Serve, Dispatch, Unattached, StopWaiting, Leave
  <2>2. pc'[v] = pc[v] \/ pc'[v] # "serving"
    BY <1>0, <1>6 DEF Acquire, Reject, Serve, Dispatch, Unattached, StopWaiting, Leave
  <2> QED BY <1>2, <2>1, <2>2
<1> QED BY <1>3, <1>4, <1>5, <1>6 DEF Worker

\* Nor do they let two workers hold one lock.
LEMMA WorkerRoutes ==
  ASSUME Inductive, RouteInv, NEW w \in Workers, Worker(w)
  PROVE  RouteInv'
<1> USE DEF routeVars, workerVars, pendingVars, backendVars, Goto
<1>0. /\ pc \in [Workers -> Labels] /\ req \in [Workers -> Messages \cup {NoRequest}]
      /\ lock \in [Workers -> Locks \cup {NoLock}]
  BY DEF Inductive, TypeOK
<1> SUFFICES ASSUME NEW u \in Workers, NEW v \in Workers, u # v, Handling(u)', Handling(v)',
                    lock'[u] # NoLock
             PROVE  lock'[u] # lock'[v]
  BY WorkerKeys DEF RouteInv
<1>1. ASSUME \A x \in Workers : Handling(x)' => Handling(x) /\ lock'[x] = lock[x]
      PROVE  lock'[u] # lock'[v]
  BY <1>1 DEF RouteInv
<1>2. CASE Take(w)
  BY <1>0, <1>1, <1>2 DEF Take, Handling
<1>3. CASE Acquire(w)
  BY <1>0, <1>3 DEF RouteInv, Acquire, RouteFree, Handling
<1>4. CASE Handle(w) \/ Dispatch(w) \/ StopWaiting(w)
  BY <1>0, <1>1, <1>4 DEF Handle, Dispatch, StopWaiting, Handling
<1>5. CASE Reject(w) \/ Serve(w) \/ Unattached(w) \/ Leave(w)
  BY <1>0, <1>1, <1>5 DEF Reject, Serve, Unattached, Leave, Handling
<1>6. CASE Reply(w) \/ ReplyFails(w) \/ ReplyRaises(w)
  <2>1. PICK label \in {"idle", "ended"} :
          /\ pc' = [pc EXCEPT ![w] = label] /\ req' = [req EXCEPT ![w] = NoRequest]
          /\ lock' = [lock EXCEPT ![w] = NoLock] /\ found' = [found EXCEPT ![w] = 0]
    BY <1>6 DEF Reply, ReplyFails, ReplyRaises, Finish
  <2> QED BY <1>0, <1>1, <2>1 DEF Handling
<1> QED BY <1>2, <1>3, <1>4, <1>5, <1>6 DEF Worker

\* device.update notes what it switches, and an installation leaves the kinds of earlier
\* ones alone: every other step keeps the routes.
LEMMA NextRoutes == Inductive /\ RouteInv /\ [Next]_vars => RouteInv'
<1> SUFFICES ASSUME Inductive, RouteInv, [Next]_vars PROVE RouteInv'
  OBVIOUS
<1> USE DEF routeVars, workerVars, pendingVars, backendVars
<1>1. ASSUME UNCHANGED workerVars, epoch' \in Nat, epoch <= epoch', switched \subseteq switched',
             \A e \in 0..epoch, d \in Devices :
               kind[e][d] = "controller" => kind'[e][d] = "controller" \/ <<e, d>> \in switched'
      PROVE  RouteInv'
  <2>1. ASSUME NEW w \in Workers PROVE KeyInv(w)'
    <3>1. CASE lock[w] = NoLock
      BY <1>1, <3>1 DEF KeyInv
    <3>2. CASE lock[w] # NoLock
      <4>1. KeyInv(w) /\ lock[w].epoch \in Nat /\ epoch \in Nat
        BY <3>2, DispatchAssumption DEF RouteInv, Inductive, TypeOK, Locks, Epochs
      <4>2. lock[w].epoch \in 0..epoch
        BY <3>2, <4>1 DEF KeyInv
      <4>3. kind[lock[w].epoch][req[w].dev] = "controller" =>
              \/ kind'[lock[w].epoch][req[w].dev] = "controller"
              \/ <<lock[w].epoch, req[w].dev>> \in switched'
        BY <1>1, <3>2, <4>1, <4>2 DEF KeyInv
      <4> QED BY <1>1, <3>2, <4>1, <4>2, <4>3 DEF KeyInv
    <3> QED BY <3>1, <3>2
  <2> QED BY <1>1, <2>1 DEF RouteInv, Handling
<1>2. epoch \in Nat /\ epoch \in Epochs /\ kind \in [Epochs -> [Devices -> Kinds]]
  BY DispatchAssumption DEF Inductive, TypeOK, Epochs
<1>3. CASE UNCHANGED <<workerVars, epoch, kind, switched>>
  BY <1>1, <1>2, <1>3
<1>4. ASSUME NEW d \in Devices, NEW k \in Kinds, UpdateDevice(d, k)
      PROVE  RouteInv'
  <2>1. /\ UNCHANGED workerVars /\ epoch' = epoch
        /\ kind' = [kind EXCEPT ![epoch][d] = k]
        /\ switched' = IF k = "template" THEN switched \cup {<<epoch, d>>} ELSE switched
    BY <1>4 DEF UpdateDevice, RouteCall
  <2>2. ASSUME NEW e \in 0..epoch, NEW x \in Devices, kind[e][x] = "controller"
        PROVE  kind'[e][x] = "controller" \/ <<e, x>> \in switched'
    <3>1. e \in Epochs
      BY <1>2, <2>2, DispatchAssumption DEF Epochs
    <3>2. CASE e = epoch /\ x = d
      BY <1>2, <2>1, <3>2 DEF Kinds
    <3>3. CASE e # epoch \/ x # d
      BY <1>2, <2>1, <2>2, <3>1, <3>3
    <3> QED BY <3>2, <3>3
  <2>3. switched \subseteq switched'
    BY <2>1
  <2> QED BY <1>1, <1>2, <2>1, <2>2, <2>3
<1>5. ASSUME NEW devs, NEW kinds, NEW att, Install(devs, kinds, att)
      PROVE  RouteInv'
  <2>1. /\ UNCHANGED workerVars /\ switched' = switched /\ epoch' = epoch + 1
        /\ kind' = [kind EXCEPT ![epoch + 1] = kinds]
    BY <1>5 DEF Install
  <2>2. \A e \in 0..epoch : kind'[e] = kind[e]
    BY <1>2, <2>1 DEF Epochs
  <2> QED BY <1>1, <1>2, <2>1, <2>2
<1>6. ASSUME NEW w \in Workers, Worker(w) PROVE RouteInv'
  BY <1>6, WorkerRoutes
<1>7. ASSUME NEW b \in Backends, Controller(b) PROVE RouteInv'
  BY <1>3, <1>7 DEF Controller, Poll, ReplyEvent, Lookup, CompletePending
<1>8. ASSUME NEW d \in Devices, Enqueue(d) \/ Overload(d) PROVE RouteInv'
  BY <1>3, <1>8 DEF Enqueue, Overload, Arrives
<1>9. CASE Operator
  <2>1. ASSUME NEW b, NEW d, AttachBackend(b, d) \/ DetachBackend(b, d) PROVE RouteInv'
    BY <1>3, <2>1 DEF AttachBackend, DetachBackend, SetBackend, RouteCall
  <2>2. (\E devs \in Inventories : Apply(devs)) \/ Resync => RouteInv'
    BY <1>5 DEF Apply, Resync
  <2> QED BY <1>4, <1>9, <2>1, <2>2 DEF Operator
<1>10. CASE UNCHANGED vars
  BY <1>3, <1>10 DEF vars
<1> QED BY <1>6, <1>7, <1>8, <1>9, <1>10 DEF Next

\* Two workers in one template that was one all along, with locks of its installation, would
\* hold the same lock.
LEMMA RoutesExclude == Inductive /\ RouteInv => TemplateExclusive
<1> SUFFICES ASSUME Inductive, RouteInv, NEW v \in Workers, NEW w \in Workers,
                    v # w, pc[v] = "serving", pc[w] = "serving",
                    req[v].dev = req[w].dev, found[v] = found[w],
                    <<found[v], req[v].dev>> \notin switched,
                    \A u \in {v, w} : lock[u] # NoLock /\ lock[u].epoch = found[u]
             PROVE  FALSE
  BY DEF TemplateExclusive
<1>1. lock[v] \in Locks /\ lock[w] \in Locks
  BY DEF Inductive, TypeOK
<1>2. lock[v].key = <<"device", req[v].dev>> /\ lock[w].key = <<"device", req[v].dev>>
  BY DEF RouteInv, KeyInv
<1>3. lock[v].epoch = lock[w].epoch
  OBVIOUS
<1>4. lock[v] = lock[w]
  BY <1>1, <1>2, <1>3 DEF Locks
<1> QED BY <1>4 DEF RouteInv, Handling

\* No template runs in two workers that routed their requests in its installation
\* (TemplateExclusive), however many workers, devices, reattachments and updates there are;
\* the device that an update made a template of in that installation is excepted.
THEOREM RoutesSafe == Spec => []TemplateExclusive
<1>1. Init => Inductive /\ RouteInv
  BY InitTypes DEF Init, RouteInv, KeyInv, Handling
<1>2. Spec => [](Inductive /\ RouteInv)
  BY <1>1, NextTypes, NextRoutes, PTL DEF Spec
<1> QED BY <1>2, RoutesExclude, PTL

-----------------------------------------------------------------------------
(* Registered requests can be answered.                                    *)

\* Where the answer to a request can still come from.
Reaches(r) == \E b \in Backends : Queued(b, r) \/ r \in polled[b] \/ call[b].for = r

\* Nothing of the controllers' and the tables' is lost for r.
LEMMA StillReached ==
  ASSUME NEW r, Reaches(r), UNCHANGED <<events, polled, call>>
  PROVE  Reaches(r)'
BY DEF Reaches, Queued

\* A call that is over stays nameless.
LEMMA NextCalls == Inductive /\ CallInv /\ [Next]_vars => CallInv'
<1> SUFFICES ASSUME Inductive, CallInv, [Next]_vars PROVE CallInv'
  OBVIOUS
<1>1. call \in [Backends -> [at : {"idle", "checked", "found"}, for : Requests \cup {NoId}]]
  BY DEF Inductive, TypeOK
<1>2. CASE UNCHANGED call
  BY <1>2 DEF CallInv
<1>3. ASSUME NEW b \in Backends, Controller(b)
      PROVE  CallInv'
  <2>1. ASSUME NEW r \in polled[b], ReplyEvent(b, r) PROVE CallInv'
    BY <1>1, <2>1 DEF CallInv, ReplyEvent
  <2>2. CASE Lookup(b)
    BY <1>1, <2>2 DEF CallInv, Lookup
  <2>3. CASE CompletePending(b)
    BY <1>1, <2>3 DEF CallInv, CompletePending
  <2>4. CASE Poll(b)
    BY <1>2, <2>4 DEF Poll
  <2> QED BY <1>3, <2>1, <2>2, <2>3, <2>4 DEF Controller
<1>4. ASSUME NEW w \in Workers, Worker(w) PROVE UNCHANGED call
  BY <1>4 DEF Worker, Take, Acquire, Handle, Reject, Serve, Dispatch, Unattached, StopWaiting,
              Leave, Reply, ReplyFails, ReplyRaises, Finish, backendVars
<1>5. ASSUME NEW d \in Devices, Enqueue(d) \/ Overload(d) PROVE UNCHANGED call
  BY <1>5 DEF Enqueue, Overload, Arrives, backendVars
<1>6. Operator \/ UNCHANGED vars => UNCHANGED call
  BY DEF Operator, AttachBackend, DetachBackend, SetBackend, UpdateDevice, RouteCall, Apply, Resync, Install, vars,
         backendVars
<1> QED BY <1>2, <1>3, <1>4, <1>5, <1>6 DEF Next

\* A step of a controller keeps every unanswered request within reach.
LEMMA ControllerReaches ==
  ASSUME Inductive, CallInv, PendingReachable, NEW b \in Backends, Controller(b)
  PROVE  PendingReachable'
<1>1. /\ events \in [Backends -> Seq(Requests)] /\ polled \in [Backends -> SUBSET Requests]
      /\ call \in [Backends -> [at : {"idle", "checked", "found"}, for : Requests \cup {NoId}]]
      /\ pending \subseteq Requests
  BY DEF Inductive, TypeOK
<1>2. NoId \notin Requests
  BY DEF NoId, Requests
<1>3. pending' = pending /\ done \subseteq done'
  BY DEF Controller, Poll, Lookup, CompletePending, ReplyEvent, pendingVars
<1> SUFFICES ASSUME NEW r \in pending \ done'
             PROVE  Reaches(r)'
  BY <1>3 DEF PendingReachable, Reaches
<1>4. PICK c \in Backends : Queued(c, r) \/ r \in polled[c] \/ call[c].for = r
  BY <1>3 DEF PendingReachable
<1>5. r \in Requests /\ r # NoId
  BY <1>1, <1>2
<1>6. CASE Poll(b)
  <2>1. /\ events[b] # <<>> /\ events[b] \in Seq(Requests)
        /\ polled' = [polled EXCEPT ![b] = @ \cup {Head(events[b])}]
        /\ events' = [events EXCEPT ![b] = Tail(@)] /\ call' = call
    BY <1>1, <1>6 DEF Poll
  <2>2. CASE r \in polled[c] \/ call[c].for = r
    BY <1>1, <2>1, <2>2 DEF Reaches
  <2>3. CASE Queued(c, r) /\ c # b
    BY <1>1, <2>1, <2>3 DEF Reaches, Queued
  <2>4. CASE Queued(c, r) /\ c = b
    <3>1. PICK i \in DOMAIN events[b] : events[b][i] = r
      BY <2>4 DEF Queued
    <3>2. PICK s : s = events[b] /\ s \in Seq(Requests) /\ s # <<>>
      BY <2>1
    <3>3. CASE i = 1
      <4>1. r = Head(s)
        BY <3>1, <3>2, <3>3
      <4>2. r \in polled'[b]
        BY <1>1, <2>1, <3>2, <4>1
      <4> QED BY <4>2 DEF Reaches
    <3>4. CASE i # 1
      <4>1. i - 1 \in DOMAIN Tail(s) /\ Tail(s)[i - 1] = r
        BY <3>1, <3>2, <3>4
      <4>2. events'[b] = Tail(s)
        BY <1>1, <2>1, <3>2
      <4> QED BY <4>1, <4>2 DEF Reaches, Queued
    <3> QED BY <3>3, <3>4
  <2> QED BY <1>4, <2>2, <2>3, <2>4
<1>7. ASSUME NEW x \in polled[b], ReplyEvent(b, x)
      PROVE  Reaches(r)'
  <2>1. call[b].for # r
    BY <1>5, <1>7 DEF ReplyEvent, CallInv
  <2>2. events' = events /\ \A d \in Backends : d # b => polled'[d] = polled[d] /\ call'[d] = call[d]
    BY <1>1, <1>7 DEF ReplyEvent, pendingVars
  <2>3. polled'[b] = polled[b] \ {x}
    BY <1>1, <1>7 DEF ReplyEvent
  <2>4. CASE x = r
    <3>1. r \in pending
      OBVIOUS
    <3>2. call' = [call EXCEPT ![b] = [at |-> "checked", for |-> r]]
      BY <1>7, <2>4, <3>1 DEF ReplyEvent
    <3>3. call'[b].for = r
      BY <1>1, <3>2
    <3> QED BY <3>3 DEF Reaches
  <2>5. CASE x # r
    BY <1>4, <2>1, <2>2, <2>3, <2>5 DEF Reaches, Queued
  <2> QED BY <2>4, <2>5
<1>8. CASE Lookup(b)
  <2>1. events' = events /\ polled' = polled /\ \A d \in Backends : d # b => call'[d] = call[d]
    BY <1>1, <1>8 DEF Lookup, pendingVars
  <2>2. call[b].for = r => call'[b].for = r
    <3> SUFFICES ASSUME call[b].for = r PROVE call'[b].for = r
      OBVIOUS
    <3>1. call' = [call EXCEPT ![b].at = "found"]
      BY <1>8 DEF Lookup
    <3> QED BY <1>1, <3>1
  <2> QED BY <1>4, <2>1, <2>2 DEF Reaches, Queued
<1>9. CASE CompletePending(b)
  <2>1. events' = events /\ polled' = polled /\ \A d \in Backends : d # b => call'[d] = call[d]
    BY <1>1, <1>9 DEF CompletePending
  <2>2. call[b].for # r
    BY <1>9 DEF CompletePending
  <2> QED BY <1>4, <2>1, <2>2 DEF Reaches, Queued
<1> QED BY <1>6, <1>7, <1>8, <1>9 DEF Controller

\* Every step does.
LEMMA NextReaches ==
  Inductive /\ CallInv /\ PendingReachable /\ [Next]_vars => PendingReachable'
<1> SUFFICES ASSUME Inductive, CallInv, PendingReachable, [Next]_vars
             PROVE  PendingReachable'
  OBVIOUS
<1>1. ASSUME pending' \subseteq pending, done' = done, UNCHANGED <<events, polled, call>>
      PROVE  PendingReachable'
  BY <1>1, StillReached DEF PendingReachable, Reaches
<1>2. ASSUME NEW w \in Workers, Dispatch(w)
      PROVE  PendingReachable'
  <2>1. PICK b : b = attached[found[w]][req[w].dev]
    OBVIOUS
  <2>2. PICK x : x = req[w].id /\ x \in Requests
    BY <1>2 DEF Inductive, BusyInv, Dispatch, Messages
  <2>3. req[w].dev \in Devices /\ found[w] \in Epochs
    BY <1>2 DEF Inductive, BusyInv, TypeOK, Dispatch, Messages
  <2>4. b \in Backends
    BY <1>2, <2>1, <2>3 DEF Inductive, TypeOK, Dispatch
  <2>5. /\ pending' = pending \cup {x} /\ events' = [events EXCEPT ![b] = Append(@, x)]
        /\ UNCHANGED <<done, polled, call>>
    BY <1>2, <2>1, <2>2 DEF Dispatch, backendVars
  <2>6. PICK s : s = events[b] /\ s \in Seq(Requests)
    BY <2>4 DEF Inductive, TypeOK
  <2>7. events'[b] = Append(s, x) /\ \A c \in Backends : c # b => events'[c] = events[c]
    BY <2>4, <2>5, <2>6 DEF Inductive, TypeOK
  <2>8. /\ \A i \in DOMAIN s : i \in DOMAIN Append(s, x) /\ Append(s, x)[i] = s[i]
        /\ Len(s) + 1 \in DOMAIN Append(s, x) /\ Append(s, x)[Len(s) + 1] = x
    BY <2>2, <2>6
  <2>9. Reaches(x)'
    BY <2>4, <2>7, <2>8 DEF Reaches, Queued
  <2>10. ASSUME NEW r, Reaches(r)
         PROVE  Reaches(r)'
    <3>1. PICK c \in Backends : Queued(c, r) \/ r \in polled[c] \/ call[c].for = r
      BY <2>10 DEF Reaches
    <3>2. Queued(c, r) => Queued(c, r)'
      BY <2>6, <2>7, <2>8 DEF Queued
    <3> QED BY <2>5, <3>1, <3>2 DEF Reaches
  <2> QED BY <2>5, <2>9, <2>10 DEF PendingReachable, Reaches
<1>3. ASSUME NEW w \in Workers, Worker(w), ~Dispatch(w)
      PROVE  pending' \subseteq pending /\ done' = done /\ UNCHANGED <<events, polled, call>>
  BY <1>3 DEF Worker, Take, Acquire, Handle, Reject, Serve, Unattached, StopWaiting, Leave, Reply,
              ReplyFails, ReplyRaises, Finish, pendingVars, backendVars
<1>4. ASSUME NEW d \in Devices, Enqueue(d) \/ Overload(d)
      PROVE  UNCHANGED <<pending, done, events, polled, call>>
  BY <1>4 DEF Enqueue, Overload, Arrives, pendingVars, backendVars
<1>5. ASSUME NEW d \in Devices, RouteCall(d)
      PROVE  UNCHANGED <<pending, done, events, polled, call>>
  BY <1>5 DEF RouteCall, pendingVars, backendVars
<1>6. ASSUME NEW devs, NEW kinds, NEW att, Install(devs, kinds, att)
      PROVE  PendingReachable'
  BY <1>6 DEF Install, PendingReachable
<1>7. CASE Operator
  BY <1>1, <1>5, <1>6, <1>7
  DEF Operator, AttachBackend, DetachBackend, SetBackend, UpdateDevice, Apply, Resync
<1>8. CASE UNCHANGED vars
  BY <1>1, <1>8 DEF vars, pendingVars, backendVars
<1> QED BY <1>1, <1>2, <1>3, <1>4, <1>7, <1>8, ControllerReaches DEF Next

\* A request in pending_controller is in an event queue, with a controller or in a reply
\* call, whatever workers, polls, installations and late replies do: no waiting worker
\* depends on an event that went astray.
THEOREM ReachableSafe == Spec => []PendingReachable
<1>1. Init => CallInv /\ PendingReachable
  BY DEF Init, CallInv, PendingReachable
<1> QED BY <1>1, InitTypes, NextTypes, NextCalls, NextReaches, PTL DEF Spec

=============================================================================

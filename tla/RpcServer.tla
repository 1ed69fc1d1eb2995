------------------------------ MODULE RpcServer ------------------------------
(***************************************************************************)
(* The daemon's JSON-RPC server (RuntimeRpcServer of                       *)
(* src/sensorium/runtime/rpc.py): one thread that selects on sockets, a    *)
(* pool of workers that run the calls, and the waiters of                  *)
(* backend.next_event, which the server thread answers itself.             *)
(*                                                                         *)
(* A client is one connection; a line is its number in what the client     *)
(* sends, all of which is in the socket at once: that it comes in pieces   *)
(* is a chunk of input that ends after any line.  Writing outbuf to the    *)
(* socket is left out: a response is given when it is in outbuf.  One      *)
(* backend is polled; the others have queues of their own.                 *)
(***************************************************************************)
EXTENDS Naturals, Sequences, FiniteSets

CONSTANTS
  Clients,
  NoClient,
  Scripts,    \* per client, the sequences of line kinds it may send
  MaxClients, \* max_clients
  MaxWorkers, \* max_workers
  MaxPending, \* max_pending_requests_per_client
  MaxEvents   \* bound: events of the bridge workers

\* A call for the pool, a poll, a poll with a timeout that is no number, a line that
\* is not JSON, a line over max_request_bytes.
Kinds == {"call", "poll", "illpoll", "bad", "long"}

ASSUME ServerAssumption ==
  /\ IsFiniteSet(Clients) /\ NoClient \notin Clients /\ "wake" \notin Clients
  /\ DOMAIN Scripts = Clients /\ \A c \in Clients : Scripts[c] \subseteq Seq(Kinds)
  /\ MaxClients \in Nat \ {0} /\ MaxWorkers \in Nat \ {0} /\ MaxPending \in Nat \ {0}
  /\ MaxEvents \in Nat

VARIABLES
  script,    \* per client, the lines it sends
  gone,      \* clients that closed their end
  conn,      \* per client: "away", "open", "refused" or "closed"
  count,     \* _active_clients
  read,      \* per client, lines split off inbuf
  pending,   \* per client, pending_requests
  active,    \* clients with active_request
  waiting,   \* per client, the request of waiting_for_event, or 0
  expired,   \* waiters whose deadline has passed
  answers,   \* per client, its responses
  slots,     \* value of _worker_slots
  work,      \* per client and line, where its worker is
  completed, \* _completions
  queue,     \* the backend's events
  made,      \* events so far
  notifying, \* a bridge worker has queued an event and not notified yet
  wake,      \* a byte is in the wake socket
  stop,      \* _stop
  pc,        \* where the server thread is
  ready,     \* keys of select it still has to serve
  todo,      \* waiters it still has to visit
  turn       \* the client whose _dispatch_pending runs, or NoClient

clientVars == <<script, gone>>
connVars   == <<conn, count>>
askVars    == <<read, pending, active, waiting, expired, answers>>
poolVars   == <<slots, work, completed>>
eventVars  == <<queue, made, notifying>>
loopVars   == <<pc, ready, todo, turn>>
vars == <<clientVars, connVars, askVars, poolVars, eventVars, wake, stop, loopVars>>

Open == {c \in Clients : conn[c] = "open"}

\* A task is in flight until its worker has written the wake byte.
Tasks == UNION {{c} \X DOMAIN script[c] : c \in Clients}
In(phases) == {t \in Tasks : work[t[1]][t[2]] \in phases}
InFlight == In({"running", "released", "appended"})

NoEvent == 0

\* _queue_response; for: the request it answers, whether it names its id or not.
Answer(c, i, kind, event) ==
  answers' = IF c \in Open
             THEN [answers EXCEPT ![c] = Append(@, [for |-> i, kind |-> kind, event |-> event])]
             ELSE answers

\* Mutant: nobody is woken.
StaysAsleep == wake

\* _wake, which swallows the error of a closed socket.
Woken == pc \notin {"joining", "closed"}

-----------------------------------------------------------------------------
(* serve_forever: select, then one step per key that is ready.             *)

Ready ==
  (IF wake THEN {"wake"} ELSE {})
    \cup {c \in Open : read[c] < Len(script[c]) \/ c \in gone}

At(label) == pc = label /\ turn = NoClient
Goto(label) == pc' = label /\ UNCHANGED turn
Internal == UNCHANGED <<clientVars, connVars, askVars, poolVars, eventVars, wake, stop>>

\* Every waiter is visited: the thread is in select.
Selecting == At("select") /\ todo = {}

\* Mutant: _stop is not looked at.
SelectAnyway ==
  /\ Selecting
  /\ ready' = Ready
  /\ Goto("serve")
  /\ Internal /\ UNCHANGED todo

\* select returns what is ready; that may be nothing, for its timeout (_next_timeout)
\* is half a second at most.
Select ==
  /\ Selecting /\ ~stop
  /\ ready' = Ready
  /\ Goto("serve")
  /\ Internal /\ UNCHANGED todo

Served(k) == At("serve") /\ k \in ready /\ ready' = ready \ {k}

DrainWake ==
  /\ Served("wake")
  /\ wake' = FALSE
  /\ UNCHANGED <<clientVars, connVars, askVars, poolVars, eventVars, stop, pc, todo, turn>>

Counted == IF count < MaxClients THEN count + 1 ELSE count

\* _accept_client: a connection has come in time for this round.  The busy response
\* raises if the refused client has hung up, and the exception ends serve_forever.
Accept(c) ==
  /\ At("serve") /\ conn[c] = "away"
  /\ conn' = [conn EXCEPT ![c] = IF count < MaxClients THEN "open" ELSE "refused"]
  /\ count' = Counted
  /\ gone' \in {gone, gone \cup {c}}
  /\ Goto(IF count >= MaxClients /\ c \in gone' THEN "leaving" ELSE "serve")
  /\ UNCHANGED <<script, askVars, poolVars, eventVars, wake, stop, ready, todo>>

\* _close_client of an open client; what its state holds is of no use any more.
CloseClient(c) ==
  /\ conn' = [conn EXCEPT ![c] = "closed"]
  /\ count' = count - 1
  /\ pending' = [pending EXCEPT ![c] = <<>>]
  /\ waiting' = [waiting EXCEPT ![c] = 0]

\* _service_client: end of file, or a reset of the connection.
ReadEnd(c) ==
  /\ Served(c) /\ c \in gone
  /\ CloseClient(c)
  /\ UNCHANGED <<clientVars, read, active, expired, answers, poolVars, eventVars,
                 wake, stop, pc, todo, turn>>

\* Mutant: a request is dispatched while a poll waits.
EnterAnyway(c) ==
  turn' = IF conn'[c] = "open" /\ pending'[c] # <<>> /\ c \notin active' THEN c ELSE NoClient

\* _dispatch_pending is entered, and has something to do or not.
Enter(c) ==
  turn' = IF /\ conn'[c] = "open" /\ pending'[c] # <<>>
             /\ c \notin active' /\ waiting'[c] = 0
          THEN c ELSE NoClient

\* The numbers of a set in ascending order.
Ascending(S) ==
  CHOOSE s \in [1..Cardinality(S) -> S] :
    \A j, k \in 1..Cardinality(S) : j < k => s[j] < s[k]

\* The lines up to the n-th are split off, each answered at once with an error if it
\* is not JSON, ahead of queued requests, and queued otherwise; a line too long or
\* one request too many ends the connection (_send_error_and_close).
ReadLines(c, n) ==
  LET New  == (read[c] + 1)..n
      Bad  == {i \in New : script[c][i] = "bad"}
      good == Ascending(New \ Bad)
      bad  == Ascending(Bad)
  IN
  /\ Served(c) /\ n > read[c]
  /\ read' = [read EXCEPT ![c] = n]
  /\ IF \/ \E i \in New : script[c][i] = "long"
        \/ Len(pending[c]) + Len(good) > MaxPending
     THEN CloseClient(c) /\ UNCHANGED answers
     ELSE /\ pending' = [pending EXCEPT ![c] = @ \o good]
          /\ answers' = [answers EXCEPT ![c] = @ \o [k \in DOMAIN bad |->
                           [for |-> bad[k], kind |-> "error", event |-> NoEvent]]]
          /\ UNCHANGED <<connVars, waiting>>
  /\ UNCHANGED <<clientVars, active, expired, poolVars, eventVars, wake, stop, pc, todo>>
  /\ Enter(c)

-----------------------------------------------------------------------------
(* _dispatch_pending, one step per request.                                *)

Dispatched(c, kind) ==
  /\ turn = c /\ script[c][Head(pending[c])] = kind
  /\ pending' = [pending EXCEPT ![c] = Tail(@)]
  /\ UNCHANGED <<clientVars, connVars, read, completed, made, notifying, wake, stop, ready,
                 todo>>

\* Mutant: the event stays where it is.
KeepEvent == queue

DropEvent == Tail(queue)

\* _begin_next_event_wait finds an event: _dispatch_pending returns, whatever else is
\* pending.
PollAnswered(c) ==
  /\ Dispatched(c, "poll") /\ queue # <<>>
  /\ Answer(c, Head(pending[c]), "event", Head(queue))
  /\ queue' = DropEvent
  /\ turn' = NoClient
  /\ UNCHANGED <<active, waiting, expired, slots, work, pc>>

PollWaits(c) ==
  /\ Dispatched(c, "poll") /\ queue = <<>>
  /\ waiting' = [waiting EXCEPT ![c] = Head(pending[c])]
  /\ turn' = NoClient
  /\ UNCHANGED <<active, expired, answers, slots, work, queue, pc>>

\* float(timeout) raises in the server thread.
PollRaises(c) ==
  /\ Dispatched(c, "illpoll")
  /\ turn' = NoClient /\ pc' = "leaving"
  /\ UNCHANGED <<active, waiting, expired, answers, slots, work, queue>>

Submit(c) ==
  /\ Dispatched(c, "call") /\ slots > 0
  /\ slots' = slots - 1
  /\ work' = [work EXCEPT ![c][Head(pending[c])] = "running"]
  /\ active' = active \cup {c}
  /\ UNCHANGED <<waiting, expired, answers, queue, pc>>
  /\ Enter(c)

\* No worker slot: a response without an id, and the next request.
Overloaded(c) ==
  /\ Dispatched(c, "call") /\ slots = 0
  /\ Answer(c, Head(pending[c]), "busy", NoEvent)
  /\ UNCHANGED <<active, waiting, expired, slots, work, queue, pc>>
  /\ Enter(c)

-----------------------------------------------------------------------------
(* _run_request, in the pool.                                              *)

Phase(c, i, from, to) ==
  /\ work[c][i] = from
  /\ work' = [work EXCEPT ![c][i] = to]
  /\ UNCHANGED <<clientVars, connVars, askVars, eventVars, stop, loopVars>>

\* Mutant: the release is skipped.
NotReleased == slots

Released == slots + 1

\* dispatch_runtime_request has returned or raised: either is a response, and the
\* slot is free before the response is in _completions.
FinishRequest(c, i) ==
  /\ Phase(c, i, "running", "released")
  /\ slots' = Released
  /\ UNCHANGED <<completed, wake>>

AppendCompletion(c, i) ==
  /\ Phase(c, i, "released", "appended")
  /\ completed' = Append(completed, <<c, i>>)
  /\ UNCHANGED <<slots, wake>>

WakeServer(c, i) ==
  /\ Phase(c, i, "appended", "done")
  /\ wake' = Woken
  /\ UNCHANGED <<slots, completed>>

-----------------------------------------------------------------------------
(* _drain_completions and _service_event_waiters.                          *)

DrainCompletion ==
  LET c == Head(completed)[1] IN
  /\ At("serve") /\ ready = {} /\ completed # <<>>
  /\ completed' = Tail(completed)
  /\ active' = IF c \in Open THEN active \ {c} ELSE active
  /\ Answer(c, Head(completed)[2], "result", NoEvent)
  /\ UNCHANGED <<clientVars, connVars, read, pending, waiting, expired, slots, work,
                 eventVars, wake, stop, pc, ready, todo>>
  /\ Enter(c)

Drained ==
  /\ At("serve") /\ ready = {} /\ completed = <<>>
  /\ Goto("select") /\ todo' = {c \in Open : waiting[c] # 0}
  /\ Internal /\ UNCHANGED ready

Visit(c) ==
  /\ At("select") /\ c \in todo
  /\ todo' = todo \ {c}
  /\ UNCHANGED <<clientVars, connVars, read, pending, active, poolVars, made, notifying,
                 wake, stop, pc, ready>>

\* Mutant: deadlines are not looked at.
DueWithEvent(c) == waiting[c] # 0 /\ queue # <<>>

Due(c) == waiting[c] # 0 /\ (queue # <<>> \/ c \in expired)

\* An event, or none at the deadline.
AnswerWaiter(c) ==
  /\ Visit(c) /\ Due(c)
  /\ \/ /\ queue # <<>> /\ queue' = DropEvent
        /\ Answer(c, waiting[c], "waited", Head(queue))
     \/ /\ queue = <<>> /\ UNCHANGED queue
        /\ Answer(c, waiting[c], "waited", NoEvent)
  /\ waiting' = [waiting EXCEPT ![c] = 0]
  /\ expired' = expired \ {c}
  /\ Enter(c)

PassClient(c) ==
  /\ Visit(c) /\ ~Due(c)
  /\ UNCHANGED <<waiting, expired, answers, queue, turn>>

-----------------------------------------------------------------------------
(* The bridge workers, the clock, the clients and the end.                 *)

Outside == UNCHANGED <<script, connVars, read, pending, active, waiting, answers,
                       poolVars, loopVars>>

\* _dispatch_controller queues an event under the manager's lock ...
QueueEvent ==
  /\ made < MaxEvents /\ ~notifying
  /\ made' = made + 1 /\ queue' = Append(queue, made') /\ notifying' = TRUE
  /\ Outside /\ UNCHANGED <<gone, expired, wake, stop>>

\* ... and notifies the server without it.
NotifyBackendEvent ==
  /\ notifying /\ notifying' = FALSE
  /\ wake' = Woken
  /\ Outside /\ UNCHANGED <<gone, expired, queue, made, stop>>

Expire(c) ==
  /\ waiting[c] # 0 /\ c \notin expired
  /\ expired' = expired \cup {c}
  /\ Outside /\ UNCHANGED <<gone, eventVars, wake, stop>>

HangUp(c) ==
  /\ c \in Open \ gone
  /\ gone' = gone \cup {c}
  /\ Outside /\ UNCHANGED <<expired, eventVars, wake, stop>>

Shutdown ==
  /\ ~stop /\ stop' = TRUE
  /\ wake' = Woken
  /\ Outside /\ UNCHANGED <<gone, expired, eventVars>>

LeaveLoop ==
  /\ Selecting /\ stop
  /\ Goto("leaving")
  /\ Internal /\ UNCHANGED <<ready, todo>>

\* server_close closes the clients and the sockets ...
ServerClose ==
  /\ pc = "leaving" /\ Goto("joining")
  /\ stop' = TRUE /\ wake' = FALSE
  /\ conn' = [c \in Clients |-> IF c \in Open THEN "closed" ELSE conn[c]]
  /\ count' = count - Cardinality(Open)
  /\ UNCHANGED <<clientVars, askVars, poolVars, eventVars, ready, todo>>

\* ... and waits for the workers.
JoinWorkers ==
  /\ pc = "joining" /\ InFlight = {}
  /\ Goto("closed")
  /\ Internal /\ UNCHANGED <<ready, todo>>

-----------------------------------------------------------------------------
Init ==
  /\ script \in {f \in [Clients -> UNION {Scripts[c] : c \in Clients}] :
                  \A c \in Clients : f[c] \in Scripts[c]}
  /\ gone = {} /\ conn = [c \in Clients |-> "away"] /\ count = 0
  /\ read = [c \in Clients |-> 0] /\ pending = [c \in Clients |-> <<>>]
  /\ active = {} /\ waiting = [c \in Clients |-> 0] /\ expired = {}
  /\ answers = [c \in Clients |-> <<>>]
  /\ slots = MaxWorkers /\ completed = <<>>
  /\ work = [c \in Clients |-> [i \in DOMAIN script[c] |-> "none"]]
  /\ queue = <<>> /\ made = 0 /\ notifying = FALSE
  /\ wake = FALSE /\ stop = FALSE
  /\ pc = "select" /\ ready = {} /\ todo = {} /\ turn = NoClient

ServeClient(c) ==
  \/ Accept(c) \/ ReadEnd(c) \/ \E n \in DOMAIN script[c] : ReadLines(c, n)
  \/ PollAnswered(c) \/ PollWaits(c) \/ PollRaises(c) \/ Submit(c) \/ Overloaded(c)
  \/ AnswerWaiter(c) \/ PassClient(c)

Server ==
  \/ Select \/ DrainWake \/ DrainCompletion \/ Drained
  \/ LeaveLoop \/ ServerClose \/ JoinWorkers
  \/ \E c \in Clients : ServeClient(c)

PoolStep ==
  \E t \in Tasks : \/ FinishRequest(t[1], t[2])
                   \/ AppendCompletion(t[1], t[2]) \/ WakeServer(t[1], t[2])

Next ==
  \/ \E c \in Clients : HangUp(c) \/ Expire(c)
  \/ Server \/ PoolStep
  \/ QueueEvent \/ NotifyBackendEvent \/ Shutdown

Spec == Init /\ [][Next]_vars

\* The server thread and the pool run, a dispatched method returns, and time
\* passes; nothing is assumed of clients, of bridge workers or of a shutdown.
FairSpec ==
  Spec /\ WF_vars(Server) /\ WF_vars(PoolStep) /\ \A c \in Clients : WF_vars(Expire(c))

-----------------------------------------------------------------------------
Lines == Nat \ {0}
Responses == [for : Lines, kind : {"error", "event", "waited", "busy", "result"}, event : Nat]

TypeOK ==
  /\ DOMAIN script = Clients /\ (\A c \in Clients : script[c] \in Scripts[c])
  /\ gone \subseteq Clients
  /\ conn \in [Clients -> {"away", "open", "refused", "closed"}]
  /\ count \in 0..MaxClients
  /\ read \in [Clients -> Nat] /\ \A c \in Clients : read[c] <= Len(script[c])
  /\ pending \in [Clients -> Seq(Lines)]
  /\ active \subseteq Clients /\ waiting \in [Clients -> Nat] /\ expired \subseteq Clients
  /\ answers \in [Clients -> Seq(Responses)]
  /\ slots \in 0..MaxWorkers /\ completed \in Seq(Clients \X Lines)
  /\ DOMAIN work = Clients
  /\ \A c \in Clients :
       work[c] \in [DOMAIN script[c] -> {"none", "running", "released",
                                         "appended", "done"}]
  /\ queue \in Seq(Lines) /\ made \in 0..MaxEvents /\ notifying \in BOOLEAN
  /\ wake \in BOOLEAN /\ stop \in BOOLEAN
  /\ pc \in {"select", "serve", "leaving", "joining", "closed"}
  /\ ready \subseteq {"wake"} \cup Clients
  /\ todo \subseteq Clients /\ turn \in Clients \cup {NoClient}

\* No worker slot leaks and none is given back twice, and _active_clients counts the
\* open connections, whichever way requests and connections end.
CapacityExact ==
  /\ TypeOK
  /\ slots + Cardinality(In({"running"})) = MaxWorkers
  /\ count = Cardinality(Open)

\* Responses can be matched by their order, as a client must when a busy response
\* names no id: queued requests are answered once each and in the order they came.
AnsweredInOrder ==
  \A c \in Clients : \A j, k \in DOMAIN answers[c] :
    /\ j < k
    /\ answers[c][j].kind # "error" /\ answers[c][k].kind # "error"
    => answers[c][j].for < answers[c][k].for

Given(e) == UNION {{c} \X {j \in DOMAIN answers[c] : answers[c][j].event = e} : c \in Clients}

\* An event waits for a poll or was given to exactly one.  (It can still be lost with
\* the output buffer of a client that has hung up.)
EventOnce ==
  \A e \in 1..made :
    Cardinality({j \in DOMAIN queue : queue[j] = e}) + Cardinality(Given(e)) = 1

\* While the server blocks in select, the work that no client's socket announces is
\* announced by a wake byte, or by a thread that is about to write one.
NoLostWakeup ==
  /\ Selecting /\ ~wake
  /\ completed # <<>> \/ (queue # <<>> /\ \E c \in Open : waiting[c] # 0)
  => notifying \/ In({"appended"}) # {}

\* Requests that nobody takes up before the client sends another line.  That happens
\* behind a backend.next_event that found an event at once.
Stalled(c) ==
  /\ Selecting /\ conn[c] = "open" /\ pending[c] # <<>>
  /\ c \notin active /\ waiting[c] = 0
  /\ answers[c] # <<>> /\ answers[c][Len(answers[c])].kind = "event"

\* The client has a request that was accepted and not answered.
Owed(c) == conn[c] = "open" /\ (pending[c] # <<>> \/ waiting[c] # 0 \/ c \in active)

\* Accepted requests get a result, an event, a timeout or a busy response, unless their
\* connection ends or they stall as above.  (Clients send finitely many lines.)
RequestsAnswered == []<>(\A c \in Clients : ~Owed(c) \/ Stalled(c))

\* Once told to stop, or ended by an exception, the server closes every connection and
\* comes to rest with no request running (server_close waits for the pool).
ShutdownCompletes == stop ~> (pc = "closed" /\ Open = {} /\ InFlight = {})

-----------------------------------------------------------------------------
(* Strengthenings that make the safety properties inductive.               *)

\* The server thread serves open clients, and dispatches for one that is open, has
\* requests queued and none under way.
ThreadInv ==
  /\ pc = "serve" => ready \subseteq {"wake"} \cup Open
  /\ turn # NoClient =>
       /\ pc \in {"select", "serve"} /\ turn \in Open
       /\ pending[turn] # <<>> /\ turn \notin active /\ waiting[turn] = 0
  /\ \A c \in Clients : waiting[c] # 0 => c \in Open \/ pc \in {"joining", "closed"}

\* Queued requests are lines read, in their order, and no worker has seen them.
QueuedInv ==
  \A c \in Clients :
    /\ \A j, k \in DOMAIN pending[c] : j < k => pending[c][j] < pending[c][k]
    /\ \A k \in DOMAIN pending[c] :
         pending[c][k] <= read[c] /\ work[c][pending[c][k]] = "none"
    /\ \A i \in DOMAIN script[c] : i > read[c] => work[c][i] = "none"

\* A finished request is in _completions once.
CompletedInv ==
  /\ \A k \in DOMAIN completed :
       /\ completed[k] \in Tasks
       /\ work[completed[k][1]][completed[k][2]] \in {"appended", "done"}
  /\ \A j, k \in DOMAIN completed : completed[j] = completed[k] => j = k

\* The lines of a client that are under way.
Busy(c) ==
  {i \in 1..read[c] : \/ waiting[c] = i
                     \/ work[c][i] \in {"running", "released"}
                     \/ \E k \in DOMAIN completed : completed[k] = <<c, i>>}

\* One request of a client is under way at a time, ahead of what is queued and behind
\* what was answered.
InOrder(c) ==
  /\ waiting[c] <= read[c] /\ (waiting[c] # 0 => work[c][waiting[c]] = "none")
  /\ c \notin active /\ waiting[c] = 0 => Busy(c) = {}
  /\ \A i, j \in Busy(c) : i = j
  /\ \A i \in Busy(c), k \in DOMAIN pending[c] : i < pending[c][k]
  /\ \A j \in DOMAIN answers[c] :
       answers[c][j].kind # "error" =>
         /\ answers[c][j].for <= read[c]
         /\ \A i \in Busy(c) : answers[c][j].for < i
         /\ \A k \in DOMAIN pending[c] : answers[c][j].for < pending[c][k]
OrderInv == \A c \in Clients : conn[c] \in {"away", "open"} => InOrder(c)

\* An event is queued at one place or was given in one response.
EventInv ==
  /\ \A j \in DOMAIN queue : queue[j] <= made
  /\ \A j, k \in DOMAIN queue : queue[j] = queue[k] => j = k
  /\ \A c \in Clients : \A j \in DOMAIN answers[c] :
       /\ answers[c][j].event <= made
       /\ \A k \in DOMAIN queue : answers[c][j].event # queue[k]
       /\ answers[c][j].event # NoEvent =>
            \A d \in Clients : \A k \in DOMAIN answers[d] :
              answers[d][k].event = answers[c][j].event => c = d /\ j = k
  /\ \A e \in 1..made :
       \/ \E j \in DOMAIN queue : queue[j] = e
       \/ \E c \in Clients : \E j \in DOMAIN answers[c] : answers[c][j].event = e

\* Between two calls of select, a completion is announced, and an event is, or the waiters
\* it may be for are still to be visited.
WakeInv ==
  pc = "select" =>
    /\ completed # <<>> => wake \/ In({"appended"}) # {}
    /\ queue # <<>> =>
         wake \/ notifying \/ \A c \in Open : waiting[c] # 0 => c \in todo

=============================================================================

--------------------------- MODULE BridgeRequests ---------------------------
(***************************************************************************)
(* The kernel side of the runtime bridge: the table of synchronous         *)
(* requests that I2C, SPI and tty callers block on, the in-flight credits, *)
(* the request timeout, the daemon's session on /dev/sensorium-runtime and *)
(* the RESET command (kernel/sensorium-runtime.c and                       *)
(* sensorium-runtime-core.c).                                              *)
(*                                                                         *)
(* A call is identified with the request object it holds: an element of    *)
(* Objects, the slab behind runtime->request_pool.  A freed object may be  *)
(* allocated again by any later call, as a slab object is.                 *)
(*                                                                         *)
(* Every action that takes runtime->lock is one step, except that RESET    *)
(* keeps the lock while it waits for transports to drain: it is two steps, *)
(* and ~resetting guards every action that needs the lock.                 *)
(***************************************************************************)
EXTENDS Naturals, Sequences, FiniteSets

CONSTANTS
  Objects,        \* request objects of the slab pool
  Kinds,          \* kinds of calls: a subset of CallKinds
  CreditLimit,    \* runtime->inflight_credit_limit
  RingEntries,    \* ctrl->transport_ring_entries
  MaxRequests,    \* bound: request ids handed out
  MaxGeneration,  \* bound: RESET commands + 1
  MaxSessions     \* bound: opens of the bridge device

\* I2C and SPI transfers, the TX work of a tty, and the ioctls that set its
\* termios or modem lines.
CallKinds == {"i2c", "spi", "tx", "ctl"}

\* SETUP raises the credit limit to at least 1 (max_t(u32, 1U, ...)) and
\* refuses ring sizes below its minimum.
ASSUME ConstantsAssumption ==
  /\ IsFiniteSet(Objects)
  /\ Kinds \subseteq CallKinds
  /\ CreditLimit \in Nat \ {0}
  /\ RingEntries \in Nat \ {0}
  /\ MaxRequests \in Nat
  /\ MaxGeneration \in Nat
  /\ MaxSessions \in Nat

NoObject == "no object"

ASSUME NoObjectAssumption == NoObject \notin Objects

VARIABLES
  pc,          \* where the call holding the object is; "free": no call does
  kind,        \* kind of the call
  reqId,       \* req->id
  reqGen,      \* req->generation
  status,      \* req->status; memset leaves 0, which reads as success
  replied,     \* req->replied
  done,        \* req->done is complete
  generation,  \* runtime->generation
  nextId,      \* runtime->next_request_id
  session,     \* runtime->session_id
  link,        \* "closed", "open", "configured" (control page), "started"
  inflight,    \* ctrl->inflight_in_use
  transport,   \* descriptors in the transport ring, oldest first
  held,        \* requests the daemon took off the ring and has not answered
  completing,  \* object cmd_reply still owes a complete_all()
  resetting,   \* RESET holds runtime->lock
  stray        \* history: a complete_all() hit an object allocated again

callVars   == <<pc, kind, reqId, reqGen, status, replied, done>>
daemonVars == <<session, link, held, completing>>
vars == <<pc, kind, reqId, reqGen, status, replied, done, generation, nextId,
          session, link, inflight, transport, held, completing, resetting,
          stray>>

Statuses == {"OK", "EIO", "EPIPE"}
Phases   == {"free", "fresh", "waiting", "expired", "woken"}

\* req->listed: on runtime->requests and in runtime->request_index.
Listed(o) == pc[o] \in {"waiting", "expired", "woken"}

\* Requests nobody has answered yet: what in-flight credits stand for.
Unanswered == {o \in Objects : Listed(o) /\ ~replied[o]}

\* The message a request is while it waits in the ring or in the daemon.
Descriptor(o) == [id |-> reqId[o], gen |-> reqGen[o], session |-> session]

Returned(o) == pc' = [pc EXCEPT ![o] = "free"]

-----------------------------------------------------------------------------
(* The caller: sensorium_runtime_send_request.                             *)

\* Allocates and clears the object and reads the generation, before taking
\* the lock.
Begin(o, k) ==
  /\ pc[o] = "free"
  /\ nextId + Cardinality({p \in Objects : pc[p] = "fresh"}) < MaxRequests
  /\ pc'      = [pc EXCEPT ![o] = "fresh"]
  /\ kind'    = [kind EXCEPT ![o] = k]
  /\ reqId'   = [reqId EXCEPT ![o] = 0]
  /\ reqGen'  = [reqGen EXCEPT ![o] = generation]
  /\ status'  = [status EXCEPT ![o] = "OK"]
  /\ replied' = [replied EXCEPT ![o] = FALSE]
  /\ done'    = [done EXCEPT ![o] = FALSE]
  /\ UNCHANGED <<generation, nextId, inflight, transport, daemonVars, resetting, stray>>

\* queue_transport_locked succeeds: the descriptor is published.
HasCredit == inflight < CreditLimit

Enqueue(o) ==
  /\ pc[o] = "fresh" /\ ~resetting
  /\ link = "started"
  /\ HasCredit
  /\ Len(transport) < RingEntries
  /\ nextId'    = nextId + 1
  /\ reqId'     = [reqId EXCEPT ![o] = nextId + 1]
  /\ pc'        = [pc EXCEPT ![o] = "waiting"]
  /\ transport' = Append(transport, [id |-> nextId + 1, gen |-> reqGen[o],
                                     session |-> session])
  /\ inflight'  = inflight + 1
  /\ UNCHANGED <<kind, reqGen, status, replied, done, generation, daemonVars,
                 resetting, stray>>

\* queue_transport_locked fails: -ETIMEDOUT without a started daemon, -EBUSY
\* without credit, ring slot or payload space (the arena is left free to be
\* full here; PayloadRing says when it is).  The id is spent all the same.
Refuse(o) ==
  /\ pc[o] = "fresh" /\ ~resetting
  /\ nextId' = nextId + 1
  /\ Returned(o)
  /\ UNCHANGED <<kind, reqId, reqGen, status, replied, done, generation,
                 inflight, transport, daemonVars, resetting, stray>>

\* wait_for_completion_timeout returns because the request is complete; the
\* caller reads req->status before it takes the lock.
Wake(o) ==
  /\ pc[o] = "waiting" /\ done[o]
  /\ pc' = [pc EXCEPT ![o] = "woken"]
  /\ UNCHANGED <<kind, reqId, reqGen, status, replied, done, generation, nextId,
                 inflight, transport, daemonVars, resetting, stray>>

\* Mutant: wait_for_completion without a timeout.
NoTimeout(o) == FALSE

\* wait_for_completion_timeout returns 0; the lock is not taken yet.
Expire(o) ==
  /\ pc[o] = "waiting" /\ ~done[o]
  /\ pc' = [pc EXCEPT ![o] = "expired"]
  /\ UNCHANGED <<kind, reqId, reqGen, status, replied, done, generation, nextId,
                 inflight, transport, daemonVars, resetting, stray>>

\* Mutants: the credit is kept; it is given back without the test for zero.
KeptCredit == inflight
UncheckedCredit == inflight - 1

\* The credit is given back if the control page still exists and counts any.
CreditReturned == IF inflight > 0 THEN inflight - 1 ELSE 0

TimeOut(o) ==
  /\ pc[o] = "expired" /\ ~resetting
  /\ Returned(o)
  /\ inflight' = CreditReturned
  /\ UNCHANGED <<kind, reqId, reqGen, status, replied, done, generation, nextId,
                 transport, daemonVars, resetting, stray>>

Finish(o) ==
  /\ pc[o] = "woken" /\ ~resetting
  /\ Returned(o)
  /\ UNCHANGED <<kind, reqId, reqGen, status, replied, done, generation, nextId,
                 inflight, transport, daemonVars, resetting, stray>>

-----------------------------------------------------------------------------
(* The bridge device: open, SETUP, REGISTER_EVENTFDS, START, release.      *)

\* Mutant: fail_all_locked forgets complete_all.
FailAllAsleep ==
  /\ status'   = [o \in Objects |-> IF o \in Unanswered THEN "EPIPE" ELSE status[o]]
  /\ replied'  = [o \in Objects |-> replied[o] \/ o \in Unanswered]
  /\ inflight' = 0
  /\ UNCHANGED done

\* fail_all_locked: every unanswered request completes with -EPIPE.
FailAll ==
  /\ status'   = [o \in Objects |-> IF o \in Unanswered THEN "EPIPE" ELSE status[o]]
  /\ replied'  = [o \in Objects |-> replied[o] \/ o \in Unanswered]
  /\ done'     = [o \in Objects |-> done[o] \/ o \in Unanswered]
  /\ inflight' = 0

Open ==
  /\ link = "closed" /\ ~resetting
  /\ session < MaxSessions
  /\ session' = session + 1
  /\ link' = "open"
  /\ UNCHANGED <<callVars, generation, nextId, inflight, transport, held,
                 completing, resetting, stray>>

\* SETUP_V5 maps a zeroed region: empty rings, no credit in use.
Setup ==
  /\ link = "open" /\ ~resetting
  /\ link' = "configured"
  /\ inflight' = 0
  /\ transport' = <<>>
  /\ UNCHANGED <<callVars, generation, nextId, session, held, completing, resetting, stray>>

\* REGISTER_EVENTFDS and START_V5; each clears the control page again.
Start ==
  /\ link = "configured" /\ ~resetting
  /\ link' = "started"
  /\ inflight' = 0
  /\ transport' = <<>>
  /\ UNCHANGED <<callVars, generation, nextId, session, held, completing, resetting, stray>>

\* Mutant: release forgets the callers.
ReleaseQuietly ==
  /\ link # "closed" /\ ~resetting /\ completing = NoObject
  /\ link' = "closed"
  /\ inflight' = 0
  /\ transport' = <<>>
  /\ held' = {}
  /\ UNCHANGED <<callVars, generation, nextId, session, completing, resetting, stray>>

\* Mutant: release keeps the ring.
ReleaseKeepsRing ==
  /\ link # "closed" /\ ~resetting /\ completing = NoObject
  /\ link' = "closed"
  /\ FailAll
  /\ held' = {}
  /\ UNCHANGED <<pc, kind, reqId, reqGen, generation, nextId, session, transport,
                 completing, resetting, stray>>

\* The daemon exits or dies.  The ioctl it may be in has returned by then.
Release ==
  /\ link # "closed" /\ ~resetting /\ completing = NoObject
  /\ link' = "closed"
  /\ FailAll
  /\ transport' = <<>>
  /\ held' = {}
  /\ UNCHANGED <<pc, kind, reqId, reqGen, generation, nextId, session, completing,
                 resetting, stray>>

-----------------------------------------------------------------------------
(* The daemon's use of the started bridge.                                 *)

\* Mutant: the head advances over a descriptor that is not handled.
DrainSkips ==
  /\ link = "started" /\ transport # <<>>
  /\ transport' = Tail(transport)
  /\ UNCHANGED <<callVars, generation, nextId, inflight, daemonVars, resetting, stray>>

\* _drain_transport_ring: the oldest descriptor moves into the daemon, which
\* raises on a descriptor of another session.
Drain ==
  /\ link = "started" /\ transport # <<>>
  /\ Head(transport).session = session
  /\ held' = held \cup {Head(transport)}
  /\ transport' = Tail(transport)
  /\ UNCHANGED <<callVars, generation, nextId, inflight, session, link, completing,
                 resetting, stray>>

\* xa_load(&runtime->request_index, id) and the generation test of cmd_reply.
Matches(o, m) == Listed(o) /\ reqId[o] = m.id /\ reqGen[o] = m.gen

\* SUBMIT_REPLY, cmd_reply up to mutex_unlock: the request found by id and
\* generation gets the answer, whether or not it already has one.
Reply(m, s) ==
  /\ link = "started" /\ ~resetting /\ completing = NoObject
  /\ m \in held
  /\ held' = held \ {m}
  /\ \E o \in Objects :
       /\ Matches(o, m)
       /\ status'   = [status EXCEPT ![o] = s]
       /\ replied'  = [replied EXCEPT ![o] = TRUE]
       /\ inflight' = CreditReturned
       /\ completing' = o
  /\ UNCHANGED <<pc, kind, reqId, reqGen, done, generation, nextId, session, link,
                 transport, resetting, stray>>

\* cmd_reply finds no such request: -ENOENT, which the drain ignores.
ReplyIgnored(m) ==
  /\ link = "started" /\ ~resetting /\ completing = NoObject
  /\ m \in held
  /\ \A o \in Objects : ~Matches(o, m)
  /\ held' = held \ {m}
  /\ UNCHANGED <<callVars, generation, nextId, inflight, session, link, transport,
                 completing, resetting, stray>>

\* complete_all(&req->done), after the lock is released.  The object may have
\* been freed by a caller that timed out, and allocated again since.
Complete ==
  /\ completing # NoObject
  /\ done' = IF pc[completing] = "free" THEN done
             ELSE [done EXCEPT ![completing] = TRUE]
  /\ completing' = NoObject
  /\ stray' = (stray \/ (pc[completing] # "free" /\ ~replied[completing]))
  /\ UNCHANGED <<pc, kind, reqId, reqGen, status, replied, generation, nextId,
                 inflight, session, link, transport, held, resetting>>

\* CMD_RESET takes the lock, fails every request and starts destroying the
\* devices and buses.
ResetBegin ==
  /\ link = "started" /\ ~resetting /\ completing = NoObject
  /\ generation < MaxGeneration
  /\ resetting' = TRUE
  /\ FailAll
  /\ UNCHANGED <<pc, kind, reqId, reqGen, generation, nextId, session, link,
                 transport, held, completing, stray>>

\* Calls that destroying their device or bus waits for: i2c_del_adapter waits
\* for the open adapter the call came through, spidev_remove for the spi_lock
\* held during the transfer (both external), cancel_delayed_work_sync for the
\* TX work.  Nothing waits for an ioctl of a tty.
Joined(o) == pc[o] # "free" /\ kind[o] \in {"i2c", "spi", "tx"}

ResetFinish ==
  /\ resetting
  /\ \A o \in Objects : ~Joined(o)
  /\ resetting' = FALSE
  /\ generation' = generation + 1
  /\ UNCHANGED <<callVars, nextId, inflight, transport, daemonVars, stray>>

-----------------------------------------------------------------------------
Init ==
  /\ pc = [o \in Objects |-> "free"]
  /\ kind = [o \in Objects |-> "none"]
  /\ reqId = [o \in Objects |-> 0]
  /\ reqGen = [o \in Objects |-> 0]
  /\ status = [o \in Objects |-> "OK"]
  /\ replied = [o \in Objects |-> FALSE]
  /\ done = [o \in Objects |-> FALSE]
  /\ generation = 1 /\ nextId = 0 /\ session = 0
  /\ link = "closed"
  /\ inflight = 0
  /\ transport = <<>>
  /\ held = {}
  /\ completing = NoObject
  /\ resetting = FALSE
  /\ stray = FALSE

Caller(o) ==
  Enqueue(o) \/ Refuse(o) \/ Wake(o) \/ Expire(o) \/ TimeOut(o) \/ Finish(o)

Session == Open \/ Setup \/ Start \/ Release

Daemon ==
  \/ Drain \/ Complete \/ ResetBegin \/ ResetFinish
  \/ \E m \in held : ReplyIgnored(m) \/ \E s \in {"OK", "EIO"} : Reply(m, s)

Next ==
  \/ \E o \in Objects : Caller(o) \/ \E k \in Kinds : Begin(o, k)
  \/ Session
  \/ Daemon

Spec == Init /\ [][Next]_vars

\* A caller runs (the scheduler), its timer fires (the timer wheel), and the
\* kernel finishes the ioctl it is in; nothing is assumed of the daemon.
Fairness ==
  /\ \A o \in Objects : WF_vars(Caller(o))
  /\ WF_vars(Complete)
  /\ WF_vars(ResetFinish)

FairSpec == Spec /\ Fairness

-----------------------------------------------------------------------------
Messages == [id : Nat, gen : Nat, session : Nat]

TypeOK ==
  /\ pc \in [Objects -> Phases]
  /\ kind \in [Objects -> Kinds \cup {"none"}]
  /\ reqId \in [Objects -> Nat]
  /\ reqGen \in [Objects -> Nat]
  /\ status \in [Objects -> Statuses]
  /\ replied \in [Objects -> BOOLEAN]
  /\ done \in [Objects -> BOOLEAN]
  /\ generation \in Nat /\ nextId \in Nat /\ session \in Nat
  /\ link \in {"closed", "open", "configured", "started"}
  /\ inflight \in Nat
  /\ transport \in Seq(Messages)
  /\ held \in SUBSET Messages
  /\ completing \in Objects \cup {NoObject}
  /\ resetting \in BOOLEAN
  /\ stray \in BOOLEAN

-----------------------------------------------------------------------------
(* Safety.                                                                 *)

\* No credit leaks: inflight_in_use never counts more than the requests that
\* still wait for an answer, whatever order replies, timeouts, RESET and the
\* daemon's death come in.  A leaked credit would end in -EBUSY for ever.  It
\* is promised up to a stray completion: a caller woken by one returns as if
\* answered and keeps its credit.
NoCreditLeak == stray \/ inflight <= Cardinality(Unanswered)

\* Once the daemon is gone (bridge_release) no caller is left waiting for an
\* answer that cannot come: every listed request has been failed.
DaemonLossFailsWaiters == link # "started" => Unanswered = {}

\* A request marked replied is complete, or the reply that marked it is about
\* to complete it: no caller sleeps through its answer (replied is set under
\* the lock, complete_all comes after it).
NoLostWakeup ==
  \A o \in Objects : Listed(o) /\ replied[o] => done[o] \/ completing = o

\* A reply names at most one request: ids of listed requests are distinct and
\* none was handed out twice.
DistinctIds ==
  \A o, p \in Objects :
    Listed(o) /\ Listed(p) /\ o # p => reqId[o] # reqId[p]

InRing(m) == \E i \in 1..Len(transport) : transport[i] = m

\* A request without an answer is still on its way: in the ring or with the
\* daemon, under the id and generation cmd_reply will look it up by, even when
\* its generation was read before a RESET (line 294 reads it unlocked).
NoRequestLost ==
  \A o \in Unanswered : InRing(Descriptor(o)) \/ Descriptor(o) \in held

\* The daemon never meets a descriptor of another session (it would raise and
\* desync): release and SETUP leave nothing of the old ring behind.
NoSessionMismatch ==
  \A m \in held \cup {transport[i] : i \in 1..Len(transport)} : m.session = session

-----------------------------------------------------------------------------
(* Strengthenings that make the safety properties inductive.               *)

\* A cleared object is unanswered, and NoLostWakeup.
WakeInv ==
  /\ \A o \in Objects : pc[o] = "fresh" => ~replied[o]
  /\ NoLostWakeup

\* Ids of listed requests were handed out, and DistinctIds.
IdInv ==
  /\ \A o \in Objects : Listed(o) => reqId[o] <= nextId
  /\ DistinctIds

\* Without a started daemon the ring and the daemon hold nothing.
LinkInv ==
  /\ link # "started" => transport = <<>> /\ held = {}
  /\ DaemonLossFailsWaiters
  /\ NoSessionMismatch

\* Unless a completion went astray, only answered requests are complete: the
\* callers that return without giving a credit back owe none.
AnsweredInv ==
  ~stray => \A o \in Objects :
              /\ pc[o] # "free" /\ done[o] => replied[o]
              /\ pc[o] = "woken" => replied[o]

CreditInv == AnsweredInv /\ NoCreditLeak

-----------------------------------------------------------------------------
(* Liveness.                                                               *)

\* RESET holds runtime->lock and waits for a call that needs this lock to
\* return: neither ends, nor does any other call.
Wedged == resetting /\ \E o \in Objects : Joined(o)

\* Every call returns, by answer, by the runtime_timeout_ms timeout or by the
\* failure of RESET or release, whatever the daemon does; unless a RESET meets
\* a call that it waits for.
CallReturnsUnlessWedged ==
  \A o \in Objects : pc[o] # "free" ~> pc[o] = "free" \/ Wedged

-----------------------------------------------------------------------------
(* What a document says and the code does not keep.                        *)

\* docs/runtime-bridge-v2.md: "The kernel only completes the original bus
\* operation after the full logical reply has been reassembled": a request is
\* complete only if it was replied to.
CompletedOnlyByReply == \A o \in Objects : Listed(o) /\ done[o] => replied[o]

\* sensorium-runtime.c: runtime_timeout_ms is the "Runtime bridge timeout in
\* milliseconds for daemon-backed bus operations": every call returns.
CallReturns == \A o \in Objects : pc[o] # "free" ~> pc[o] = "free"

=============================================================================

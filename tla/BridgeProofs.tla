----------------------------- MODULE BridgeProofs -----------------------------
(***************************************************************************)
(* Proofs about the kernel bridge.                                         *)
(*                                                                         *)
(* BridgeRequests (Spec): type correctness and the safety properties of    *)
(* the request table, for every set of request objects and every value of  *)
(* the limits.                                                             *)
(*                                                                         *)
(* PayloadRing (RingSpec): payloads stay inside their zone, an idle ring   *)
(* takes half a zone, and the ring implements a queue of messages, for     *)
(* every ring, zone and counter width the assumption allows.               *)
(***************************************************************************)
EXTENDS BridgeRequests, PayloadRing, FiniteSetTheorems, SequenceTheorems, TLAPS

-----------------------------------------------------------------------------
(* The request table.                                                      *)

\* Every step is one of these; used to split the proofs.
LEMMA NextCases ==
  ASSUME [Next]_vars
  PROVE  \/ \E o \in Objects, k \in Kinds : Begin(o, k)
         \/ \E o \in Objects : Enqueue(o)
         \/ \E o \in Objects : Refuse(o)
         \/ \E o \in Objects : Wake(o)
         \/ \E o \in Objects : Expire(o)
         \/ \E o \in Objects : TimeOut(o)
         \/ \E o \in Objects : Finish(o)
         \/ Open \/ Setup \/ Start \/ Release \/ Drain \/ Complete
         \/ ResetBegin \/ ResetFinish
         \/ \E m \in held : ReplyIgnored(m)
         \/ \E m \in held : \E s \in {"OK", "EIO"} : Reply(m, s)
         \/ UNCHANGED vars
  BY DEF Next, Caller, Session, Daemon

-----------------------------------------------------------------------------
\* Appending a message (Enqueue) keeps the ring a sequence of messages.
LEMMA AppendType ==
  ASSUME NEW S, NEW q \in Seq(S), NEW e \in S
  PROVE  Append(q, e) \in Seq(S)
  OBVIOUS

\* What Enqueue's Append leaves in each slot of the ring.
LEMMA AppendElements ==
  ASSUME NEW S, NEW q \in Seq(S), NEW e \in S
  PROVE  /\ Len(Append(q, e)) = Len(q) + 1
         /\ Append(q, e)[Len(q) + 1] = e
         /\ \A i \in 1..Len(q) : Append(q, e)[i] = q[i]
         /\ 1..(Len(q) + 1) = 1..Len(q) \cup {Len(q) + 1}
  OBVIOUS

\* Taking a message off (Drain) keeps the ring a sequence of messages.
LEMMA TailType ==
  ASSUME NEW S, NEW q \in Seq(S), q # <<>>
  PROVE  /\ Tail(q) \in Seq(S)
         /\ Head(q) \in S
  OBVIOUS

\* Type correctness of the bridge state: the request table, the credits, the
\* ring and the daemon's session stay in their domains.
THEOREM TypeCorrect == Spec => []TypeOK
<1>1. Init => TypeOK
  <2> SUFFICES ASSUME Init PROVE TypeOK
    OBVIOUS
  <2>1. transport \in Seq(Messages) /\ held \in SUBSET Messages
    BY DEF Init
  <2>2. resetting \in BOOLEAN /\ stray \in BOOLEAN
    BY DEF Init
  <2> QED BY <2>1, <2>2 DEF Init, TypeOK, Phases, Statuses
<1>2. TypeOK /\ [Next]_vars => TypeOK'
  <2> SUFFICES ASSUME TypeOK, [Next]_vars PROVE TypeOK'
    OBVIOUS
  <2> USE DEF TypeOK, Phases, Statuses, Returned, daemonVars, callVars
  <2>1. ASSUME NEW o \in Objects, NEW k \in Kinds, Begin(o, k) PROVE TypeOK'
    BY <2>1 DEF Begin
  <2>2. ASSUME NEW o \in Objects, Enqueue(o) PROVE TypeOK'
    <3>1. [id |-> nextId + 1, gen |-> reqGen[o], session |-> session] \in Messages
      BY DEF Messages
    <3>2. transport' \in Seq(Messages)
      BY <2>2, <3>1, AppendType DEF Enqueue
    <3> QED BY <2>2, <3>2 DEF Enqueue
  <2>3. ASSUME NEW o \in Objects,
               Refuse(o) \/ Wake(o) \/ Expire(o) \/ Finish(o)
        PROVE TypeOK'
    <3>1. CASE Refuse(o) BY <3>1 DEF Refuse
    <3>2. CASE Wake(o) BY <3>2 DEF Wake
    <3>3. CASE Expire(o) BY <3>3 DEF Expire
    <3>4. CASE Finish(o) BY <3>4 DEF Finish
    <3> QED BY <2>3, <3>1, <3>2, <3>3, <3>4
  <2>4. ASSUME NEW o \in Objects, TimeOut(o) PROVE TypeOK'
    BY <2>4 DEF TimeOut, CreditReturned
  <2>5. CASE Open
    BY <2>5 DEF Open
  <2>6. CASE Setup \/ Start
    <3>1. <<>> \in Seq(Messages) /\ 0 \in Nat
      OBVIOUS
    <3> QED BY <2>6, <3>1, Zenon DEF Setup, Start
  <2>7. CASE Release
    BY <2>7 DEF Release, FailAll
  <2>8. CASE Drain
    <3>1. Tail(transport) \in Seq(Messages) /\ Head(transport) \in Messages
      BY <2>8, TailType DEF Drain
    <3> QED BY <2>8, <3>1 DEF Drain
  <2>9. CASE Complete
    BY <2>9 DEF Complete
  <2>10. CASE ResetBegin
    BY <2>10 DEF ResetBegin, FailAll
  <2>11. CASE ResetFinish
    <3>1. generation' \in Nat
      BY <2>11 DEF ResetFinish
    <3>2. resetting' \in BOOLEAN
      BY <2>11 DEF ResetFinish
    <3> QED BY <2>11, <3>1, <3>2, Zenon DEF ResetFinish
  <2>12. ASSUME NEW m \in held, ReplyIgnored(m) PROVE TypeOK'
    BY <2>12 DEF ReplyIgnored
  <2>13. ASSUME NEW m \in held, NEW s \in {"OK", "EIO"}, Reply(m, s) PROVE TypeOK'
    BY <2>13 DEF Reply, CreditReturned
  <2>14. CASE UNCHANGED vars
    BY <2>14 DEF vars
  <2> QED
    BY <2>1, <2>2, <2>3, <2>4, <2>5, <2>6, <2>7, <2>8, <2>9, <2>10, <2>11,
       <2>12, <2>13, <2>14, NextCases
<1> QED BY <1>1, <1>2, PTL DEF Spec

-----------------------------------------------------------------------------
\* A reply is never slept through: WakeInv is inductive over TypeOK, so every
\* request marked replied is complete or owed its complete_all.
THEOREM WakeInductive == Spec => []WakeInv
<1>1. Init => WakeInv
  BY DEF Init, WakeInv, NoLostWakeup, Listed
<1>2. TypeOK /\ WakeInv /\ [Next]_vars => WakeInv'
  <2> SUFFICES ASSUME TypeOK, WakeInv, [Next]_vars PROVE WakeInv'
    OBVIOUS
  <2> USE DEF TypeOK, Phases, WakeInv, NoLostWakeup, Listed, Returned, daemonVars,
              callVars
  <2>1. ASSUME NEW o \in Objects, NEW k \in Kinds, Begin(o, k) PROVE WakeInv'
    BY <2>1 DEF Begin
  <2>2. ASSUME NEW o \in Objects, Enqueue(o) PROVE WakeInv'
    BY <2>2 DEF Enqueue
  <2>3. ASSUME NEW o \in Objects, Refuse(o) PROVE WakeInv'
    BY <2>3 DEF Refuse
  <2>4. ASSUME NEW o \in Objects, Wake(o) PROVE WakeInv'
    BY <2>4 DEF Wake
  <2>5. ASSUME NEW o \in Objects, Expire(o) PROVE WakeInv'
    BY <2>5 DEF Expire
  <2>6. ASSUME NEW o \in Objects, TimeOut(o) PROVE WakeInv'
    BY <2>6 DEF TimeOut
  <2>7. ASSUME NEW o \in Objects, Finish(o) PROVE WakeInv'
    BY <2>7 DEF Finish
  <2>8. CASE Open
    BY <2>8 DEF Open
  <2>9. CASE Setup
    BY <2>9 DEF Setup
  <2>10. CASE Start
    BY <2>10 DEF Start
  <2>11. CASE Release
    BY <2>11 DEF Release, FailAll, Unanswered
  <2>12. CASE Drain
    BY <2>12 DEF Drain
  <2>13. CASE Complete
    BY <2>13, NoObjectAssumption DEF Complete
  <2>14. CASE ResetBegin
    BY <2>14 DEF ResetBegin, FailAll, Unanswered
  <2>15. CASE ResetFinish
    BY <2>15 DEF ResetFinish
  <2>16. ASSUME NEW m \in held, ReplyIgnored(m) PROVE WakeInv'
    BY <2>16 DEF ReplyIgnored
  <2>17. ASSUME NEW m \in held, NEW s \in {"OK", "EIO"}, Reply(m, s) PROVE WakeInv'
    BY <2>17, NoObjectAssumption DEF Reply, Matches
  <2>18. CASE UNCHANGED vars
    BY <2>18 DEF vars
  <2> QED
    BY <2>1, <2>2, <2>3, <2>4, <2>5, <2>6, <2>7, <2>8, <2>9, <2>10, <2>11,
       <2>12, <2>13, <2>14, <2>15, <2>16, <2>17, <2>18, NextCases
<1> QED BY <1>1, <1>2, TypeCorrect, PTL DEF Spec

\* No caller sleeps through its answer.
THEOREM WakeupSafe == Spec => []NoLostWakeup
<1>1. WakeInv => NoLostWakeup
  BY DEF WakeInv
<1> QED BY <1>1, WakeInductive, PTL

-----------------------------------------------------------------------------
\* Two listed requests never share an id, so a reply names one request: ids
\* come from next_request_id, incremented under the lock that lists them.
THEOREM IdInductive == Spec => []IdInv
<1>1. Init => IdInv
  BY DEF Init, IdInv, DistinctIds, Listed
<1>2. TypeOK /\ IdInv /\ [Next]_vars => IdInv'
  <2> SUFFICES ASSUME TypeOK, IdInv, [Next]_vars PROVE IdInv'
    OBVIOUS
  <2> USE DEF TypeOK, Phases, IdInv, DistinctIds, Listed, Returned, daemonVars,
              callVars
  <2>1. ASSUME NEW o \in Objects, NEW k \in Kinds, Begin(o, k) PROVE IdInv'
    BY <2>1 DEF Begin
  <2>2. ASSUME NEW o \in Objects, Enqueue(o) PROVE IdInv'
    <3>1. /\ reqId'[o] = nextId + 1 /\ nextId' = nextId + 1
          /\ \A p \in Objects \ {o} : reqId'[p] = reqId[p] /\ pc'[p] = pc[p]
      BY <2>2 DEF Enqueue
    <3>2. \A p \in Objects \ {o} : Listed(p)' => reqId'[p] <= nextId
      BY <3>1
    <3>3. nextId \in Nat /\ \A p \in Objects : reqId[p] \in Nat
      OBVIOUS
    <3> HIDE DEF TypeOK, DistinctIds, IdInv, Listed
    <3>4. \A p \in Objects : Listed(p)' => reqId'[p] <= nextId'
      <4> TAKE p \in Objects
      <4>1. CASE p = o BY <3>1, <3>3, <4>1
      <4>2. CASE p # o BY <3>1, <3>2, <3>3, <4>2
      <4> QED BY <4>1, <4>2
    <3>5. ASSUME NEW p \in Objects, NEW q \in Objects, Listed(p)', Listed(q)', p # q
          PROVE  reqId'[p] # reqId'[q]
      <4>1. CASE p = o
        BY <3>1, <3>2, <3>3, <3>5, <4>1
      <4>2. CASE q = o
        BY <3>1, <3>2, <3>3, <3>5, <4>2
      <4>3. CASE p # o /\ q # o
        BY <3>1, <3>5, <4>3 DEF Listed, DistinctIds, IdInv
      <4> QED BY <4>1, <4>2, <4>3
    <3> QED BY <3>4, <3>5 DEF IdInv, DistinctIds
  <2>3. ASSUME NEW o \in Objects, Refuse(o) PROVE IdInv'
    BY <2>3 DEF Refuse
  <2>4. ASSUME NEW o \in Objects, Wake(o) \/ Expire(o) PROVE IdInv'
    <3>1. CASE Wake(o)
      BY <3>1 DEF Wake
    <3>2. CASE Expire(o)
      BY <3>2 DEF Expire
    <3> QED BY <2>4, <3>1, <3>2
  <2>5. ASSUME NEW o \in Objects, TimeOut(o) \/ Finish(o) PROVE IdInv'
    <3>1. CASE TimeOut(o)
      BY <3>1 DEF TimeOut
    <3>2. CASE Finish(o)
      BY <3>2 DEF Finish
    <3> QED BY <2>5, <3>1, <3>2
  <2>6. ASSUME UNCHANGED <<pc, reqId, nextId>> PROVE IdInv'
    BY <2>6
  <2>7. CASE Open \/ Setup \/ Start \/ Release \/ Drain \/ Complete
    BY <2>6, <2>7 DEF Open, Setup, Start, Release, Drain, Complete
  <2>8. CASE ResetBegin \/ ResetFinish
    BY <2>6, <2>8 DEF ResetBegin, ResetFinish
  <2>9. ASSUME NEW m \in held, ReplyIgnored(m) PROVE IdInv'
    BY <2>6, <2>9 DEF ReplyIgnored
  <2>10. ASSUME NEW m \in held, NEW s \in {"OK", "EIO"}, Reply(m, s) PROVE IdInv'
    BY <2>6, <2>10 DEF Reply
  <2>11. CASE UNCHANGED vars
    BY <2>6, <2>11 DEF vars
  <2> QED
    BY <2>1, <2>2, <2>3, <2>4, <2>5, <2>7, <2>8, <2>9, <2>10, <2>11, NextCases
<1> QED BY <1>1, <1>2, TypeCorrect, PTL DEF Spec

\* A reply names at most one request.
THEOREM IdsDistinct == Spec => []DistinctIds
<1>1. IdInv => DistinctIds
  BY DEF IdInv
<1> QED BY <1>1, IdInductive, PTL

-----------------------------------------------------------------------------
\* After the daemon's release nobody waits for an answer and nothing of its
\* session survives: DaemonLossFailsWaiters and NoSessionMismatch together.
THEOREM LinkInductive == Spec => []LinkInv
<1>1. Init => LinkInv
  BY DEF Init, LinkInv, DaemonLossFailsWaiters, NoSessionMismatch, Unanswered, Listed
<1>2. TypeOK /\ LinkInv /\ [Next]_vars => LinkInv'
  <2> SUFFICES ASSUME TypeOK, LinkInv, [Next]_vars PROVE LinkInv'
    OBVIOUS
  <2> USE DEF TypeOK, Phases, LinkInv, DaemonLossFailsWaiters, NoSessionMismatch,
              Unanswered, Listed, Returned, daemonVars, callVars
  <2>1. ASSUME NEW o \in Objects, NEW k \in Kinds, Begin(o, k) PROVE LinkInv'
    BY <2>1 DEF Begin
  <2>2. ASSUME NEW o \in Objects, Enqueue(o) PROVE LinkInv'
    <3> DEFINE d == [id |-> nextId + 1, gen |-> reqGen[o], session |-> session]
    <3>1. /\ transport' = Append(transport, d) /\ d \in Messages /\ d.session = session
          /\ link = "started" /\ UNCHANGED <<link, held, session>>
      BY <2>2 DEF Enqueue, Messages
    <3> HIDE DEF d
    <3>2. \A i \in 1..Len(transport') :
            transport'[i] = d \/ (i \in 1..Len(transport) /\ transport'[i] = transport[i])
      <4>1. transport \in Seq(Messages)
        OBVIOUS
      <4> HIDE DEF TypeOK, LinkInv
      <4> QED BY <3>1, <4>1, AppendElements
    <3>3. \A i \in 1..Len(transport') : transport'[i].session = session'
      BY <3>1, <3>2
    <3>4. NoSessionMismatch'
      BY <3>1, <3>3
    <3> QED BY <3>1, <3>4
  <2>3. ASSUME NEW o \in Objects, Refuse(o) PROVE LinkInv'
    BY <2>3 DEF Refuse
  <2>4. ASSUME NEW o \in Objects, Wake(o) \/ Expire(o) PROVE LinkInv'
    BY <2>4 DEF Wake, Expire
  <2>5. ASSUME NEW o \in Objects, TimeOut(o) \/ Finish(o) PROVE LinkInv'
    BY <2>5 DEF TimeOut, Finish
  <2>6. CASE Open
    BY <2>6 DEF Open
  <2>7. CASE Setup \/ Start
    <3>1. UNCHANGED <<pc, replied, held, session>> /\ transport' = <<>>
      BY <2>7 DEF Setup, Start
    <3>2. link # "started"
      BY <2>7 DEF Setup, Start
    <3>3. NoSessionMismatch'
      BY <3>1
    <3> QED BY <3>1, <3>2, <3>3
  <2>8. CASE Release
    <3>1. /\ \A o \in Objects : pc'[o] = pc[o] /\ (Listed(o) => replied'[o])
          /\ transport' = <<>> /\ held' = {} /\ session' = session
      BY <2>8 DEF Release, FailAll
    <3>2. NoSessionMismatch'
      BY <3>1
    <3>3. Unanswered' = {}
      BY <3>1
    <3> QED BY <3>1, <3>2, <3>3
  <2>9. CASE Drain
    <3>1. \A i \in 1..Len(Tail(transport)) :
            i + 1 \in 1..Len(transport) /\ Tail(transport)[i] = transport[i + 1]
      BY <2>9 DEF Drain
    <3> QED BY <2>9, <3>1 DEF Drain
  <2>10. CASE Complete
    BY <2>10 DEF Complete
  <2>11. CASE ResetBegin
    BY <2>11 DEF ResetBegin, FailAll
  <2>12. CASE ResetFinish
    BY <2>12 DEF ResetFinish
  <2>13. ASSUME NEW m \in held, ReplyIgnored(m) PROVE LinkInv'
    BY <2>13 DEF ReplyIgnored
  <2>14. ASSUME NEW m \in held, NEW s \in {"OK", "EIO"}, Reply(m, s) PROVE LinkInv'
    BY <2>14 DEF Reply
  <2>15. CASE UNCHANGED vars
    BY <2>15 DEF vars
  <2> QED
    BY <2>1, <2>2, <2>3, <2>4, <2>5, <2>6, <2>7, <2>8, <2>9, <2>10, <2>11,
       <2>12, <2>13, <2>14, <2>15, NextCases
<1> QED BY <1>1, <1>2, TypeCorrect, PTL DEF Spec

\* The daemon's death fails every waiting call (bridge_release).
THEOREM DaemonLossSafe == Spec => []DaemonLossFailsWaiters
<1>1. LinkInv => DaemonLossFailsWaiters
  BY DEF LinkInv
<1> QED BY <1>1, LinkInductive, PTL

\* The daemon never reads a descriptor of another session.
THEOREM SessionSafe == Spec => []NoSessionMismatch
<1>1. LinkInv => NoSessionMismatch
  BY DEF LinkInv
<1> QED BY <1>1, LinkInductive, PTL

-----------------------------------------------------------------------------
\* An unanswered request is in the ring or with the daemon, under the id and
\* generation cmd_reply finds it by: no reply is refused to a waiting caller
\* because RESET moved the generation on.
THEOREM RequestsKept == Spec => []NoRequestLost
<1>1. Init => NoRequestLost
  BY DEF Init, NoRequestLost, Unanswered, Listed
<1>2. TypeOK /\ IdInv /\ LinkInv /\ LinkInv' /\ NoRequestLost /\ [Next]_vars
        => NoRequestLost'
  <2> SUFFICES ASSUME TypeOK, IdInv, LinkInv, LinkInv', NoRequestLost, [Next]_vars
               PROVE  NoRequestLost'
    OBVIOUS
  <2> USE DEF NoRequestLost, Unanswered, Listed, InRing, Descriptor
  <2>1. ASSUME Unanswered' = {} PROVE NoRequestLost'
    BY <2>1
  <2>2. ASSUME Unanswered' \subseteq Unanswered,
               UNCHANGED <<reqId, reqGen, session, transport, held>>
        PROVE  NoRequestLost'
    BY <2>2
  <2>3. ASSUME NEW o \in Objects, NEW k \in Kinds, Begin(o, k) PROVE NoRequestLost'
    BY <2>3 DEF Begin, daemonVars, TypeOK
  <2>4. ASSUME NEW o \in Objects, Enqueue(o) PROVE NoRequestLost'
    <3> DEFINE d == [id |-> nextId + 1, gen |-> reqGen[o], session |-> session]
    <3>1. /\ transport' = Append(transport, d) /\ d \in Messages
          /\ UNCHANGED <<held, session, reqGen, replied>>
          /\ Descriptor(o)' = d
          /\ \A p \in Objects \ {o} : pc'[p] = pc[p] /\ reqId'[p] = reqId[p]
      BY <2>4 DEF Enqueue, Messages, daemonVars, TypeOK
    <3>2. transport \in Seq(Messages)
      BY DEF TypeOK
    <3> HIDE DEF d
    <3>3. /\ Len(transport') = Len(transport) + 1
          /\ transport'[Len(transport) + 1] = d
          /\ \A i \in 1..Len(transport) : transport'[i] = transport[i]
          /\ 1..Len(transport') = 1..Len(transport) \cup {Len(transport) + 1}
      BY <3>1, <3>2, AppendElements
    <3>6. \A m : InRing(m) => \E i \in 1..Len(transport') : transport'[i] = m
      BY <3>3
    <3>4. ASSUME NEW p \in Objects \ {o}, p \in Unanswered'
          PROVE  Descriptor(p)' = Descriptor(p) /\ p \in Unanswered
      BY <3>1, <3>4
    <3> HIDE DEF InRing, Descriptor, Unanswered
    <3>5. ASSUME NEW p \in Objects, p \in Unanswered'
          PROVE  InRing(Descriptor(p))' \/ Descriptor(p)' \in held'
      <4>1. CASE p = o
        BY <3>1, <3>3, <4>1 DEF InRing
      <4>2. CASE p # o
        <5>1. InRing(Descriptor(p)) \/ Descriptor(p) \in held
          BY <3>4, <3>5, <4>2
        <5>2. Descriptor(p)' = Descriptor(p)
          BY <3>4, <3>5, <4>2
        <5> QED BY <3>1, <3>6, <5>1, <5>2 DEF InRing
      <4> QED BY <4>1, <4>2
    <3> QED BY <3>5 DEF Unanswered
  <2>5. ASSUME NEW o \in Objects, Refuse(o) PROVE NoRequestLost'
    BY <2>2, <2>5 DEF Refuse, Returned, daemonVars, TypeOK
  <2>6. ASSUME NEW o \in Objects, Wake(o) \/ Expire(o) PROVE NoRequestLost'
    <3>1. UNCHANGED <<reqId, reqGen, session, transport, held, replied>>
      BY <2>6 DEF Wake, Expire, daemonVars
    <3>2. Unanswered' \subseteq Unanswered
      BY <2>6, <3>1 DEF Wake, Expire, TypeOK
    <3> QED BY <2>2, <3>1, <3>2
  <2>7. ASSUME NEW o \in Objects, TimeOut(o) \/ Finish(o) PROVE NoRequestLost'
    <3>1. UNCHANGED <<reqId, reqGen, session, transport, held, replied>>
      BY <2>7 DEF TimeOut, Finish, daemonVars
    <3>2. Unanswered' \subseteq Unanswered
      BY <2>7, <3>1 DEF TimeOut, Finish, Returned, TypeOK
    <3> QED BY <2>2, <3>1, <3>2
  <2>8. CASE Open \/ Setup \/ Start
    <3>1. link # "started" /\ UNCHANGED <<pc, replied>>
      BY <2>8 DEF Open, Setup, Start, callVars
    <3>2. Unanswered' = {}
      BY <3>1 DEF LinkInv, DaemonLossFailsWaiters
    <3> QED BY <2>1, <3>2
  <2>9. CASE Release
    <3>1. link' # "started"
      BY <2>9 DEF Release
    <3> QED BY <2>1, <3>1 DEF LinkInv, DaemonLossFailsWaiters
  <2>10. CASE Drain
    <3>1. /\ transport \in Seq(Messages) /\ transport # <<>>
          /\ transport' = Tail(transport) /\ held' = held \cup {Head(transport)}
          /\ UNCHANGED <<pc, reqId, reqGen, replied, session>>
      BY <2>10 DEF Drain, callVars, TypeOK
    <3>2. \A m : InRing(m) => InRing(m)' \/ m \in held'
      <4> SUFFICES ASSUME NEW m, NEW i \in 1..Len(transport), transport[i] = m
                   PROVE  InRing(m)' \/ m \in held'
        OBVIOUS
      <4>1. CASE i = 1
        BY <3>1, <4>1
      <4>2. CASE i # 1
        <5>1. i - 1 \in 1..Len(transport') /\ transport'[i - 1] = transport[i]
          BY <3>1, <4>2
        <5> QED BY <5>1
      <4> QED BY <4>1, <4>2
    <3> HIDE DEF InRing
    <3>3. \A o : Descriptor(o)' = Descriptor(o)
      BY <3>1
    <3>4. Unanswered' = Unanswered
      BY <3>1
    <3> HIDE DEF Descriptor, Unanswered
    <3>5. ASSUME NEW o \in Unanswered' PROVE InRing(Descriptor(o))' \/ Descriptor(o)' \in held'
      <4>1. InRing(Descriptor(o)) \/ Descriptor(o) \in held
        BY <3>4, <3>5
      <4>2. held \subseteq held'
        BY <3>1
      <4> QED BY <3>2, <3>3, <4>1, <4>2 DEF InRing
    <3> QED BY <3>5
  <2>11. CASE Complete
    BY <2>2, <2>11 DEF Complete
  <2>12. CASE ResetBegin
    <3>1. Unanswered' = {}
      BY <2>12 DEF ResetBegin, FailAll, TypeOK
    <3> QED BY <2>1, <3>1
  <2>13. CASE ResetFinish
    BY <2>2, <2>13 DEF ResetFinish, callVars, daemonVars
  <2>14. ASSUME NEW m \in held, ReplyIgnored(m) PROVE NoRequestLost'
    <3>1. /\ UNCHANGED <<pc, reqId, reqGen, replied, session, transport>>
          /\ held' = held \ {m}
      BY <2>14 DEF ReplyIgnored, callVars
    <3>2. \A o \in Unanswered : Descriptor(o) # m
      BY <2>14 DEF ReplyIgnored, Matches
    <3> QED BY <3>1, <3>2
  <2>15. ASSUME NEW m \in held, NEW s \in {"OK", "EIO"}, Reply(m, s)
         PROVE  NoRequestLost'
    <3>1. PICK o \in Objects : Matches(o, m) /\ replied' = [replied EXCEPT ![o] = TRUE]
      BY <2>15 DEF Reply
    <3>2. UNCHANGED <<pc, reqId, reqGen, session, transport>> /\ held' = held \ {m}
      BY <2>15 DEF Reply
    <3>3. Unanswered' = Unanswered \ {o}
      BY <3>1, <3>2 DEF TypeOK
    <3>4. \A p \in Unanswered' : Descriptor(p) # m
      BY <3>1, <3>3 DEF Matches, IdInv, DistinctIds
    <3> QED BY <3>2, <3>3, <3>4
  <2>16. CASE UNCHANGED vars
    BY <2>2, <2>16 DEF vars
  <2> QED
    BY <2>3, <2>4, <2>5, <2>6, <2>7, <2>8, <2>9, <2>10, <2>11, <2>12, <2>13,
       <2>14, <2>15, <2>16, NextCases
<1> QED BY <1>1, <1>2, TypeCorrect, IdInductive, LinkInductive, PTL DEF Spec

-----------------------------------------------------------------------------
(* In-flight credits. *)

\* The credits are compared with the size of a finite set of requests.
LEMMA UnansweredFinite ==
  ASSUME TypeOK
  PROVE  /\ IsFiniteSet(Unanswered)
         /\ Cardinality(Unanswered) \in Nat
<1>1. Unanswered \in SUBSET Objects
  BY DEF Unanswered
<1>2. IsFiniteSet(Unanswered)
  BY <1>1, ConstantsAssumption, FS_Subset
<1> QED BY <1>2, FS_CardinalityType

\* Giving one credit back for one request that leaves Unanswered.
LEMMA CreditForOne ==
  ASSUME TypeOK, NEW o \in Objects, Unanswered' = Unanswered \ {o},
         inflight' = CreditReturned, inflight <= Cardinality(Unanswered)
  PROVE  inflight' <= Cardinality(Unanswered')
<1>1. Cardinality(Unanswered') =
        IF o \in Unanswered THEN Cardinality(Unanswered) - 1
        ELSE Cardinality(Unanswered)
  BY UnansweredFinite, FS_RemoveElement
<1>2. inflight \in Nat /\ Cardinality(Unanswered) \in Nat
  BY UnansweredFinite DEF TypeOK
<1>3. o \in Unanswered => Cardinality(Unanswered) >= 1
  BY UnansweredFinite, FS_EmptySet, <1>2
<1> QED BY <1>1, <1>2, <1>3 DEF CreditReturned

\* Every step keeps AnsweredInv: a caller that returns without giving a credit
\* back was answered, unless a complete_all went astray.
LEMMA AnsweredStep ==
  ASSUME TypeOK, AnsweredInv, [Next]_vars
  PROVE  AnsweredInv'
<1> USE DEF TypeOK, Phases, AnsweredInv, Returned, daemonVars, callVars
<1>1. ASSUME NEW o \in Objects, NEW k \in Kinds, Begin(o, k) PROVE AnsweredInv'
  BY <1>1 DEF Begin
<1>2. ASSUME NEW o \in Objects, Enqueue(o) PROVE AnsweredInv'
  BY <1>2 DEF Enqueue
<1>3. ASSUME NEW o \in Objects, Refuse(o) PROVE AnsweredInv'
  BY <1>3 DEF Refuse
<1>4. ASSUME NEW o \in Objects, Wake(o) PROVE AnsweredInv'
  BY <1>4 DEF Wake
<1>5. ASSUME NEW o \in Objects, Expire(o) PROVE AnsweredInv'
  BY <1>5 DEF Expire
<1>6. ASSUME NEW o \in Objects, TimeOut(o) PROVE AnsweredInv'
  BY <1>6 DEF TimeOut
<1>7. ASSUME NEW o \in Objects, Finish(o) PROVE AnsweredInv'
  BY <1>7 DEF Finish
<1>8. CASE Open
  BY <1>8 DEF Open
<1>9. CASE Setup
  BY <1>9 DEF Setup
<1>10. CASE Start
  BY <1>10 DEF Start
<1>11. CASE Release
  BY <1>11 DEF Release, FailAll, Unanswered, Listed
<1>12. CASE Drain
  BY <1>12 DEF Drain
<1>13. CASE Complete
  BY <1>13 DEF Complete
<1>14. CASE ResetBegin
  BY <1>14 DEF ResetBegin, FailAll, Unanswered, Listed
<1>15. CASE ResetFinish
  BY <1>15 DEF ResetFinish
<1>16. ASSUME NEW m \in held, ReplyIgnored(m) PROVE AnsweredInv'
  BY <1>16 DEF ReplyIgnored
<1>17. ASSUME NEW m \in held, NEW s \in {"OK", "EIO"}, Reply(m, s) PROVE AnsweredInv'
  BY <1>17 DEF Reply
<1>18. CASE UNCHANGED vars
  BY <1>18 DEF vars
<1> QED
  BY <1>1, <1>2, <1>3, <1>4, <1>5, <1>6, <1>7, <1>8, <1>9, <1>10, <1>11, <1>12,
     <1>13, <1>14, <1>15, <1>16, <1>17, <1>18, NextCases

\* Credits never leak: inflight_in_use is at most the number of unanswered
\* requests, until a completion goes astray.
THEOREM CreditsSafe == Spec => []NoCreditLeak
<1>1. Init => CreditInv
  <2> SUFFICES ASSUME Init PROVE CreditInv
    OBVIOUS
  <2>1. Unanswered = {} /\ inflight = 0
    BY DEF Init, Unanswered, Listed
  <2>2. NoCreditLeak
    BY <2>1, FS_EmptySet DEF NoCreditLeak
  <2>3. AnsweredInv
    BY DEF Init, AnsweredInv
  <2> QED BY <2>2, <2>3 DEF CreditInv
<1>2. TypeOK /\ TypeOK' /\ WakeInv /\ CreditInv /\ [Next]_vars => CreditInv'
  <2> SUFFICES ASSUME TypeOK, TypeOK', WakeInv, CreditInv, [Next]_vars
               PROVE  NoCreditLeak'
    BY AnsweredStep DEF CreditInv
  <2>1. CASE stray
    <3>1. stray'
      BY <2>1, NextCases DEF Begin, Enqueue, Refuse, Wake, Expire, TimeOut, Finish,
         Open, Setup, Start, Release, Drain, Complete, ResetBegin, ResetFinish,
         ReplyIgnored, Reply, vars
    <3> QED BY <3>1 DEF NoCreditLeak
  <2>2. CASE ~stray
    <3>1. inflight <= Cardinality(Unanswered)
      BY <2>2 DEF CreditInv, NoCreditLeak
    <3>2. \A o \in Objects : pc[o] = "woken" => replied[o]
      BY <2>2 DEF CreditInv, AnsweredInv
    <3> SUFFICES inflight' <= Cardinality(Unanswered')
      BY DEF NoCreditLeak
    <3>3. ASSUME Unanswered' = Unanswered, inflight' = inflight
          PROVE  inflight' <= Cardinality(Unanswered')
      BY <3>1, <3>3
    <3>4. ASSUME inflight' = 0 PROVE inflight' <= Cardinality(Unanswered')
      <4>1. IsFiniteSet(Unanswered')
        <5>1. Unanswered' \in SUBSET Objects
          BY DEF Unanswered
        <5> QED BY <5>1, ConstantsAssumption, FS_Subset
      <4>2. Cardinality(Unanswered') \in Nat
        BY <4>1, FS_CardinalityType
      <4> QED BY <3>4, <4>2
    <3> USE DEF Returned
    <3>5. ASSUME NEW o \in Objects, NEW k \in Kinds, Begin(o, k)
          PROVE  inflight' <= Cardinality(Unanswered')
      BY <3>3, <3>5 DEF Begin, Unanswered, Listed, TypeOK
    <3>6. ASSUME NEW o \in Objects, Enqueue(o)
          PROVE  inflight' <= Cardinality(Unanswered')
      <4>1. o \notin Unanswered /\ Unanswered' = Unanswered \cup {o}
        BY <3>6 DEF Enqueue, Unanswered, Listed, WakeInv, TypeOK
      <4>2. Cardinality(Unanswered') = Cardinality(Unanswered) + 1
        BY <4>1, UnansweredFinite, FS_AddElement
      <4>3. inflight' = inflight + 1
        BY <3>6 DEF Enqueue
      <4>4. Cardinality(Unanswered) \in Nat
        BY UnansweredFinite
      <4>5. inflight \in Nat
        BY DEF TypeOK
      <4> QED BY <3>1, <4>2, <4>3, <4>4, <4>5
    <3>7. ASSUME NEW o \in Objects, Refuse(o)
          PROVE  inflight' <= Cardinality(Unanswered')
      BY <3>3, <3>7 DEF Refuse, Unanswered, Listed, TypeOK
    <3>8. ASSUME NEW o \in Objects, Wake(o)
          PROVE  inflight' <= Cardinality(Unanswered')
      BY <3>3, <3>8 DEF Wake, Unanswered, Listed, TypeOK
    <3>9. ASSUME NEW o \in Objects, Expire(o)
          PROVE  inflight' <= Cardinality(Unanswered')
      BY <3>3, <3>9 DEF Expire, Unanswered, Listed, TypeOK
    <3>10. ASSUME NEW o \in Objects, TimeOut(o)
           PROVE  inflight' <= Cardinality(Unanswered')
      <4>1. Unanswered' = Unanswered \ {o}
        BY <3>10 DEF TimeOut, Unanswered, Listed, TypeOK
      <4>2. inflight' = CreditReturned
        BY <3>10 DEF TimeOut
      <4> QED BY <3>1, <4>1, <4>2, CreditForOne
    <3>11. ASSUME NEW o \in Objects, Finish(o)
           PROVE  inflight' <= Cardinality(Unanswered')
      <4>1. Unanswered' = Unanswered
        BY <3>2, <3>11 DEF Finish, Unanswered, Listed, TypeOK
      <4>2. inflight' = inflight
        BY <3>11 DEF Finish
      <4> QED BY <3>3, <4>1, <4>2
    <3>12. CASE Open
      BY <3>3, <3>12 DEF Open, callVars, Unanswered, Listed
    <3>13. CASE Setup \/ Start \/ Release \/ ResetBegin
      BY <3>4, <3>13 DEF Setup, Start, Release, ResetBegin, FailAll
    <3>14. CASE Drain
      BY <3>3, <3>14 DEF Drain, callVars, Unanswered, Listed
    <3>15. CASE Complete
      BY <3>3, <3>15 DEF Complete, Unanswered, Listed
    <3>16. CASE ResetFinish
      BY <3>3, <3>16 DEF ResetFinish, callVars, Unanswered, Listed
    <3>17. ASSUME NEW m \in held, ReplyIgnored(m)
           PROVE  inflight' <= Cardinality(Unanswered')
      BY <3>3, <3>17 DEF ReplyIgnored, callVars, Unanswered, Listed
    <3>18. ASSUME NEW m \in held, NEW s \in {"OK", "EIO"}, Reply(m, s)
           PROVE  inflight' <= Cardinality(Unanswered')
      <4>1. PICK o \in Objects : replied' = [replied EXCEPT ![o] = TRUE]
        BY <3>18 DEF Reply
      <4>2. Unanswered' = Unanswered \ {o}
        BY <3>18, <4>1 DEF Reply, Unanswered, Listed, TypeOK
      <4>3. inflight' = CreditReturned
        BY <3>18 DEF Reply
      <4> QED BY <3>1, <4>2, <4>3, CreditForOne
    <3>19. CASE UNCHANGED vars
      BY <3>3, <3>19 DEF vars, Unanswered, Listed
    <3> QED
      BY <3>5, <3>6, <3>7, <3>8, <3>9, <3>10, <3>11, <3>12, <3>13, <3>14, <3>15,
         <3>16, <3>17, <3>18, <3>19, NextCases
  <2> QED BY <2>1, <2>2
<1>3. CreditInv => NoCreditLeak
  BY DEF CreditInv
<1> QED BY <1>1, <1>2, <1>3, TypeCorrect, WakeInductive, PTL DEF Spec

-----------------------------------------------------------------------------
(* The ring and its payload zone.                                          *)

-----------------------------------------------------------------------------
(* Arithmetic modulo n.                                                    *)

\* Quotient and remainder.
LEMMA DivMod ==
  ASSUME NEW a \in Int, NEW n \in Nat \ {0}
  PROVE  a % n \in 0..n-1 /\ (a \div n) \in Int /\ a = n * (a \div n) + (a % n)
OBVIOUS

\* A positive multiple of n is at least n.
LEMMA Multiple ==
  ASSUME NEW n \in Nat \ {0}, NEW k \in Int, k >= 1
  PROVE  n * k >= n
OBVIOUS

\* The remainder is unique.
LEMMA Remainder ==
  ASSUME NEW n \in Nat \ {0}, NEW q \in Int, NEW r \in 0..n-1, NEW a \in Int, a = n * q + r
  PROVE  a % n = r
<1> DEFINE p == a \div n
           s == a % n
<1>1. p \in Int /\ s \in 0..n-1 /\ a = n * p + s
  BY DivMod
<1> HIDE DEF p, s
<1>2. n * (q - p) = s - r /\ n * (p - q) = r - s
  BY <1>1
<1>3. CASE q - p >= 1
  <2>1. n * (q - p) >= n
    BY <1>1, <1>3, Multiple
  <2> QED BY <1>1, <1>2, <2>1
<1>4. CASE p - q >= 1
  <2>1. n * (p - q) >= n
    BY <1>1, <1>4, Multiple
  <2> QED BY <1>1, <1>2, <2>1
<1>5. CASE p = q
  BY <1>1, <1>5 DEF s
<1> QED BY <1>1, <1>3, <1>4, <1>5

\* Nothing happens below n ...
LEMMA Small ==
  ASSUME NEW n \in Nat \ {0}, NEW a \in 0..n-1
  PROVE  a % n = a
OBVIOUS

\* ... and n is taken off or added once next to it.
LEMMA Beside ==
  ASSUME NEW n \in Nat \ {0}, NEW a \in Int
  PROVE  /\ a \in n..(2 * n - 1) => a % n = a - n
         /\ a \in (-n)..(-1) => a % n = a + n
<1>1. ASSUME a \in n..(2 * n - 1) PROVE a % n = a - n
  <2>1. a - n \in 0..n-1 /\ a = n * 1 + (a - n)
    BY <1>1
  <2> QED BY <2>1, Remainder
<1>2. ASSUME a \in (-n)..(-1) PROVE a % n = a + n
  <2>1. a + n \in 0..n-1 /\ a = n * (-1) + (a + n)
    BY <1>2
  <2> QED BY <2>1, Remainder
<1> QED BY <1>1, <1>2

\* A remainder in a sum, in a difference, and of a remainder.
LEMMA ModAdd ==
  ASSUME NEW a \in Int, NEW b \in Int, NEW n \in Nat \ {0}
  PROVE  ((a % n) + b) % n = (a + b) % n
<1> DEFINE q == a \div n
           r == a % n
           p == (r + b) \div n
           s == (r + b) % n
           c == a + b
           m == q + p
<1>1. q \in Int /\ r \in 0..n-1 /\ a = n * q + r
  BY DivMod
<1>2. p \in Int /\ s \in 0..n-1 /\ r + b = n * p + s
  BY <1>1, DivMod
<1> HIDE DEF q, r, p, s
<1>3. c = n * m + s /\ m \in Int /\ c \in Int
  BY <1>1, <1>2
<1> HIDE DEF c, m
<1>4. c % n = s
  BY <1>2, <1>3, Remainder
<1> QED BY <1>4 DEF s, r, c

\* The same for a difference.
LEMMA ModSub ==
  ASSUME NEW a \in Int, NEW b \in Int, NEW n \in Nat \ {0}
  PROVE  (b - (a % n)) % n = (b - a) % n
<1> DEFINE q == a \div n
           r == a % n
           p == (b - r) \div n
           s == (b - r) % n
           c == b - a
           m == p - q
<1>1. q \in Int /\ r \in 0..n-1 /\ a = n * q + r
  BY DivMod
<1>2. p \in Int /\ s \in 0..n-1 /\ b - r = n * p + s
  BY <1>1, DivMod
<1> HIDE DEF q, r, p, s
<1>3. c = n * m + s /\ m \in Int /\ c \in Int
  BY <1>1, <1>2
<1> HIDE DEF c, m
<1>4. c % n = s
  BY <1>2, <1>3, Remainder
<1> QED BY <1>4 DEF s, r, c

\* The same for a remainder of a multiple of n.
LEMMA ModMod ==
  ASSUME NEW a \in Int, NEW n \in Nat \ {0}, NEW w \in Nat \ {0}, w % n = 0
  PROVE  (a % w) % n = a % n
<1> DEFINE k == w \div n
           q == a \div w
           r == a % w
           p == r \div n
           s == r % n
           m == k * q + p
<1>1. k \in Int /\ w = n * k
  BY DivMod
<1>2. q \in Int /\ r \in 0..w-1 /\ a = w * q + r
  BY DivMod
<1>3. p \in Int /\ s \in 0..n-1 /\ r = n * p + s
  BY <1>2, DivMod
<1> HIDE DEF k, q, p, s
<1>4. m \in Int /\ a = n * m + s
  BY <1>1, <1>2, <1>3
<1> HIDE DEF m
<1>5. a % n = s
  BY <1>3, <1>4, Remainder
<1> QED BY <1>5 DEF s

\* Equal remainders are n apart.
LEMMA Apart ==
  ASSUME NEW a \in Int, NEW b \in Int, NEW n \in Nat \ {0}, a % n = b % n
  PROVE  a = b \/ a - b >= n \/ b - a >= n
<1> DEFINE q == a \div n
           p == b \div n
           r == a % n
<1>1. q \in Int /\ p \in Int /\ r \in 0..n-1 /\ a = n * q + r /\ b = n * p + r
  BY DivMod
<1> HIDE DEF q, r, p
<1>2. a - b = n * (q - p) /\ b - a = n * (p - q)
  BY <1>1
<1>3. CASE q - p >= 1
  BY <1>1, <1>2, <1>3, Multiple
<1>4. CASE p - q >= 1
  BY <1>1, <1>2, <1>4, Multiple
<1>5. CASE p = q
  BY <1>1, <1>5
<1> QED BY <1>1, <1>3, <1>4, <1>5

-----------------------------------------------------------------------------
(* The window between the payload head and the payload tail.               *)

\* The constants.
LEMMA Constants ==
  /\ Entries \in Nat \ {0} /\ Zone \in Nat \ {0} /\ W \in Nat \ {0} /\ MaxPayload \in Nat
  /\ W % Entries = 0 /\ W % Zone = 0 /\ Entries < W /\ Zone < W /\ MaxPayload + 2 * Zone < W
BY RingAssumption

\* Ahead counts the bytes up to an offset, across the end of the counter.
LEMMA AheadIs ==
  ASSUME NEW h \in 0..W-1, NEW x \in 0..W-1
  PROVE  /\ (x - h) % W \in 0..W-1
         /\ (x - h) % W = IF x >= h THEN x - h ELSE x - h + W
<1>1. W \in Nat \ {0}
  BY Constants
<1>2. CASE x >= h
  <2>1. x - h \in 0..W-1
    BY <1>1, <1>2
  <2> QED BY <1>1, <1>2, <2>1, Small
<1>3. CASE x < h
  <2>1. x - h \in (-W)..(-1) /\ x - h \in Int /\ x - h + W \in 0..W-1
    BY <1>1, <1>3
  <2>2. (x - h) % W = x - h + W
    BY <1>1, <2>1, Beside
  <2> QED BY <1>1, <1>3, <2>1, <2>2
<1> QED BY <1>1, <1>2, <1>3

\* len bytes on, it is len more.
LEMMA AheadAdd ==
  ASSUME NEW h \in 0..W-1, NEW x \in 0..W-1, NEW len \in Nat, ((x - h) % W) + len < W
  PROVE  /\ (x + len) % W \in 0..W-1
         /\ (((x + len) % W) - h) % W = ((x - h) % W) + len
<1>1. W \in Nat \ {0}
  BY Constants
<1> DEFINE a == (x - h) % W
           b == len - h
<1>2. a \in 0..W-1
  BY AheadIs
<1>3. (x + len) % W \in 0..W-1
  BY <1>1, DivMod
<1>9. x + len \in Int /\ -h \in Int /\ x - h \in Int /\ len \in Int
  BY <1>1
<1>4. (((x + len) % W) + (-h)) % W = ((x + len) + (-h)) % W
  BY <1>1, <1>9, ModAdd, Zenon
<1>5. (((x - h) % W) + len) % W = ((x - h) + len) % W
  BY <1>1, <1>9, ModAdd, Zenon
<1>6. ((x - h) + len) = ((x + len) + (-h)) /\ ((x + len) % W) - h = ((x + len) % W) + (-h)
  BY <1>1, <1>3
<1>7. a + len \in 0..W-1
  BY <1>1, <1>2
<1>8. (a + len) % W = a + len
  BY <1>1, <1>7, Small
<1> QED BY <1>3, <1>4, <1>5, <1>6, <1>8

\* When the head moves on, what is ahead of it comes nearer.
LEMMA AheadMove ==
  ASSUME NEW h \in 0..W-1, NEW x \in 0..W-1, NEW s \in Nat, s <= (x - h) % W
  PROVE  (x - ((h + s) % W)) % W = ((x - h) % W) - s
<1>1. W \in Nat \ {0}
  BY Constants
<1> DEFINE a == (x - h) % W
<1>2. a \in 0..W-1
  BY AheadIs
<1>8. h + s \in Int /\ -s \in Int /\ x - h \in Int /\ x \in Int
  BY <1>1
<1>3. (x - ((h + s) % W)) % W = (x - (h + s)) % W
  BY <1>1, <1>8, ModSub, Zenon
<1>4. (((x - h) % W) + (-s)) % W = ((x - h) + (-s)) % W
  BY <1>1, <1>8, ModAdd, Zenon
<1>5. (x - h) + (-s) = x - (h + s)
  BY <1>1
<1>6. a + (-s) \in 0..W-1 /\ a + (-s) = a - s
  BY <1>1, <1>2
<1>7. (a + (-s)) % W = a + (-s)
  BY <1>1, <1>6, Small
<1> QED BY <1>3, <1>4, <1>5, <1>6, <1>7

\* The remainder, kept folded where a proof rewrites sums of remainders.
Rem(a, n) == a % n

\* The remainder of a sum does not change when a term is reduced first.
LEMMA RemAdd ==
  \A n \in Nat \ {0}, a \in Int, b \in Int : Rem(Rem(a, n) + b, n) = Rem(a + b, n)
BY ModAdd, Zenon DEF Rem

\* A remainder modulo a multiple of n may be dropped under an addition modulo n.
LEMMA RemShift ==
  \A n \in Nat \ {0}, w \in Nat \ {0}, a \in Int, k \in Int :
    Rem(w, n) = 0 => Rem(Rem(a, w) + k, n) = Rem(a + k, n)
<1> SUFFICES ASSUME NEW n \in Nat \ {0}, NEW w \in Nat \ {0}, NEW a \in Int, NEW k \in Int,
                    Rem(w, n) = 0
             PROVE  Rem(Rem(a, w) + k, n) = Rem(a + k, n)
  OBVIOUS
<1>1. PICK b \in Int : b = Rem(a, w)
  BY DivMod DEF Rem
<1>2. Rem(b, n) = Rem(a, n)
  BY <1>1, ModMod DEF Rem
<1>3. Rem(Rem(b, n) + k, n) = Rem(b + k, n) /\ Rem(Rem(a, n) + k, n) = Rem(a + k, n)
  BY RemAdd
<1> QED BY <1>1, <1>2, <1>3

\* The place in the zone of a byte k past the offset z, from the offset h the zone starts at.
LEMMA Offset ==
  ASSUME NEW h \in 0..W-1, NEW z \in 0..W-1, NEW k \in Nat
  PROVE  ((z % Zone) + k) % Zone = (h + ((z - h) % W) + k) % Zone
<1>1. W \in Nat \ {0} /\ Zone \in Nat \ {0} /\ Rem(W, Zone) = 0
  BY Constants DEF Rem
<1>2. z \in Int /\ k \in Int /\ h \in Int
  BY <1>1
<1>3. Rem(Rem(z, Zone) + k, Zone) = Rem(z + k, Zone)
  BY <1>1, <1>2, RemAdd
<1>4. PICK a \in Int : a = z - h
  BY <1>2
<1>5. PICK b \in Int : b = h + k
  BY <1>2
<1>6. Rem(Rem(a, W) + b, Zone) = Rem(a + b, Zone)
  <2>1. \A u \in Int, v \in Int : Rem(Rem(u, W) + v, Zone) = Rem(u + v, Zone)
    <3>1. W \in Nat \ {0}
      BY <1>1
    <3>2. Zone \in Nat \ {0}
      BY <1>1
    <3>3. \A u \in Int, v \in Int : Rem(W, Zone) = 0 => Rem(Rem(u, W) + v, Zone) = Rem(u + v, Zone)
      BY <3>1, <3>2, RemShift, Zenon
    <3>4. Rem(W, Zone) = 0
      BY <1>1
    <3> QED BY <3>3, <3>4, Zenon
  <2> QED BY <2>1, Zenon
<1>7. PICK c \in Int : c = (z - h) % W
  BY <1>1, AheadIs
<1>8. a + b = z + k /\ c + b = h + c + k
  BY <1>2, <1>4, <1>5
<1>9. Rem(a, W) = c
  BY <1>4, <1>7 DEF Rem
<1> QED BY <1>3, <1>6, <1>7, <1>8, <1>9, Zenon DEF Rem

\* Payloads that follow each other within a zone share no byte of the arena, although
\* their places in it are offsets modulo the zone.
LEMMA Disjoint ==
  ASSUME NEW h \in 0..W-1, NEW x \in 0..W-1, NEW y \in 0..W-1, NEW m \in Nat, NEW n \in Nat,
         ((x - h) % W) + m <= (y - h) % W, ((y - h) % W) + n <= Zone,
         NEW i \in 0..m-1, NEW j \in 0..n-1
  PROVE  (x % Zone) + i # (y % Zone) + j
<1>1. W \in Nat \ {0} /\ Zone \in Nat \ {0} /\ W % Zone = 0
  BY Constants
<1> DEFINE a == (x - h) % W
           b == (y - h) % W
<1>2. a \in 0..W-1 /\ b \in 0..W-1
  BY AheadIs
<1>3. ASSUME NEW z \in 0..W-1, NEW k \in Nat
      PROVE  ((z % Zone) + k) % Zone = (h + ((z - h) % W) + k) % Zone
  BY Offset, Zenon
<1>4. SUFFICES ASSUME (x % Zone) + i = (y % Zone) + j PROVE FALSE
  OBVIOUS
<1>5. i \in Nat /\ j \in Nat /\ i < m /\ j < n
  OBVIOUS
<1>6. (h + a + i) % Zone = (h + b + j) % Zone
  BY <1>3, <1>4, <1>5
<1> HIDE DEF a, b
<1>7. h + a + i \in Int /\ h + b + j \in Int
  BY <1>1, <1>2, <1>5
<1>8. \/ h + a + i = h + b + j \/ (h + a + i) - (h + b + j) >= Zone
      \/ (h + b + j) - (h + a + i) >= Zone
  BY <1>1, <1>6, <1>7, Apart
<1>9. a + m <= b /\ b + n <= Zone
  BY DEF a, b
<1> QED BY <1>1, <1>2, <1>5, <1>8, <1>9

-----------------------------------------------------------------------------
(* The slots of the ring.                                                  *)

\* Slots modulo the ring's size, whose counters wrap at a multiple of it.
LEMMA Slots ==
  ASSUME NEW r \in 0..W-1, NEW i \in Nat
  PROVE  /\ (r + i) % Entries \in 0..Entries-1
         /\ (((r + 1) % W) + i) % Entries = (r + (i + 1)) % Entries
         /\ \A t \in 0..W-1 : t % Entries = (r + ((t - r) % W)) % Entries
         /\ \A j \in Nat : i < j /\ j - i < Entries => (r + i) % Entries # (r + j) % Entries
<1>1. W \in Nat \ {0} /\ Entries \in Nat \ {0} /\ W % Entries = 0
  BY Constants
<1>2. r + i \in Int /\ r + 1 \in Int /\ i \in Int /\ r \in Int
  BY <1>1
<1>3. (r + i) % Entries \in 0..Entries-1
  BY <1>1, <1>2, DivMod
<1>4. (((r + 1) % W) + i) % Entries = (r + (i + 1)) % Entries
  <2>1. PICK a \in Int : a = r + 1
    BY <1>2
  <2>2. Rem(W, Entries) = 0
    BY <1>1 DEF Rem
  <2>3. Rem(Rem(a, W) + i, Entries) = Rem(a + i, Entries)
    BY <1>1, <1>2, <2>2, RemShift
  <2>4. a + i = r + (i + 1)
    BY <1>2, <2>1
  <2> QED BY <2>1, <2>3, <2>4, Zenon DEF Rem
<1>5. ASSUME NEW t \in 0..W-1
      PROVE  t % Entries = (r + ((t - r) % W)) % Entries
  <2> DEFINE d == (t - r) % W
  <2>1. d \in 0..W-1 /\ d = IF t >= r THEN t - r ELSE t - r + W
    BY AheadIs
  <2> HIDE DEF d
  <2>2. CASE t >= r
    <3>1. r + d = t
      BY <1>1, <2>1, <2>2
    <3> QED BY <3>1 DEF d
  <2>3. CASE t < r
    <3>1. r + d \in W..(2 * W - 1) /\ r + d \in Int /\ r + d - W = t
      BY <1>1, <2>1, <2>3
    <3>2. (r + d) % W = t
      <4> DEFINE a == r + d
      <4>1. a \in W..(2 * W - 1) /\ a \in Int /\ a - W = t
        BY <1>1, <2>1, <3>1
      <4> HIDE DEF a
      <4>2. a % W = t
        BY <1>1, <4>1, Beside
      <4> QED BY <4>2 DEF a
    <3>3. ((r + d) % W) % Entries = (r + d) % Entries
      BY <1>1, <3>1, ModMod
    <3> QED BY <3>2, <3>3 DEF d
  <2> QED BY <1>1, <2>2, <2>3
<1>6. ASSUME NEW j \in Nat, i < j, j - i < Entries
      PROVE  (r + i) % Entries # (r + j) % Entries
  <2>1. r + j \in Int
    BY <1>1
  <2>2. ~(r + i = r + j \/ (r + i) - (r + j) >= Entries \/ (r + j) - (r + i) >= Entries)
    BY <1>1, <1>6
  <2> QED BY <1>1, <1>2, <2>1, <2>2, Apart
<1> QED BY <1>3, <1>4, <1>5, <1>6

\* The number of entries.
LEMMA Depths ==
  ASSUME RingTypeOK
  PROVE  /\ Depth \in 0..Entries
         /\ Depth = 0 <=> ringHead = ringTail
         /\ ringTail % Entries = (ringHead + Depth) % Entries
<1>1. ringHead \in 0..W-1 /\ ringTail \in 0..W-1 /\ Depth <= Entries
  BY DEF RingTypeOK
<1>2. Depth \in 0..W-1 /\ Depth = IF ringTail >= ringHead THEN ringTail - ringHead
                                   ELSE ringTail - ringHead + W
  BY <1>1, AheadIs DEF Depth
<1>3. ringTail % Entries = (ringHead + Depth) % Entries
  BY <1>1, Slots, 0 \in Nat DEF Depth
<1>4. W \in Nat \ {0} /\ Entries \in Nat
  BY Constants
<1> QED BY <1>1, <1>2, <1>3, <1>4

-----------------------------------------------------------------------------
(* Reserving a payload.                                                    *)

\* Rounding up ends at the start of a zone.
LEMMA Rounded ==
  ASSUME payloadTail \in 0..W-1, NEW len \in Nat
  PROVE  /\ RoundedStart(len) \in payloadTail..(payloadTail + Zone)
         /\ len <= Zone => (RoundedStart(len) % Zone) + len <= Zone
<1> DEFINE t == payloadTail
           m == t % Zone
           q == t \div Zone
<1>1. W \in Nat \ {0} /\ Zone \in Nat \ {0} /\ t \in Nat
  BY Constants
<1>2. m \in 0..Zone-1 /\ q \in Int /\ t = Zone * q + m
  BY <1>1, DivMod
<1>3. RoundedStart(len) = IF m + len > Zone THEN t + (Zone - m) ELSE t
  BY DEF RoundedStart
<1> HIDE DEF m, q, t
<1>4. CASE m + len > Zone
  <2> DEFINE a == t + (Zone - m)
             p == q + 1
  <2>1. a \in t..(t + Zone) /\ a \in Int
    BY <1>1, <1>2
  <2>2. p \in Int /\ a = Zone * p + 0 /\ 0 \in 0..Zone-1
    BY <1>1, <1>2
  <2> HIDE DEF a, p
  <2>3. a % Zone = 0
    BY <1>1, <2>1, <2>2, Remainder
  <2>4. RoundedStart(len) = a
    BY <1>3, <1>4 DEF a
  <2>5. len <= Zone => (a % Zone) + len <= Zone
    BY <1>1, <2>3
  <2> QED BY <2>1, <2>4, <2>5 DEF t
<1>5. CASE ~(m + len > Zone)
  <2>1. RoundedStart(len) = t /\ m + len <= Zone /\ t \in t..(t + Zone)
    BY <1>1, <1>2, <1>3, <1>5
  <2> QED BY <2>1 DEF t, m
<1> QED BY <1>4, <1>5

\* Where the payload of an entry goes: behind what is in flight, within a zone of the
\* payload head, and not across the end of a zone.
LEMMA Reserved ==
  ASSUME RingTypeOK, FlightInv, NEW len \in 0..MaxPayload, CanPut(len),
         writer = "daemon" => ringHead = ringTail /\ heldDesc = NoDesc,
         NEW off, off = IF len = 0 THEN payloadTail ELSE PayloadStart(len)
  PROVE  /\ off \in 0..W-1 /\ len \in 0..Zone /\ (off % Zone) + len <= Zone
         /\ Ahead(payloadTail) <= Ahead(off) /\ Ahead(off) + len <= Zone
<1> DEFINE h == payloadHead
           t == payloadTail
           a == Ahead(t)
           R == RoundedStart(len)
<1>1. W \in Nat /\ Zone \in Nat \ {0} /\ MaxPayload \in Nat /\ MaxPayload + 2 * Zone < W
      /\ len \in Nat /\ len <= MaxPayload
  BY Constants
<1>2. h \in 0..W-1 /\ t \in 0..W-1
  BY DEF RingTypeOK
<1>3. a \in 0..W-1 /\ a = (IF t >= h THEN t - h ELSE t - h + W) /\ a <= Zone
  BY <1>2, AheadIs DEF Ahead, FlightInv
<1>4. R \in t..(t + Zone) /\ (len <= Zone => (R % Zone) + len <= Zone)
  BY <1>1, <1>2, Rounded
<1>5. CASE len = 0
  <2>1. off = t
    BY <1>5
  <2>2. t % Zone \in 0..Zone-1
    BY <1>1, <1>2, DivMod
  <2> QED BY <1>1, <1>2, <1>3, <1>5, <2>1, <2>2
<1>6. CASE len # 0
  <2>1. R < W /\ off = R /\ h <= t /\ off + len - h <= Zone
    <3>1. CASE writer = "kernel"
      <4> DEFINE s == R % W
      <4>1. s + len >= h /\ s + len - h <= Zone /\ off = s
        <5>1. off = PayloadStart(len) /\ PayloadStart(len) = s
          BY <1>6, <3>1 DEF PayloadStart
        <5>2. PayloadStart(len) + len >= payloadHead /\ PayloadStart(len) + len - payloadHead <= Zone
          <6>1. PayloadStart(len) \in Int
            <7>1. R \in Int
              BY <1>2, <1>4
            <7> QED BY <5>1, <7>1, DivMod, Constants
          <6> QED BY <1>1, <1>2, <1>6, <3>1, <6>1 DEF CanPut, Fits
        <5> QED BY <5>1, <5>2
      <4>2. R \in Int /\ R \in 0..(2 * W - 1)
        BY <1>1, <1>2, <1>4
      <4>3. s = IF R < W THEN R ELSE R - W
        <5>1. CASE R < W
          BY <4>2, <5>1, Small, Constants
        <5>2. CASE R >= W
          BY <4>2, <5>2, Beside, Constants
        <5> QED BY <1>1, <4>2, <5>1, <5>2
      <4> HIDE DEF s, a, h, t, R
      <4>4. h <= t
        BY <1>1, <1>2, <1>3, <1>4, <4>1, <4>3
      <4>5. R < W
        BY <1>1, <1>2, <1>3, <1>4, <4>1, <4>3
      <4> QED BY <4>1, <4>3, <4>4, <4>5
    <3>2. CASE writer = "daemon"
      <4>1. R < W /\ off = R /\ R + len - h <= Zone
        <5>1. off = PayloadStart(len) /\ PayloadStart(len) = R
          BY <1>6, <3>2 DEF PayloadStart
        <5>2. PayloadStart(len) < W /\ PayloadStart(len) + len - payloadHead <= Zone
          <6>1. PayloadStart(len) \in Int
            BY <1>2, <1>4, <5>1
          <6> QED BY <1>1, <1>2, <1>6, <3>2, <6>1 DEF CanPut, Fits
        <5> QED BY <5>1, <5>2
      <4>2. h = t
        BY <3>2, Depths DEF FlightInv
      <4> QED BY <1>2, <4>1, <4>2
    <3> QED BY <3>1, <3>2 DEF RingTypeOK
  <2>2. off \in 0..W-1 /\ off >= t /\ off >= h
    BY <1>1, <1>2, <1>4, <2>1
  <2>3. len \in 0..Zone
    BY <1>1, <1>2, <2>1, <2>2
  <2>4. Ahead(off) = off - h
    BY <1>2, <2>2, AheadIs DEF Ahead
  <2> HIDE DEF h, t, a, R
  <2>5. a <= Ahead(off) /\ Ahead(off) + len <= Zone
    BY <1>1, <1>2, <1>3, <2>1, <2>2, <2>3, <2>4
  <2> QED BY <1>4, <2>1, <2>2, <2>3, <2>5 DEF a, t, R
<1> QED BY <1>5, <1>6

-----------------------------------------------------------------------------
(* The invariant.                                                          *)

Inv == RingTypeOK /\ FlightInv

\* What Put does, in terms of the ring's entries and the window.
LEMMA PutShape ==
  ASSUME Inv, NEW len \in 0..MaxPayload, NEW v, Put(len, v), NEW n, n = Depth
  PROVE  \E off \in 0..W-1 :
           /\ len \in 0..Zone /\ (off % Zone) + len <= Zone
           /\ Ahead(payloadTail) <= Ahead(off) /\ Ahead(off) + len <= Zone
           /\ payloadTail' \in 0..W-1 /\ Ahead(payloadTail)' = Ahead(off) + len
           /\ n \in 0..Entries-1 /\ Depth' = n + 1
           /\ ringTail' \in 0..W-1
           /\ UNCHANGED <<writer, ringHead, payloadHead, heldDesc, got>>
           /\ ring' = [ring EXCEPT ![(ringHead + n) % Entries] = [off |-> off, len |-> len]]
           /\ arena' = [b \in 0..Zone-1 |->
                         IF off % Zone <= b /\ b < (off % Zone) + len THEN v ELSE arena[b]]
<1> DEFINE off == IF len = 0 THEN payloadTail ELSE PayloadStart(len)
<1>1. /\ UNCHANGED <<writer, ringHead, payloadHead, heldDesc, got>>
      /\ ring' = [ring EXCEPT ![ringTail % Entries] = [off |-> off, len |-> len]]
      /\ arena' = [b \in 0..Zone-1 |->
                    IF off % Zone <= b /\ b < (off % Zone) + len THEN v ELSE arena[b]]
      /\ payloadTail' = (off + len) % W /\ ringTail' = (ringTail + 1) % W
      /\ CanPut(len) /\ (writer = "daemon" => ringHead = ringTail /\ heldDesc = NoDesc)
  BY DEF Put
<1>2. /\ off \in 0..W-1 /\ len \in 0..Zone /\ (off % Zone) + len <= Zone
      /\ Ahead(payloadTail) <= Ahead(off) /\ Ahead(off) + len <= Zone
  BY <1>1, Reserved DEF Inv
<1> HIDE DEF off
<1>3. W \in Nat /\ Zone < W /\ Zone \in Nat /\ Entries \in Nat \ {0} /\ Entries < W
  BY Constants
<1>4. ringHead \in 0..W-1 /\ ringTail \in 0..W-1 /\ payloadHead \in 0..W-1 /\ payloadTail \in 0..W-1
  BY DEF Inv, RingTypeOK
<1>5. n \in 0..Entries /\ (n = 0 <=> ringHead = ringTail)
      /\ ringTail % Entries = (ringHead + n) % Entries
  BY Depths DEF Inv
<1>6. n \in 0..Entries-1
  <2>1. CASE writer = "kernel"
    <3>1. ~(n >= Entries)
      BY <1>1, <2>1 DEF CanPut, RingFull, Depth
    <3> QED BY <1>3, <1>5, <3>1
  <2>2. CASE writer = "daemon"
    BY <1>1, <1>3, <1>5, <2>2
  <2> QED BY <2>1, <2>2 DEF Inv, RingTypeOK
<1>7. ringTail' \in 0..W-1 /\ Depth' = n + 1
  <2>1. (ringTail - ringHead) % W = n
    BY DEF Depth
  <2>2. ((ringTail - ringHead) % W) + 1 < W
    BY <1>3, <1>6, <2>1
  <2>3. /\ (ringTail + 1) % W \in 0..W-1
        /\ (((ringTail + 1) % W) - ringHead) % W = ((ringTail - ringHead) % W) + 1
    BY <1>4, <2>2, AheadAdd, 1 \in Nat
  <2> QED BY <1>1, <2>1, <2>3 DEF Depth
<1>8. payloadTail' \in 0..W-1 /\ Ahead(payloadTail)' = Ahead(off) + len
  <2>1. ((off - payloadHead) % W) + len < W
    <3>1. Ahead(off) \in 0..W-1
      BY <1>2, <1>4, AheadIs DEF Ahead
    <3>2. Ahead(off) + len < W
      BY <1>2, <1>3, <3>1
    <3> QED BY <3>2 DEF Ahead
  <2>2. /\ (off + len) % W \in 0..W-1
        /\ (((off + len) % W) - payloadHead) % W = ((off - payloadHead) % W) + len
    BY <1>2, <1>4, <2>1, AheadAdd
  <2> QED BY <1>1, <2>2 DEF Ahead
<1> QED BY <1>1, <1>2, <1>5, <1>6, <1>7, <1>8

\* Put keeps the entries that are there, and adds one behind them.
LEMMA PutEntries ==
  ASSUME Inv, NEW n \in 0..Entries-1, n = Depth, NEW d, ringHead' = ringHead,
         ring' = [ring EXCEPT ![(ringHead + n) % Entries] = d]
  PROVE  /\ \A i \in 0..n-1 : Entry(i)' = Entry(i)
         /\ Entry(n)' = d
<1>1. Entries \in Nat \ {0} /\ ringHead \in 0..W-1 /\ DOMAIN ring = 0..Entries-1
  BY Constants DEF Inv, RingTypeOK
<1>4. n \in Nat
  BY <1>1
<1>2. (ringHead + n) % Entries \in 0..Entries-1
  BY <1>1, <1>4, Slots
<1>3. ASSUME NEW i \in 0..n-1 PROVE Entry(i)' = Entry(i)
  <2>1. i \in Nat /\ n \in Nat /\ i < n /\ n - i < Entries
    BY <1>1
  <2>2. (ringHead + i) % Entries # (ringHead + n) % Entries
    <3>1. \A j \in Nat : i < j /\ j - i < Entries =>
                           (ringHead + i) % Entries # (ringHead + j) % Entries
      BY <1>1, <2>1, Slots, ZenonT(30)
    <3> QED BY <2>1, <3>1
  <2>3. (ringHead + i) % Entries \in 0..Entries-1
    BY <1>1, <2>1, Slots
  <2> QED BY <1>1, <2>2, <2>3 DEF Entry
<1> QED BY <1>1, <1>2, <1>3 DEF Entry

\* Entries are descriptors, and descriptors lie ahead of the payload head.
LEMMA Typed ==
  ASSUME Inv
  PROVE  /\ \A i \in Nat : Entry(i) \in Descriptors
         /\ \A x \in 0..W-1 : Ahead(x) \in 0..W-1
         /\ \A d \in Descriptors : d.off \in 0..W-1 /\ d.len \in Int /\ d.len <= Zone
<1>1. ringHead \in 0..W-1 /\ payloadHead \in 0..W-1 /\ ring \in [0..Entries-1 -> Descriptors]
  BY DEF Inv, RingTypeOK
<1>2. \A i \in Nat : Entry(i) \in Descriptors
  BY <1>1, Slots DEF Entry
<1>3. \A x \in 0..W-1 : Ahead(x) \in 0..W-1
  BY <1>1, AheadIs DEF Ahead
<1>4. Zone \in Nat
  BY Constants
<1> QED BY <1>2, <1>3, <1>4 DEF Descriptors

\* Put keeps the invariant: what it adds ends at the new payload tail.
LEMMA PutInv ==
  ASSUME Inv, NEW len \in 0..MaxPayload, NEW v \in Values, Put(len, v)
  PROVE  Inv'
<1>1. PICK n : n = Depth
  OBVIOUS
<1>2. PICK off \in 0..W-1 :
        /\ len \in 0..Zone /\ (off % Zone) + len <= Zone
        /\ Ahead(payloadTail) <= Ahead(off) /\ Ahead(off) + len <= Zone
        /\ payloadTail' \in 0..W-1 /\ Ahead(payloadTail)' = Ahead(off) + len
        /\ n \in 0..Entries-1 /\ Depth' = n + 1
        /\ ringTail' \in 0..W-1
        /\ UNCHANGED <<writer, ringHead, payloadHead, heldDesc, got>>
        /\ ring' = [ring EXCEPT ![(ringHead + n) % Entries] = [off |-> off, len |-> len]]
        /\ arena' = [b \in 0..Zone-1 |->
                      IF off % Zone <= b /\ b < (off % Zone) + len THEN v ELSE arena[b]]
  BY <1>1, PutShape
<1> DEFINE d == [off |-> off, len |-> len]
<1>3. Zone \in Nat /\ Entries \in Nat \ {0} /\ W \in Nat
  BY Constants
<1>4. d \in Descriptors /\ d.off = off /\ d.len = len
  BY <1>2, <1>3 DEF Descriptors
<1>5. ring' = [ring EXCEPT ![(ringHead + n) % Entries] = d]
  BY <1>2
<1> HIDE DEF d
<1>6. \A i \in 0..n-1 : Entry(i)' = Entry(i)
  BY <1>1, <1>2, <1>5, PutEntries
<1>7. Entry(n)' = d
  BY <1>1, <1>2, <1>5, PutEntries
<1>8. RingTypeOK'
  <2>1. ring' \in [0..Entries-1 -> Descriptors]
    BY <1>4, <1>5 DEF Inv, RingTypeOK
  <2>2. arena' \in [0..Zone-1 -> Values \cup {NoByte}]
    BY <1>2 DEF Inv, RingTypeOK
  <2>3. Depth' <= Entries
    BY <1>2, <1>3
  <2> QED BY <1>2, <2>1, <2>2, <2>3 DEF Inv, RingTypeOK
<1>9. \A x \in 0..W-1 : Ahead(x)' = Ahead(x)
  BY <1>2 DEF Ahead
<1> DEFINE t == Ahead(payloadTail)
           u == Ahead(off)
<1>10. t \in 0..W-1 /\ u \in 0..W-1 /\ t <= u /\ u + len <= Zone /\ Ahead(payloadTail)' = u + len
       /\ len \in Nat
  BY <1>2, Typed DEF Inv, RingTypeOK
<1> HIDE DEF t, u
<1>11. ASSUME NEW e \in Descriptors, InFlight(e)
       PROVE  InFlight(e)' /\ End(e)' = End(e) /\ End(e) \in Nat /\ End(e) <= u
  <2>1. e.off \in 0..W-1 /\ e.len \in Nat
    BY <1>11, Typed DEF InFlight
  <2>2. Ahead(e.off) \in 0..W-1 /\ Ahead(e.off)' = Ahead(e.off)
    BY <1>9, <2>1, Typed
  <2>3. End(e)' = End(e) /\ End(e) \in Nat
    BY <1>3, <2>1, <2>2 DEF End
  <2>4. End(e) <= t
    BY <1>11 DEF InFlight, t
  <2> QED BY <1>3, <1>10, <1>11, <2>3, <2>4 DEF InFlight
<1>12. ASSUME NEW i \in 0..n-1
       PROVE  /\ Entry(i) \in Descriptors /\ InFlight(Entry(i))' /\ End(Entry(i))' = End(Entry(i))
              /\ End(Entry(i)) <= u /\ Ahead(Entry(i).off)' = Ahead(Entry(i).off)
  <2>1. i \in Nat
    BY <1>2, <1>3
  <2>2. InFlight(Entry(i))
    BY <1>1 DEF Inv, FlightInv
  <2>3. Entry(i) \in Descriptors
    BY <2>1, Typed
  <2>4. PICK e \in Descriptors : e = Entry(i) /\ e = Entry(i)' /\ InFlight(e)
    BY <1>6, <2>2, <2>3
  <2>5. InFlight(e)' /\ End(e)' = End(e) /\ End(e) <= u /\ Ahead(e.off)' = Ahead(e.off)
    BY <1>9, <1>11, <2>4, Typed
  <2> QED BY <2>4, <2>5 DEF InFlight, End, Ahead
<1>13. InFlight(d)' /\ End(d)' = u + len /\ Ahead(d.off)' = u
  BY <1>2, <1>3, <1>4, <1>9, <1>10 DEF InFlight, End, u
<1>15. n \in Nat /\ (Depth - 1)' = n /\ (0..Depth-1)' = 0..n /\ Depth' > 0 /\ Depth' # 0
  BY <1>2, <1>3
<1>16. \A i \in 0..n : i = n \/ i \in 0..n-1
  BY <1>15
<1>17. \A i \in 0..n : InFlight(Entry(i))'
  <2>1. InFlight(Entry(n))'
    BY <1>7, <1>13 DEF InFlight, End
  <2> QED BY <1>12, <1>16, <2>1
<1>18. ASSUME NEW i \in 0..n, NEW j \in 0..n, i < j
       PROVE  End(Entry(i))' <= Ahead(Entry(j).off)'
  <2>1. i \in 0..n-1
    BY <1>15, <1>18
  <2>2. CASE j = n
    <3>1. Ahead(Entry(j).off)' = u
      BY <1>7, <1>13, <2>2 DEF Ahead
    <3> QED BY <1>12, <2>1, <3>1
  <2>3. CASE j \in 0..n-1
    <3>1. End(Entry(i)) <= Ahead(Entry(j).off)
      BY <1>1, <1>18, <2>1, <2>3 DEF Inv, FlightInv
    <3> QED BY <1>12, <2>1, <2>3, <3>1
  <2> QED BY <1>16, <2>2, <2>3
<1>19. ASSUME heldDesc # NoDesc
       PROVE  InFlight(heldDesc)' /\ \A i \in 0..n : End(heldDesc)' <= Ahead(Entry(i).off)'
  <2>1. PICK e \in Descriptors : e = heldDesc /\ e = heldDesc' /\ InFlight(e)
    BY <1>2, <1>19 DEF Inv, RingTypeOK, FlightInv
  <2>2. InFlight(e)' /\ End(e)' = End(e) /\ End(e) <= u
    BY <1>11, <2>1
  <2>3. ASSUME NEW i \in 0..n-1 PROVE End(e) <= Ahead(Entry(i).off)
    BY <1>1, <1>19, <2>1 DEF Inv, FlightInv
  <2>4. \A i \in 0..n-1 : End(e)' <= Ahead(Entry(i).off)'
    BY <1>12, <2>2, <2>3
  <2>5. Ahead(Entry(n).off)' = u
    BY <1>7, <1>13 DEF Ahead
  <2>6. \A i \in 0..n : End(e)' <= Ahead(Entry(i).off)'
    BY <1>16, <2>2, <2>4, <2>5
  <2> QED BY <2>1, <2>2, <2>6 DEF InFlight, End
<1>20. End(Entry(n))' = Ahead(payloadTail)'
  BY <1>7, <1>10, <1>13 DEF End
<1>21. heldDesc' = heldDesc /\ Ahead(payloadTail)' <= Zone
  BY <1>2
<1>14. FlightInv'
  <2>1. \A i \in (0..Depth-1)' : InFlight(Entry(i))'
    BY <1>15, <1>17
  <2>2. \A i, j \in (0..Depth-1)' : i < j => End(Entry(i))' <= Ahead(Entry(j).off)'
    BY <1>15, <1>18
  <2>3. heldDesc' # NoDesc =>
          InFlight(heldDesc)' /\ \A i \in (0..Depth-1)' : End(heldDesc)' <= Ahead(Entry(i).off)'
    BY <1>15, <1>19, <1>21
  <2>4. End(Entry(Depth - 1))' = Ahead(payloadTail)'
    BY <1>15, <1>20 DEF End, Entry
  <2> QED BY <1>15, <1>21, <2>1, <2>2, <2>3, <2>4 DEF FlightInv
<1> QED BY <1>8, <1>14 DEF Inv

\* What Take does, in terms of the ring's entries.
LEMMA TakeShape ==
  ASSUME Inv, Take, NEW n, n = Depth
  PROVE  /\ n \in 1..Entries /\ Depth' = n - 1 /\ ringHead' \in 0..W-1
         /\ \A i \in Nat : Entry(i)' = Entry(i + 1)
         /\ heldDesc = NoDesc /\ heldDesc' = Entry(0) /\ got' = Payload(Entry(0))
         /\ UNCHANGED <<writer, ring, arena, ringTail, payloadHead, payloadTail>>
<1>1. ringHead \in 0..W-1 /\ ringTail \in 0..W-1 /\ W \in Nat \ {0} /\ Entries \in Nat \ {0}
  BY Constants DEF Inv, RingTypeOK
<1>2. n \in 0..Entries /\ (n = 0 <=> ringHead = ringTail)
  BY Depths DEF Inv
<1>3. ringHead # ringTail /\ heldDesc = NoDesc /\ ringHead' = (ringHead + 1) % W
      /\ heldDesc' = ring[ringHead % Entries] /\ got' = Payload(ring[ringHead % Entries])
      /\ UNCHANGED <<writer, ring, arena, ringTail, payloadHead, payloadTail>>
  BY DEF Take
<1>4. n \in 1..Entries
  BY <1>1, <1>2, <1>3
<1>5. ringHead + 0 = ringHead
  BY <1>1
<1>6. Entry(0) = ring[ringHead % Entries]
  BY <1>5 DEF Entry
<1>7. ringHead' \in 0..W-1
  <2>1. ringHead + 1 \in Int
    BY <1>1
  <2> QED BY <1>1, <1>3, <2>1, DivMod
<1>8. Depth' = n - 1
  <2>1. (ringTail - ringHead) % W = n
    BY DEF Depth
  <2>2. 1 \in Nat /\ 1 <= (ringTail - ringHead) % W
    BY <1>4, <2>1
  <2>3. (ringTail - ((ringHead + 1) % W)) % W = ((ringTail - ringHead) % W) - 1
    BY <1>1, <2>2, AheadMove
  <2> QED BY <1>3, <2>1, <2>3 DEF Depth
<1>9. ASSUME NEW i \in Nat PROVE Entry(i)' = Entry(i + 1)
  <2>1. (((ringHead + 1) % W) + i) % Entries = (ringHead + (i + 1)) % Entries
    BY <1>1, Slots
  <2> QED BY <1>3, <2>1 DEF Entry
<1> QED BY <1>3, <1>4, <1>6, <1>7, <1>8, <1>9

\* Take keeps the invariant: the first entry becomes the one that is held.
LEMMA TakeInv ==
  ASSUME Inv, Take
  PROVE  Inv'
<1>1. PICK n : n = Depth
  OBVIOUS
<1>2. /\ n \in 1..Entries /\ Depth' = n - 1 /\ ringHead' \in 0..W-1
      /\ \A i \in Nat : Entry(i)' = Entry(i + 1)
      /\ heldDesc = NoDesc /\ heldDesc' = Entry(0) /\ got' = Payload(Entry(0))
      /\ UNCHANGED <<writer, ring, arena, ringTail, payloadHead, payloadTail>>
  BY <1>1, TakeShape
<1>3. Zone \in Nat /\ Entries \in Nat \ {0} /\ W \in Nat
  BY Constants
<1>5. ASSUME NEW i \in Nat, NEW j \in Nat, Entry(i)' = Entry(j)
      PROVE  /\ InFlight(Entry(i))' <=> InFlight(Entry(j))
             /\ End(Entry(i))' = End(Entry(j)) /\ Ahead(Entry(i).off)' = Ahead(Entry(j).off)
  BY <1>2, <1>5 DEF InFlight, End, Ahead
<1>6. InFlight(heldDesc)' <=> InFlight(Entry(0))
  BY <1>2 DEF InFlight, End, Ahead
<1>7. End(heldDesc)' = End(Entry(0)) /\ Ahead(payloadTail)' = Ahead(payloadTail)
  BY <1>2 DEF End, Ahead
<1>8. n \in Nat /\ 0 \in 0..n-1 /\ (0..Depth-1)' = 0..n-2 /\ n - 1 \in 0..n-1
      /\ \A i \in 0..n-2 : i \in Nat /\ i + 1 \in Nat /\ i + 1 \in 0..n-1 /\ i + 1 > 0
  BY <1>2, <1>3
<1>9. /\ Ahead(payloadTail) <= Zone
      /\ \A i \in 0..n-1 : InFlight(Entry(i))
      /\ \A i, j \in 0..n-1 : i < j => End(Entry(i)) <= Ahead(Entry(j).off)
      /\ End(Entry(n - 1)) = Ahead(payloadTail)
  BY <1>1, <1>2, <1>3 DEF Inv, FlightInv
<1>10. RingTypeOK'
  <2>1. heldDesc' \in Descriptors
    BY <1>2, Typed, 0 \in Nat
  <2>2. Depth' <= Entries
    BY <1>2, <1>3
  <2> QED BY <1>2, <2>1, <2>2 DEF Inv, RingTypeOK
<1>11. FlightInv'
  <2>1. \A i \in 0..n-2 : InFlight(Entry(i))'
    BY <1>2, <1>5, <1>8, <1>9
  <2>2. ASSUME NEW i \in 0..n-2, NEW j \in 0..n-2, i < j
        PROVE  End(Entry(i))' <= Ahead(Entry(j).off)'
    <3>1. i + 1 < j + 1 /\ i + 1 \in 0..n-1 /\ j + 1 \in 0..n-1 /\ i \in Nat /\ j \in Nat
          /\ i + 1 \in Nat /\ j + 1 \in Nat
      BY <1>8, <2>2
    <3>2. End(Entry(i + 1)) <= Ahead(Entry(j + 1).off)
      BY <1>9, <3>1
    <3>3. End(Entry(i))' = End(Entry(i + 1)) /\ Ahead(Entry(j).off)' = Ahead(Entry(j + 1).off)
      BY <1>2, <1>5, <3>1
    <3> QED BY <3>2, <3>3
  <2>3. InFlight(heldDesc)'
    BY <1>6, <1>8, <1>9
  <2>4. ASSUME NEW i \in 0..n-2 PROVE End(heldDesc)' <= Ahead(Entry(i).off)'
    <3>1. i \in Nat /\ i + 1 \in Nat /\ i + 1 \in 0..n-1 /\ i + 1 > 0 /\ 0 < i + 1
      BY <1>8
    <3>2. End(Entry(0)) <= Ahead(Entry(i + 1).off)
      BY <1>8, <1>9, <3>1
    <3>3. Ahead(Entry(i).off)' = Ahead(Entry(i + 1).off)
      BY <1>2, <1>5, <3>1
    <3> QED BY <1>7, <3>2, <3>3
  <2>5. heldDesc' # NoDesc
    <3>1. heldDesc'.len >= 0
      BY <2>3 DEF InFlight
    <3>2. NoDesc.len = -1 /\ ~(-1 >= 0)
      BY DEF NoDesc
    <3> QED BY <3>1, <3>2
  <2>6. Depth' > 0 => End(Entry(Depth - 1))' = Ahead(payloadTail)'
    <3> SUFFICES ASSUME Depth' > 0 PROVE End(Entry(Depth - 1))' = Ahead(payloadTail)'
      OBVIOUS
    <3>1. (Depth - 1)' = n - 2 /\ n - 2 \in Nat /\ n - 1 \in Nat /\ (n - 2) + 1 = n - 1
      BY <1>2, <1>3
    <3>2. Entry(n - 2)' = Entry(n - 1)
      BY <1>2, <3>1
    <3>3. End(Entry(n - 2))' = End(Entry(n - 1))
      BY <1>5, <3>1, <3>2
    <3> QED BY <1>7, <1>9, <3>1, <3>3 DEF End, Entry
  <2>7. Depth' = 0 => End(heldDesc)' = Ahead(payloadTail)'
    <3> SUFFICES ASSUME Depth' = 0 PROVE End(heldDesc)' = Ahead(payloadTail)'
      OBVIOUS
    <3>1. n - 1 = 0
      BY <1>2, <1>3
    <3> QED BY <1>7, <1>9, <3>1
  <2> QED BY <1>7, <1>8, <1>9, <2>1, <2>2, <2>3, <2>4, <2>5, <2>6, <2>7 DEF FlightInv
<1> QED BY <1>10, <1>11 DEF Inv

\* FreePayload moves the payload head to the end of what was held.
LEMMA FreeShape ==
  ASSUME Inv, FreePayload, NEW s, s = End(heldDesc)
  PROVE  /\ s \in Nat /\ payloadHead' \in 0..W-1
         /\ \A x \in 0..W-1 : s <= Ahead(x) => Ahead(x)' = Ahead(x) - s
         /\ heldDesc # NoDesc /\ heldDesc' = NoDesc
         /\ UNCHANGED <<writer, ring, arena, ringHead, ringTail, payloadTail, got>>
<1>1. heldDesc # NoDesc /\ heldDesc' = NoDesc /\ payloadHead' = (heldDesc.off + heldDesc.len) % W
      /\ UNCHANGED <<writer, ring, arena, ringHead, ringTail, payloadTail, got>>
  BY DEF FreePayload
<1>2. heldDesc \in Descriptors /\ payloadHead \in 0..W-1 /\ W \in Nat \ {0} /\ Zone \in Nat
  BY Constants DEF Inv, RingTypeOK
<1>3. heldDesc.off \in 0..W-1 /\ heldDesc.len \in Nat
  BY <1>1, <1>2, Typed DEF Inv, FlightInv, InFlight
<1> DEFINE h == payloadHead
           a == Ahead(heldDesc.off)
<1>4. a \in 0..W-1 /\ s = a + heldDesc.len
  BY <1>3, Typed DEF End
<1>5. s \in Nat
  BY <1>2, <1>3, <1>4
<1>6. (heldDesc.off + heldDesc.len) % W = (h + s) % W
  <2>1. heldDesc.off - h \in Int /\ h + heldDesc.len \in Int
    BY <1>2, <1>3
  <2>2. (((heldDesc.off - h) % W) + (h + heldDesc.len)) % W = ((heldDesc.off - h) + (h + heldDesc.len)) % W
    BY <1>2, <2>1, ModAdd, Zenon
  <2>3. (a + (h + heldDesc.len)) % W = ((heldDesc.off - h) + (h + heldDesc.len)) % W
    BY <2>2 DEF Ahead
  <2> HIDE DEF a
  <2>4. a + (h + heldDesc.len) = h + s /\ (heldDesc.off - h) + (h + heldDesc.len) = heldDesc.off + heldDesc.len
    BY <1>2, <1>3, <1>4
  <2> QED BY <2>3, <2>4
<1>7. payloadHead' \in 0..W-1
  <2>1. heldDesc.off + heldDesc.len \in Int
    BY <1>2, <1>3
  <2> QED BY <1>1, <1>2, <2>1, DivMod
<1>8. ASSUME NEW x \in 0..W-1, s <= Ahead(x) PROVE Ahead(x)' = Ahead(x) - s
  <2>1. (x - ((h + s) % W)) % W = ((x - h) % W) - s
    BY <1>2, <1>5, <1>8, AheadMove DEF Ahead
  <2> QED BY <1>1, <1>6, <2>1 DEF Ahead
<1> QED BY <1>1, <1>5, <1>7, <1>8

\* FreePayload keeps the invariant.
LEMMA FreeInv ==
  ASSUME Inv, FreePayload
  PROVE  Inv'
<1>1. PICK s : s = End(heldDesc)
  OBVIOUS
<1>2. /\ s \in Nat /\ payloadHead' \in 0..W-1
      /\ \A x \in 0..W-1 : s <= Ahead(x) => Ahead(x)' = Ahead(x) - s
      /\ heldDesc # NoDesc /\ heldDesc' = NoDesc
      /\ UNCHANGED <<writer, ring, arena, ringHead, ringTail, payloadTail, got>>
  BY <1>1, FreeShape
<1>3. Zone \in Nat \ {0} /\ Entries \in Nat \ {0} /\ W \in Nat /\ Zone < W
  BY Constants
<1>4. Depth' = Depth /\ Depth \in 0..Entries /\ \A i \in Nat : Entry(i)' = Entry(i)
  BY <1>2, Depths DEF Depth, Entry, Inv
<1>5. NoDesc \in Descriptors
  BY <1>3 DEF NoDesc, Descriptors
<1>6. RingTypeOK'
  BY <1>2, <1>4, <1>5 DEF Inv, RingTypeOK
<1> DEFINE t == Ahead(payloadTail)
<1>7. t \in 0..W-1 /\ s <= t /\ Ahead(payloadTail)' = t - s /\ t <= Zone
  <2>1. payloadTail \in 0..W-1 /\ s <= Ahead(payloadTail) /\ Ahead(payloadTail) <= Zone
    BY <1>1, <1>2 DEF Inv, RingTypeOK, FlightInv, InFlight
  <2>2. PICK x \in 0..W-1 : x = payloadTail /\ x = payloadTail'
    BY <1>2, <2>1
  <2>3. Ahead(x)' = Ahead(x) - s
    BY <1>2, <2>1, <2>2
  <2> QED BY <2>1, <2>2, <2>3, Typed DEF Ahead
<1>8. ASSUME NEW i \in 0..Depth-1
      PROVE  /\ Ahead(Entry(i).off) \in 0..W-1 /\ Entry(i).len \in Nat /\ Entry(i)' = Entry(i)
             /\ s <= Ahead(Entry(i).off) /\ Ahead(Entry(i).off)' = Ahead(Entry(i).off) - s
             /\ End(Entry(i))' = End(Entry(i)) - s /\ InFlight(Entry(i))'
             /\ End(Entry(i)) \in Nat
  <2>1. i \in Nat
    BY <1>3, <1>4
  <2>2. Entry(i) \in Descriptors /\ Entry(i)' = Entry(i) /\ InFlight(Entry(i))
        /\ s <= Ahead(Entry(i).off)
    BY <1>1, <1>2, <1>4, <2>1, Typed DEF Inv, FlightInv
  <2>3. PICK e \in Descriptors : e = Entry(i) /\ e = Entry(i)' /\ InFlight(e) /\ s <= Ahead(e.off)
    BY <2>2
  <2>4. e.off \in 0..W-1 /\ e.len \in Nat
    BY <2>3, Typed DEF InFlight
  <2>5. Ahead(e.off) \in 0..W-1 /\ Ahead(e.off)' = Ahead(e.off) - s
    BY <1>2, <2>3, <2>4, Typed
  <2>6. End(e)' = End(e) - s /\ End(e) \in Nat /\ End(e) <= t
    BY <1>2, <1>3, <2>3, <2>4, <2>5 DEF End, InFlight
  <2>7. InFlight(e)'
    <3> HIDE DEF t
    <3>1. End(e)' <= Ahead(payloadTail)'
      BY <1>2, <1>3, <1>7, <2>6
    <3> QED BY <2>3, <3>1 DEF InFlight
  <2> QED BY <2>3, <2>4, <2>5, <2>6, <2>7 DEF InFlight, End, Ahead
<1> HIDE DEF t
<1>9. FlightInv'
  <2>1. Ahead(payloadTail)' <= Zone
    BY <1>2, <1>3, <1>7
  <2>2. ASSUME NEW i \in 0..Depth-1, NEW j \in 0..Depth-1, i < j
        PROVE  End(Entry(i))' <= Ahead(Entry(j).off)'
    <3>1. End(Entry(i)) <= Ahead(Entry(j).off)
      BY <2>2 DEF Inv, FlightInv
    <3>2. End(Entry(i)) \in Int /\ Ahead(Entry(j).off) \in Int
      BY <1>3, <1>8
    <3>3. End(Entry(i))' = End(Entry(i)) - s /\ Ahead(Entry(j).off)' = Ahead(Entry(j).off) - s
      BY <1>8
    <3> QED BY <1>2, <3>1, <3>2, <3>3
  <2>3. Depth > 0 => End(Entry(Depth - 1))' = Ahead(payloadTail)'
    <3> SUFFICES ASSUME Depth > 0 PROVE End(Entry(Depth - 1))' = Ahead(payloadTail)'
      OBVIOUS
    <3>1. PICK i : i = Depth - 1 /\ i = (Depth - 1)' /\ i \in 0..Depth-1
      BY <1>3, <1>4
    <3>2. End(Entry(i)) = t
      BY <3>1 DEF Inv, FlightInv, t
    <3>3. End(Entry(i))' = t - s
      BY <1>8, <3>1, <3>2
    <3> QED BY <1>7, <3>1, <3>3 DEF End, Entry
  <2>4. Depth = 0 => payloadHead' = payloadTail'
    <3> SUFFICES ASSUME Depth = 0 PROVE payloadHead' = payloadTail'
      OBVIOUS
    <3>1. s = t
      BY <1>1, <1>2 DEF Inv, FlightInv, t
    <3>2. (payloadTail' - payloadHead') % W = 0
      BY <1>2, <1>7, <3>1 DEF Ahead
    <3>3. payloadTail' \in 0..W-1
      BY <1>2 DEF Inv, RingTypeOK
    <3>4. 0 = IF payloadTail' >= payloadHead' THEN payloadTail' - payloadHead'
              ELSE payloadTail' - payloadHead' + W
      BY <1>2, <3>2, <3>3, AheadIs
    <3>5. PICK x \in 0..W-1, h \in 0..W-1 : x = payloadTail' /\ h = payloadHead'
      BY <1>2, <3>3
    <3>6. 0 = IF x >= h THEN x - h ELSE x - h + W
      BY <3>4, <3>5
    <3>7. x = h
      BY <1>3, <3>6
    <3> QED BY <3>5, <3>7
  <2>5. heldDesc' = NoDesc
    BY <1>2
  <2>6. \A i \in 0..Depth-1 : InFlight(Entry(i))'
    BY <1>8
  <2> QED BY <1>4, <2>1, <2>2, <2>3, <2>4, <2>5, <2>6 DEF FlightInv
<1> QED BY <1>6, <1>9 DEF Inv

\* The initial state.
LEMMA InitInv == RingInit => Inv
<1> SUFFICES ASSUME RingInit PROVE Inv
  OBVIOUS
<1>1. Zone \in Nat \ {0} /\ Entries \in Nat \ {0} /\ W \in Nat \ {0} /\ Writers \subseteq {"kernel", "daemon"}
  BY Constants, RingAssumption
<1>2. NoDesc \in Descriptors
  BY <1>1 DEF NoDesc, Descriptors
<1>3. 0 \in 0..W-1 /\ 0 - 0 = 0 /\ 0 % W = 0
  BY <1>1, Small
<1>4. Depth = 0 /\ Ahead(payloadTail) = 0
  BY <1>3 DEF RingInit, Depth, Ahead
<1>5. RingTypeOK
  BY <1>1, <1>2, <1>3, <1>4 DEF RingInit, RingTypeOK
<1>6. FlightInv
  BY <1>1, <1>4 DEF RingInit, FlightInv
<1> QED BY <1>5, <1>6 DEF Inv

\* The inductive invariant of the ring and its zone.
THEOREM Invariant == RingSpec => []Inv
<1>1. Inv /\ [RingNext]_ringVars => Inv'
  <2> SUFFICES ASSUME Inv, [RingNext]_ringVars PROVE Inv'
    OBVIOUS
  <2>1. CASE UNCHANGED ringVars
    BY <2>1 DEF ringVars, Inv, RingTypeOK, FlightInv, Depth, Entry, Ahead, End, InFlight
  <2> QED BY <2>1, PutInv, TakeInv, FreeInv DEF RingNext
<1> QED BY <1>1, InitInv, PTL DEF RingSpec

\* The ring is never overfull and every queued payload lies inside its zone, for any
\* number of entries, size of the zone and width of the counters.
THEOREM ZoneSafe == RingSpec => []InsideZone
<1>1. Inv => InsideZone
  BY DEF Inv, FlightInv, InsideZone, InFlight, Entry
<1> QED BY <1>1, Invariant, PTL

\* An idle ring takes every payload up to half its zone, but for the last zone before
\* the offsets wrap.
THEOREM HalfAccepted == RingSpec => []IdleAcceptsHalf
<1>1. ASSUME Inv, Idle, ~LastZone, NEW len \in 0..(Zone \div 2)
      PROVE  CanPut(len)
  <2> DEFINE t == payloadTail
             m == t % Zone
             R == RoundedStart(len)
  <2>1. Zone \in Nat \ {0} /\ Entries \in Nat \ {0} /\ W \in Nat \ {0}
        /\ t \in 0..W-1 /\ t + Zone <= W
    BY <1>1, Constants DEF Inv, RingTypeOK, LastZone
  <2>2. Depth = 0 /\ payloadHead = t
    BY <1>1, Depths DEF Inv, Idle, FlightInv
  <2>3. ~RingFull
    <3>1. ringTail - ringHead = 0
      BY <1>1, <2>1 DEF Idle, Inv, RingTypeOK
    <3> QED BY <2>1, <2>2, <3>1 DEF RingFull, Depth
  <2>4. len \in Nat /\ 2 * len <= Zone
    BY <1>1, <2>1, DivMod
  <2>5. m \in 0..Zone-1 /\ R = IF m + len > Zone THEN t + (Zone - m) ELSE t
    BY <2>1, DivMod DEF RoundedStart
  <2> HIDE DEF m, R, t
  <2>6. R \in 0..W-1 /\ R + len >= t /\ R + len - t <= Zone
    BY <2>1, <2>4, <2>5
  <2>7. R % W = R
    BY <2>1, <2>6, Small
  <2>8. PayloadStart(len) = R
    BY <2>7 DEF PayloadStart, R
  <2>9. Fits(len)
    <3>1. R + len - payloadHead <= Zone /\ R + len >= payloadHead /\ R < W
      BY <2>1, <2>2, <2>6
    <3>2. writer = "kernel" \/ writer = "daemon"
      BY <1>1 DEF Inv, RingTypeOK
    <3>5. R \in Int /\ len \in Int /\ payloadHead \in Int /\ Zone \in Int /\ W \in Int
      BY <2>1, <2>2, <2>4, <2>6
    <3>3. CASE writer = "kernel"
      BY <2>1, <2>4, <2>6, <2>8, <3>1, <3>3, <3>5 DEF Fits
    <3>4. CASE writer = "daemon"
      BY <2>1, <2>4, <2>6, <2>8, <3>1, <3>4, <3>5 DEF Fits
    <3> QED BY <3>2, <3>3, <3>4
  <2> QED BY <2>3, <2>9 DEF CanPut
<1>2. Inv => IdleAcceptsHalf
  BY <1>1 DEF IdleAcceptsHalf
<1> QED BY <1>2, Invariant, PTL

-----------------------------------------------------------------------------
(* The ring implements the queue.                                          *)

\* The entries are read from shared memory one by one.
LEMMA Decoded ==
  ASSUME Inv, NEW n, n = Depth
  PROVE  /\ n \in Nat /\ Queued = [i \in 1..n |-> Payload(Entry(i - 1))]
         /\ DOMAIN Queued = 1..n /\ Len(Queued) = n
         /\ Queued \in Seq({Queued[i] : i \in 1..n})
<1>1. n \in Nat
  BY Depths, Constants DEF Inv
<1>2. \A i \in 1..n : ringHead + i - 1 = ringHead + (i - 1)
  BY <1>1 DEF Inv, RingTypeOK
<1>3. Queued = [i \in 1..n |-> Payload(Entry(i - 1))]
  BY <1>2 DEF Queued, Entry
<1>4. DOMAIN Queued = 1..n
  BY DEF Queued
<1> HIDE DEF Queued
<1>5. Queued \in Seq({Queued[i] : i \in 1..n})
  <2>1. Queued \in [1..n -> {Queued[i] : i \in 1..n}]
    BY <1>3
  <2> QED BY <1>1, <2>1, SeqDef
<1>6. Len(Queued) = n
  BY <1>1, <1>4, <1>5
<1> QED BY <1>1, <1>3, <1>4, <1>5, <1>6

\* A put appends its message and disturbs no other: the bytes it writes are no one's.
LEMMA PutRefines ==
  ASSUME Inv, NEW len \in 0..MaxPayload, NEW v \in Values, Put(len, v)
  PROVE  Fifo!Next
<1>1. PICK n : n = Depth
  OBVIOUS
<1>2. PICK off \in 0..W-1 :
        /\ len \in 0..Zone /\ (off % Zone) + len <= Zone
        /\ Ahead(payloadTail) <= Ahead(off) /\ Ahead(off) + len <= Zone
        /\ n \in 0..Entries-1 /\ Depth' = n + 1
        /\ UNCHANGED <<writer, ringHead, payloadHead, heldDesc, got>>
        /\ ring' = [ring EXCEPT ![(ringHead + n) % Entries] = [off |-> off, len |-> len]]
        /\ arena' = [b \in 0..Zone-1 |->
                      IF off % Zone <= b /\ b < (off % Zone) + len THEN v ELSE arena[b]]
  BY <1>1, PutShape
<1> DEFINE d == [off |-> off, len |-> len]
           msg == [i \in 1..len |-> v]
<1>3. Zone \in Nat \ {0} /\ Entries \in Nat \ {0} /\ W \in Nat \ {0} /\ n \in Nat /\ len \in Nat
  BY <1>2, Constants
<1>4. d.off = off /\ d.len = len /\ ring' = [ring EXCEPT ![(ringHead + n) % Entries] = d]
  BY <1>2
<1> HIDE DEF d
<1>5. \A i \in 0..n-1 : Entry(i)' = Entry(i)
  BY <1>1, <1>2, <1>4, PutEntries
<1>6. Entry(n)' = d
  BY <1>1, <1>2, <1>4, PutEntries
<1>7. off % Zone \in 0..Zone-1
  BY <1>3, DivMod
<1>8. Payload(Entry(n))' = msg
  <2>1. ASSUME NEW i \in 1..len
        PROVE  (off % Zone) + i <= Zone /\ arena'[(off % Zone) + i - 1] = v
    <3> DEFINE b == (off % Zone) + i - 1
    <3>1. b \in 0..Zone-1 /\ off % Zone <= b /\ b < (off % Zone) + len /\ (off % Zone) + i <= Zone
      BY <1>2, <1>3, <1>7
    <3> HIDE DEF b
    <3>2. arena'[b] = v
      BY <1>2, <3>1
    <3> QED BY <3>1, <3>2 DEF b
  <2>2. Payload(Entry(n))' =
          [i \in 1..len |-> IF (off % Zone) + i <= Zone THEN arena'[(off % Zone) + i - 1] ELSE NoByte]
    BY <1>4, <1>6 DEF Payload
  <2> QED BY <2>1, <2>2
<1>9. ASSUME NEW j \in 0..n-1
      PROVE  Payload(Entry(j))' = Payload(Entry(j))
  <2>1. j \in Nat
    BY <1>3
  <2>2. Entry(j) \in Descriptors /\ InFlight(Entry(j))
    BY <1>1, <2>1, Typed DEF Inv, FlightInv
  <2>3. PICK e \in Descriptors : e = Entry(j) /\ e = Entry(j)' /\ InFlight(e)
    BY <1>5, <2>2
  <2>4. e.off \in 0..W-1 /\ e.len \in Nat /\ (e.off % Zone) + e.len <= Zone
    BY <2>3, Typed DEF InFlight
  <2>5. e.off % Zone \in 0..Zone-1
    <3>1. e.off \in Int
      BY <1>3, <2>4
    <3> QED BY <1>3, <3>1, DivMod
  <2>6. payloadHead \in 0..W-1 /\ payloadTail \in 0..W-1
    BY DEF Inv, RingTypeOK
  <2>7. Ahead(e.off) \in 0..W-1 /\ Ahead(off) \in 0..W-1 /\ Ahead(payloadTail) \in 0..W-1
    BY <2>4, <2>6, Typed
  <2>8. Ahead(e.off) + e.len <= Ahead(off)
    BY <1>2, <1>3, <2>3, <2>4, <2>7 DEF InFlight, End
  <2>9. ASSUME NEW i \in 1..e.len
        PROVE  (e.off % Zone) + i <= Zone /\ arena'[(e.off % Zone) + i - 1] = arena[(e.off % Zone) + i - 1]
    <3> DEFINE b == (e.off % Zone) + i - 1
    <3>1. b \in 0..Zone-1 /\ (e.off % Zone) + i <= Zone
      BY <1>3, <2>4, <2>5
    <3>2. CASE off % Zone <= b /\ b < (off % Zone) + len
      <4> DEFINE k == b - (off % Zone)
                 l == i - 1
      <4>1. k \in 0..len-1 /\ l \in 0..(e.len - 1) /\ (e.off % Zone) + l = (off % Zone) + k
        BY <1>3, <1>7, <2>4, <2>5, <3>1, <3>2
      <4> HIDE DEF k, l
      <4>2. (e.off % Zone) + l # (off % Zone) + k
        BY <1>2, <1>3, <2>4, <2>6, <2>8, <4>1, Disjoint DEF Ahead
      <4> QED BY <4>1, <4>2
    <3>3. CASE ~(off % Zone <= b /\ b < (off % Zone) + len)
      <4> HIDE DEF b
      <4>1. arena'[b] = arena[b]
        BY <1>2, <3>1, <3>3
      <4> QED BY <3>1, <4>1 DEF b
    <3> QED BY <3>2, <3>3
  <2>10. Payload(e)' = Payload(e)
    BY <2>9 DEF Payload
  <2> QED BY <2>3, <2>10 DEF Payload
<1>10. Queued' = Append(Queued, msg)
  <2>1. Queued = [i \in 1..n |-> Payload(Entry(i - 1))] /\ Len(Queued) = n
        /\ Queued \in Seq({Queued[i] : i \in 1..n})
    BY <1>1, Decoded
  <2>2. Queued' = [i \in 1..(n + 1) |-> Payload(Entry(i - 1))']
    <3>1. \A i \in 1..(n + 1) : ringHead + i - 1 = ringHead + (i - 1)
      BY <1>3 DEF Inv, RingTypeOK
    <3> QED BY <1>2, <3>1 DEF Queued, Entry
  <2>3. Append(Queued, msg) = [i \in 1..(n + 1) |-> IF i = n + 1 THEN msg ELSE Queued[i]]
    BY <1>3, <2>1, AppendProperties
  <2>4. ASSUME NEW i \in 1..(n + 1)
        PROVE  Payload(Entry(i - 1))' = IF i = n + 1 THEN msg ELSE Queued[i]
    <3>1. CASE i = n + 1
      <4>1. i - 1 = n
        BY <1>3, <3>1
      <4> QED BY <1>8, <3>1, <4>1
    <3>2. CASE i # n + 1
      <4>1. i \in 1..n /\ i - 1 \in 0..n-1
        BY <1>3, <3>2
      <4> QED BY <1>9, <2>1, <3>2, <4>1
    <3> QED BY <3>1, <3>2
  <2> QED BY <2>2, <2>3, <2>4
<1>11. Len(Queued) < Entries
  <2>1. Len(Queued) = n
    BY <1>1, Decoded
  <2>2. n < Entries
    BY <1>2, <1>3
  <2> QED BY <2>1, <2>2
<1>12. msg \in Message
  BY DEF Message
<1> HIDE DEF msg
<1>13. UNCHANGED got
  BY <1>2
<1> QED BY <1>10, <1>11, <1>12, <1>13 DEF Fifo!Next, Fifo!Put

\* A take removes the first message and hands it over.
LEMMA TakeRefines ==
  ASSUME Inv, Take
  PROVE  Fifo!Next
<1>1. PICK n : n = Depth
  OBVIOUS
<1>2. /\ n \in 1..Entries /\ Depth' = n - 1 /\ ringHead' \in 0..W-1
      /\ \A i \in Nat : Entry(i)' = Entry(i + 1)
      /\ got' = Payload(Entry(0)) /\ arena' = arena
  BY <1>1, TakeShape
<1>3. n \in Nat \ {0}
  BY <1>2, Constants
<1>4. /\ Queued = [i \in 1..n |-> Payload(Entry(i - 1))] /\ Len(Queued) = n
      /\ Queued \in Seq({Queued[i] : i \in 1..n})
  BY <1>1, Decoded
<1>5. Queued' = [i \in 1..(n - 1) |-> Payload(Entry(i - 1))']
  <2>1. \A i \in 1..(n - 1) : ringHead' + i - 1 = ringHead' + (i - 1)
    BY <1>2, <1>3
  <2> QED BY <1>2, <2>1 DEF Queued, Entry
<1>6. ASSUME NEW i \in 1..(n - 1)
      PROVE  Payload(Entry(i - 1))' = Queued[i + 1]
  <2>1. i - 1 \in Nat /\ (i - 1) + 1 = i /\ i + 1 \in 1..n /\ (i + 1) - 1 = i
    BY <1>3
  <2>2. PICK d : d = Entry(i) /\ d = Entry(i - 1)'
    BY <1>2, <2>1
  <2>3. Payload(d)' = Payload(d)
    BY <1>2 DEF Payload
  <2>4. Payload(Entry(i - 1))' = Payload(Entry(i))
    BY <2>2, <2>3 DEF Payload
  <2>5. Queued[i + 1] = Payload(Entry(i))
    BY <1>4, <2>1
  <2> QED BY <2>4, <2>5
<1>7. Queued # <<>> /\ Head(Queued) = Queued[1]
      /\ Tail(Queued) = [i \in 1..(n - 1) |-> Queued[i + 1]]
  <2> HIDE DEF Queued
  <2>1. PICK q : q = Queued
    OBVIOUS
  <2>2. PICK S : q \in Seq(S) /\ Len(q) = n
    BY <1>4, <2>1
  <2>3. q # <<>>
    BY <1>3, <2>2
  <2>4. Head(q) = q[1] /\ Tail(q) = [i \in 1..(n - 1) |-> q[i + 1]]
    <3>1. /\ Tail(q) \in Seq(S) /\ Len(Tail(q)) = n - 1
          /\ \A i \in 1..Len(Tail(q)) : Tail(q)[i] = q[i + 1]
      BY <2>2, <2>3, HeadTailProperties
    <3>2. Head(q) = q[1]
      BY <2>2, <2>3
    <3>3. n - 1 \in Nat /\ Tail(q) \in [1..(n - 1) -> S]
      <4>1. PICK r : r = Tail(q)
        OBVIOUS
      <4>2. r \in [1..Len(r) -> S]
        BY <3>1, <4>1, LenProperties
      <4> QED BY <1>3, <3>1, <4>1, <4>2
    <3> QED BY <3>1, <3>2, <3>3
  <2> QED BY <2>1, <2>3, <2>4
<1>8. Head(Queued) = got'
  <2>1. 1 \in 1..n /\ 1 - 1 = 0
    BY <1>3
  <2>2. Queued[1] = Payload(Entry(0))
    BY <1>4, <2>1
  <2> QED BY <1>2, <1>7, <2>2
<1>9. Queued' = Tail(Queued)
  BY <1>5, <1>6, <1>7
<1> HIDE DEF Queued
<1> QED BY <1>7, <1>8, <1>9 DEF Fifo!Next, Fifo!Take

\* Every behaviour of the ring is one of the bounded queue: no payload is overwritten
\* before it is read, none is lost, repeated or reordered, for any number of entries,
\* size of the zone and width of the counters.
THEOREM Refinement == RingSpec => RingIsFifo
<1>1. RingInit => Fifo!Init
  <2> SUFFICES ASSUME RingInit PROVE Queued = <<>> /\ got = <<>>
    BY DEF Fifo!Init
  <2>1. Inv /\ ringHead = ringTail /\ got = <<>>
    BY InitInv DEF RingInit
  <2>2. Depth = 0
    BY <2>1, Depths DEF Inv
  <2>3. Len(Queued) = 0 /\ Queued \in Seq({Queued[i] : i \in 1..0})
    BY <2>1, <2>2, Decoded
  <2> HIDE DEF Queued
  <2>4. Queued = <<>>
    BY <2>3, EmptySeq
  <2> QED BY <2>1, <2>4
<1>2. Inv /\ [RingNext]_ringVars => [Fifo!Next]_<<Queued, got>>
  <2> SUFFICES ASSUME Inv, [RingNext]_ringVars PROVE [Fifo!Next]_<<Queued, got>>
    OBVIOUS
  <2>1. CASE FreePayload
    BY <2>1 DEF FreePayload, Queued, Depth, Payload
  <2>2. CASE UNCHANGED ringVars
    BY <2>2 DEF ringVars, Queued, Depth, Payload
  <2> QED BY <2>1, <2>2, PutRefines, TakeRefines DEF RingNext
<1> QED BY <1>1, <1>2, Invariant, PTL DEF RingSpec, RingIsFifo, Fifo!Spec

=============================================================================

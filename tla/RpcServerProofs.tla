--------------------------- MODULE RpcServerProofs ---------------------------
(***************************************************************************)
(* Proofs about the RPC server, for any finite number of clients with any  *)
(* scripts, and any limits: worker slots and connections are counted       *)
(* exactly, queued requests are answered once each and in order, an event  *)
(* goes to one poll, and the server never sleeps on finished work.         *)
(***************************************************************************)
EXTENDS RpcServer, FiniteSetTheorems, SequenceTheorems, WellFoundedInduction, TLAPS

-----------------------------------------------------------------------------
(* Finite sets of numbers in ascending order.                              *)

\* A set of natural numbers has a least element.
LEMMA Least ==
  ASSUME NEW T, T \subseteq Nat, T # {}
  PROVE  \E x \in T : \A y \in T : x <= y
<1>1. PICK R : R = OpToRel(<, Nat)
  BY Zenon
<1>2. IsWellFoundedOn(R, Nat)
  BY <1>1, NatLessThanWellFounded, Zenon
<1>3. PICK x \in T : \A y \in T : ~(<<y, x>> \in R)
  BY <1>2, WFMin, Zenon
<1>4. R = {ss \in Nat \X Nat : ss[1] < ss[2]}
  BY <1>1, Zenon DEF OpToRel
<1>5. ASSUME NEW y \in T
      PROVE  x <= y
  <2>1. x \in Nat /\ y \in Nat /\ <<y, x>> \notin R
    BY <1>3
  <2>2. <<y, x>> \in Nat \X Nat /\ <<y, x>>[1] = y /\ <<y, x>>[2] = x
    BY <2>1
  <2>3. ~(y < x)
    BY <1>4, <2>1, <2>2
  <2> QED BY <2>1, <2>3
<1> QED BY <1>5

\* s lists S in ascending order.
Lists(s, S) ==
  /\ s \in [1..Cardinality(S) -> S]
  /\ \A j, k \in 1..Cardinality(S) : j < k => s[j] < s[k]

\* A finite set of numbers can be listed in ascending order: by induction on its size,
\* its least element first.
LEMMA Listed ==
  ASSUME NEW U, U \subseteq Nat, IsFiniteSet(U)
  PROVE  \E s : Lists(s, U)
<1> DEFINE Unlisted(n) == \E S \in SUBSET Nat :
             IsFiniteSet(S) /\ Cardinality(S) = n /\ \A s : ~Lists(s, S)
           T == {n \in Nat : Unlisted(n)}
<1>1. T = {}
  <2> SUFFICES ASSUME T # {} PROVE FALSE
    OBVIOUS
  <2>1. PICK n \in T : \A m \in T : n <= m
    BY Least
  <2>2. PICK S \in SUBSET Nat :
          IsFiniteSet(S) /\ Cardinality(S) = n /\ \A s : ~Lists(s, S)
    BY <2>1
  <2>3. n \in Nat
    BY <2>1
  <2>4. CASE S = {}
    <3>1. Cardinality(S) = 0
      BY <2>4, FS_EmptySet
    <3>2. Lists([k \in 1..0 |-> 0], S)
      BY <3>1 DEF Lists
    <3> QED BY <2>2, <3>2
  <2>5. CASE S # {}
    <3>1. PICK m \in S : \A y \in S : m <= y
      BY <2>5, Least
    <3>2. PICK R : R = S \ {m}
      OBVIOUS
    <3>3. IsFiniteSet(R) /\ Cardinality(R) = n - 1 /\ n - 1 \in Nat /\ R \in SUBSET Nat
      <4>1. IsFiniteSet(R) /\ Cardinality(R) = n - 1
        BY <2>2, <3>1, <3>2, FS_RemoveElement
      <4>2. Cardinality(R) \in Nat
        BY <4>1, FS_CardinalityType
      <4> QED BY <3>2, <4>1, <4>2
    <3>4. n - 1 \notin T
      BY <2>1, <2>3, <3>3
    <3>5. PICK f : Lists(f, R)
      BY <3>3, <3>4
    <3>6. f \in [1..(n - 1) -> R] /\ \A j, k \in 1..(n - 1) : j < k => f[j] < f[k]
      BY <3>3, <3>5 DEF Lists
    <3> DEFINE g == [k \in 1..n |-> IF k = 1 THEN m ELSE f[k - 1]]
    <3>7. g \in [1..n -> S]
      BY <2>3, <3>2, <3>6
    <3>8. ASSUME NEW j \in 1..n, NEW k \in 1..n, j < k
          PROVE  g[j] < g[k]
      <4>1. k # 1 /\ k - 1 \in 1..(n - 1) /\ g[k] = f[k - 1] /\ f[k - 1] \in R
        BY <2>3, <3>6, <3>8
      <4>2. CASE j = 1
        <5>1. m <= f[k - 1] /\ f[k - 1] # m /\ m \in Nat /\ f[k - 1] \in Nat
          BY <3>1, <3>2, <4>1
        <5> QED BY <4>1, <4>2, <5>1
      <4>3. CASE j # 1
        <5>1. j - 1 \in 1..(n - 1) /\ j - 1 < k - 1 /\ g[j] = f[j - 1]
          BY <2>3, <3>8, <4>3
        <5> QED BY <3>6, <4>1, <5>1
      <4> QED BY <4>2, <4>3
    <3> HIDE DEF g
    <3>9. Lists(g, S)
      BY <2>2, <3>7, <3>8 DEF Lists
    <3> QED BY <2>2, <3>9
  <2> QED BY <2>4, <2>5
<1>2. Cardinality(U) \in Nat
  BY FS_CardinalityType
<1>3. Cardinality(U) \notin T
  BY <1>1
<1> QED BY <1>2, <1>3

\* What Ascending lists.
LEMMA AscendingIs ==
  ASSUME NEW S, S \subseteq Nat, IsFiniteSet(S)
  PROVE  /\ Ascending(S) \in Seq(S)
         /\ \A j, k \in DOMAIN Ascending(S) : j < k => Ascending(S)[j] < Ascending(S)[k]
<1>1. PICK s : Lists(s, S)
  BY Listed
<1>2. Cardinality(S) \in Nat
  BY FS_CardinalityType
<1>3. Lists(Ascending(S), S)
  BY <1>1 DEF Lists, Ascending
<1> HIDE DEF Ascending
<1>4. Ascending(S) \in Seq(S)
  BY <1>2, <1>3, SeqDef DEF Lists
<1> QED BY <1>3, <1>4 DEF Lists

-----------------------------------------------------------------------------
(* The invariant and what it says of single actions.                       *)

Inv ==
  /\ CapacityExact /\ AnsweredInOrder
  /\ ThreadInv /\ QueuedInv /\ CompletedInv /\ OrderInv /\ EventInv /\ WakeInv

\* The lines of a client and the tasks.
LEMMA TaskIs ==
  ASSUME TypeOK
  PROVE  /\ \A c \in Clients : script[c] \in Seq(Kinds) /\ Len(script[c]) \in Nat
                              /\ DOMAIN script[c] = 1..Len(script[c])
         /\ \A c, i : <<c, i>> \in Tasks <=> c \in Clients /\ i \in DOMAIN script[c]
         /\ \A t \in Tasks : /\ t = <<t[1], t[2]>> /\ t[1] \in Clients /\ t[2] \in DOMAIN script[t[1]]
                            /\ t[2] \in Lines
         /\ IsFiniteSet(Tasks)
<1>1. ASSUME NEW c \in Clients
      PROVE  script[c] \in Seq(Kinds) /\ Len(script[c]) \in Nat
             /\ DOMAIN script[c] = 1..Len(script[c])
  <2>1. script[c] \in Scripts[c] /\ Scripts[c] \subseteq Seq(Kinds)
    BY ServerAssumption DEF TypeOK
  <2>2. script[c] \in Seq(Kinds)
    BY <2>1
  <2> QED BY <2>2, LenProperties
<1>2. \A c, i : <<c, i>> \in Tasks <=> c \in Clients /\ i \in DOMAIN script[c]
  BY DEF Tasks
<1>3. ASSUME NEW t \in Tasks
      PROVE  /\ t = <<t[1], t[2]>> /\ t[1] \in Clients /\ t[2] \in DOMAIN script[t[1]]
             /\ t[2] \in Lines
  <2>1. PICK c \in Clients : t \in {c} \X DOMAIN script[c]
    BY DEF Tasks
  <2>2. t[1] = c /\ t[2] \in DOMAIN script[c] /\ t = <<t[1], t[2]>>
    BY <2>1
  <2> QED BY <1>1, <2>2 DEF Lines
<1>4. IsFiniteSet(Tasks)
  <2> DEFINE f == [c \in Clients |-> {c} \X DOMAIN script[c]]
             T == {{c} \X DOMAIN script[c] : c \in Clients}
  <2>1. f \in Surjection(Clients, T)
    BY DEF Surjection
  <2>2. IsFiniteSet(T)
    BY <2>1, FS_Surjection, ServerAssumption
  <2>3. ASSUME NEW c \in Clients
        PROVE  IsFiniteSet({c} \X DOMAIN script[c])
    <3>1. IsFiniteSet(DOMAIN script[c])
      BY <1>1, FS_Interval
    <3> QED BY <3>1, FS_Singleton, FS_Product
  <2> HIDE DEF f
  <2> QED BY <2>2, <2>3, FS_UNION DEF Tasks
<1> QED BY <1>1, <1>2, <1>3, <1>4

\* The steps that touch neither requests nor connections nor events ...
Quiet == UNCHANGED <<script, connVars, read, pending, active, waiting, answers, poolVars,
                     queue, made>>

\* ... and the others.
LEMMA Steps ==
  ASSUME [Next]_vars
  PROVE  \/ Quiet
         \/ \E c \in Clients :
              \/ Accept(c) \/ ReadEnd(c) \/ \E n \in DOMAIN script[c] : ReadLines(c, n)
              \/ PollAnswered(c) \/ PollWaits(c) \/ PollRaises(c) \/ Submit(c)
              \/ Overloaded(c) \/ AnswerWaiter(c)
         \/ DrainCompletion \/ ServerClose \/ PoolStep \/ QueueEvent
<1> USE DEF Quiet, vars, clientVars, connVars, askVars, poolVars, eventVars, Internal, Outside
<1>1. ASSUME NEW c \in Clients, HangUp(c) \/ Expire(c) PROVE Quiet
  BY <1>1 DEF HangUp, Expire
<1>2. Select \/ DrainWake \/ Drained \/ LeaveLoop \/ JoinWorkers => Quiet
  BY DEF Select, DrainWake, Drained, LeaveLoop, JoinWorkers
<1>3. ASSUME NEW c \in Clients, PassClient(c) PROVE Quiet
  BY <1>3 DEF PassClient, Visit
<1>4. NotifyBackendEvent \/ Shutdown \/ UNCHANGED vars => Quiet
  BY DEF NotifyBackendEvent, Shutdown
<1> QED BY <1>1, <1>2, <1>3, <1>4, Zenon DEF Next, Server, ServeClient

\* A client that is closed.
LEMMA CloseShape ==
  ASSUME TypeOK, NEW c \in Clients, CloseClient(c)
  PROVE  /\ conn' \in [Clients -> {"away", "open", "refused", "closed"}]
         /\ Open' = Open \ {c} /\ count' = count - 1
         /\ pending' \in [Clients -> Seq(Lines)] /\ pending'[c] = <<>>
         /\ waiting' \in [Clients -> Nat] /\ waiting'[c] = 0
         /\ \A d \in Clients \ {c} : pending'[d] = pending[d] /\ waiting'[d] = waiting[d]
<1>1. <<>> \in Seq(Lines) /\ 0 \in Nat
  OBVIOUS
<1> QED BY <1>1 DEF TypeOK, CloseClient, Open

\* A chunk is taken in: its good lines are queued and its bad ones answered.
TakenIn(c, good, bad) ==
  /\ pending' = [pending EXCEPT ![c] = @ \o good]
  /\ answers' = [answers EXCEPT ![c] = @ \o [k \in DOMAIN bad |->
                   [for |-> bad[k], kind |-> "error", event |-> NoEvent]]]
  /\ UNCHANGED <<conn, count, waiting>>

\* The lines a chunk holds, good and bad, in their order.
Chunk(c, n, good, bad) ==
  /\ good \in Seq((read[c] + 1)..n) /\ bad \in Seq((read[c] + 1)..n)
  /\ (read[c] + 1)..n \subseteq Lines
  /\ \A j, k \in DOMAIN good : j < k => good[j] < good[k]
  /\ n > read[c] /\ n <= Len(script[c]) /\ n \in Nat /\ read[c] \in Nat
  /\ read' = [read EXCEPT ![c] = n]
  /\ (CloseClient(c) /\ answers' = answers) \/ TakenIn(c, good, bad)

\* A read takes a chunk in or closes the connection.
LEMMA ReadShape ==
  ASSUME TypeOK, NEW c \in Clients, NEW n \in DOMAIN script[c], ReadLines(c, n)
  PROVE  \E good, bad : Chunk(c, n, good, bad)
<1> DEFINE New  == (read[c] + 1)..n
           Bad  == {i \in New : script[c][i] = "bad"}
<1>1. n \in Nat /\ read[c] \in Nat /\ n <= Len(script[c])
  <2>1. read[c] \in Nat
    BY DEF TypeOK
  <2>2. Len(script[c]) \in Nat /\ n \in 1..Len(script[c])
    BY TaskIs
  <2> QED BY <2>1, <2>2
<1>2. New \subseteq Nat /\ IsFiniteSet(New)
  <2>1. read[c] + 1 \in Int /\ n \in Int
    BY <1>1
  <2>2. IsFiniteSet(New)
    BY <2>1, FS_Interval
  <2> QED BY <1>1, <2>2
<1>3. IsFiniteSet(Bad) /\ IsFiniteSet(New \ Bad) /\ Bad \subseteq New /\ New \ Bad \subseteq New
  <2>1. Bad \in SUBSET New /\ New \ Bad \in SUBSET New
    OBVIOUS
  <2> HIDE DEF New, Bad
  <2> QED BY <1>2, <2>1, FS_Subset
<1>4. PICK good : good = Ascending(New \ Bad)
  OBVIOUS
<1>5. PICK bad : bad = Ascending(Bad)
  OBVIOUS
<1>6. good \in Seq(New) /\ \A j, k \in DOMAIN good : j < k => good[j] < good[k]
  <2> HIDE DEF New, Bad
  <2>1. good \in Seq(New \ Bad) /\ \A j, k \in DOMAIN good : j < k => good[j] < good[k]
    BY <1>2, <1>3, <1>4, AscendingIs
  <2> QED BY <1>3, <2>1, SeqMonotonic
<1>7. bad \in Seq(New)
  <2> HIDE DEF New, Bad
  <2>1. bad \in Seq(Bad)
    BY <1>2, <1>3, <1>5, AscendingIs
  <2> QED BY <1>3, <2>1, SeqMonotonic
<1>8. /\ n > read[c] /\ read' = [read EXCEPT ![c] = n]
      /\ (CloseClient(c) /\ answers' = answers) \/ TakenIn(c, good, bad)
  BY <1>4, <1>5 DEF ReadLines, connVars, TakenIn
<1>9. New \subseteq Lines
  BY <1>1 DEF Lines
<1> HIDE DEF New, Bad
<1> QED BY <1>1, <1>6, <1>7, <1>8, <1>9 DEF New, Chunk

\* A request that is dispatched: it was queued, and no worker has seen it.
LEMMA DispatchShape ==
  ASSUME Inv, NEW c \in Clients, NEW kind, Dispatched(c, kind)
  PROVE  \E i :
           /\ i = Head(pending[c]) /\ i \in Lines /\ i <= read[c] /\ i \in DOMAIN script[c]
           /\ work[c][i] = "none" /\ script[c][i] = kind
           /\ c \in Open /\ c \notin active /\ waiting[c] = 0 /\ turn = c
           /\ pc \in {"select", "serve"}
           /\ 1 \in DOMAIN pending[c] /\ pending[c][1] = i
           /\ pending' \in [Clients -> Seq(Lines)]
           /\ \A d \in Clients \ {c} : pending'[d] = pending[d]
           /\ \A k \in DOMAIN pending'[c] :
                k \in Nat \ {0} /\ k + 1 \in DOMAIN pending[c] /\ pending'[c][k] = pending[c][k + 1]
<1>1. turn = c /\ c # NoClient /\ TypeOK /\ ThreadInv /\ QueuedInv
  BY ServerAssumption DEF Dispatched, Inv, CapacityExact
<1>2. /\ c \in Open /\ c \notin active /\ waiting[c] = 0 /\ turn = c
      /\ pc \in {"select", "serve"} /\ pending[c] # <<>>
  BY <1>1 DEF ThreadInv
<1>3. PICK s : s = pending[c] /\ s \in Seq(Lines) /\ s # <<>>
  BY <1>1, <1>2 DEF TypeOK
<1>4. Len(s) \in Nat \ {0} /\ DOMAIN s = 1..Len(s) /\ Head(s) = s[1]
  BY <1>3, EmptySeq, LenProperties
<1>5. Tail(s) \in Seq(Lines) /\ Len(Tail(s)) = Len(s) - 1
      /\ \A k \in 1..Len(Tail(s)) : Tail(s)[k] = s[k + 1]
  BY <1>3, HeadTailProperties
<1>6. 1 \in DOMAIN s /\ s[1] \in Lines
  BY <1>3, <1>4
<1>7. s[1] <= read[c] /\ work[c][s[1]] = "none"
  BY <1>1, <1>3, <1>6 DEF QueuedInv
<1>8. s[1] \in DOMAIN script[c]
  <2>1. read[c] <= Len(script[c]) /\ read[c] \in Nat
    BY <1>1 DEF TypeOK
  <2> QED BY <1>1, <1>6, <1>7, <2>1, TaskIs DEF Lines
<1>9. pending' = [pending EXCEPT ![c] = Tail(s)] /\ pending \in [Clients -> Seq(Lines)]
      /\ script[c][s[1]] = kind
  BY <1>1, <1>3, <1>4 DEF Dispatched, TypeOK
<1>10. pending'[c] = Tail(s) /\ pending' \in [Clients -> Seq(Lines)]
       /\ \A d \in Clients \ {c} : pending'[d] = pending[d]
  BY <1>5, <1>9
<1>11. \A k \in DOMAIN Tail(s) : k \in Nat \ {0} /\ k + 1 \in DOMAIN s /\ Tail(s)[k] = s[k + 1]
  <2>1. DOMAIN Tail(s) = 1..Len(Tail(s))
    BY <1>5, LenProperties
  <2> QED BY <1>4, <1>5, <2>1
<1> QED BY <1>2, <1>3, <1>4, <1>6, <1>7, <1>8, <1>9, <1>10, <1>11

-----------------------------------------------------------------------------
(* Slots and connections.                                                  *)

\* One task moves to another phase, and the others stay where they are.
Moves(c, i, to) == work' = [work EXCEPT ![c][i] = to] /\ script' = script
Moved(c, i, to) ==
  /\ work'[c][i] = to
  /\ \A d \in Clients : \A j \in DOMAIN script[d] :
       <<d, j>> # <<c, i>> => work'[d][j] = work[d][j]

\* What Moves does.
LEMMA TaskMoves ==
  ASSUME TypeOK, NEW c \in Clients, NEW i \in DOMAIN script[c], NEW to, Moves(c, i, to)
  PROVE  Moved(c, i, to)
<1>1. c \in DOMAIN work /\ i \in DOMAIN work[c] /\ DOMAIN work = Clients
      /\ \A d \in Clients : DOMAIN work[d] = DOMAIN script[d]
  BY DEF TypeOK
<1>2. work'[c] = [work[c] EXCEPT ![i] = to] /\ \A d \in Clients \ {c} : work'[d] = work[d]
  BY <1>1 DEF Moves
<1>3. ASSUME NEW d \in Clients, NEW j \in DOMAIN script[d], <<d, j>> # <<c, i>>
      PROVE  work'[d][j] = work[d][j]
  <2>1. d # c \/ (d = c /\ j # i)
    BY <1>3
  <2> QED BY <1>1, <1>2, <2>1
<1> QED BY <1>1, <1>2, <1>3 DEF Moved

\* A slot is taken for a task that starts and given back for one that ends.
LEMMA SlotsStep ==
  ASSUME Inv, [Next]_vars
  PROVE  slots' \in 0..MaxWorkers /\ slots' + Cardinality(In({"running"}))' = MaxWorkers
<1> DEFINE Run == In({"running"})
<1>1. TypeOK /\ slots \in 0..MaxWorkers /\ slots + Cardinality(Run) = MaxWorkers
      /\ MaxWorkers \in Nat
  BY ServerAssumption DEF Inv, CapacityExact, TypeOK
<1>2. IsFiniteSet(Run) /\ Cardinality(Run) \in Nat
  <2>1. Run \in SUBSET Tasks
    BY DEF In
  <2> QED BY <1>1, <2>1, TaskIs, FS_Subset, FS_CardinalityType
<1>3. CASE UNCHANGED <<script, slots, work>>
  BY <1>1, <1>3 DEF In, Tasks
<1>4. ASSUME NEW c \in Clients, Submit(c)
      PROVE  slots' \in 0..MaxWorkers /\ slots' + Cardinality(Run)' = MaxWorkers
  <2>1. PICK i : i = Head(pending[c]) /\ i \in DOMAIN script[c] /\ work[c][i] = "none"
    BY <1>4, DispatchShape DEF Submit
  <2>2. slots > 0 /\ slots' = slots - 1 /\ work' = [work EXCEPT ![c][i] = "running"] /\ script' = script
    BY <1>4, <2>1 DEF Submit, Dispatched, clientVars
  <2>3. Moved(c, i, "running")
    BY <1>1, <2>1, <2>2, TaskMoves DEF Moves
  <2>4. <<c, i>> \in Tasks /\ <<c, i>> \notin Run
    BY <1>1, <2>1, TaskIs DEF In
  <2>5. Run' = Run \cup {<<c, i>>}
    <3>1. Tasks' = Tasks
      BY <2>2 DEF Tasks
    <3>2. ASSUME NEW t \in Tasks, t # <<c, i>>
          PROVE  work'[t[1]][t[2]] = work[t[1]][t[2]]
      <4>1. t = <<t[1], t[2]>> /\ t[1] \in Clients /\ t[2] \in DOMAIN script[t[1]]
        BY <1>1, TaskIs
      <4> QED BY <2>3, <3>2, <4>1 DEF Moved
    <3> QED BY <2>3, <2>4, <3>1, <3>2 DEF In, Moved
  <2>6. Cardinality(Run') = Cardinality(Run) + 1
    BY <1>2, <2>4, <2>5, FS_AddElement
  <2> HIDE DEF Run
  <2> QED BY <1>1, <1>2, <2>2, <2>6
<1>5. ASSUME NEW t \in Tasks, FinishRequest(t[1], t[2])
      PROVE  slots' \in 0..MaxWorkers /\ slots' + Cardinality(Run)' = MaxWorkers
  <2>1. PICK c, i : c = t[1] /\ i = t[2] /\ <<c, i>> = t /\ c \in Clients /\ i \in DOMAIN script[c]
    BY <1>1, TaskIs
  <2>2. work[c][i] = "running" /\ slots' = slots + 1 /\ script' = script
        /\ work' = [work EXCEPT ![c][i] = "released"]
    BY <1>5, <2>1 DEF FinishRequest, Released, Phase, clientVars
  <2>3. Moved(c, i, "released")
    BY <1>1, <2>1, <2>2, TaskMoves DEF Moves
  <2>4. <<c, i>> \in Run
    BY <2>1, <2>2 DEF In
  <2>5. Run' = Run \ {<<c, i>>}
    <3>1. Tasks' = Tasks
      BY <2>2 DEF Tasks
    <3>2. ASSUME NEW u \in Tasks, u # <<c, i>>
          PROVE  work'[u[1]][u[2]] = work[u[1]][u[2]]
      <4>1. u = <<u[1], u[2]>> /\ u[1] \in Clients /\ u[2] \in DOMAIN script[u[1]]
        BY <1>1, TaskIs
      <4> QED BY <2>3, <3>2, <4>1 DEF Moved
    <3> QED BY <2>3, <2>4, <3>1, <3>2 DEF In, Moved
  <2>6. Cardinality(Run') = Cardinality(Run) - 1
    BY <1>2, <2>4, <2>5, FS_RemoveElement
  <2>7. Cardinality(Run') \in Nat
    BY <1>2, <2>5, FS_RemoveElement, FS_CardinalityType
  <2> HIDE DEF Run
  <2> QED BY <1>1, <1>2, <2>2, <2>6, <2>7
<1>6. ASSUME NEW t \in Tasks, AppendCompletion(t[1], t[2]) \/ WakeServer(t[1], t[2])
      PROVE  slots' \in 0..MaxWorkers /\ slots' + Cardinality(Run)' = MaxWorkers
  <2>1. PICK c, i : c = t[1] /\ i = t[2] /\ <<c, i>> = t /\ c \in Clients /\ i \in DOMAIN script[c]
    BY <1>1, TaskIs
  <2>2. PICK to \in {"appended", "done"} :
          work[c][i] # "running" /\ work' = [work EXCEPT ![c][i] = to]
          /\ slots' = slots /\ script' = script
    BY <1>6, <2>1 DEF AppendCompletion, WakeServer, Phase, clientVars
  <2>3. Moved(c, i, to)
    BY <1>1, <2>1, <2>2, TaskMoves DEF Moves
  <2>4. Run' = Run
    <3>1. Tasks' = Tasks
      BY <2>2 DEF Tasks
    <3>2. ASSUME NEW u \in Tasks, u # <<c, i>>
          PROVE  work'[u[1]][u[2]] = work[u[1]][u[2]]
      <4>1. u = <<u[1], u[2]>> /\ u[1] \in Clients /\ u[2] \in DOMAIN script[u[1]]
        BY <1>1, TaskIs
      <4> QED BY <2>3, <3>2, <4>1 DEF Moved
    <3> QED BY <2>2, <2>3, <3>1, <3>2 DEF In, Moved
  <2> QED BY <1>1, <2>2, <2>4
<1>7. ASSUME NEW c \in Clients, ~Submit(c),
             \/ Accept(c) \/ ReadEnd(c) \/ \E n \in DOMAIN script[c] : ReadLines(c, n)
             \/ PollAnswered(c) \/ PollWaits(c) \/ PollRaises(c) \/ Submit(c)
             \/ Overloaded(c) \/ AnswerWaiter(c)
      PROVE  UNCHANGED <<script, slots, work>>
  BY <1>7 DEF Accept, ReadEnd, ReadLines, PollAnswered, PollWaits, PollRaises, Overloaded,
              AnswerWaiter, Dispatched, Visit, clientVars, poolVars
<1>8. Quiet \/ DrainCompletion \/ ServerClose \/ QueueEvent => UNCHANGED <<script, slots, work>>
  BY DEF Quiet, DrainCompletion, ServerClose, QueueEvent, Outside, clientVars, poolVars
<1> QED BY <1>3, <1>4, <1>5, <1>6, <1>7, <1>8, Steps DEF PoolStep

\* A connection is counted when it is accepted and again when it is closed.
LEMMA CountStep ==
  ASSUME Inv, [Next]_vars
  PROVE  count' \in 0..MaxClients /\ count' = Cardinality(Open)'
<1>1. TypeOK /\ ThreadInv /\ count \in 0..MaxClients /\ count = Cardinality(Open)
      /\ MaxClients \in Nat
  BY ServerAssumption DEF Inv, CapacityExact, TypeOK
<1>2. IsFiniteSet(Open)
  <2>1. Open \in SUBSET Clients
    BY DEF Open
  <2> QED BY <2>1, FS_Subset, ServerAssumption
<1>3. CASE UNCHANGED <<conn, count>>
  BY <1>1, <1>3 DEF Open
<1>4. ASSUME NEW c \in Clients, CloseClient(c), c \in Open
      PROVE  count' \in 0..MaxClients /\ count' = Cardinality(Open)'
  <2>1. Open' = Open \ {c} /\ count' = count - 1
    BY <1>1, <1>4, CloseShape
  <2>2. Cardinality(Open') = Cardinality(Open) - 1 /\ Cardinality(Open') \in Nat
    BY <1>2, <1>4, <2>1, FS_RemoveElement, FS_CardinalityType
  <2> QED BY <1>1, <2>1, <2>2
<1>5. ASSUME NEW c \in Clients, Served(c)
      PROVE  c \in Open
  <2>1. c # "wake"
    BY ServerAssumption
  <2> QED BY <1>1, <1>5, <2>1 DEF Served, At, ThreadInv
<1>6. ASSUME NEW c \in Clients, ReadEnd(c) \/ \E n \in DOMAIN script[c] : ReadLines(c, n)
      PROVE  (CloseClient(c) /\ c \in Open) \/ UNCHANGED <<conn, count>>
  <2>1. CASE ReadEnd(c)
    BY <1>5, <2>1 DEF ReadEnd
  <2>2. ASSUME NEW n \in DOMAIN script[c], ReadLines(c, n)
        PROVE  (CloseClient(c) /\ c \in Open) \/ UNCHANGED <<conn, count>>
    <3>1. Served(c)
      BY <2>2 DEF ReadLines
    <3>2. PICK good, bad : Chunk(c, n, good, bad)
      BY <1>1, <2>2, ReadShape
    <3> QED BY <1>5, <3>1, <3>2 DEF Chunk, TakenIn
  <2> QED BY <1>6, <2>1, <2>2
<1>7. ASSUME NEW c \in Clients, Accept(c)
      PROVE  count' \in 0..MaxClients /\ count' = Cardinality(Open)'
  <2>1. conn[c] = "away" /\ conn \in [Clients -> {"away", "open", "refused", "closed"}]
        /\ conn' = [conn EXCEPT ![c] = IF count < MaxClients THEN "open" ELSE "refused"]
        /\ count' = IF count < MaxClients THEN count + 1 ELSE count
    BY <1>1, <1>7 DEF Accept, Counted, TypeOK
  <2>2. CASE count < MaxClients
    <3>1. Open' = Open \cup {c} /\ c \notin Open
      BY <2>1, <2>2 DEF Open
    <3>2. Cardinality(Open') = Cardinality(Open) + 1
      BY <1>2, <3>1, FS_AddElement
    <3> QED BY <1>1, <2>1, <2>2, <3>2
  <2>3. CASE ~(count < MaxClients)
    <3>1. Open' = Open
      BY <2>1, <2>3 DEF Open
    <3> QED BY <1>1, <2>1, <2>3, <3>1
  <2> QED BY <2>2, <2>3
<1>8. ASSUME ServerClose
      PROVE  count' \in 0..MaxClients /\ count' = Cardinality(Open)'
  <2>1. Open' = {} /\ count' = count - Cardinality(Open)
    BY <1>8 DEF ServerClose, Open
  <2> QED BY <1>1, <2>1, FS_EmptySet
<1>9. ASSUME NEW c \in Clients,
             PollAnswered(c) \/ PollWaits(c) \/ PollRaises(c) \/ Submit(c) \/ Overloaded(c)
             \/ AnswerWaiter(c)
      PROVE  UNCHANGED <<conn, count>>
  BY <1>9 DEF PollAnswered, PollWaits, PollRaises, Overloaded, Submit, AnswerWaiter, Dispatched,
              Visit, connVars
<1>10. ASSUME NEW t \in Tasks,
              FinishRequest(t[1], t[2]) \/ AppendCompletion(t[1], t[2]) \/ WakeServer(t[1], t[2])
       PROVE  UNCHANGED <<conn, count>>
  BY <1>10 DEF FinishRequest, AppendCompletion, WakeServer, Phase, connVars
<1>11. Quiet \/ DrainCompletion \/ QueueEvent => UNCHANGED <<conn, count>>
  BY DEF Quiet, DrainCompletion, QueueEvent, Outside, connVars
<1> QED BY <1>3, <1>4, <1>6, <1>7, <1>8, <1>9, <1>10, <1>11, Steps DEF PoolStep

-----------------------------------------------------------------------------
(* Types.                                                                  *)

AnswerKinds == {"error", "event", "waited", "busy", "result"}

\* A response is appended to what an open client gets.
LEMMA AnswerShape ==
  ASSUME TypeOK, NEW c \in Clients, NEW i \in Lines, NEW kind \in AnswerKinds, NEW e \in Nat,
         Answer(c, i, kind, e)
  PROVE  /\ answers' \in [Clients -> Seq(Responses)]
         /\ \A d \in Clients \ {c} : answers'[d] = answers[d]
         /\ c \notin Open => answers' = answers
         /\ Len(answers[c]) \in Nat /\ DOMAIN answers[c] = 1..Len(answers[c])
         /\ \A j \in DOMAIN answers[c] : answers'[c][j] = answers[c][j]
         /\ c \in Open =>
              /\ DOMAIN answers'[c] = 1..(Len(answers[c]) + 1)
              /\ answers'[c][Len(answers[c]) + 1] = [for |-> i, kind |-> kind, event |-> e]
<1> DEFINE r == [for |-> i, kind |-> kind, event |-> e]
<1>1. r \in Responses
  BY DEF Responses, AnswerKinds
<1> HIDE DEF r
<1>2. PICK s : s = answers[c] /\ s \in Seq(Responses)
  BY DEF TypeOK
<1>3. Len(s) \in Nat /\ DOMAIN s = 1..Len(s)
  BY <1>2, LenProperties
<1>4. PICK a : a = Append(s, r)
  OBVIOUS
<1>5. /\ a \in Seq(Responses) /\ Len(a) = Len(s) + 1
      /\ \A j \in 1..Len(s) : a[j] = s[j]
      /\ a[Len(s) + 1] = r
  BY <1>1, <1>2, <1>4, AppendProperties
<1>6. DOMAIN a = 1..(Len(s) + 1)
  BY <1>5, LenProperties
<1>7. answers \in [Clients -> Seq(Responses)]
  BY DEF TypeOK
<1>8. answers' = IF c \in Open THEN [answers EXCEPT ![c] = a] ELSE answers
  BY <1>2, <1>4 DEF Answer, r
<1> QED BY <1>2, <1>3, <1>5, <1>6, <1>7, <1>8 DEF r

\* The error responses to the bad lines of a chunk.
LEMMA ErrorShape ==
  ASSUME TypeOK, NEW c \in Clients, NEW n, NEW good, NEW bad, Chunk(c, n, good, bad),
         TakenIn(c, good, bad)
  PROVE  /\ answers' \in [Clients -> Seq(Responses)]
         /\ \A d \in Clients \ {c} : answers'[d] = answers[d]
         /\ DOMAIN answers[c] \subseteq DOMAIN answers'[c]
         /\ \A j \in DOMAIN answers[c] : answers'[c][j] = answers[c][j]
         /\ \A j \in DOMAIN answers'[c] \ DOMAIN answers[c] :
              answers'[c][j].kind = "error" /\ answers'[c][j].event = NoEvent
<1> DEFINE e == [k \in DOMAIN bad |-> [for |-> bad[k], kind |-> "error", event |-> NoEvent]]
<1>1. PICK s : s = answers[c] /\ s \in Seq(Responses)
  BY DEF TypeOK
<1>2. Len(bad) \in Nat /\ DOMAIN bad = 1..Len(bad) /\ \A k \in DOMAIN bad : bad[k] \in Lines
  <2>1. PICK S : S \subseteq Lines /\ bad \in Seq(S)
    BY DEF Chunk
  <2> QED BY <2>1, LenProperties
<1>3. e \in [1..Len(bad) -> Responses]
  <2>1. \A k \in DOMAIN bad : [for |-> bad[k], kind |-> "error", event |-> NoEvent] \in Responses
    BY <1>2 DEF Responses, NoEvent
  <2> QED BY <1>2, <2>1
<1>4. e \in Seq(Responses) /\ Len(e) = Len(bad)
  <2>1. e \in Seq(Responses)
    BY <1>2, <1>3, SeqDef
  <2>2. DOMAIN e = 1..Len(bad)
    BY <1>3
  <2> HIDE DEF e
  <2> QED BY <1>2, <2>1, <2>2, LenProperties
<1>5. \A k \in DOMAIN bad : e[k].kind = "error" /\ e[k].event = NoEvent
  OBVIOUS
<1>6. answers' = [answers EXCEPT ![c] = s \o e] /\ answers \in [Clients -> Seq(Responses)]
  BY <1>1 DEF TypeOK, TakenIn
<1> HIDE DEF e
<1>7. Len(s) \in Nat /\ DOMAIN s = 1..Len(s)
  BY <1>1, LenProperties
<1>8. /\ s \o e \in Seq(Responses) /\ Len(s \o e) = Len(s) + Len(e)
      /\ \A i \in 1..(Len(s) + Len(e)) :
           (s \o e)[i] = IF i <= Len(s) THEN s[i] ELSE e[i - Len(s)]
  <2>1. PICK f : f = e /\ f \in Seq(Responses)
    BY <1>4
  <2>2. /\ s \o f \in Seq(Responses) /\ Len(s \o f) = Len(s) + Len(f)
        /\ \A i \in 1..(Len(s) + Len(f)) :
             (s \o f)[i] = IF i <= Len(s) THEN s[i] ELSE f[i - Len(s)]
    BY <1>1, <2>1, ConcatProperties
  <2> QED BY <2>1, <2>2
<1>9. PICK a : a = s \o e
  OBVIOUS
<1>10. DOMAIN a = 1..(Len(s) + Len(bad)) /\ a \in Seq(Responses)
  BY <1>4, <1>8, <1>9, LenProperties
<1>11. \A i \in DOMAIN s : i \in DOMAIN a /\ a[i] = s[i]
  BY <1>2, <1>4, <1>7, <1>8, <1>9, <1>10
<1>12. \A i \in DOMAIN a \ DOMAIN s : a[i].kind = "error" /\ a[i].event = NoEvent
  <2> SUFFICES ASSUME NEW i \in DOMAIN a, i \notin DOMAIN s
               PROVE  a[i].kind = "error" /\ a[i].event = NoEvent
    OBVIOUS
  <2>1. i \in Nat /\ ~(i <= Len(s)) /\ i - Len(s) \in DOMAIN bad
    BY <1>2, <1>7, <1>10
  <2>2. a[i] = e[i - Len(s)]
    BY <1>4, <1>8, <1>9, <1>10, <2>1
  <2> QED BY <1>5, <2>1, <2>2
<1> QED BY <1>1, <1>6, <1>9, <1>10, <1>11, <1>12

\* The good lines of a chunk behind what was queued.
LEMMA QueueShape ==
  ASSUME TypeOK, NEW c \in Clients, NEW n, NEW good, NEW bad, Chunk(c, n, good, bad),
         TakenIn(c, good, bad)
  PROVE  /\ pending' \in [Clients -> Seq(Lines)]
         /\ \A d \in Clients \ {c} : pending'[d] = pending[d]
         /\ Len(pending[c]) \in Nat /\ DOMAIN pending[c] = 1..Len(pending[c])
         /\ DOMAIN pending'[c] \subseteq Nat
         /\ \A j \in DOMAIN pending'[c] :
              \/ j \in DOMAIN pending[c] /\ pending'[c][j] = pending[c][j]
              \/ /\ j > Len(pending[c]) /\ j - Len(pending[c]) \in DOMAIN good
                 /\ pending'[c][j] = good[j - Len(pending[c])]
<1>1. PICK s : s = pending[c] /\ s \in Seq(Lines)
  BY DEF TypeOK
<1>2. Len(good) \in Nat /\ DOMAIN good = 1..Len(good) /\ good \in Seq(Lines)
  <2>1. PICK S : S \subseteq Lines /\ good \in Seq(S)
    BY DEF Chunk
  <2> QED BY <2>1, LenProperties, SeqMonotonic
<1>3. Len(s) \in Nat /\ DOMAIN s = 1..Len(s)
  BY <1>1, LenProperties
<1>4. /\ s \o good \in Seq(Lines) /\ Len(s \o good) = Len(s) + Len(good)
      /\ \A i \in 1..(Len(s) + Len(good)) :
           (s \o good)[i] = IF i <= Len(s) THEN s[i] ELSE good[i - Len(s)]
  BY <1>1, <1>2, ConcatProperties
<1>5. PICK a : a = s \o good
  OBVIOUS
<1>6. DOMAIN a = 1..(Len(s) + Len(good)) /\ a \in Seq(Lines)
  BY <1>4, <1>5, LenProperties
<1>7. ASSUME NEW j \in DOMAIN a
      PROVE  \/ j \in DOMAIN s /\ a[j] = s[j]
             \/ j > Len(s) /\ j - Len(s) \in DOMAIN good /\ a[j] = good[j - Len(s)]
  BY <1>2, <1>3, <1>4, <1>5, <1>6
<1>8. pending' = [pending EXCEPT ![c] = a] /\ pending \in [Clients -> Seq(Lines)]
  BY <1>1, <1>5 DEF TypeOK, TakenIn
<1> QED BY <1>1, <1>3, <1>2, <1>6, <1>7, <1>8

\* The elements of two sequences the server thread takes from.
LEMMA HeadIs ==
  ASSUME NEW S, NEW s \in Seq(S), s # <<>>
  PROVE  /\ 1 \in DOMAIN s /\ Head(s) = s[1] /\ Head(s) \in S /\ Tail(s) \in Seq(S)
         /\ DOMAIN s \subseteq Nat
         /\ \A k \in DOMAIN Tail(s) : k \in Nat \ {0} /\ k + 1 \in DOMAIN s /\ Tail(s)[k] = s[k + 1]
         /\ \A k \in DOMAIN s : k # 1 => k - 1 \in DOMAIN Tail(s) /\ Tail(s)[k - 1] = s[k]
<1>1. Len(s) \in Nat \ {0} /\ DOMAIN s = 1..Len(s) /\ Head(s) = s[1]
  BY EmptySeq, LenProperties
<1>2. Tail(s) \in Seq(S) /\ Len(Tail(s)) = Len(s) - 1 /\ Head(s) \in S
      /\ \A k \in 1..Len(Tail(s)) : Tail(s)[k] = s[k + 1]
  BY HeadTailProperties
<1>3. DOMAIN Tail(s) = 1..Len(Tail(s))
  BY <1>2, LenProperties
<1>4. \A k \in DOMAIN Tail(s) : k \in Nat \ {0} /\ k + 1 \in DOMAIN s /\ Tail(s)[k] = s[k + 1]
  BY <1>1, <1>2, <1>3
<1>5. ASSUME NEW k \in DOMAIN s, k # 1
      PROVE  k - 1 \in DOMAIN Tail(s) /\ Tail(s)[k - 1] = s[k]
  <2>1. k - 1 \in 1..Len(Tail(s)) /\ (k - 1) + 1 = k
    BY <1>1, <1>2, <1>5
  <2> QED BY <1>2, <1>3, <2>1
<1> QED BY <1>1, <1>2, <1>4, <1>5

\* Types are kept.
LEMMA TypeStep ==
  ASSUME Inv, [Next]_vars
  PROVE  TypeOK'
<1>1. slots' \in 0..MaxWorkers /\ count' \in 0..MaxClients
  BY SlotsStep, CountStep
<1>2. TypeOK /\ ThreadInv
  BY DEF Inv, CapacityExact
<1>3. CASE UNCHANGED vars
  BY <1>2, <1>3 DEF vars, clientVars, connVars, askVars, poolVars, eventVars, loopVars, TypeOK
<1>4. ASSUME NEW c \in Clients, HangUp(c) \/ Expire(c)
      PROVE  TypeOK'
  BY <1>2, <1>4 DEF HangUp, Expire, Outside, Open, connVars, poolVars, loopVars, eventVars, TypeOK
<1>5. ASSUME Select \/ DrainWake \/ Drained \/ LeaveLoop \/ JoinWorkers
      PROVE  TypeOK'
  <2>1. Ready \subseteq {"wake"} \cup Clients /\ {c \in Open : waiting[c] # 0} \subseteq Clients
    BY DEF Ready, Open
  <2> QED BY <1>2, <1>5, <2>1 DEF Select, DrainWake, Drained, LeaveLoop, JoinWorkers, Goto, Served,
        Internal, clientVars, connVars, askVars, poolVars, eventVars, TypeOK
<1>6. ASSUME NotifyBackendEvent \/ Shutdown
      PROVE  TypeOK'
  <2>1. Woken \in BOOLEAN
    BY DEF Woken
  <2> QED BY <1>2, <1>6, <2>1 DEF NotifyBackendEvent, Shutdown, Outside, connVars, poolVars,
        loopVars, eventVars, TypeOK
<1>7. ASSUME QueueEvent
      PROVE  TypeOK'
  <2>1. made \in Nat /\ made < MaxEvents /\ MaxEvents \in Nat /\ made' = made + 1
    BY <1>2, <1>7, ServerAssumption DEF QueueEvent, TypeOK
  <2>2. made' \in 0..MaxEvents /\ made' \in Lines
    BY <2>1 DEF Lines
  <2>3. queue' \in Seq(Lines)
    BY <1>2, <1>7, <2>2 DEF QueueEvent, TypeOK
  <2> QED BY <1>2, <1>7, <2>2, <2>3 DEF QueueEvent, Outside, connVars, poolVars, loopVars, TypeOK
<1>8. ASSUME NEW c \in Clients, Accept(c)
      PROVE  TypeOK'
  BY <1>1, <1>2, <1>8 DEF Accept, Goto, askVars, poolVars, eventVars, TypeOK
<1>9. ASSUME NEW c \in Clients, ReadEnd(c)
      PROVE  TypeOK'
  <2>1. /\ conn' \in [Clients -> {"away", "open", "refused", "closed"}]
        /\ pending' \in [Clients -> Seq(Lines)] /\ waiting' \in [Clients -> Nat]
    BY <1>2, <1>9, CloseShape DEF ReadEnd
  <2> QED BY <1>1, <1>2, <1>9, <2>1 DEF ReadEnd, Served, clientVars, poolVars, eventVars, TypeOK
<1>10. ASSUME NEW c \in Clients, NEW n \in DOMAIN script[c], ReadLines(c, n)
       PROVE  TypeOK'
  <2>1. PICK good, bad : Chunk(c, n, good, bad)
    BY <1>2, <1>10, ReadShape
  <2>3. /\ conn' \in [Clients -> {"away", "open", "refused", "closed"}]
        /\ pending' \in [Clients -> Seq(Lines)] /\ waiting' \in [Clients -> Nat]
        /\ answers' \in [Clients -> Seq(Responses)]
    <3>1. CASE CloseClient(c) /\ answers' = answers
      <4>1. /\ conn' \in [Clients -> {"away", "open", "refused", "closed"}]
            /\ pending' \in [Clients -> Seq(Lines)] /\ waiting' \in [Clients -> Nat]
        BY <1>2, <3>1, CloseShape
      <4> QED BY <1>2, <3>1, <4>1 DEF TypeOK
    <3>2. CASE TakenIn(c, good, bad)
      <4>1. pending' \in [Clients -> Seq(Lines)] /\ answers' \in [Clients -> Seq(Responses)]
        BY <1>2, <2>1, <3>2, QueueShape, ErrorShape
      <4> QED BY <1>2, <3>2, <4>1 DEF TakenIn, TypeOK
    <3> QED BY <2>1, <3>1, <3>2 DEF Chunk
  <2>4. read' \in [Clients -> Nat] /\ \A d \in Clients : read'[d] <= Len(script[d])
    BY <1>2, <2>1 DEF Chunk, TypeOK
  <2>5. /\ ready' \subseteq ready /\ turn' \in Clients \cup {NoClient}
        /\ UNCHANGED <<clientVars, active, expired, poolVars, eventVars, wake, stop, pc, todo>>
    BY <1>10 DEF ReadLines, Served, Enter
  <2> QED BY <1>1, <1>2, <2>3, <2>4, <2>5 DEF clientVars, poolVars, eventVars, TypeOK
<1>11. ASSUME NEW c \in Clients,
              PollAnswered(c) \/ PollWaits(c) \/ PollRaises(c) \/ Submit(c) \/ Overloaded(c)
       PROVE  TypeOK'
  <2>1. PICK kind : Dispatched(c, kind)
    BY <1>11 DEF PollAnswered, PollWaits, PollRaises, Submit, Overloaded
  <2>2. PICK i : i = Head(pending[c]) /\ i \in Lines /\ i \in DOMAIN script[c]
                 /\ pending' \in [Clients -> Seq(Lines)]
    BY <2>1, DispatchShape
  <2>3. UNCHANGED <<clientVars, connVars, read, completed, made, notifying, wake, stop, ready, todo>>
    BY <2>1 DEF Dispatched
  <2>4. turn' \in Clients \cup {NoClient}
    BY <1>11 DEF PollAnswered, PollWaits, PollRaises, Submit, Overloaded, Enter
  <2>5. answers' \in [Clients -> Seq(Responses)] /\ queue' \in Seq(Lines)
    <3>1. CASE PollAnswered(c)
      <4>1. queue # <<>> /\ queue \in Seq(Lines)
        BY <1>2, <3>1 DEF PollAnswered, TypeOK
      <4>2. Head(queue) \in Nat /\ Tail(queue) \in Seq(Lines) /\ "event" \in AnswerKinds
        BY <4>1, HeadIs DEF Lines, AnswerKinds
      <4>3. Answer(c, i, "event", Head(queue)) /\ queue' = Tail(queue)
        BY <2>2, <3>1 DEF PollAnswered, DropEvent
      <4>4. answers' \in [Clients -> Seq(Responses)]
        BY <1>2, <2>2, <4>2, <4>3, AnswerShape
      <4> QED BY <4>2, <4>3, <4>4
    <3>2. CASE Overloaded(c)
      <4>1. Answer(c, i, "busy", NoEvent) /\ queue' = queue /\ "busy" \in AnswerKinds /\ NoEvent \in Nat
        BY <2>2, <3>2 DEF Overloaded, AnswerKinds, NoEvent
      <4>2. answers' \in [Clients -> Seq(Responses)]
        BY <1>2, <2>2, <4>1, AnswerShape
      <4> QED BY <1>2, <4>1, <4>2 DEF TypeOK
    <3>3. CASE PollWaits(c) \/ PollRaises(c) \/ Submit(c)
      BY <1>2, <3>3 DEF PollWaits, PollRaises, Submit, TypeOK
    <3> QED BY <1>11, <3>1, <3>2, <3>3
  <2>6. /\ active' \subseteq Clients /\ waiting' \in [Clients -> Nat] /\ expired' \subseteq Clients
        /\ pc' \in {"select", "serve", "leaving", "joining", "closed"}
    <3>1. i \in Nat
      BY <2>2 DEF Lines
    <3>2. CASE PollWaits(c)
      BY <1>2, <2>2, <3>1, <3>2 DEF PollWaits, TypeOK
    <3>3. CASE PollAnswered(c) \/ PollRaises(c) \/ Overloaded(c)
      BY <1>2, <3>3 DEF PollAnswered, PollRaises, Overloaded, TypeOK
    <3>4. CASE Submit(c)
      BY <1>2, <3>4 DEF Submit, TypeOK
    <3> QED BY <1>11, <3>2, <3>3, <3>4
  <2>7. DOMAIN work' = Clients /\ \A d \in Clients :
          work'[d] \in [DOMAIN script[d] -> {"none", "running", "released", "appended", "done"}]
    <3>1. CASE Submit(c)
      <4>1. work' = [work EXCEPT ![c][i] = "running"]
        BY <2>2, <3>1 DEF Submit
      <4> QED BY <1>2, <2>2, <4>1 DEF TypeOK
    <3>2. CASE UNCHANGED work
      BY <1>2, <3>2 DEF TypeOK
    <3> QED BY <1>11, <3>1, <3>2 DEF PollAnswered, PollWaits, PollRaises, Overloaded
  <2> QED BY <1>1, <1>2, <2>2, <2>3, <2>4, <2>5, <2>6, <2>7 DEF clientVars, connVars, TypeOK
<1>12. ASSUME NEW c \in Clients, AnswerWaiter(c) \/ PassClient(c)
       PROVE  TypeOK'
  <2>1. Visit(c)
    BY <1>12 DEF AnswerWaiter, PassClient
  <2>2. answers' \in [Clients -> Seq(Responses)] /\ queue' \in Seq(Lines)
    <3>1. CASE PassClient(c)
      BY <1>2, <3>1 DEF PassClient, TypeOK
    <3>2. CASE AnswerWaiter(c)
      <4>1. waiting[c] \in Lines /\ "waited" \in AnswerKinds /\ NoEvent \in Nat
        BY <1>2, <3>2 DEF AnswerWaiter, Due, TypeOK, Lines, AnswerKinds, NoEvent
      <4>2. CASE queue # <<>>
        <5>1. Answer(c, waiting[c], "waited", Head(queue)) /\ queue' = Tail(queue)
          BY <3>2, <4>2 DEF AnswerWaiter, DropEvent
        <5>2. Head(queue) \in Nat /\ Tail(queue) \in Seq(Lines)
          BY <1>2, <4>2, HeadIs DEF TypeOK, Lines
        <5>3. answers' \in [Clients -> Seq(Responses)]
          BY <1>2, <4>1, <5>1, <5>2, AnswerShape
        <5> QED BY <5>1, <5>2, <5>3
      <4>3. CASE queue = <<>>
        <5>1. Answer(c, waiting[c], "waited", NoEvent) /\ queue' = queue
          BY <3>2, <4>3 DEF AnswerWaiter
        <5>2. answers' \in [Clients -> Seq(Responses)]
          BY <1>2, <4>1, <5>1, AnswerShape
        <5> QED BY <1>2, <5>1, <5>2 DEF TypeOK
      <4> QED BY <4>2, <4>3
    <3> QED BY <1>12, <3>1, <3>2
  <2>3. waiting' \in [Clients -> Nat] /\ expired' \subseteq Clients /\ turn' \in Clients \cup {NoClient}
    <3>1. CASE PassClient(c)
      BY <1>2, <3>1 DEF PassClient, TypeOK
    <3>2. CASE AnswerWaiter(c)
      <4>1. waiting' = [waiting EXCEPT ![c] = 0] /\ expired' \subseteq expired /\ Enter(c)
        BY <3>2 DEF AnswerWaiter
      <4> QED BY <1>2, <4>1 DEF Enter, TypeOK
    <3> QED BY <1>12, <3>1, <3>2
  <2> QED BY <1>1, <1>2, <2>1, <2>2, <2>3 DEF Visit, clientVars, connVars, poolVars, TypeOK
<1>13. ASSUME DrainCompletion
       PROVE  TypeOK'
  <2>1. completed # <<>> /\ completed \in Seq(Clients \X Lines)
    BY <1>2, <1>13 DEF DrainCompletion, TypeOK
  <2>2. Head(completed) \in Clients \X Lines /\ Tail(completed) \in Seq(Clients \X Lines)
    BY <2>1, HeadIs
  <2>3. PICK c \in Clients, i \in Lines : c = Head(completed)[1] /\ i = Head(completed)[2]
    BY <2>2
  <2>4. /\ completed' = Tail(completed) /\ active' \subseteq active
        /\ Answer(c, i, "result", NoEvent) /\ Enter(c)
        /\ UNCHANGED <<clientVars, connVars, read, pending, waiting, expired, slots, work,
                       eventVars, wake, stop, pc, ready, todo>>
    BY <1>13, <2>3 DEF DrainCompletion
  <2>5. "result" \in AnswerKinds /\ NoEvent \in Nat
    BY DEF AnswerKinds, NoEvent
  <2>6. answers' \in [Clients -> Seq(Responses)]
    BY <1>2, <2>3, <2>4, <2>5, AnswerShape
  <2>7. turn' \in Clients \cup {NoClient}
    BY <2>4 DEF Enter
  <2> QED BY <1>1, <1>2, <2>2, <2>4, <2>6, <2>7 DEF clientVars, connVars, eventVars, TypeOK
<1>14. ASSUME ServerClose
       PROVE  TypeOK'
  BY <1>1, <1>2, <1>14 DEF ServerClose, Goto, clientVars, askVars, poolVars, eventVars, TypeOK
<1>15. ASSUME NEW t \in Tasks,
              FinishRequest(t[1], t[2]) \/ AppendCompletion(t[1], t[2]) \/ WakeServer(t[1], t[2])
       PROVE  TypeOK'
  <2>1. PICK c, i : c = t[1] /\ i = t[2] /\ c \in Clients /\ i \in DOMAIN script[c] /\ i \in Lines
    BY <1>2, TaskIs
  <2>2. UNCHANGED <<clientVars, connVars, askVars, eventVars, stop, loopVars>>
    BY <1>15 DEF FinishRequest, AppendCompletion, WakeServer, Phase
  <2>3. PICK to \in {"none", "running", "released", "appended", "done"} :
          work' = [work EXCEPT ![c][i] = to]
    BY <1>15, <2>1 DEF FinishRequest, AppendCompletion, WakeServer, Phase
  <2>4. DOMAIN work' = Clients /\ \A d \in Clients :
          work'[d] \in [DOMAIN script[d] -> {"none", "running", "released", "appended", "done"}]
    BY <1>2, <2>1, <2>3 DEF TypeOK
  <2>5. completed' \in Seq(Clients \X Lines) /\ wake' \in BOOLEAN
    <3>1. <<c, i>> \in Clients \X Lines /\ Woken \in BOOLEAN
      BY <2>1 DEF Woken
    <3>2. completed \in Seq(Clients \X Lines) /\ wake \in BOOLEAN
      BY <1>2 DEF TypeOK
    <3>3. \/ completed' = completed /\ (wake' = wake \/ wake' = Woken)
          \/ completed' = Append(completed, <<c, i>>) /\ wake' = wake
      BY <1>15, <2>1 DEF FinishRequest, AppendCompletion, WakeServer
    <3>4. Append(completed, <<c, i>>) \in Seq(Clients \X Lines)
      BY <3>1, <3>2, AppendProperties
    <3> QED BY <3>1, <3>2, <3>3, <3>4
  <2> QED BY <1>1, <1>2, <2>2, <2>4, <2>5
        DEF clientVars, connVars, askVars, eventVars, loopVars, TypeOK
<1> QED BY <1>3, <1>4, <1>5, <1>6, <1>7, <1>8, <1>9, <1>10, <1>11, <1>12, <1>13, <1>14, <1>15,
           Zenon DEF Next, Server, ServeClient, PoolStep

-----------------------------------------------------------------------------
(* The server thread, and its wakeups.                                     *)

\* _dispatch_pending is entered for an open client with requests queued and none under
\* way, or returns at once.
LEMMA EnterShape ==
  ASSUME NEW c \in Clients, Enter(c), turn' # NoClient
  PROVE  turn' = c /\ c \in Open' /\ pending'[c] # <<>> /\ c \notin active' /\ waiting'[c] = 0
BY DEF Enter, Open

\* The server thread's own state.
LEMMA ThreadStep ==
  ASSUME Inv, [Next]_vars
  PROVE  ThreadInv'
<1>1. TypeOK /\ ThreadInv
  BY DEF Inv, CapacityExact
<1>2. CASE UNCHANGED vars
  BY <1>1, <1>2 DEF vars, clientVars, connVars, askVars, poolVars, eventVars, loopVars, ThreadInv, Open
<1>3. ASSUME NEW c \in Clients, HangUp(c) \/ Expire(c)
      PROVE  ThreadInv'
  BY <1>1, <1>3 DEF HangUp, Expire, Outside, Open, connVars, poolVars, loopVars, eventVars, ThreadInv
<1>4. ASSUME Select \/ DrainWake \/ Drained \/ LeaveLoop \/ JoinWorkers
      PROVE  ThreadInv'
  <2>1. Ready \subseteq {"wake"} \cup Open
    BY DEF Ready
  <2>2. UNCHANGED <<conn, pending, active, waiting, turn>> /\ Open' = Open
    BY <1>4 DEF Select, DrainWake, Drained, LeaveLoop, JoinWorkers, Goto, Internal, connVars,
                askVars, Open
  <2>3. turn = NoClient \/ JoinWorkers
    BY <1>4 DEF Select, DrainWake, Drained, LeaveLoop, Selecting, Served, At
  <2>4. JoinWorkers => pc = "joining" /\ pc' = "closed"
    BY DEF JoinWorkers, Goto
  <2>5. turn = NoClient
    BY <1>1, <2>3, <2>4 DEF ThreadInv
  <2>6. pc' = "serve" => ready' \subseteq {"wake"} \cup Open
    BY <1>1, <1>4, <2>1 DEF Select, DrainWake, Drained, LeaveLoop, JoinWorkers, Goto, Selecting,
                            Served, At, ThreadInv
  <2>7. pc \in {"joining", "closed"} => pc' \in {"joining", "closed"}
    BY <1>4 DEF Select, DrainWake, Drained, LeaveLoop, JoinWorkers, Goto, Selecting, Served, At
  <2> QED BY <1>1, <2>2, <2>5, <2>6, <2>7 DEF ThreadInv
<1>5. ASSUME QueueEvent \/ NotifyBackendEvent \/ Shutdown
      PROVE  ThreadInv'
  BY <1>1, <1>5 DEF QueueEvent, NotifyBackendEvent, Shutdown, Outside, Open, connVars, poolVars,
                    loopVars, eventVars, ThreadInv
<1>6. ASSUME NEW c \in Clients, Accept(c)
      PROVE  ThreadInv'
  <2>1. conn[c] = "away" /\ conn \in [Clients -> {"away", "open", "refused", "closed"}]
        /\ conn' = [conn EXCEPT ![c] = IF count < MaxClients THEN "open" ELSE "refused"]
        /\ pc = "serve" /\ turn = NoClient /\ turn' = turn
        /\ UNCHANGED <<pending, active, waiting, ready>>
    BY <1>1, <1>6 DEF Accept, At, Goto, askVars, TypeOK
  <2>2. Open \subseteq Open'
    BY <2>1 DEF Open
  <2> QED BY <1>1, <2>1, <2>2 DEF ThreadInv
<1>7. ASSUME NEW c \in Clients, Served(c), CloseClient(c), pc' = pc,
             turn' # NoClient => Enter(c)
      PROVE  ThreadInv'
  <2>1. Open' = Open \ {c} /\ waiting'[c] = 0
        /\ \A d \in Clients \ {c} : waiting'[d] = waiting[d]
    BY <1>1, <1>7, CloseShape
  <2>2. pc = "serve" /\ ready' = ready \ {c}
    BY <1>7 DEF Served, At
  <2>3. turn' = NoClient
    BY <1>7, <2>1, EnterShape
  <2> QED BY <1>1, <1>7, <2>1, <2>2, <2>3 DEF ThreadInv
<1>8. ASSUME NEW c \in Clients, ReadEnd(c)
      PROVE  ThreadInv'
  BY <1>7, <1>8 DEF ReadEnd, Served, At
<1>9. ASSUME NEW c \in Clients, NEW n \in DOMAIN script[c], ReadLines(c, n)
      PROVE  ThreadInv'
  <2>1. PICK good, bad : Chunk(c, n, good, bad)
    BY <1>1, <1>9, ReadShape
  <2>2. Served(c) /\ pc' = pc /\ pc = "serve" /\ Enter(c) /\ ready' \subseteq ready
    BY <1>9 DEF ReadLines, Served, At
  <2>3. CASE CloseClient(c)
    BY <1>7, <2>2, <2>3
  <2>4. CASE TakenIn(c, good, bad)
    <3>1. Open' = Open /\ waiting' = waiting
      BY <2>4 DEF TakenIn, Open
    <3> QED BY <1>1, <2>2, <3>1, EnterShape DEF ThreadInv
  <2> QED BY <2>1, <2>3, <2>4 DEF Chunk
<1>10. ASSUME NEW c \in Clients,
              PollAnswered(c) \/ PollWaits(c) \/ PollRaises(c) \/ Submit(c) \/ Overloaded(c)
       PROVE  ThreadInv'
  <2>1. PICK kind : Dispatched(c, kind)
    BY <1>10 DEF PollAnswered, PollWaits, PollRaises, Submit, Overloaded
  <2>2. c \in Open /\ pc \in {"select", "serve"}
    BY <2>1, DispatchShape
  <2>3. UNCHANGED <<conn, ready>> /\ Open' = Open
    BY <2>1 DEF Dispatched, connVars, Open
  <2>4. pc' = pc \/ (pc' = "leaving" /\ turn' = NoClient)
    BY <1>10 DEF PollAnswered, PollWaits, PollRaises, Submit, Overloaded
  <2>5. turn' = NoClient \/ Enter(c)
    BY <1>10 DEF PollAnswered, PollWaits, PollRaises, Submit, Overloaded
  <2>6. \A d \in Clients : d # c => waiting'[d] = waiting[d]
    BY <1>1, <1>10 DEF PollAnswered, PollWaits, PollRaises, Submit, Overloaded, TypeOK
  <2>7. \A d \in Clients : waiting'[d] # 0 => d \in Open'
    BY <1>1, <2>2, <2>3, <2>6 DEF ThreadInv
  <2> QED BY <1>1, <2>2, <2>3, <2>4, <2>5, <2>7, EnterShape DEF ThreadInv
<1>11. ASSUME NEW c \in Clients, AnswerWaiter(c) \/ PassClient(c)
       PROVE  ThreadInv'
  <2>1. pc = "select" /\ turn = NoClient /\ UNCHANGED <<conn, pending, active, pc, ready>> /\ Open' = Open
    BY <1>11 DEF AnswerWaiter, PassClient, Visit, At, connVars, Open
  <2>2. \A d \in Clients : waiting'[d] = waiting[d] \/ waiting'[d] = 0
    BY <1>1, <1>11 DEF AnswerWaiter, PassClient, TypeOK
  <2>3. turn' = turn \/ Enter(c)
    BY <1>11 DEF AnswerWaiter, PassClient
  <2> QED BY <1>1, <2>1, <2>2, <2>3, EnterShape DEF ThreadInv
<1>12. ASSUME DrainCompletion
       PROVE  ThreadInv'
  <2>1. completed # <<>> /\ completed \in Seq(Clients \X Lines)
    BY <1>1, <1>12 DEF DrainCompletion, TypeOK
  <2>2. Head(completed) \in Clients \X Lines
    BY <2>1, HeadIs
  <2>3. PICK c \in Clients : c = Head(completed)[1]
    BY <2>2
  <2>4. Enter(c) /\ pc = "serve" /\ UNCHANGED <<conn, waiting, pc, ready>> /\ Open' = Open
    BY <1>12, <2>3 DEF DrainCompletion, At, connVars, Open
  <2> QED BY <1>1, <2>4, EnterShape DEF ThreadInv
<1>13. ASSUME ServerClose
       PROVE  ThreadInv'
  BY <1>1, <1>13 DEF ServerClose, Goto, ThreadInv
<1>14. ASSUME NEW t \in Tasks,
              FinishRequest(t[1], t[2]) \/ AppendCompletion(t[1], t[2]) \/ WakeServer(t[1], t[2])
       PROVE  ThreadInv'
  BY <1>1, <1>14 DEF FinishRequest, AppendCompletion, WakeServer, Phase, connVars, askVars,
                     loopVars, Open, ThreadInv
<1> QED BY <1>2, <1>3, <1>4, <1>5, <1>6, <1>8, <1>9, <1>10, <1>11, <1>12, <1>13, <1>14,
           Zenon DEF Next, Server, ServeClient, PoolStep

\* Finished work and events are announced.
LEMMA WakeStep ==
  ASSUME Inv, [Next]_vars
  PROVE  WakeInv'
<1>1. TypeOK /\ WakeInv
  BY DEF Inv, CapacityExact
<1> DEFINE App == In({"appended"})
<1>2. ASSUME UNCHANGED <<script, work>>
      PROVE  App' = App
  BY <1>2 DEF In, Tasks
<1>3. CASE UNCHANGED vars
  BY <1>1, <1>2, <1>3 DEF vars, clientVars, connVars, askVars, poolVars, eventVars, loopVars,
        WakeInv, Open
<1>4. ASSUME NEW c \in Clients, HangUp(c) \/ Expire(c)
      PROVE  WakeInv'
  BY <1>1, <1>2, <1>4 DEF HangUp, Expire, Outside, Open, connVars, poolVars, loopVars, eventVars,
        WakeInv
<1>5. ASSUME Select \/ DrainWake \/ LeaveLoop \/ JoinWorkers \/ ServerClose
      PROVE  WakeInv'
  <2>1. pc' # "select"
    BY <1>5 DEF Select, DrainWake, LeaveLoop, JoinWorkers, ServerClose, Goto, Served, At
  <2> QED BY <2>1 DEF WakeInv
<1>6. ASSUME Drained
      PROVE  WakeInv'
  <2>1. completed' = <<>> /\ todo' = {c \in Open : waiting[c] # 0} /\ Open' = Open /\ waiting' = waiting
    BY <1>6 DEF Drained, Internal, poolVars, connVars, askVars, Open
  <2> QED BY <2>1 DEF WakeInv
<1>7. ASSUME NEW c \in Clients,
             Accept(c) \/ ReadEnd(c) \/ \E n \in DOMAIN script[c] : ReadLines(c, n)
      PROVE  WakeInv'
  <2>1. pc' # "select"
    BY <1>7 DEF Accept, ReadEnd, ReadLines, Goto, Served, At
  <2> QED BY <2>1 DEF WakeInv
<1>8. ASSUME DrainCompletion
      PROVE  WakeInv'
  <2>1. pc' # "select"
    BY <1>8 DEF DrainCompletion, At
  <2> QED BY <2>1 DEF WakeInv
<1>9. ASSUME NEW c \in Clients,
             PollAnswered(c) \/ PollWaits(c) \/ PollRaises(c) \/ Submit(c) \/ Overloaded(c)
      PROVE  WakeInv'
  <2>1. PICK kind : Dispatched(c, kind)
    BY <1>9 DEF PollAnswered, PollWaits, PollRaises, Submit, Overloaded
  <2>2. /\ UNCHANGED <<script, completed, notifying, wake, todo, conn>> /\ Open' = Open
        /\ pc' = pc \/ pc' = "leaving"
    BY <1>9, <2>1 DEF Dispatched, connVars, clientVars, Open, PollAnswered, PollWaits, PollRaises,
                      Submit, Overloaded
  <2>3. App \subseteq App'
    <3>1. CASE Submit(c)
      <4>1. PICK i : i = Head(pending[c]) /\ i \in DOMAIN script[c] /\ work[c][i] = "none"
        BY <2>1, DispatchShape
      <4>2. Moved(c, i, "running")
        BY <1>1, <2>2, <3>1, <4>1, TaskMoves DEF Submit, Moves
      <4>3. ASSUME NEW u \in App
            PROVE  u \in App'
        <5>1. u \in Tasks /\ u \in Tasks' /\ work[u[1]][u[2]] = "appended"
          BY <2>2, <4>3 DEF In, Tasks
        <5>2. u = <<u[1], u[2]>> /\ u[1] \in Clients /\ u[2] \in DOMAIN script[u[1]]
          BY <1>1, <5>1, TaskIs
        <5>3. <<u[1], u[2]>> # <<c, i>>
          BY <4>1, <5>1
        <5> QED BY <4>2, <5>1, <5>2, <5>3 DEF Moved, In
      <4> QED BY <4>3
    <3>2. CASE UNCHANGED work
      BY <1>2, <2>2, <3>2
    <3> QED BY <1>9, <3>1, <3>2 DEF PollAnswered, PollWaits, PollRaises, Overloaded
  <2>4. \/ queue' = <<>>
        \/ queue # <<>> /\ waiting' = waiting
    <3>1. CASE PollWaits(c)
      BY <3>1 DEF PollWaits
    <3>2. CASE ~PollWaits(c)
      <4>1. waiting' = waiting /\ (queue' = queue \/ queue # <<>>)
        BY <1>9, <3>2 DEF PollAnswered, PollRaises, Submit, Overloaded
      <4> QED BY <4>1
    <3> QED BY <3>1, <3>2
  <2> HIDE DEF App
  <2> QED BY <1>1, <2>2, <2>3, <2>4 DEF WakeInv, App
<1>10. ASSUME NEW c \in Clients, AnswerWaiter(c) \/ PassClient(c)
       PROVE  WakeInv'
  <2>1. /\ UNCHANGED <<script, work, completed, notifying, wake, conn, pc>> /\ Open' = Open
        /\ pc = "select" /\ todo' = todo \ {c}
    BY <1>10 DEF AnswerWaiter, PassClient, Visit, At, connVars, clientVars, poolVars, Open
  <2>2. App' = App
    BY <1>2, <2>1
  <2>3. CASE queue' = <<>>
    BY <1>1, <2>1, <2>2, <2>3 DEF WakeInv
  <2>4. CASE queue' # <<>>
    <3>1. queue # <<>> /\ waiting'[c] = 0 /\ \A d \in Clients \ {c} : waiting'[d] = waiting[d]
      <4>1. CASE AnswerWaiter(c)
        BY <1>1, <2>4, <4>1 DEF AnswerWaiter, TypeOK
      <4>2. CASE PassClient(c)
        BY <1>1, <2>4, <4>2 DEF PassClient, Due, TypeOK
      <4> QED BY <1>10, <4>1, <4>2
    <3> QED BY <1>1, <2>1, <2>2, <3>1 DEF WakeInv, Open
  <2> QED BY <2>3, <2>4
<1>11. ASSUME QueueEvent
       PROVE  WakeInv'
  <2>1. UNCHANGED <<script, work, completed, wake, pc>> /\ notifying'
    BY <1>11 DEF QueueEvent, Outside, poolVars, loopVars
  <2>2. App' = App
    BY <1>2, <2>1
  <2> QED BY <1>1, <2>1, <2>2 DEF WakeInv
<1>12. ASSUME NotifyBackendEvent \/ Shutdown
       PROVE  WakeInv'
  <2>1. pc' = pc /\ (pc = "select" => wake')
    BY <1>12 DEF NotifyBackendEvent, Shutdown, Outside, loopVars, Woken
  <2> QED BY <2>1 DEF WakeInv
<1>13. ASSUME NEW t \in Tasks,
              FinishRequest(t[1], t[2]) \/ AppendCompletion(t[1], t[2]) \/ WakeServer(t[1], t[2])
       PROVE  WakeInv'
  <2>1. PICK c, i : c = t[1] /\ i = t[2] /\ t = <<c, i>> /\ c \in Clients /\ i \in DOMAIN script[c]
    BY <1>1, TaskIs
  <2>2. UNCHANGED <<script, conn, waiting, queue, notifying, pc, todo>> /\ Open' = Open
    BY <1>13 DEF FinishRequest, AppendCompletion, WakeServer, Phase, clientVars, connVars, askVars,
                 eventVars, loopVars, Open
  <2>3. CASE WakeServer(t[1], t[2])
    <3>1. pc = "select" => wake'
      BY <2>3 DEF WakeServer, Woken
    <3> QED BY <2>2, <3>1 DEF WakeInv
  <2>4. CASE AppendCompletion(t[1], t[2])
    <3>1. Moves(c, i, "appended") /\ wake' = wake
      BY <2>1, <2>2, <2>4 DEF AppendCompletion, Phase, Moves
    <3>2. work'[c][i] = "appended"
      BY <1>1, <2>1, <3>1, TaskMoves DEF Moved
    <3>3. t \in App'
      BY <2>1, <2>2, <3>2 DEF In, Tasks
    <3> HIDE DEF App
    <3> QED BY <1>1, <2>2, <3>1, <3>3 DEF WakeInv, App
  <2>5. CASE FinishRequest(t[1], t[2])
    <3>1. Moves(c, i, "released") /\ work[c][i] = "running" /\ UNCHANGED <<completed, wake>>
      BY <2>1, <2>2, <2>5 DEF FinishRequest, Phase, Moves
    <3>2. Moved(c, i, "released")
      BY <1>1, <2>1, <3>1, TaskMoves
    <3>3. ASSUME NEW u \in App
          PROVE  u \in App'
      <4>1. u \in Tasks /\ u \in Tasks' /\ work[u[1]][u[2]] = "appended"
        BY <2>2, <3>3 DEF In, Tasks
      <4>2. u = <<u[1], u[2]>> /\ u[1] \in Clients /\ u[2] \in DOMAIN script[u[1]]
        BY <1>1, <4>1, TaskIs
      <4>3. <<u[1], u[2]>> # <<c, i>>
        BY <3>1, <4>1
      <4> QED BY <3>2, <4>1, <4>2, <4>3 DEF Moved, In
    <3> HIDE DEF App
    <3> QED BY <1>1, <2>2, <3>1, <3>3 DEF WakeInv, App
  <2> QED BY <1>13, <2>3, <2>4, <2>5
<1> QED BY <1>3, <1>4, <1>5, <1>6, <1>7, <1>8, <1>9, <1>10, <1>11, <1>12, <1>13,
           Zenon DEF Next, Server, ServeClient, PoolStep

-----------------------------------------------------------------------------
(* Queued and finished requests.                                           *)

\* The three steps of a pool worker.
Worked(c, i, from, to) ==
  /\ c \in Clients /\ i \in DOMAIN script[c] /\ work[c][i] = from /\ Moved(c, i, to)
  /\ \/ from = "running" /\ to = "released" /\ completed' = completed
     \/ from = "released" /\ to = "appended" /\ completed' = Append(completed, <<c, i>>)
     \/ from = "appended" /\ to = "done" /\ completed' = completed
  /\ UNCHANGED <<script, conn, count, read, pending, active, waiting, answers, queue, made>>

\* What a step of the pool does.
LEMMA PoolShape ==
  ASSUME TypeOK, PoolStep
  PROVE  \E c, i, from, to : Worked(c, i, from, to)
<1>1. PICK t \in Tasks : FinishRequest(t[1], t[2]) \/ AppendCompletion(t[1], t[2])
                         \/ WakeServer(t[1], t[2])
  BY DEF PoolStep
<1>2. PICK c, i : c = t[1] /\ i = t[2] /\ c \in Clients /\ i \in DOMAIN script[c]
  BY TaskIs
<1>3. UNCHANGED <<script, conn, count, read, pending, active, waiting, answers, queue, made>>
  BY <1>1 DEF FinishRequest, AppendCompletion, WakeServer, Phase, clientVars, connVars, askVars,
              eventVars
<1>4. PICK from, to :
        /\ work[c][i] = from /\ Moves(c, i, to)
        /\ \/ from = "running" /\ to = "released" /\ completed' = completed
           \/ from = "released" /\ to = "appended" /\ completed' = Append(completed, <<c, i>>)
           \/ from = "appended" /\ to = "done" /\ completed' = completed
  <2>1. CASE FinishRequest(t[1], t[2])
    BY <1>2, <1>3, <2>1 DEF FinishRequest, Phase, Moves
  <2>2. CASE AppendCompletion(t[1], t[2])
    BY <1>2, <1>3, <2>2 DEF AppendCompletion, Phase, Moves
  <2>3. CASE WakeServer(t[1], t[2])
    BY <1>2, <1>3, <2>3 DEF WakeServer, Phase, Moves
  <2> QED BY <1>1, <2>1, <2>2, <2>3
<1>5. Moved(c, i, to)
  BY <1>2, <1>4, TaskMoves
<1> QED BY <1>2, <1>3, <1>4, <1>5 DEF Worked

\* Queued requests stay in order and untouched.
LEMMA QueuedStep ==
  ASSUME Inv, [Next]_vars
  PROVE  QueuedInv'
<1>1. TypeOK /\ QueuedInv /\ ThreadInv
  BY DEF Inv, CapacityExact
<1>2. CASE UNCHANGED <<script, read, pending, work>>
  BY <1>1, <1>2 DEF QueuedInv
<1>3. ASSUME NEW c \in Clients, CloseClient(c), UNCHANGED <<script, work>>,
             \A d \in Clients \ {c} : read'[d] = read[d],
             read[c] \in Nat, read'[c] \in Nat, read'[c] >= read[c]
      PROVE  QueuedInv'
  <2>1. pending'[c] = <<>> /\ \A d \in Clients \ {c} : pending'[d] = pending[d]
    BY <1>1, <1>3, CloseShape
  <2>2. DOMAIN pending'[c] = {}
    BY <2>1
  <2>3. \A i \in DOMAIN script[c] : i > read'[c] => work[c][i] = "none"
    <3> SUFFICES ASSUME NEW i \in DOMAIN script[c], i > read'[c] PROVE work[c][i] = "none"
      OBVIOUS
    <3>1. i \in Nat
      BY <1>1, TaskIs
    <3>2. i > read[c]
      BY <1>3, <3>1
    <3> QED BY <1>1, <3>2 DEF QueuedInv
  <2> QED BY <1>1, <1>3, <2>1, <2>2, <2>3 DEF QueuedInv
<1>4. ASSUME NEW c \in Clients, ReadEnd(c)
      PROVE  QueuedInv'
  <2>1. read[c] \in Nat /\ read' = read /\ script' = script /\ work' = work /\ CloseClient(c)
    BY <1>1, <1>4 DEF ReadEnd, TypeOK, clientVars, poolVars
  <2> QED BY <1>3, <2>1
<1>5. ASSUME NEW c \in Clients, NEW n \in DOMAIN script[c], ReadLines(c, n)
      PROVE  QueuedInv'
  <2>1. PICK good, bad : Chunk(c, n, good, bad)
    BY <1>1, <1>5, ReadShape
  <2>2. script' = script /\ work' = work
    BY <1>5 DEF ReadLines, clientVars, poolVars
  <2>3. /\ n > read[c] /\ n \in Nat /\ read[c] \in Nat /\ read'[c] = n
        /\ \A d \in Clients \ {c} : read'[d] = read[d]
    BY <1>1, <2>1 DEF Chunk, TypeOK
  <2>4. CASE CloseClient(c)
    BY <1>3, <2>2, <2>3, <2>4
  <2>5. CASE TakenIn(c, good, bad)
    <3> DEFINE m == Len(pending[c])
    <3>1. /\ \A d \in Clients \ {c} : pending'[d] = pending[d]
          /\ m \in Nat /\ DOMAIN pending[c] = 1..m /\ DOMAIN pending'[c] \subseteq Nat
          /\ \A j \in DOMAIN pending'[c] :
              \/ j \in DOMAIN pending[c] /\ pending'[c][j] = pending[c][j]
              \/ j > m /\ j - m \in DOMAIN good /\ pending'[c][j] = good[j - m]
      BY <1>1, <2>1, <2>5, QueueShape
    <3>2. \A k \in DOMAIN good : k \in Nat /\ good[k] \in (read[c] + 1)..n
      <4>1. PICK S : S = (read[c] + 1)..n /\ good \in Seq(S)
        BY <2>1 DEF Chunk
      <4>2. DOMAIN good = 1..Len(good) /\ Len(good) \in Nat /\ good \in [1..Len(good) -> S]
        BY <4>1, LenProperties
      <4> QED BY <4>1, <4>2
    <3>3. \A j, k \in DOMAIN good : j < k => good[j] < good[k]
      BY <2>1 DEF Chunk
    <3>4. \A j \in DOMAIN pending[c] : pending[c][j] \in Nat /\ pending[c][j] <= read[c]
          /\ work[c][pending[c][j]] = "none"
      <4>1. pending[c] \in Seq(Lines)
        BY <1>1 DEF TypeOK
      <4>2. \A j \in DOMAIN pending[c] : pending[c][j] \in Lines
        BY <4>1, LenProperties
      <4> QED BY <1>1, <4>2 DEF QueuedInv, Lines
    <3> HIDE DEF m
    <3>5. ASSUME NEW j \in DOMAIN pending'[c], NEW k \in DOMAIN pending'[c], j < k
          PROVE  pending'[c][j] < pending'[c][k]
      <4>1. j \in Nat /\ k \in Nat
        BY <3>1
      <4>2. CASE j \in DOMAIN pending[c] /\ k \in DOMAIN pending[c]
        <5>1. pending'[c][j] = pending[c][j] /\ pending'[c][k] = pending[c][k]
          BY <3>1, <4>1, <4>2
        <5> QED BY <1>1, <3>5, <4>2, <5>1 DEF QueuedInv
      <4>3. CASE j \in DOMAIN pending[c] /\ k \notin DOMAIN pending[c]
        <5>1. pending'[c][j] = pending[c][j] /\ k - m \in DOMAIN good /\ pending'[c][k] = good[k - m]
          BY <3>1, <4>1, <4>3
        <5>2. pending[c][j] \in Nat /\ pending[c][j] <= read[c] /\ good[k - m] \in (read[c] + 1)..n
          BY <3>2, <3>4, <4>3, <5>1
        <5> QED BY <2>3, <5>1, <5>2
      <4>4. CASE j \notin DOMAIN pending[c]
        <5>1. j > m /\ j - m \in DOMAIN good /\ pending'[c][j] = good[j - m]
          BY <3>1, <4>4
        <5>2. k \notin DOMAIN pending[c]
          BY <3>1, <3>5, <4>1, <5>1
        <5>3. k - m \in DOMAIN good /\ pending'[c][k] = good[k - m]
          BY <3>1, <5>2
        <5>4. j - m < k - m
          BY <3>1, <3>5, <4>1
        <5> QED BY <3>3, <5>1, <5>3, <5>4
      <4> QED BY <4>2, <4>3, <4>4
    <3>6. ASSUME NEW k \in DOMAIN pending'[c]
          PROVE  pending'[c][k] <= n /\ work[c][pending'[c][k]] = "none"
      <4>1. CASE k \in DOMAIN pending[c] /\ pending'[c][k] = pending[c][k]
        BY <2>3, <3>4, <4>1
      <4>2. CASE k - m \in DOMAIN good /\ pending'[c][k] = good[k - m]
        <5>1. PICK g \in (read[c] + 1)..n : g = pending'[c][k]
          BY <3>2, <4>2
        <5>2. g > read[c] /\ g <= n /\ g \in 1..Len(script[c])
          BY <1>1, <2>1, <2>3, <5>1, TaskIs DEF Chunk
        <5>3. work[c][g] = "none"
          BY <1>1, <5>2, TaskIs DEF QueuedInv
        <5> QED BY <5>1, <5>2, <5>3
      <4> QED BY <3>1, <4>1, <4>2
    <3>7. \A i \in DOMAIN script[c] : i > n => work[c][i] = "none"
      <4> SUFFICES ASSUME NEW i \in DOMAIN script[c], i > n PROVE work[c][i] = "none"
        OBVIOUS
      <4>1. i \in Nat
        BY <1>1, TaskIs
      <4>2. i > read[c]
        BY <2>3, <4>1
      <4> QED BY <1>1, <4>2 DEF QueuedInv
    <3> QED BY <1>1, <2>2, <2>3, <3>1, <3>5, <3>6, <3>7 DEF QueuedInv
  <2> QED BY <2>1, <2>4, <2>5 DEF Chunk
<1>6. ASSUME NEW c \in Clients, NEW kind, Dispatched(c, kind), work' = work \/ Submit(c)
      PROVE  QueuedInv'
  <2>1. PICK i :
           /\ i = Head(pending[c]) /\ i \in Lines /\ i <= read[c] /\ i \in DOMAIN script[c]
           /\ work[c][i] = "none" /\ 1 \in DOMAIN pending[c] /\ pending[c][1] = i
           /\ pending' \in [Clients -> Seq(Lines)]
           /\ \A d \in Clients \ {c} : pending'[d] = pending[d]
           /\ \A k \in DOMAIN pending'[c] :
                k \in Nat \ {0} /\ k + 1 \in DOMAIN pending[c] /\ pending'[c][k] = pending[c][k + 1]
    BY <1>6, DispatchShape
  <2>2. read' = read /\ script' = script
    BY <1>6 DEF Dispatched, clientVars
  <2>3. \A d \in Clients : \A j \in DOMAIN script[d] :
          work'[d][j] = work[d][j] \/ (d = c /\ j = i)
    <3>1. CASE work' = work
      BY <3>1
    <3>2. CASE Submit(c)
      <4>1. Moved(c, i, "running")
        BY <1>1, <2>1, <2>2, <3>2, TaskMoves DEF Submit, Moves
      <4> QED BY <4>1 DEF Moved
    <3> QED BY <1>6, <3>1, <3>2
  <2>4. ASSUME NEW d \in Clients, NEW k \in DOMAIN pending[d]
        PROVE  pending[d][k] \in DOMAIN script[d]
    <3>1. pending[d] \in Seq(Lines) /\ read[d] \in Nat /\ read[d] <= Len(script[d])
      BY <1>1 DEF TypeOK
    <3>2. pending[d][k] \in Lines /\ pending[d][k] <= read[d]
      BY <1>1, <3>1, LenProperties DEF QueuedInv
    <3> QED BY <1>1, <3>1, <3>2, TaskIs DEF Lines
  <2>5. ASSUME NEW k \in DOMAIN pending'[c]
        PROVE  /\ pending'[c][k] <= read[c] /\ work'[c][pending'[c][k]] = "none"
               /\ \A j \in DOMAIN pending'[c] : j < k => pending'[c][j] < pending'[c][k]
    <3>1. k \in Nat \ {0} /\ k + 1 \in DOMAIN pending[c] /\ pending'[c][k] = pending[c][k + 1]
      BY <2>1
    <3>2. pending[c][k + 1] <= read[c] /\ work[c][pending[c][k + 1]] = "none"
      BY <1>1, <3>1 DEF QueuedInv
    <3>3. pending[c][1] < pending[c][k + 1]
      <4>1. 1 < k + 1
        BY <3>1
      <4> QED BY <1>1, <2>1, <3>1, <4>1 DEF QueuedInv
    <3>4. pending[c][k + 1] # i
      BY <2>1, <3>3 DEF Lines
    <3>5. work'[c][pending[c][k + 1]] = "none"
      BY <2>3, <2>4, <3>1, <3>2, <3>4
    <3>6. ASSUME NEW j \in DOMAIN pending'[c], j < k
          PROVE  pending'[c][j] < pending'[c][k]
      <4>1. j \in Nat \ {0} /\ j + 1 \in DOMAIN pending[c] /\ pending'[c][j] = pending[c][j + 1]
        BY <2>1
      <4>2. j + 1 < k + 1
        BY <3>1, <3>6, <4>1
      <4> QED BY <1>1, <3>1, <4>1, <4>2 DEF QueuedInv
    <3> QED BY <3>1, <3>2, <3>5, <3>6
  <2>6. ASSUME NEW d \in Clients \ {c}
        PROVE  \A k \in DOMAIN pending[d] : work'[d][pending[d][k]] = "none"
    BY <1>1, <2>3, <2>4 DEF QueuedInv
  <2>7. ASSUME NEW d \in Clients, NEW j \in DOMAIN script[d], j > read[d]
        PROVE  work'[d][j] = "none"
    <3>1. work[d][j] = "none"
      BY <1>1, <2>7 DEF QueuedInv
    <3>2. read[d] \in Nat /\ j \in Nat
      <4>1. read[d] \in Nat
        BY <1>1 DEF TypeOK
      <4> QED BY <1>1, <4>1, TaskIs
    <3>3. ~(d = c /\ j = i)
      BY <2>1, <2>7, <3>2 DEF Lines
    <3> QED BY <2>3, <3>1, <3>3
  <2> QED BY <1>1, <2>1, <2>2, <2>5, <2>6, <2>7 DEF QueuedInv
<1>7. ASSUME PoolStep
      PROVE  QueuedInv'
  <2>1. PICK c, i, from, to : Worked(c, i, from, to)
    BY <1>1, <1>7, PoolShape
  <2>2. UNCHANGED <<script, read, pending>> /\ work[c][i] # "none"
    BY <2>1 DEF Worked
  <2>3. \A d \in Clients : \A j \in DOMAIN script[d] : work[d][j] = "none" => work'[d][j] = "none"
    BY <2>1 DEF Worked, Moved
  <2>4. ASSUME NEW d \in Clients, NEW k \in DOMAIN pending[d]
        PROVE  pending[d][k] \in DOMAIN script[d]
    <3>1. pending[d] \in Seq(Lines) /\ read[d] \in Nat /\ read[d] <= Len(script[d])
      BY <1>1 DEF TypeOK
    <3>2. pending[d][k] \in Lines /\ pending[d][k] <= read[d]
      BY <1>1, <3>1, LenProperties DEF QueuedInv
    <3> QED BY <1>1, <3>1, <3>2, TaskIs DEF Lines
  <2> QED BY <1>1, <2>2, <2>3, <2>4 DEF QueuedInv
<1>8. ASSUME NEW c \in Clients, Accept(c) \/ AnswerWaiter(c)
      PROVE  UNCHANGED <<script, read, pending, work>>
  BY <1>8 DEF Accept, AnswerWaiter, Visit, clientVars, askVars, poolVars
<1>9. Quiet \/ DrainCompletion \/ ServerClose \/ QueueEvent => UNCHANGED <<script, read, pending, work>>
  BY DEF Quiet, DrainCompletion, ServerClose, QueueEvent, Outside, clientVars, askVars, poolVars
<1>10. ASSUME NEW c \in Clients,
              PollAnswered(c) \/ PollWaits(c) \/ PollRaises(c) \/ Submit(c) \/ Overloaded(c)
       PROVE  \E kind : Dispatched(c, kind) /\ (work' = work \/ Submit(c))
  BY <1>10 DEF PollAnswered, PollWaits, PollRaises, Submit, Overloaded
<1> QED BY <1>2, <1>4, <1>5, <1>6, <1>7, <1>8, <1>9, <1>10, Steps

\* Appending to _completions.
LEMMA AppendedOne ==
  ASSUME NEW S, NEW s \in Seq(S), NEW x \in S
  PROVE  /\ \A k \in DOMAIN s : k \in DOMAIN Append(s, x) /\ Append(s, x)[k] = s[k]
         /\ \A k \in DOMAIN Append(s, x) :
              k \in DOMAIN s \/ (k = Len(s) + 1 /\ Append(s, x)[k] = x)
         /\ Len(s) + 1 \in DOMAIN Append(s, x) /\ Append(s, x)[Len(s) + 1] = x
         /\ Len(s) + 1 \notin DOMAIN s
<1>1. Len(s) \in Nat /\ DOMAIN s = 1..Len(s)
  BY LenProperties
<1>2. /\ Append(s, x) \in Seq(S) /\ Len(Append(s, x)) = Len(s) + 1
      /\ \A i \in 1..Len(s) : Append(s, x)[i] = s[i] /\ Append(s, x)[Len(s) + 1] = x
  BY AppendProperties
<1>3. Append(s, x)[Len(s) + 1] = x
  BY AppendProperties
<1>4. DOMAIN Append(s, x) = 1..(Len(s) + 1)
  BY <1>2, LenProperties
<1> QED BY <1>1, <1>2, <1>3, <1>4

\* A finished request enters _completions once.
LEMMA CompletedStep ==
  ASSUME Inv, [Next]_vars
  PROVE  CompletedInv'
<1>1. TypeOK /\ CompletedInv /\ completed \in Seq(Clients \X Lines)
  BY DEF Inv, CapacityExact, TypeOK
<1>2. CASE UNCHANGED <<script, work, completed>>
  BY <1>1, <1>2 DEF CompletedInv, Tasks
<1>3. ASSUME NEW c \in Clients, Submit(c)
      PROVE  CompletedInv'
  <2>1. PICK i : i = Head(pending[c]) /\ i \in DOMAIN script[c] /\ work[c][i] = "none"
    BY <1>3, DispatchShape DEF Submit
  <2>2. UNCHANGED <<script, completed>> /\ Tasks' = Tasks
    BY <1>3 DEF Submit, Dispatched, clientVars, Tasks
  <2>3. Moved(c, i, "running")
    BY <1>1, <1>3, <2>1, <2>2, TaskMoves DEF Submit, Moves
  <2>4. ASSUME NEW k \in DOMAIN completed
        PROVE  work'[completed[k][1]][completed[k][2]] = work[completed[k][1]][completed[k][2]]
    <3>1. PICK u \in Tasks : u = completed[k] /\ work[u[1]][u[2]] \in {"appended", "done"}
      BY <1>1 DEF CompletedInv
    <3>2. u[1] \in Clients /\ u[2] \in DOMAIN script[u[1]]
      BY <1>1, TaskIs
    <3>3. <<u[1], u[2]>> # <<c, i>>
      BY <2>1, <3>1
    <3> QED BY <2>3, <3>1, <3>2, <3>3 DEF Moved
  <2> QED BY <1>1, <2>2, <2>4 DEF CompletedInv
<1>4. ASSUME PoolStep
      PROVE  CompletedInv'
  <2>1. PICK c, i, from, to : Worked(c, i, from, to)
    BY <1>1, <1>4, PoolShape
  <2>2. /\ c \in Clients /\ i \in DOMAIN script[c] /\ work[c][i] = from /\ Moved(c, i, to)
        /\ script' = script /\ Tasks' = Tasks
        /\ \/ from = "running" /\ to = "released" /\ completed' = completed
           \/ from = "released" /\ to = "appended" /\ completed' = Append(completed, <<c, i>>)
           \/ from = "appended" /\ to = "done" /\ completed' = completed
    BY <2>1 DEF Worked, Tasks
  <2>3. ASSUME NEW k \in DOMAIN completed
        PROVE  /\ work'[completed[k][1]][completed[k][2]] \in {"appended", "done"}
               /\ from \in {"running", "released"} => completed[k] # <<c, i>>
    <3>1. PICK u \in Tasks : u = completed[k] /\ work[u[1]][u[2]] \in {"appended", "done"}
      BY <1>1 DEF CompletedInv
    <3>2. u[1] \in Clients /\ u[2] \in DOMAIN script[u[1]] /\ u = <<u[1], u[2]>>
      BY <1>1, TaskIs
    <3>3. CASE u = <<c, i>>
      <4>1. u[1] = c /\ u[2] = i
        BY <3>3
      <4>2. from = "appended" /\ to = "done"
        BY <2>2, <3>1, <4>1
      <4> QED BY <2>2, <3>1, <4>1, <4>2 DEF Moved
    <3>4. CASE u # <<c, i>>
      BY <2>2, <3>1, <3>2, <3>4 DEF Moved
    <3> QED BY <3>3, <3>4
  <2>4. CASE completed' = completed
    BY <1>1, <2>2, <2>3, <2>4 DEF CompletedInv
  <2>5. CASE from = "released" /\ to = "appended" /\ completed' = Append(completed, <<c, i>>)
    <3> DEFINE m == Len(completed) + 1
    <3>1. <<c, i>> \in Tasks /\ <<c, i>> \in Clients \X Lines
      BY <1>1, <2>2, TaskIs
    <3>2. /\ \A k \in DOMAIN completed : k \in DOMAIN completed' /\ completed'[k] = completed[k]
          /\ \A k \in DOMAIN completed' : k \in DOMAIN completed \/ (k = m /\ completed'[k] = <<c, i>>)
      BY <1>1, <2>5, <3>1, AppendedOne
    <3>3. work'[c][i] = "appended" /\ <<c, i>>[1] = c /\ <<c, i>>[2] = i
      BY <2>2, <2>5 DEF Moved
    <3> HIDE DEF m
    <3>4. ASSUME NEW k \in DOMAIN completed'
          PROVE  completed'[k] \in Tasks
                 /\ work'[completed'[k][1]][completed'[k][2]] \in {"appended", "done"}
      <4>1. CASE k \in DOMAIN completed
        BY <1>1, <2>3, <3>2, <4>1 DEF CompletedInv
      <4>2. CASE completed'[k] = <<c, i>>
        BY <3>1, <3>3, <4>2
      <4> QED BY <3>2, <4>1, <4>2
    <3>5. ASSUME NEW j \in DOMAIN completed', NEW k \in DOMAIN completed', completed'[j] = completed'[k]
          PROVE  j = k
      <4>1. CASE j \in DOMAIN completed /\ k \in DOMAIN completed
        BY <1>1, <3>2, <3>5, <4>1 DEF CompletedInv
      <4>2. CASE j \notin DOMAIN completed \/ k \notin DOMAIN completed
        <5>1. completed'[j] = <<c, i>> /\ completed'[k] = <<c, i>>
          BY <3>2, <3>5, <4>2
        <5>2. j \notin DOMAIN completed /\ k \notin DOMAIN completed
          BY <2>3, <2>5, <3>2, <5>1
        <5> QED BY <3>2, <5>2
      <4> QED BY <4>1, <4>2
    <3> QED BY <2>2, <3>4, <3>5 DEF CompletedInv
  <2> QED BY <2>2, <2>4, <2>5
<1>5. ASSUME DrainCompletion
      PROVE  CompletedInv'
  <2>1. completed # <<>> /\ completed' = Tail(completed) /\ UNCHANGED <<script, work>> /\ Tasks' = Tasks
    BY <1>5 DEF DrainCompletion, clientVars, Tasks
  <2>2. \A k \in DOMAIN completed' : k \in Nat \ {0} /\ k + 1 \in DOMAIN completed
          /\ completed'[k] = completed[k + 1]
    BY <1>1, <2>1, HeadIs
  <2>3. ASSUME NEW j \in DOMAIN completed', NEW k \in DOMAIN completed', completed'[j] = completed'[k]
        PROVE  j = k
    <3>1. j + 1 = k + 1
      BY <1>1, <2>2, <2>3 DEF CompletedInv
    <3> QED BY <2>2, <3>1
  <2> QED BY <1>1, <2>1, <2>2, <2>3 DEF CompletedInv
<1>6. ASSUME NEW c \in Clients, ~Submit(c),
             \/ Accept(c) \/ ReadEnd(c) \/ \E n \in DOMAIN script[c] : ReadLines(c, n)
             \/ PollAnswered(c) \/ PollWaits(c) \/ PollRaises(c) \/ Submit(c)
             \/ Overloaded(c) \/ AnswerWaiter(c)
      PROVE  UNCHANGED <<script, work, completed>>
  BY <1>6 DEF Accept, ReadEnd, ReadLines, PollAnswered, PollWaits, PollRaises, Overloaded,
              AnswerWaiter, Dispatched, Visit, clientVars, poolVars
<1>7. Quiet \/ ServerClose \/ QueueEvent => UNCHANGED <<script, work, completed>>
  BY DEF Quiet, ServerClose, QueueEvent, Outside, clientVars, poolVars
<1> QED BY <1>2, <1>3, <1>4, <1>5, <1>6, <1>7, Steps

-----------------------------------------------------------------------------
(* Responses in order.                                                     *)

\* A client that is not done with.
Live(c) == conn[c] \in {"away", "open"}

\* Connections only go on.
LEMMA LiveBefore ==
  ASSUME TypeOK, [Next]_vars, NEW d \in Clients, Live(d)'
  PROVE  Live(d)
<1>1. conn \in [Clients -> {"away", "open", "refused", "closed"}]
  BY DEF TypeOK
<1>2. CASE conn' = conn
  BY <1>2 DEF Live
<1>3. ASSUME NEW c \in Clients, CloseClient(c)
      PROVE  Live(d)
  BY <1>1, <1>3 DEF CloseClient, Live
<1>4. ASSUME NEW c \in Clients, ReadEnd(c) \/ \E n \in DOMAIN script[c] : ReadLines(c, n)
      PROVE  conn' = conn \/ CloseClient(c)
  BY <1>4 DEF ReadEnd, ReadLines, connVars
<1>5. ASSUME NEW c \in Clients, Accept(c)
      PROVE  Live(d)
  BY <1>1, <1>5 DEF Accept, Live
<1>6. ASSUME ServerClose
      PROVE  Live(d)
  BY <1>1, <1>6 DEF ServerClose, Live, Open
<1>7. ASSUME NEW c \in Clients,
             PollAnswered(c) \/ PollWaits(c) \/ PollRaises(c) \/ Submit(c) \/ Overloaded(c)
             \/ AnswerWaiter(c)
      PROVE  conn' = conn
  BY <1>7 DEF PollAnswered, PollWaits, PollRaises, Overloaded, Submit, AnswerWaiter, Dispatched,
              Visit, connVars
<1>8. Quiet \/ DrainCompletion \/ QueueEvent \/ PoolStep => conn' = conn
  BY DEF Quiet, DrainCompletion, QueueEvent, Outside, connVars, PoolStep, FinishRequest,
         AppendCompletion, WakeServer, Phase
<1> QED BY <1>2, <1>3, <1>4, <1>5, <1>6, <1>7, <1>8, Steps

\* What is under way was read, and is a task or a wait.
LEMMA BusyIs ==
  ASSUME Inv, NEW d \in Clients
  PROVE  /\ read[d] \in Nat /\ 1..read[d] \subseteq DOMAIN script[d]
         /\ Busy(d) \subseteq 1..read[d]
         /\ \A i : (\E k \in DOMAIN completed : completed[k] = <<d, i>>) =>
              i \in 1..read[d] /\ work[d][i] \in {"appended", "done"}
         /\ \A i \in DOMAIN script[d] :
              work[d][i] # "none" => i \in 1..read[d]
<1>1. TypeOK /\ QueuedInv /\ CompletedInv
  BY DEF Inv, CapacityExact
<1>2. read[d] \in Nat /\ read[d] <= Len(script[d])
  BY <1>1 DEF TypeOK
<1>3. DOMAIN script[d] = 1..Len(script[d]) /\ Len(script[d]) \in Nat
  BY <1>1, TaskIs
<1>4. \A i \in DOMAIN script[d] : work[d][i] # "none" => i \in 1..read[d]
  <2> SUFFICES ASSUME NEW i \in DOMAIN script[d], work[d][i] # "none" PROVE i \in 1..read[d]
    OBVIOUS
  <2>1. ~(i > read[d])
    BY <1>1 DEF QueuedInv
  <2> QED BY <1>2, <1>3, <2>1
<1>5. ASSUME NEW i, NEW k \in DOMAIN completed, completed[k] = <<d, i>>
      PROVE  i \in 1..read[d] /\ work[d][i] \in {"appended", "done"}
  <2>1. <<d, i>> \in Tasks /\ work[d][i] \in {"appended", "done"}
    BY <1>1, <1>5 DEF CompletedInv
  <2>2. i \in DOMAIN script[d]
    BY <1>1, <2>1, TaskIs
  <2> QED BY <1>4, <2>1, <2>2
<1> QED BY <1>2, <1>3, <1>4, <1>5 DEF Busy

\* Nothing of a client's comes under way.
BusyKept(d) ==
  /\ waiting'[d] = waiting[d]
  /\ \A j \in DOMAIN script[d] :
       work'[d][j] \in {"running", "released"} => work[d][j] \in {"running", "released"}
  /\ \A k \in DOMAIN completed' : \A j :
       completed'[k] = <<d, j>> =>
         \/ \E l \in DOMAIN completed : completed[l] = <<d, j>>
         \/ work[d][j] = "released"

\* More may be read; what is queued anew is behind it, and new responses are errors.
OrderKept(d) ==
  /\ BusyKept(d)
  /\ read'[d] \in Nat /\ read[d] <= read'[d] /\ read'[d] <= Len(script[d])
  /\ waiting[d] # 0 => work'[d][waiting[d]] = "none"
  /\ d \in active => d \in active'
  /\ \A k \in DOMAIN pending'[d] :
       \/ \E l \in DOMAIN pending[d] : pending[d][l] = pending'[d][k]
       \/ pending'[d][k] > read[d]
  /\ \A j \in DOMAIN answers'[d] :
       \/ answers'[d][j].kind = "error"
       \/ \E l \in DOMAIN answers[d] : answers[d][l] = answers'[d][j]

\* The order stays then.
LEMMA Kept ==
  ASSUME Inv, TypeOK', NEW d \in Clients, InOrder(d), OrderKept(d)
  PROVE  InOrder(d)'
<1>1. read[d] \in Nat /\ 1..read[d] \subseteq DOMAIN script[d] /\ Busy(d) \subseteq 1..read[d]
  BY BusyIs
<1>2. /\ read'[d] \in Nat /\ read[d] <= read'[d] /\ waiting'[d] = waiting[d]
      /\ read'[d] <= Len(script[d])
  BY DEF OrderKept, BusyKept
<1>3. waiting[d] \in Nat /\ waiting[d] <= read[d] /\ (waiting[d] # 0 => work'[d][waiting[d]] = "none")
  <2>1. TypeOK
    BY DEF Inv, CapacityExact
  <2>2. waiting[d] \in Nat
    BY <2>1 DEF TypeOK
  <2> QED BY <2>2 DEF InOrder, OrderKept
<1>4. Busy(d)' \subseteq Busy(d)
  <2> SUFFICES ASSUME NEW i \in Busy(d)' PROVE i \in Busy(d)
    OBVIOUS
  <2>1. /\ i \in 1..read'[d]
        /\ \/ waiting[d] = i
           \/ work'[d][i] \in {"running", "released"}
           \/ \E k \in DOMAIN completed' : completed'[k] = <<d, i>>
    BY <1>2 DEF Busy
  <2>2. CASE waiting[d] = i
    <3>1. i \in 1..read[d]
      BY <1>1, <1>2, <1>3, <2>1, <2>2
    <3> QED BY <2>2, <3>1 DEF Busy
  <2>3. i \in DOMAIN script[d]
    <3>1. TypeOK
      BY DEF Inv, CapacityExact
    <3>2. DOMAIN script[d] = 1..Len(script[d]) /\ Len(script[d]) \in Nat
      BY <3>1, TaskIs
    <3> QED BY <1>2, <2>1, <3>2
  <2>4. CASE work[d][i] \in {"running", "released"}
    <3>1. i \in 1..read[d]
      BY <2>3, <2>4, BusyIs
    <3> QED BY <2>4, <3>1 DEF Busy
  <2>5. CASE \E k \in DOMAIN completed : completed[k] = <<d, i>>
    <3>1. i \in 1..read[d]
      BY <2>5, BusyIs
    <3> QED BY <2>5, <3>1 DEF Busy
  <2>6. CASE work'[d][i] \in {"running", "released"}
    <3>1. work[d][i] \in {"running", "released"}
      BY <2>3, <2>6 DEF OrderKept, BusyKept
    <3> QED BY <2>4, <3>1
  <2>7. CASE \E k \in DOMAIN completed' : completed'[k] = <<d, i>>
    <3>1. (\E l \in DOMAIN completed : completed[l] = <<d, i>>) \/ work[d][i] = "released"
      BY <2>7 DEF OrderKept, BusyKept
    <3> QED BY <2>4, <2>5, <3>1
  <2> QED BY <2>1, <2>2, <2>6, <2>7
<1>5. ASSUME NEW i \in Busy(d)', NEW k \in DOMAIN pending'[d]
      PROVE  i < pending'[d][k]
  <2>1. i \in Busy(d) /\ i \in Nat /\ i <= read[d]
    BY <1>1, <1>4
  <2>2. CASE \E l \in DOMAIN pending[d] : pending[d][l] = pending'[d][k]
    BY <2>1, <2>2 DEF InOrder
  <2>3. CASE pending'[d][k] > read[d]
    <3>1. pending'[d] \in Seq(Lines)
      BY DEF TypeOK
    <3>2. pending'[d][k] \in Nat
      BY <3>1, LenProperties DEF Lines
    <3> QED BY <1>1, <2>1, <2>3, <3>2
  <2> QED BY <2>2, <2>3 DEF OrderKept
<1>6. ASSUME NEW j \in DOMAIN answers'[d], answers'[d][j].kind # "error"
      PROVE  /\ answers'[d][j].for <= read'[d]
             /\ \A i \in Busy(d)' : answers'[d][j].for < i
             /\ \A k \in DOMAIN pending'[d] : answers'[d][j].for < pending'[d][k]
  <2>1. PICK l \in DOMAIN answers[d] : answers[d][l] = answers'[d][j]
    BY <1>6 DEF OrderKept
  <2>2. PICK f : f = answers[d][l].for /\ f \in Nat
    <3>1. answers'[d] \in Seq(Responses)
      BY DEF TypeOK
    <3>2. answers'[d][j] \in Responses
      BY <3>1, LenProperties
    <3> QED BY <2>1, <3>2 DEF Responses, Lines
  <2>3. /\ f <= read[d] /\ \A i \in Busy(d) : f < i
        /\ \A k \in DOMAIN pending[d] : f < pending[d][k]
    BY <1>6, <2>1, <2>2 DEF InOrder
  <2>4. ASSUME NEW k \in DOMAIN pending'[d]
        PROVE  f < pending'[d][k]
    <3>1. CASE \E n \in DOMAIN pending[d] : pending[d][n] = pending'[d][k]
      BY <2>3, <3>1
    <3>2. CASE pending'[d][k] > read[d]
      <4>1. pending'[d] \in Seq(Lines)
        BY DEF TypeOK
      <4>2. pending'[d][k] \in Nat
        BY <4>1, LenProperties DEF Lines
      <4> QED BY <1>1, <2>2, <2>3, <3>2, <4>2
    <3> QED BY <3>1, <3>2 DEF OrderKept
  <2>5. f <= read'[d]
    BY <1>1, <1>2, <2>2, <2>3
  <2> QED BY <1>4, <2>1, <2>2, <2>3, <2>4, <2>5
<1>7. waiting'[d] <= read'[d]
  BY <1>1, <1>2, <1>3
<1>8. d \notin active' /\ waiting'[d] = 0 => Busy(d)' = {}
  BY <1>2, <1>4 DEF InOrder, OrderKept
<1>9. \A i, j \in Busy(d)' : i = j
  BY <1>4 DEF InOrder
<1> QED BY <1>2, <1>3, <1>5, <1>6, <1>7, <1>8, <1>9 DEF InOrder

\* The responses of a client, the last of which may be a new one, to request i.
Answered(c, i) ==
  \A j \in DOMAIN answers'[c] :
    \/ \E l \in DOMAIN answers[c] : answers[c][l] = answers'[c][j]
    \/ answers'[c][j].for = i

\* A request leaves the queue: answered at once, or alone under way.
LEMMA DispatchOrder ==
  ASSUME Inv, TypeOK', NEW c \in Clients, InOrder(c), NEW kind, Dispatched(c, kind),
         NEW i, i = Head(pending[c]), Busy(c)' \subseteq {i},
         waiting'[c] = 0 \/ (waiting'[c] = i /\ work'[c][i] = "none"),
         c \notin active' /\ waiting'[c] = 0 => Busy(c)' = {},
         answers'[c] = answers[c] \/ (Busy(c)' = {} /\ Answered(c, i))
  PROVE  InOrder(c)'
<1>1. /\ i \in Lines /\ i <= read[c] /\ 1 \in DOMAIN pending[c] /\ pending[c][1] = i
      /\ \A k \in DOMAIN pending'[c] :
           k \in Nat \ {0} /\ k + 1 \in DOMAIN pending[c] /\ pending'[c][k] = pending[c][k + 1]
  BY DispatchShape
<1>2. read' = read /\ read[c] \in Nat
  BY BusyIs DEF Dispatched
<1>3. ASSUME NEW k \in DOMAIN pending'[c]
      PROVE  /\ i < pending'[c][k]
             /\ \E l \in DOMAIN pending[c] : pending[c][l] = pending'[c][k]
  <2>1. 1 < k + 1 /\ k + 1 \in DOMAIN pending[c] /\ pending'[c][k] = pending[c][k + 1]
    BY <1>1
  <2> QED BY <1>1, <2>1 DEF Inv, QueuedInv
<1>4. ASSUME NEW j \in DOMAIN answers'[c], answers'[c][j].kind # "error"
      PROVE  /\ answers'[c][j].for <= read'[c]
             /\ \A x \in Busy(c)' : answers'[c][j].for < x
             /\ \A k \in DOMAIN pending'[c] : answers'[c][j].for < pending'[c][k]
  <2>1. CASE \E l \in DOMAIN answers[c] : answers[c][l] = answers'[c][j]
    <3>1. PICK f : f = answers'[c][j].for
      OBVIOUS
    <3>2. f <= read[c] /\ \A k \in DOMAIN pending[c] : f < pending[c][k]
      BY <1>4, <2>1, <3>1 DEF InOrder
    <3>3. f < i
      BY <1>1, <3>2
    <3> QED BY <1>2, <1>3, <3>1, <3>2, <3>3
  <2>2. CASE answers'[c][j].for = i /\ Busy(c)' = {}
    BY <1>1, <1>2, <1>3, <2>2
  <2> QED BY <2>1, <2>2 DEF Answered
<1>5. waiting'[c] <= read'[c] /\ (waiting'[c] # 0 => work'[c][waiting'[c]] = "none")
  BY <1>1, <1>2
<1> QED BY <1>3, <1>4, <1>5 DEF InOrder

\* A request that was under way is answered.
LEMMA FinishOrder ==
  ASSUME Inv, NEW c \in Clients, InOrder(c), NEW i \in Busy(c), Busy(c)' = {},
         read'[c] = read[c], waiting'[c] = 0, pending'[c] = pending[c], Answered(c, i)
  PROVE  InOrder(c)'
<1>1. i <= read[c] /\ read[c] \in Nat
  BY BusyIs
<1>2. ASSUME NEW j \in DOMAIN answers'[c], answers'[c][j].kind # "error"
      PROVE  /\ answers'[c][j].for <= read[c]
             /\ \A k \in DOMAIN pending[c] : answers'[c][j].for < pending[c][k]
  <2>1. CASE \E l \in DOMAIN answers[c] : answers[c][l] = answers'[c][j]
    BY <1>2, <2>1 DEF InOrder
  <2>2. CASE answers'[c][j].for = i
    BY <1>1, <2>2 DEF InOrder
  <2> QED BY <2>1, <2>2 DEF Answered
<1> QED BY <1>1, <1>2 DEF InOrder

\* An answer that was given is one of those.
LEMMA AnsweredBy ==
  ASSUME TypeOK, NEW c \in Clients, NEW i \in Lines, NEW kind \in AnswerKinds, NEW e \in Nat,
         Answer(c, i, kind, e)
  PROVE  Answered(c, i)
<1>1. /\ c \notin Open => answers' = answers
      /\ Len(answers[c]) \in Nat /\ DOMAIN answers[c] = 1..Len(answers[c])
      /\ \A j \in DOMAIN answers[c] : answers'[c][j] = answers[c][j]
      /\ c \in Open =>
           /\ DOMAIN answers'[c] = 1..(Len(answers[c]) + 1)
           /\ answers'[c][Len(answers[c]) + 1] = [for |-> i, kind |-> kind, event |-> e]
  BY AnswerShape
<1>2. CASE c \in Open
  <2> SUFFICES ASSUME NEW j \in DOMAIN answers'[c], j \notin DOMAIN answers[c]
               PROVE  answers'[c][j].for = i
    BY <1>1 DEF Answered
  <2>1. j = Len(answers[c]) + 1
    BY <1>1, <1>2
  <2> QED BY <1>1, <1>2, <2>1
<1>3. CASE c \notin Open
  BY <1>1, <1>3 DEF Answered
<1> QED BY <1>2, <1>3

\* A client whose own state a step leaves alone.
LEMMA Untouched ==
  ASSUME Inv, NEW d \in Clients, BusyKept(d), read'[d] = read[d], pending'[d] = pending[d],
         answers'[d] = answers[d], d \in active => d \in active',
         waiting[d] # 0 => work'[d][waiting[d]] = "none"
  PROVE  OrderKept(d)
<1>1. TypeOK
  BY DEF Inv, CapacityExact
<1>2. read[d] \in Nat /\ read[d] <= Len(script[d])
  BY <1>1 DEF TypeOK
<1> QED BY <1>2 DEF OrderKept

\* Where no task moves, nothing comes under way.
LEMMA StillBusy ==
  ASSUME NEW d, work' = work, completed' = completed, waiting'[d] = waiting[d]
  PROVE  BusyKept(d)
BY DEF BusyKept

\* The order of a client through the dispatch of a request of any client.
LEMMA OrderDispatch ==
  ASSUME Inv, TypeOK', NEW d \in Clients, InOrder(d), NEW c \in Clients,
         PollAnswered(c) \/ PollWaits(c) \/ PollRaises(c) \/ Submit(c) \/ Overloaded(c)
  PROVE  InOrder(d)'
<1>1. TypeOK
  BY DEF Inv, CapacityExact
<1>2. PICK kind : Dispatched(c, kind)
  BY DEF PollAnswered, PollWaits, PollRaises, Submit, Overloaded
<1>3. PICK i :
         /\ i = Head(pending[c]) /\ i \in Lines /\ i <= read[c] /\ i \in DOMAIN script[c]
         /\ work[c][i] = "none" /\ c \in Open /\ c \notin active /\ waiting[c] = 0
         /\ \A x \in Clients \ {c} : pending'[x] = pending[x]
  BY <1>2, DispatchShape
<1>4. /\ script' = script /\ read' = read /\ completed' = completed
      /\ waiting \in [Clients -> Nat] /\ answers \in [Clients -> Seq(Responses)]
  BY <1>1, <1>2 DEF Dispatched, clientVars, TypeOK
<1>5. \/ work' = work
      \/ Moved(c, i, "running") /\ active' = active \cup {c} /\ waiting' = waiting /\ answers' = answers
  <2>1. CASE Submit(c)
    <3>1. Moves(c, i, "running") /\ active' = active \cup {c} /\ waiting' = waiting /\ answers' = answers
      BY <1>3, <1>4, <2>1 DEF Submit, Moves
    <3> QED BY <1>1, <1>3, <3>1, TaskMoves
  <2>2. CASE ~Submit(c)
    BY <2>2 DEF PollAnswered, PollWaits, PollRaises, Overloaded
  <2> QED BY <2>1, <2>2
<1>6. /\ \A x \in Clients \ {c} : waiting'[x] = waiting[x]
      /\ waiting'[c] = 0 \/ (waiting'[c] = i /\ PollWaits(c))
  BY <1>3, <1>4 DEF PollAnswered, PollWaits, PollRaises, Submit, Overloaded
<1>7. Answered(c, i) /\ \A x \in Clients \ {c} : answers'[x] = answers[x]
  <2>1. CASE answers' = answers
    BY <2>1 DEF Answered
  <2>2. CASE PollAnswered(c)
    <3>1. queue # <<>> /\ queue \in Seq(Lines)
      BY <1>1, <2>2 DEF PollAnswered, TypeOK
    <3>2. Head(queue) \in Nat /\ "event" \in AnswerKinds
      BY <3>1, HeadIs DEF Lines, AnswerKinds
    <3>3. Answer(c, i, "event", Head(queue))
      BY <1>3, <2>2 DEF PollAnswered
    <3> QED BY <1>1, <1>3, <3>2, <3>3, AnswerShape, AnsweredBy
  <2>3. CASE Overloaded(c)
    <3>1. Answer(c, i, "busy", NoEvent) /\ NoEvent \in Nat /\ "busy" \in AnswerKinds
      BY <1>3, <2>3 DEF Overloaded, AnswerKinds, NoEvent
    <3> QED BY <1>1, <1>3, <3>1, AnswerShape, AnsweredBy
  <2> QED BY <2>1, <2>2, <2>3 DEF PollWaits, PollRaises, Submit
<1>8. CASE d # c
  <2>1. BusyKept(d) /\ (waiting[d] # 0 => work'[d][waiting[d]] = "none")
    <3>1. CASE work' = work
      BY <1>4, <1>6, <1>8, <3>1, StillBusy DEF InOrder
    <3>2. CASE Moved(c, i, "running")
      <4>1. \A j \in DOMAIN script[d] : work'[d][j] = work[d][j]
        BY <1>8, <3>2 DEF Moved
      <4>2. BusyKept(d)
        BY <1>4, <1>6, <1>8, <4>1 DEF BusyKept
      <4>3. waiting[d] # 0 => waiting[d] \in DOMAIN script[d]
        <5>1. waiting[d] \in Nat /\ waiting[d] <= read[d]
          BY <1>4 DEF InOrder
        <5> QED BY <5>1, BusyIs
      <4> QED BY <4>1, <4>2, <4>3 DEF InOrder
    <3> QED BY <1>5, <3>1, <3>2
  <2>2. d \in active => d \in active'
    BY DEF PollAnswered, PollWaits, PollRaises, Submit, Overloaded
  <2>3. OrderKept(d)
    BY <1>3, <1>4, <1>7, <1>8, <2>1, <2>2, Untouched
  <2> QED BY <2>3, Kept
<1>9. CASE d = c
  <2>1. Busy(c) = {}
    BY <1>3, <1>9 DEF InOrder
  <2>2. ASSUME NEW x \in Busy(c)'
        PROVE  x = i /\ (waiting'[c] = i \/ c \in active')
    <3>1. /\ x \in 1..read[c]
          /\ \/ waiting'[c] = x
             \/ work'[c][x] \in {"running", "released"}
             \/ \E k \in DOMAIN completed : completed[k] = <<c, x>>
      BY <1>4 DEF Busy
    <3>2. ~(work[c][x] \in {"running", "released"}) /\ ~\E k \in DOMAIN completed : completed[k] = <<c, x>>
      BY <2>1, <3>1 DEF Busy
    <3>3. CASE waiting'[c] = x
      BY <1>3, <1>6, <3>1, <3>3 DEF Lines
    <3>4. CASE work'[c][x] \in {"running", "released"}
      <4>1. x \in DOMAIN script[c] /\ work'[c][x] # work[c][x]
        BY <3>1, <3>2, <3>4, BusyIs
      <4> QED BY <1>5, <4>1 DEF Moved
    <3> QED BY <3>1, <3>2, <3>3, <3>4
  <2>3. waiting'[c] = i => work'[c][i] = "none"
    <3>1. i # 0
      BY <1>3 DEF Lines
    <3>2. PollWaits(c) => work' = work
      BY DEF PollWaits
    <3> QED BY <1>3, <1>6, <3>1, <3>2
  <2>4. answers'[c] = answers[c] \/ Busy(c)' = {}
    <3>1. CASE PollAnswered(c) \/ Overloaded(c)
      <4>1. active' = active /\ waiting' = waiting
        BY <3>1 DEF PollAnswered, Overloaded
      <4>2. i # 0
        BY <1>3 DEF Lines
      <4> QED BY <1>3, <2>2, <4>1, <4>2
    <3>2. CASE ~(PollAnswered(c) \/ Overloaded(c))
      BY <3>2 DEF PollWaits, PollRaises, Submit
    <3> QED BY <3>1, <3>2
  <2>5. /\ Busy(c)' \subseteq {i}
        /\ c \notin active' /\ waiting'[c] = 0 => Busy(c)' = {}
    <3>1. i # 0
      BY <1>3 DEF Lines
    <3> QED BY <2>2, <3>1
  <2> QED BY <1>2, <1>3, <1>6, <1>7, <1>9, <2>3, <2>4, <2>5, DispatchOrder
<1> QED BY <1>8, <1>9

\* The order of a client through the steps of the other parts.
LEMMA OrderPool ==
  ASSUME Inv, TypeOK', NEW d \in Clients, InOrder(d), PoolStep
  PROVE  InOrder(d)'
<1>1. TypeOK /\ completed \in Seq(Clients \X Lines) /\ waiting[d] \in Nat
  BY DEF Inv, CapacityExact, TypeOK
<1>2. PICK c, i, from, to : Worked(c, i, from, to)
  BY <1>1, PoolShape
<1>3. /\ c \in Clients /\ i \in DOMAIN script[c] /\ work[c][i] = from /\ Moved(c, i, to)
      /\ \/ from = "running" /\ to = "released" /\ completed' = completed
         \/ from = "released" /\ to = "appended" /\ completed' = Append(completed, <<c, i>>)
         \/ from = "appended" /\ to = "done" /\ completed' = completed
      /\ UNCHANGED <<script, read, pending, active, waiting, answers>>
  BY <1>2 DEF Worked
<1>4. ASSUME NEW j \in DOMAIN script[d]
      PROVE  /\ work'[d][j] \in {"running", "released"} => work[d][j] \in {"running", "released"}
             /\ work[d][j] = "none" => work'[d][j] = "none"
  <2>1. CASE <<d, j>> = <<c, i>>
    <3>1. d = c /\ j = i
      BY <2>1
    <3> QED BY <1>3, <3>1 DEF Moved
  <2>2. CASE <<d, j>> # <<c, i>>
    BY <1>3, <2>2 DEF Moved
  <2> QED BY <2>1, <2>2
<1>5. ASSUME NEW k \in DOMAIN completed', NEW j, completed'[k] = <<d, j>>
      PROVE  (\E l \in DOMAIN completed : completed[l] = <<d, j>>) \/ work[d][j] = "released"
  <2>1. CASE completed' = completed
    BY <1>5, <2>1
  <2>2. CASE from = "released" /\ completed' = Append(completed, <<c, i>>)
    <3>1. <<c, i>> \in Clients \X Lines
      BY <1>1, <1>3, TaskIs
    <3>2. /\ \A x \in DOMAIN completed : completed'[x] = completed[x]
          /\ \A x \in DOMAIN completed' : x \in DOMAIN completed \/ completed'[x] = <<c, i>>
      BY <1>1, <2>2, <3>1, AppendedOne
    <3>3. CASE k \in DOMAIN completed
      BY <1>5, <3>2, <3>3
    <3>4. CASE completed'[k] = <<c, i>>
      <4>1. d = c /\ j = i
        BY <1>5, <3>4
      <4> QED BY <1>3, <2>2, <4>1
    <3> QED BY <3>2, <3>3, <3>4
  <2> QED BY <1>3, <2>1, <2>2
<1>6. BusyKept(d)
  BY <1>3, <1>4, <1>5 DEF BusyKept
<1>7. waiting[d] # 0 => work'[d][waiting[d]] = "none"
  <2>1. waiting[d] # 0 => waiting[d] \in DOMAIN script[d]
    <3>1. waiting[d] <= read[d]
      BY DEF InOrder
    <3> QED BY <1>1, <3>1, BusyIs
  <2> QED BY <1>4, <2>1 DEF InOrder
<1>8. OrderKept(d)
  BY <1>3, <1>6, <1>7, Untouched
<1> QED BY <1>8, Kept

\* A waiter that is answered: it is open, and gets the event at the head or none.
LEMMA WaiterShape ==
  ASSUME Inv, NEW c \in Clients, AnswerWaiter(c)
  PROVE  /\ c \in Open /\ waiting[c] \in Lines
         /\ \E e \in Nat :
              /\ Answer(c, waiting[c], "waited", e)
              /\ \/ queue # <<>> /\ queue' = Tail(queue) /\ e = Head(queue)
                 \/ queue' = queue /\ e = NoEvent
         /\ waiting' = [waiting EXCEPT ![c] = 0]
         /\ UNCHANGED <<script, conn, read, pending, active, work, completed, made>>
<1>1. TypeOK /\ ThreadInv
  BY DEF Inv, CapacityExact
<1>2. pc = "select" /\ waiting[c] # 0 /\ waiting[c] \in Nat /\ queue \in Seq(Lines)
  BY <1>1 DEF AnswerWaiter, Visit, At, Due, TypeOK
<1>3. c \in Open
  BY <1>1, <1>2 DEF ThreadInv
<1>4. \E e \in Nat :
        /\ Answer(c, waiting[c], "waited", e)
        /\ \/ queue # <<>> /\ queue' = Tail(queue) /\ e = Head(queue)
           \/ queue' = queue /\ e = NoEvent
  <2>1. CASE queue # <<>> /\ queue' = DropEvent /\ Answer(c, waiting[c], "waited", Head(queue))
    <3>1. Head(queue) \in Nat
      BY <1>2, <2>1, HeadIs DEF Lines
    <3> QED BY <2>1, <3>1 DEF DropEvent
  <2>2. CASE queue' = queue /\ Answer(c, waiting[c], "waited", NoEvent)
    BY <2>2 DEF NoEvent
  <2> QED BY <2>1, <2>2 DEF AnswerWaiter
<1>5. waiting' = [waiting EXCEPT ![c] = 0]
      /\ UNCHANGED <<script, conn, read, pending, active, work, completed, made>>
  BY DEF AnswerWaiter, Visit, clientVars, connVars, poolVars
<1> QED BY <1>2, <1>3, <1>4, <1>5 DEF Lines

\* The order of a client when a waiter is answered.
LEMMA OrderWaiter ==
  ASSUME Inv, TypeOK', NEW d \in Clients, InOrder(d), NEW c \in Clients, AnswerWaiter(c)
  PROVE  InOrder(d)'
<1>1. TypeOK
  BY DEF Inv, CapacityExact
<1>2. waiting \in [Clients -> Nat]
  BY <1>1 DEF TypeOK
<1>3. /\ waiting[c] \in Lines /\ waiting' = [waiting EXCEPT ![c] = 0]
      /\ UNCHANGED <<script, conn, read, pending, active, work, completed, made>>
  BY WaiterShape
<1>4. Answered(c, waiting[c]) /\ \A x \in Clients \ {c} : answers'[x] = answers[x]
  <2>1. PICK e \in Nat : Answer(c, waiting[c], "waited", e)
    BY WaiterShape
  <2>2. "waited" \in AnswerKinds
    BY DEF AnswerKinds
  <2> QED BY <1>1, <1>3, <2>1, <2>2, AnswerShape, AnsweredBy
<1>5. CASE d # c
  <2>1. BusyKept(d)
    BY <1>2, <1>3, <1>5, StillBusy
  <2>2. OrderKept(d)
    BY <1>3, <1>4, <1>5, <2>1, Untouched DEF InOrder
  <2> QED BY <2>2, Kept
<1>6. CASE d = c
  <2>1. PICK i : i = waiting[c] /\ i \in Lines
    BY <1>3
  <2>2. i <= read[c] /\ read[c] \in Nat /\ work[c][i] = "none"
    BY <1>6, <2>1, BusyIs DEF InOrder, Lines
  <2>3. i \in Busy(c)
    BY <2>1, <2>2 DEF Busy, Lines
  <2>4. ASSUME NEW x \in Busy(c)' PROVE FALSE
    <3>1. /\ x \in 1..read[c]
          /\ \/ work[c][x] \in {"running", "released"}
             \/ \E k \in DOMAIN completed : completed[k] = <<c, x>>
      <4>1. waiting'[c] = 0
        BY <1>2, <1>3
      <4>2. x # 0 /\ x \in 1..read'[c]
        BY <1>3, <2>2 DEF Busy
      <4> QED BY <1>3, <4>1, <4>2 DEF Busy
    <3>2. x \in Busy(c)
      BY <3>1 DEF Busy
    <3>3. x = i
      BY <1>6, <2>3, <3>2 DEF InOrder
    <3>4. ~\E k \in DOMAIN completed : completed[k] = <<c, i>>
      BY <2>2, BusyIs
    <3> QED BY <2>2, <3>1, <3>3, <3>4
  <2>5. waiting'[c] = 0
    BY <1>2, <1>3
  <2>6. Busy(c)' = {}
    BY <2>4
  <2> QED BY <1>3, <1>4, <1>6, <2>1, <2>3, <2>5, <2>6, FinishOrder
<1> QED BY <1>5, <1>6

\* The completion that is drained.
LEMMA DrainShape ==
  ASSUME Inv, DrainCompletion
  PROVE  \E c \in Clients : \E i \in Lines :
           /\ 1 \in DOMAIN completed /\ completed[1] = <<c, i>>
           /\ i \in 1..read[c] /\ work[c][i] \in {"appended", "done"}
           /\ Answer(c, i, "result", NoEvent)
           /\ active' = IF c \in Open THEN active \ {c} ELSE active
           /\ \A k \in DOMAIN completed' : k \in Nat \ {0} /\ k + 1 \in DOMAIN completed
                                          /\ completed'[k] = completed[k + 1]
           /\ UNCHANGED <<script, conn, read, pending, waiting, work, queue, made>>
<1>1. TypeOK /\ CompletedInv
  BY DEF Inv, CapacityExact
<1>2. completed \in Seq(Clients \X Lines) /\ completed # <<>> /\ completed' = Tail(completed)
  BY <1>1 DEF TypeOK, DrainCompletion
<1>3. /\ 1 \in DOMAIN completed /\ Head(completed) = completed[1] /\ Head(completed) \in Clients \X Lines
      /\ \A k \in DOMAIN completed' : k \in Nat \ {0} /\ k + 1 \in DOMAIN completed
                                     /\ completed'[k] = completed[k + 1]
  BY <1>2, HeadIs
<1>4. PICK c \in Clients, i \in Lines : Head(completed) = <<c, i>>
  BY <1>3
<1>5. i \in 1..read[c] /\ work[c][i] \in {"appended", "done"}
  BY <1>3, <1>4, BusyIs
<1>6. Head(completed)[1] = c /\ Head(completed)[2] = i
  BY <1>4
<1>7. /\ Answer(c, i, "result", NoEvent)
      /\ active' = IF c \in Open THEN active \ {c} ELSE active
      /\ UNCHANGED <<script, conn, read, pending, waiting, work, queue, made>>
  BY <1>6 DEF DrainCompletion, clientVars, connVars, eventVars
<1> QED BY <1>3, <1>4, <1>5, <1>7

\* The order of a client when a result is drained.
LEMMA OrderDrain ==
  ASSUME Inv, TypeOK', NEW d \in Clients, InOrder(d), DrainCompletion
  PROVE  InOrder(d)'
<1>1. TypeOK /\ CompletedInv
  BY DEF Inv, CapacityExact
<1>2. PICK c \in Clients, i \in Lines :
        /\ 1 \in DOMAIN completed /\ completed[1] = <<c, i>>
        /\ i \in 1..read[c] /\ work[c][i] \in {"appended", "done"}
        /\ Answer(c, i, "result", NoEvent)
        /\ active' = IF c \in Open THEN active \ {c} ELSE active
        /\ \A k \in DOMAIN completed' : k \in Nat \ {0} /\ k + 1 \in DOMAIN completed
                                       /\ completed'[k] = completed[k + 1]
        /\ UNCHANGED <<script, conn, read, pending, waiting, work, queue, made>>
  BY DrainShape
<1>3. /\ Answered(c, i) /\ \A x \in Clients \ {c} : answers'[x] = answers[x]
      /\ c \notin Open => answers' = answers
  <2>1. "result" \in AnswerKinds /\ NoEvent \in Nat
    BY DEF AnswerKinds, NoEvent
  <2> QED BY <1>1, <1>2, <2>1, AnswerShape, AnsweredBy
<1>4. CASE d # c \/ c \notin Open
  <2>1. BusyKept(d)
    BY <1>2 DEF BusyKept
  <2>2. answers'[d] = answers[d] /\ (d \in active => d \in active')
    BY <1>2, <1>3, <1>4
  <2>3. OrderKept(d)
    BY <1>2, <2>1, <2>2, Untouched DEF InOrder
  <2> QED BY <2>3, Kept
<1>5. CASE d = c /\ c \in Open
  <2>1. i \in Busy(c)
    BY <1>2 DEF Busy
  <2>2. waiting[c] # i
    <3>1. i # 0
      BY <1>2 DEF Lines
    <3> QED BY <1>2, <1>5, <3>1 DEF InOrder
  <2>3. waiting[c] = 0
    <3>1. waiting[c] \in Nat /\ waiting[c] <= read[c] /\ read[c] \in Nat
      BY <1>1, <1>5 DEF InOrder, TypeOK
    <3>2. waiting[c] # 0 => waiting[c] \in Busy(c)
      BY <3>1 DEF Busy
    <3> QED BY <1>5, <2>1, <2>2, <3>2 DEF InOrder
  <2>4. ASSUME NEW x \in Busy(c)' PROVE FALSE
    <3>1. /\ x \in 1..read[c]
          /\ \/ waiting[c] = x
             \/ work[c][x] \in {"running", "released"}
             \/ \E k \in DOMAIN completed' : completed'[k] = <<c, x>>
      BY <1>2 DEF Busy
    <3>2. x \in Busy(c)
      BY <1>2, <3>1 DEF Busy
    <3>3. x = i
      BY <1>5, <2>1, <3>2 DEF InOrder
    <3>4. PICK k \in DOMAIN completed' : completed'[k] = <<c, i>>
      BY <1>2, <2>2, <3>1, <3>3
    <3>5. k \in Nat \ {0} /\ k + 1 \in DOMAIN completed /\ completed[k + 1] = completed[1]
      BY <1>2, <3>4
    <3>6. k + 1 = 1
      BY <1>1, <1>2, <3>5 DEF CompletedInv
    <3> QED BY <3>5, <3>6
  <2>5. Busy(c)' = {}
    BY <2>4
  <2> QED BY <1>2, <1>3, <1>5, <2>1, <2>3, <2>5, FinishOrder
<1> QED BY <1>4, <1>5

\* The order of a client that stays when lines are read.
LEMMA OrderRead ==
  ASSUME Inv, TypeOK', NEW d \in Clients, InOrder(d), Live(d)', NEW c \in Clients,
         ReadEnd(c) \/ \E n \in DOMAIN script[c] : ReadLines(c, n)
  PROVE  InOrder(d)'
<1>1. TypeOK
  BY DEF Inv, CapacityExact
<1>2. UNCHANGED <<work, completed, active>>
  BY DEF ReadEnd, ReadLines, poolVars
<1>3. ASSUME CloseClient(c), answers' = answers, \A x \in Clients \ {c} : read'[x] = read[x]
      PROVE  InOrder(d)'
  <2>1. d # c
    BY <1>1, <1>3 DEF CloseClient, Live, TypeOK
  <2>2. pending'[d] = pending[d] /\ waiting'[d] = waiting[d]
    BY <1>1, <1>3, <2>1, CloseShape
  <2>3. BusyKept(d)
    BY <1>2, <2>2, StillBusy
  <2>4. OrderKept(d)
    BY <1>2, <1>3, <2>1, <2>2, <2>3, Untouched DEF InOrder
  <2> QED BY <2>4, Kept
<1>4. CASE ReadEnd(c)
  BY <1>3, <1>4 DEF ReadEnd
<1>5. ASSUME NEW n \in DOMAIN script[c], ReadLines(c, n)
      PROVE  InOrder(d)'
  <2>1. PICK good, bad : Chunk(c, n, good, bad)
    BY <1>1, <1>5, ReadShape
  <2>2. /\ n > read[c] /\ n <= Len(script[c]) /\ n \in Nat /\ read[c] \in Nat /\ read'[c] = n
        /\ \A x \in Clients \ {c} : read'[x] = read[x]
    BY <1>1, <2>1 DEF Chunk, TypeOK
  <2>3. CASE CloseClient(c) /\ answers' = answers
    BY <1>3, <2>2, <2>3
  <2>4. CASE TakenIn(c, good, bad)
    <3>1. waiting' = waiting
      BY <2>4 DEF TakenIn
    <3>2. BusyKept(d)
      BY <1>2, <3>1, StillBusy
    <3>3. CASE d # c
      <4>1. pending'[d] = pending[d] /\ answers'[d] = answers[d]
        BY <1>1, <2>1, <2>4, <3>3, QueueShape, ErrorShape
      <4>2. OrderKept(d)
        BY <1>2, <2>2, <3>2, <3>3, <4>1, Untouched DEF InOrder
      <4> QED BY <4>2, Kept
    <3>4. CASE d = c
      <4>1. ASSUME NEW k \in DOMAIN pending'[d]
            PROVE  \/ \E l \in DOMAIN pending[d] : pending[d][l] = pending'[d][k]
                   \/ pending'[d][k] > read[d]
        <5>1. \/ k \in DOMAIN pending[c] /\ pending'[c][k] = pending[c][k]
              \/ \E g \in DOMAIN good : pending'[c][k] = good[g]
          BY <1>1, <2>1, <2>4, <3>4, <4>1, QueueShape
        <5>2. \A g \in DOMAIN good : good[g] \in (read[c] + 1)..n
          <6>1. PICK S : S = (read[c] + 1)..n /\ good \in Seq(S)
            BY <2>1 DEF Chunk
          <6>2. DOMAIN good = 1..Len(good) /\ good \in [1..Len(good) -> S]
            BY <6>1, LenProperties
          <6> QED BY <6>1, <6>2
        <5>3. \A x \in (read[c] + 1)..n : x > read[c]
          BY <2>2
        <5> QED BY <3>4, <5>1, <5>2, <5>3
      <4>2. ASSUME NEW j \in DOMAIN answers'[d]
            PROVE  \/ answers'[d][j].kind = "error"
                   \/ \E l \in DOMAIN answers[d] : answers[d][l] = answers'[d][j]
        BY <1>1, <2>1, <2>4, <3>4, <4>2, ErrorShape
      <4>3. read'[d] \in Nat /\ read[d] <= read'[d] /\ read'[d] <= Len(script[d])
        BY <2>2, <3>4
      <4>4. OrderKept(d)
        BY <1>2, <3>2, <4>1, <4>2, <4>3 DEF OrderKept, InOrder
      <4> QED BY <4>4, Kept
    <3> QED BY <3>3, <3>4
  <2> QED BY <2>1, <2>3, <2>4 DEF Chunk
<1> QED BY <1>4, <1>5

\* The order is kept for every client.
LEMMA OrderStep ==
  ASSUME Inv, [Next]_vars
  PROVE  OrderInv'
<1> SUFFICES ASSUME NEW d \in Clients, Live(d)'
             PROVE  InOrder(d)'
  BY DEF OrderInv, Live
<1>1. TypeOK /\ TypeOK'
  BY TypeStep DEF Inv, CapacityExact
<1>2. InOrder(d)
  BY <1>1, LiveBefore DEF Inv, OrderInv, Live
<1>3. CASE UNCHANGED <<read, pending, active, waiting, answers, work, completed>>
  <2>1. BusyKept(d)
    BY <1>3, StillBusy
  <2>2. OrderKept(d)
    BY <1>2, <1>3, <2>1, Untouched DEF InOrder
  <2> QED BY <1>1, <1>2, <2>2, Kept
<1>4. ASSUME NEW c \in Clients, Accept(c)
      PROVE  UNCHANGED <<read, pending, active, waiting, answers, work, completed>>
  BY <1>4 DEF Accept, askVars, poolVars
<1>5. Quiet \/ ServerClose \/ QueueEvent =>
        UNCHANGED <<read, pending, active, waiting, answers, work, completed>>
  BY DEF Quiet, ServerClose, QueueEvent, Outside, askVars, poolVars
<1>6. ASSUME NEW c \in Clients,
             \/ ReadEnd(c) \/ \E n \in DOMAIN script[c] : ReadLines(c, n)
             \/ PollAnswered(c) \/ PollWaits(c) \/ PollRaises(c) \/ Submit(c)
             \/ Overloaded(c) \/ AnswerWaiter(c)
      PROVE  InOrder(d)'
  BY <1>1, <1>2, <1>6, OrderRead, OrderDispatch, OrderWaiter
<1>7. DrainCompletion \/ PoolStep => InOrder(d)'
  BY <1>1, <1>2, OrderDrain, OrderPool
<1> QED BY <1>3, <1>4, <1>5, <1>6, <1>7, Steps

\* A response to request i of an open client, with an event or none.
Responds(c, i, e) == \E kind \in AnswerKinds : c \in Open /\ i \in Lines /\ e \in Nat /\ Answer(c, i, kind, e)

\* It comes behind the responses there were.
LEMMA RespondsShape ==
  ASSUME TypeOK, NEW c \in Clients, NEW i, NEW e, Responds(c, i, e)
  PROVE  \E m :
           /\ m \in Nat /\ m > 0 /\ m \in DOMAIN answers'[c] /\ m \notin DOMAIN answers[c]
           /\ answers'[c][m].for = i /\ answers'[c][m].event = e
           /\ \A x \in Clients \ {c} : answers'[x] = answers[x]
           /\ \A j \in DOMAIN answers[c] : j \in Nat /\ j < m /\ j \in DOMAIN answers'[c]
                                          /\ answers'[c][j] = answers[c][j]
           /\ \A j \in DOMAIN answers'[c] : j = m \/ j \in DOMAIN answers[c]
<1>1. PICK kind \in AnswerKinds : c \in Open /\ i \in Lines /\ e \in Nat /\ Answer(c, i, kind, e)
  BY DEF Responds
<1>2. /\ \A d \in Clients \ {c} : answers'[d] = answers[d]
      /\ Len(answers[c]) \in Nat /\ DOMAIN answers[c] = 1..Len(answers[c])
      /\ \A j \in DOMAIN answers[c] : answers'[c][j] = answers[c][j]
      /\ DOMAIN answers'[c] = 1..(Len(answers[c]) + 1)
      /\ answers'[c][Len(answers[c]) + 1] = [for |-> i, kind |-> kind, event |-> e]
  BY <1>1, AnswerShape
<1>3. PICK m : m = Len(answers[c]) + 1
  OBVIOUS
<1>4. m \in Nat /\ m > 0 /\ m \in DOMAIN answers'[c] /\ m \notin DOMAIN answers[c]
  BY <1>2, <1>3
<1>5. answers'[c][m].for = i /\ answers'[c][m].event = e
  BY <1>2, <1>3
<1>6. \A j \in DOMAIN answers[c] : j \in Nat /\ j < m /\ j \in DOMAIN answers'[c]
                                  /\ answers'[c][j] = answers[c][j]
  BY <1>2, <1>3
<1>7. \A j \in DOMAIN answers'[c] : j = m \/ j \in DOMAIN answers[c]
  BY <1>2, <1>3
<1> QED BY <1>2, <1>4, <1>5, <1>6, <1>7

\* The ways responses change: errors for bad lines, or one for a request that is due.
LEMMA AnswerSteps ==
  ASSUME Inv, [Next]_vars
  PROVE  \/ UNCHANGED <<answers, queue, made>>
         \/ QueueEvent /\ answers' = answers
         \/ \E c \in Clients : \E n, good, bad :
              Chunk(c, n, good, bad) /\ TakenIn(c, good, bad) /\ queue' = queue /\ made' = made
         \/ \E c \in Clients : \E i, e :
              /\ Responds(c, i, e) /\ made' = made
              /\ i \in Busy(c) \/ (\E k \in DOMAIN pending[c] : pending[c][k] = i)
              /\ \/ e = NoEvent /\ queue' = queue
                 \/ queue # <<>> /\ e = Head(queue) /\ queue' = Tail(queue)
<1> DEFINE DueNow(c, i, e) ==
      /\ Responds(c, i, e) /\ made' = made
      /\ i \in Busy(c) \/ (\E k \in DOMAIN pending[c] : pending[c][k] = i)
      /\ \/ e = NoEvent /\ queue' = queue
         \/ queue # <<>> /\ e = Head(queue) /\ queue' = Tail(queue)
<1>1. TypeOK /\ OrderInv /\ queue \in Seq(Lines)
  BY DEF Inv, CapacityExact, TypeOK
<1>2. ASSUME NEW c \in Clients, NEW n \in DOMAIN script[c], ReadLines(c, n)
      PROVE  \/ UNCHANGED <<answers, queue, made>>
             \/ \E good, bad : /\ Chunk(c, n, good, bad) /\ TakenIn(c, good, bad)
                               /\ queue' = queue /\ made' = made
  <2>1. PICK good, bad : Chunk(c, n, good, bad)
    BY <1>1, <1>2, ReadShape
  <2>2. queue' = queue /\ made' = made
    BY <1>2 DEF ReadLines, eventVars
  <2> QED BY <2>1, <2>2 DEF Chunk
<1>3. ASSUME NEW c \in Clients, PollAnswered(c)
      PROVE  \E i, e : DueNow(c, i, e)
  <2>1. PICK i : i = Head(pending[c]) /\ i \in Lines /\ c \in Open /\ 1 \in DOMAIN pending[c] /\ pending[c][1] = i
    BY <1>3, DispatchShape DEF PollAnswered
  <2>2. /\ queue # <<>> /\ queue' = Tail(queue) /\ made' = made /\ Answer(c, i, "event", Head(queue))
    BY <1>3, <2>1 DEF PollAnswered, Dispatched, DropEvent
  <2>3. Head(queue) \in Nat /\ "event" \in AnswerKinds
    BY <1>1, <2>2, HeadIs DEF Lines, AnswerKinds
  <2>4. Responds(c, i, Head(queue))
    BY <2>1, <2>2, <2>3 DEF Responds
  <2> QED BY <2>1, <2>2, <2>4
<1>4. ASSUME NEW c \in Clients, Overloaded(c)
      PROVE  \E i, e : DueNow(c, i, e)
  <2>1. PICK i : i = Head(pending[c]) /\ i \in Lines /\ c \in Open /\ 1 \in DOMAIN pending[c] /\ pending[c][1] = i
    BY <1>4, DispatchShape DEF Overloaded
  <2>2. queue' = queue /\ made' = made /\ Answer(c, i, "busy", NoEvent)
    BY <1>4, <2>1 DEF Overloaded, Dispatched
  <2>3. NoEvent \in Nat /\ "busy" \in AnswerKinds
    BY DEF AnswerKinds, NoEvent
  <2>4. Responds(c, i, NoEvent)
    BY <2>1, <2>2, <2>3 DEF Responds
  <2> QED BY <2>1, <2>2, <2>4
<1>5. ASSUME NEW c \in Clients, AnswerWaiter(c)
      PROVE  \E i, e : DueNow(c, i, e)
  <2>1. PICK e \in Nat : /\ Answer(c, waiting[c], "waited", e)
                         /\ \/ queue # <<>> /\ queue' = Tail(queue) /\ e = Head(queue)
                            \/ queue' = queue /\ e = NoEvent
    BY <1>5, WaiterShape
  <2>2. waiting[c] \in Lines /\ c \in Open /\ made' = made
    BY <1>5, WaiterShape
  <2>3. waiting[c] \in Busy(c)
    <3>1. InOrder(c)
      BY <1>1, <2>2 DEF OrderInv, Open
    <3>2. waiting[c] <= read[c] /\ read[c] \in Nat
      BY <3>1, BusyIs DEF InOrder
    <3> QED BY <2>2, <3>2 DEF Busy, Lines
  <2>4. Responds(c, waiting[c], e)
    BY <2>1, <2>2 DEF Responds, AnswerKinds
  <2> QED BY <2>1, <2>2, <2>3, <2>4
<1>6. ASSUME DrainCompletion
      PROVE  UNCHANGED <<answers, queue, made>> \/ \E c \in Clients : \E i, e : DueNow(c, i, e)
  <2>1. PICK c \in Clients, i \in Lines :
          /\ 1 \in DOMAIN completed /\ completed[1] = <<c, i>>
          /\ i \in 1..read[c] /\ Answer(c, i, "result", NoEvent)
          /\ UNCHANGED <<queue, made>>
    BY <1>6, DrainShape
  <2>2. i \in Busy(c)
    BY <2>1 DEF Busy
  <2>3. CASE c \in Open
    <3>1. Responds(c, i, NoEvent)
      BY <2>1, <2>3 DEF Responds, AnswerKinds, NoEvent
    <3> QED BY <2>1, <2>2, <3>1
  <2>4. CASE c \notin Open
    BY <2>1, <2>4 DEF Answer
  <2> QED BY <2>3, <2>4
<1>7. ASSUME NEW c \in Clients,
             Accept(c) \/ ReadEnd(c) \/ PollWaits(c) \/ PollRaises(c) \/ Submit(c)
      PROVE  UNCHANGED <<answers, queue, made>>
  BY <1>7 DEF Accept, ReadEnd, PollWaits, PollRaises, Submit, Dispatched, askVars, eventVars
<1>8. /\ Quiet \/ ServerClose \/ PoolStep => UNCHANGED <<answers, queue, made>>
      /\ QueueEvent => answers' = answers
  BY DEF Quiet, ServerClose, QueueEvent, PoolStep, FinishRequest, AppendCompletion, WakeServer,
         Phase, Outside, askVars, eventVars
<1> HIDE DEF DueNow
<1>9. \/ UNCHANGED <<answers, queue, made>>
      \/ QueueEvent /\ answers' = answers
      \/ \E c \in Clients : \E n, good, bad :
           Chunk(c, n, good, bad) /\ TakenIn(c, good, bad) /\ queue' = queue /\ made' = made
      \/ \E c \in Clients : \E i, e : DueNow(c, i, e)
  BY <1>2, <1>3, <1>4, <1>5, <1>6, <1>7, <1>8, Steps
<1> QED BY <1>9 DEF DueNow

\* Requests are answered in their order.
LEMMA AnsweredStep ==
  ASSUME Inv, [Next]_vars
  PROVE  AnsweredInOrder'
<1>1. TypeOK /\ AnsweredInOrder /\ OrderInv
  BY DEF Inv, CapacityExact
<1>2. CASE answers' = answers
  BY <1>1, <1>2 DEF AnsweredInOrder
<1>3. ASSUME NEW c \in Clients, NEW n, NEW good, NEW bad, Chunk(c, n, good, bad), TakenIn(c, good, bad)
      PROVE  AnsweredInOrder'
  <2>1. /\ \A d \in Clients \ {c} : answers'[d] = answers[d]
        /\ \A j \in DOMAIN answers[c] : answers'[c][j] = answers[c][j]
        /\ \A j \in DOMAIN answers'[c] : j \in DOMAIN answers[c] \/ answers'[c][j].kind = "error"
    BY <1>1, <1>3, ErrorShape
  <2>2. ASSUME NEW d \in Clients, NEW j \in DOMAIN answers'[d], NEW k \in DOMAIN answers'[d],
               j < k, answers'[d][j].kind # "error", answers'[d][k].kind # "error"
        PROVE  answers'[d][j].for < answers'[d][k].for
    <3>1. /\ j \in DOMAIN answers[d] /\ answers'[d][j] = answers[d][j]
          /\ k \in DOMAIN answers[d] /\ answers'[d][k] = answers[d][k]
      BY <2>1, <2>2
    <3> QED BY <1>1, <2>2, <3>1 DEF AnsweredInOrder
  <2> QED BY <2>2 DEF AnsweredInOrder
<1>4. ASSUME NEW c \in Clients, NEW i, NEW e, Responds(c, i, e),
             i \in Busy(c) \/ (\E k \in DOMAIN pending[c] : pending[c][k] = i)
      PROVE  AnsweredInOrder'
  <2>1. PICK m :
           /\ m \in Nat /\ answers'[c][m].for = i
           /\ \A x \in Clients \ {c} : answers'[x] = answers[x]
           /\ \A j \in DOMAIN answers[c] : j \in Nat /\ j < m /\ answers'[c][j] = answers[c][j]
           /\ \A j \in DOMAIN answers'[c] : j = m \/ j \in DOMAIN answers[c]
    BY <1>1, <1>4, RespondsShape
  <2>2. InOrder(c)
    BY <1>1, <1>4 DEF Responds, OrderInv, Open
  <2>3. \A j \in DOMAIN answers[c] : answers[c][j].kind # "error" => answers[c][j].for < i
    BY <1>4, <2>2 DEF InOrder
  <2>4. ASSUME NEW d \in Clients, NEW j \in DOMAIN answers'[d], NEW k \in DOMAIN answers'[d],
               j < k, answers'[d][j].kind # "error", answers'[d][k].kind # "error"
        PROVE  answers'[d][j].for < answers'[d][k].for
    <3>1. CASE d # c
      BY <1>1, <2>1, <2>4, <3>1 DEF AnsweredInOrder
    <3>2. CASE d = c
      <4>1. j # m
        BY <2>1, <2>4, <3>2
      <4>2. j \in DOMAIN answers[c] /\ answers'[c][j] = answers[c][j]
        BY <2>1, <3>2, <4>1
      <4>3. CASE k = m
        BY <2>1, <2>3, <2>4, <3>2, <4>2, <4>3
      <4>4. CASE k # m
        <5>1. k \in DOMAIN answers[c] /\ answers'[c][k] = answers[c][k]
          BY <2>1, <3>2, <4>4
        <5> QED BY <1>1, <2>4, <3>2, <4>2, <5>1 DEF AnsweredInOrder
      <4> QED BY <4>3, <4>4
    <3> QED BY <3>1, <3>2
  <2> QED BY <2>4 DEF AnsweredInOrder
<1> QED BY <1>2, <1>3, <1>4, AnswerSteps

-----------------------------------------------------------------------------
(* Events.                                                                 *)

\* Responses without an event are added.
Extended ==
  /\ \A x \in Clients : \A j \in DOMAIN answers[x] :
       j \in DOMAIN answers'[x] /\ answers'[x][j] = answers[x][j]
  /\ \A x \in Clients : \A j \in DOMAIN answers'[x] :
       j \in DOMAIN answers[x] \/ answers'[x][j].event = NoEvent

\* An event is queued once or given once.
LEMMA EventStep ==
  ASSUME Inv, [Next]_vars
  PROVE  EventInv'
<1>1. TypeOK /\ EventInv
  BY DEF Inv, CapacityExact
<1>2. queue \in Seq(Lines) /\ made \in Nat
  BY <1>1, ServerAssumption DEF TypeOK
<1>3. \A k \in DOMAIN queue : queue[k] \in Nat /\ queue[k] # NoEvent /\ queue[k] <= made
  <2>1. \A k \in DOMAIN queue : queue[k] \in Lines
    BY <1>2, LenProperties
  <2> QED BY <1>1, <2>1 DEF EventInv, Lines, NoEvent
<1>4. CASE UNCHANGED <<answers, queue, made>>
  BY <1>1, <1>4 DEF EventInv
<1>5. ASSUME Extended, queue' = queue, made' = made
      PROVE  EventInv'
  <2>1. ASSUME NEW c \in Clients, NEW j \in DOMAIN answers'[c]
        PROVE  /\ answers'[c][j].event <= made
               /\ \A k \in DOMAIN queue : answers'[c][j].event # queue[k]
    <3>1. CASE j \in DOMAIN answers[c]
      BY <1>1, <1>5, <3>1 DEF Extended, EventInv
    <3>2. CASE answers'[c][j].event = NoEvent
      <4>1. NoEvent <= made
        BY <1>2 DEF NoEvent
      <4> QED BY <1>3, <3>2, <4>1
    <3> QED BY <1>5, <3>1, <3>2 DEF Extended
  <2>2. ASSUME NEW c \in Clients, NEW j \in DOMAIN answers'[c], answers'[c][j].event # NoEvent,
               NEW d \in Clients, NEW k \in DOMAIN answers'[d],
               answers'[d][k].event = answers'[c][j].event
        PROVE  c = d /\ j = k
    <3>1. /\ j \in DOMAIN answers[c] /\ answers'[c][j] = answers[c][j]
          /\ k \in DOMAIN answers[d] /\ answers'[d][k] = answers[d][k]
      BY <1>5, <2>2 DEF Extended
    <3> QED BY <1>1, <2>2, <3>1 DEF EventInv
  <2>3. ASSUME NEW e \in 1..made
        PROVE  \/ \E j \in DOMAIN queue : queue[j] = e
               \/ \E c \in Clients : \E j \in DOMAIN answers'[c] : answers'[c][j].event = e
    <3>1. CASE \E j \in DOMAIN queue : queue[j] = e
      BY <3>1
    <3>2. CASE \E c \in Clients : \E j \in DOMAIN answers[c] : answers[c][j].event = e
      BY <1>5, <3>2 DEF Extended
    <3> QED BY <1>1, <3>1, <3>2 DEF EventInv
  <2>4. (\A j \in DOMAIN queue : queue[j] <= made) /\ \A j, k \in DOMAIN queue : queue[j] = queue[k] => j = k
    BY <1>1 DEF EventInv
  <2> QED BY <1>5, <2>1, <2>2, <2>3, <2>4 DEF EventInv
<1>6. ASSUME NEW c \in Clients, NEW n, NEW good, NEW bad, Chunk(c, n, good, bad), TakenIn(c, good, bad),
             queue' = queue, made' = made
      PROVE  EventInv'
  <2>1. /\ \A d \in Clients \ {c} : answers'[d] = answers[d]
        /\ DOMAIN answers[c] \subseteq DOMAIN answers'[c]
        /\ \A j \in DOMAIN answers[c] : answers'[c][j] = answers[c][j]
        /\ \A j \in DOMAIN answers'[c] : j \in DOMAIN answers[c] \/ answers'[c][j].event = NoEvent
    BY <1>1, <1>6, ErrorShape
  <2>2. Extended
    BY <2>1 DEF Extended
  <2> QED BY <1>5, <1>6, <2>2
<1>7. ASSUME NEW c \in Clients, NEW i, Responds(c, i, NoEvent), queue' = queue, made' = made
      PROVE  EventInv'
  <2>1. PICK m :
           /\ answers'[c][m].event = NoEvent
           /\ \A x \in Clients \ {c} : answers'[x] = answers[x]
           /\ \A j \in DOMAIN answers[c] : j \in DOMAIN answers'[c] /\ answers'[c][j] = answers[c][j]
           /\ \A j \in DOMAIN answers'[c] : j = m \/ j \in DOMAIN answers[c]
    BY <1>1, <1>7, RespondsShape
  <2>2. Extended
    BY <2>1 DEF Extended
  <2> QED BY <1>5, <1>7, <2>2
<1>8. ASSUME NEW c \in Clients, NEW i, NEW e, Responds(c, i, e), made' = made,
             queue # <<>>, e = Head(queue), queue' = Tail(queue)
      PROVE  EventInv'
  <2>1. PICK m :
           /\ m \in DOMAIN answers'[c] /\ m \notin DOMAIN answers[c] /\ answers'[c][m].event = e
           /\ \A x \in Clients \ {c} : answers'[x] = answers[x]
           /\ \A j \in DOMAIN answers[c] : j \in DOMAIN answers'[c] /\ answers'[c][j] = answers[c][j]
           /\ \A j \in DOMAIN answers'[c] : j = m \/ j \in DOMAIN answers[c]
    BY <1>1, <1>8, RespondsShape
  <2>2. /\ 1 \in DOMAIN queue /\ e = queue[1]
        /\ \A k \in DOMAIN queue' : k \in Nat \ {0} /\ k + 1 \in DOMAIN queue /\ queue'[k] = queue[k + 1]
        /\ \A k \in DOMAIN queue : k # 1 => k - 1 \in DOMAIN queue' /\ queue'[k - 1] = queue[k]
    BY <1>2, <1>8, HeadIs
  <2>3. ASSUME NEW x \in Clients, NEW j \in DOMAIN answers'[x], ~(x = c /\ j = m)
        PROVE  /\ j \in DOMAIN answers[x] /\ answers'[x][j] = answers[x][j]
               /\ answers'[x][j].event # e
    <3>1. j \in DOMAIN answers[x] /\ answers'[x][j] = answers[x][j]
      BY <2>1, <2>3
    <3>2. answers[x][j].event # queue[1]
      BY <1>1, <2>2, <3>1 DEF EventInv
    <3> QED BY <2>2, <3>1, <3>2
  <2>4. ASSUME NEW k \in DOMAIN queue'
        PROVE  /\ queue'[k] <= made /\ queue'[k] # e
               /\ \E l \in DOMAIN queue : queue[l] = queue'[k]
    <3>1. k + 1 # 1 /\ k + 1 \in DOMAIN queue /\ queue'[k] = queue[k + 1]
      BY <2>2
    <3>2. queue[k + 1] # queue[1]
      BY <1>1, <2>2, <3>1 DEF EventInv
    <3> QED BY <1>3, <2>2, <3>1, <3>2
  <2>5. ASSUME NEW j \in DOMAIN queue', NEW k \in DOMAIN queue', queue'[j] = queue'[k]
        PROVE  j = k
    <3>1. j + 1 = k + 1
      BY <1>1, <2>2, <2>5 DEF EventInv
    <3> QED BY <2>2, <3>1
  <2>6. ASSUME NEW x \in Clients, NEW j \in DOMAIN answers'[x]
        PROVE  /\ answers'[x][j].event <= made
               /\ \A k \in DOMAIN queue' : answers'[x][j].event # queue'[k]
    <3>1. CASE x = c /\ j = m
      BY <1>3, <2>1, <2>2, <2>4, <3>1
    <3>2. CASE ~(x = c /\ j = m)
      BY <1>1, <2>3, <2>4, <3>2 DEF EventInv
    <3> QED BY <3>1, <3>2
  <2>7. ASSUME NEW x \in Clients, NEW j \in DOMAIN answers'[x], answers'[x][j].event # NoEvent,
               NEW d \in Clients, NEW k \in DOMAIN answers'[d],
               answers'[d][k].event = answers'[x][j].event
        PROVE  x = d /\ j = k
    <3>1. CASE (x = c /\ j = m) \/ (d = c /\ k = m)
      BY <2>1, <2>3, <2>7, <3>1
    <3>2. CASE ~(x = c /\ j = m) /\ ~(d = c /\ k = m)
      <4>1. /\ j \in DOMAIN answers[x] /\ answers'[x][j] = answers[x][j]
            /\ k \in DOMAIN answers[d] /\ answers'[d][k] = answers[d][k]
        BY <2>3, <3>2
      <4> QED BY <1>1, <2>7, <4>1 DEF EventInv
    <3> QED BY <3>1, <3>2
  <2>8. ASSUME NEW v \in 1..made
        PROVE  \/ \E j \in DOMAIN queue' : queue'[j] = v
               \/ \E x \in Clients : \E j \in DOMAIN answers'[x] : answers'[x][j].event = v
    <3>1. ASSUME NEW j \in DOMAIN queue, queue[j] = v
          PROVE  \/ \E k \in DOMAIN queue' : queue'[k] = v
                 \/ \E x \in Clients : \E k \in DOMAIN answers'[x] : answers'[x][k].event = v
      BY <2>1, <2>2, <3>1
    <3>2. CASE \E x \in Clients : \E j \in DOMAIN answers[x] : answers[x][j].event = v
      BY <2>1, <3>2
    <3> QED BY <1>1, <3>1, <3>2 DEF EventInv
  <2> QED BY <1>8, <2>4, <2>5, <2>6, <2>7, <2>8 DEF EventInv
<1>9. ASSUME QueueEvent, answers' = answers
      PROVE  EventInv'
  <2>1. made' = made + 1 /\ queue' = Append(queue, made + 1) /\ made + 1 \in Lines
    BY <1>2, <1>9 DEF QueueEvent, Lines
  <2>2. PICK m : m = Len(queue) + 1
    OBVIOUS
  <2>3. /\ \A k \in DOMAIN queue : k \in DOMAIN queue' /\ queue'[k] = queue[k]
        /\ \A k \in DOMAIN queue' : k \in DOMAIN queue \/ (k = m /\ queue'[k] = made + 1)
        /\ m \in DOMAIN queue' /\ queue'[m] = made + 1
    BY <1>2, <2>1, <2>2, AppendedOne
  <2>4. \A k \in DOMAIN queue' : queue'[k] <= made + 1
    BY <1>2, <1>3, <2>3
  <2>5. ASSUME NEW j \in DOMAIN queue', NEW k \in DOMAIN queue', queue'[j] = queue'[k]
        PROVE  j = k
    <3>1. \A l \in DOMAIN queue : queue[l] # made + 1
      BY <1>2, <1>3
    <3>2. CASE j \in DOMAIN queue /\ k \in DOMAIN queue
      BY <1>1, <2>3, <2>5, <3>2 DEF EventInv
    <3>3. CASE ~(j \in DOMAIN queue /\ k \in DOMAIN queue)
      BY <2>3, <2>5, <3>1, <3>3
    <3> QED BY <3>2, <3>3
  <2>6. ASSUME NEW c \in Clients, NEW j \in DOMAIN answers[c]
        PROVE  /\ answers[c][j].event <= made + 1
               /\ \A k \in DOMAIN queue' : answers[c][j].event # queue'[k]
    <3>1. PICK e : e = answers[c][j].event /\ e \in Nat
      <4>1. answers[c] \in Seq(Responses)
        BY <1>1 DEF TypeOK
      <4>2. answers[c][j] \in Responses
        BY <4>1, LenProperties
      <4> QED BY <4>2 DEF Responses
    <3>2. e <= made /\ \A k \in DOMAIN queue : e # queue[k]
      BY <1>1, <3>1 DEF EventInv
    <3>3. e <= made + 1 /\ e # made + 1
      BY <1>2, <3>1, <3>2
    <3> QED BY <2>3, <3>1, <3>2, <3>3
  <2>7. ASSUME NEW e \in 1..(made + 1)
        PROVE  \/ \E j \in DOMAIN queue' : queue'[j] = e
               \/ \E c \in Clients : \E j \in DOMAIN answers[c] : answers[c][j].event = e
    <3>1. CASE e = made + 1
      BY <2>3, <3>1
    <3>2. CASE e # made + 1
      <4>1. e \in 1..made
        BY <1>2, <3>2
      <4> QED BY <1>1, <2>3, <4>1 DEF EventInv
    <3> QED BY <3>1, <3>2
  <2>8. \A c \in Clients : \A j \in DOMAIN answers[c] : answers[c][j].event # NoEvent =>
          \A d \in Clients : \A k \in DOMAIN answers[d] :
            answers[d][k].event = answers[c][j].event => c = d /\ j = k
    BY <1>1 DEF EventInv
  <2> QED BY <1>9, <2>1, <2>4, <2>5, <2>6, <2>7, <2>8 DEF EventInv
<1> QED BY <1>4, <1>6, <1>7, <1>8, <1>9, AnswerSteps

-----------------------------------------------------------------------------
(* The theorems.                                                           *)

\* The server starts with every slot free and nothing under way.
LEMMA Start ==
  ASSUME Init
  PROVE  Inv
<1>1. TypeOK
  <2>1. DOMAIN script = Clients /\ \A c \in Clients : script[c] \in Scripts[c]
    BY DEF Init
  <2>2. read = [c \in Clients |-> 0] /\ \A c \in Clients : Len(script[c]) \in Nat
    <3>1. \A c \in Clients : script[c] \in Seq(Kinds)
      BY <2>1, ServerAssumption
    <3> QED BY <3>1, LenProperties DEF Init
  <2>3. /\ read \in [Clients -> Nat] /\ \A c \in Clients : read[c] <= Len(script[c])
        /\ conn \in [Clients -> {"away", "open", "refused", "closed"}] /\ count \in 0..MaxClients
        /\ slots \in 0..MaxWorkers /\ made \in 0..MaxEvents
    BY <2>2, ServerAssumption DEF Init
  <2>4. /\ pending \in [Clients -> Seq(Lines)] /\ answers \in [Clients -> Seq(Responses)]
        /\ completed \in Seq(Clients \X Lines) /\ queue \in Seq(Lines)
        /\ waiting \in [Clients -> Nat]
    <3>1. <<>> \in Seq(Lines) /\ <<>> \in Seq(Responses) /\ <<>> \in Seq(Clients \X Lines)
      OBVIOUS
    <3> QED BY <3>1 DEF Init
  <2>5. /\ DOMAIN work = Clients
        /\ \A c \in Clients : work[c] \in [DOMAIN script[c] -> {"none", "running", "released",
                                                               "appended", "done"}]
    BY DEF Init
  <2>6. /\ gone = {} /\ active = {} /\ expired = {} /\ ready = {} /\ todo = {} /\ turn = NoClient
        /\ notifying \in BOOLEAN /\ wake \in BOOLEAN /\ stop \in BOOLEAN /\ pc = "select"
    BY DEF Init
  <2> QED BY <2>1, <2>3, <2>4, <2>5, <2>6 DEF TypeOK
<1>2. \A c \in Clients : \A i \in DOMAIN script[c] : work[c][i] = "none"
  BY DEF Init
<1>3. CapacityExact
  <2>1. In({"running"}) = {}
    BY <1>1, <1>2, TaskIs DEF In
  <2>2. Open = {}
    BY DEF Init, Open
  <2>3. Cardinality(In({"running"})) = 0 /\ Cardinality(Open) = 0
    BY <2>1, <2>2, FS_EmptySet
  <2>4. slots = MaxWorkers /\ count = 0 /\ MaxWorkers \in Nat
    BY ServerAssumption DEF Init
  <2> QED BY <1>1, <2>3, <2>4 DEF CapacityExact
<1>4. DOMAIN <<>> = {}
  OBVIOUS
<1>5. /\ \A c \in Clients : /\ pending[c] = <<>> /\ answers[c] = <<>> /\ waiting[c] = 0 /\ read[c] = 0
                           /\ conn[c] = "away"
      /\ completed = <<>> /\ queue = <<>> /\ made = 0
      /\ turn = NoClient /\ pc = "select"
  BY DEF Init
<1>6. AnsweredInOrder /\ CompletedInv /\ WakeInv
  BY <1>4, <1>5 DEF AnsweredInOrder, CompletedInv, WakeInv
<1>7. ThreadInv
  BY <1>5 DEF ThreadInv
<1>8. QueuedInv
  BY <1>2, <1>4, <1>5 DEF QueuedInv
<1>9. OrderInv
  <2> SUFFICES ASSUME NEW c \in Clients PROVE InOrder(c)
    BY DEF OrderInv
  <2>1. Busy(c) = {}
    BY <1>5 DEF Busy
  <2> QED BY <1>4, <1>5, <2>1 DEF InOrder
<1>10. EventInv
  BY <1>4, <1>5 DEF EventInv
<1> QED BY <1>3, <1>6, <1>7, <1>8, <1>9, <1>10 DEF Inv

\* The invariant the results below are read from.
THEOREM Invariant == Spec => []Inv
<1>1. ASSUME Inv, [Next]_vars
      PROVE  Inv'
  <2>1. CapacityExact'
    BY <1>1, SlotsStep, CountStep, TypeStep DEF CapacityExact
  <2> QED BY <1>1, <2>1, AnsweredStep, ThreadStep, QueuedStep, CompletedStep, OrderStep, EventStep,
             WakeStep DEF Inv
<1> QED BY <1>1, Start, PTL DEF Spec

\* No worker slot leaks and none is released twice, and _active_clients is the number of
\* open connections, for any number of clients, slots and connections.
THEOREM CapacitySafe == Spec => []CapacityExact
<1>1. Inv => CapacityExact
  BY DEF Inv
<1> QED BY <1>1, Invariant, PTL

\* Every client gets the responses to its queued requests once each and in the order of
\* its lines, however the pool, the polls and the busy responses interleave.
THEOREM OrderSafe == Spec => []AnsweredInOrder
<1>1. Inv => AnsweredInOrder
  BY DEF Inv
<1> QED BY <1>1, Invariant, PTL

\* Events do not get lost between the queue and the polls and are not given twice.
THEOREM EventSafe == Spec => []EventOnce
<1>1. ASSUME Inv
      PROVE  EventOnce
  <2> SUFFICES ASSUME NEW e \in 1..made
               PROVE  Cardinality({j \in DOMAIN queue : queue[j] = e}) + Cardinality(Given(e)) = 1
    BY DEF EventOnce
  <2> DEFINE Q == {j \in DOMAIN queue : queue[j] = e}
  <2>1. EventInv /\ e # NoEvent
    <3>1. made \in Nat
      BY <1>1, ServerAssumption DEF Inv, CapacityExact, TypeOK
    <3> QED BY <1>1, <3>1 DEF Inv, NoEvent
  <2>2. ASSUME NEW j \in DOMAIN queue, queue[j] = e
        PROVE  Q = {j} /\ Given(e) = {}
    <3>1. Q = {j}
      BY <2>1, <2>2 DEF EventInv
    <3>2. ASSUME NEW g \in Given(e) PROVE FALSE
      <4>1. PICK c \in Clients : g \in {c} \X {k \in DOMAIN answers[c] : answers[c][k].event = e}
        BY <3>2 DEF Given
      <4>2. g[2] \in DOMAIN answers[c] /\ answers[c][g[2]].event = e
        BY <4>1
      <4>3. answers[c][g[2]].event # queue[j]
        BY <2>1, <4>2 DEF EventInv
      <4> QED BY <2>2, <4>2, <4>3
    <3> QED BY <3>1, <3>2
  <2>3. ASSUME NEW c \in Clients, NEW j \in DOMAIN answers[c], answers[c][j].event = e
        PROVE  Q = {} /\ Given(e) = {<<c, j>>}
    <3>1. Q = {}
      BY <2>1, <2>3 DEF EventInv
    <3>2. <<c, j>> \in Given(e)
      BY <2>3 DEF Given
    <3>3. ASSUME NEW g \in Given(e) PROVE g = <<c, j>>
      <4>1. PICK d \in Clients : g \in {d} \X {k \in DOMAIN answers[d] : answers[d][k].event = e}
        BY <3>3 DEF Given
      <4>2. /\ g[2] \in DOMAIN answers[d] /\ answers[d][g[2]].event = e
            /\ g = <<g[1], g[2]>> /\ g[1] = d
        BY <4>1
      <4>3. c = d /\ j = g[2]
        BY <2>1, <2>3, <4>2 DEF EventInv
      <4> QED BY <4>2, <4>3
    <3> QED BY <3>1, <3>2, <3>3
  <2>4. Cardinality(Q) + Cardinality(Given(e)) = 1
    <3>1. CASE \E j \in DOMAIN queue : queue[j] = e
      <4>1. PICK j : Q = {j} /\ Given(e) = {}
        BY <2>2, <3>1
      <4>2. Cardinality(Q) = 1 /\ Cardinality(Given(e)) = 0
        BY <4>1, FS_Singleton, FS_EmptySet, Zenon
      <4> QED BY <4>2
    <3>2. CASE \E c \in Clients : \E j \in DOMAIN answers[c] : answers[c][j].event = e
      <4>1. PICK g : Q = {} /\ Given(e) = {g}
        BY <2>3, <3>2
      <4>2. Cardinality(Q) = 0 /\ Cardinality(Given(e)) = 1
        BY <4>1, FS_Singleton, FS_EmptySet, Zenon
      <4> QED BY <4>2
    <3> QED BY <2>1, <3>1, <3>2 DEF EventInv
  <2> QED BY <2>4
<1> QED BY <1>1, Invariant, PTL

\* The server thread does not sleep in select on a result or on an event a client waits
\* for, unless a thread is about to wake it.
THEOREM WakeupSafe == Spec => []NoLostWakeup
<1>1. Inv => NoLostWakeup
  <2> SUFFICES ASSUME WakeInv, Selecting, ~wake,
                      completed # <<>> \/ (queue # <<>> /\ \E c \in Open : waiting[c] # 0)
               PROVE  notifying \/ In({"appended"}) # {}
    BY DEF Inv, NoLostWakeup
  <2>1. pc = "select" /\ todo = {}
    BY DEF Selecting, At
  <2> QED BY <2>1 DEF WakeInv
<1> QED BY <1>1, Invariant, PTL

=============================================================================

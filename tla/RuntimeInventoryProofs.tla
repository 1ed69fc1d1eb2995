------------------------ MODULE RuntimeInventoryProofs ------------------------
(***************************************************************************)
(* Proofs about RuntimeInventory: the snapshot on disk is current for any  *)
(* number of RPC threads, models, failures and crashes, and the kernel     *)
(* matches a "ready" or "empty" runtime where one RPC runs at a time.      *)
(***************************************************************************)
EXTENDS RuntimeInventory, SequenceTheorems, TLAPS

Inv == TypeOK /\ ThreadInv /\ GoalInv /\ SavedInv /\ RestoreInv

\* A step of a restore that has installed the model.
Rejoin == Reattach \/ ReattachRefused \/ Restored

-----------------------------------------------------------------------------
(* Sequences of items, snapshots and saves.                                *)

\* What adding one item does to the set of items.
LEMMA Ranges ==
  ASSUME NEW S, NEW s \in Seq(S), NEW e
  PROVE  /\ Range(s) \subseteq S
         /\ Range(Append(s, e)) = Range(s) \cup {e}
         /\ Range(<<>>) = {}
<1>1. Range(s) \subseteq S
  BY DEF Range
<1>2. Range(<<>>) = {}
  BY DEF Range
<1>3. DOMAIN Append(s, e) = 1..(Len(s) + 1) /\ DOMAIN s = 1..Len(s) /\ Len(s) \in Nat
  OBVIOUS
<1>4. \A i \in 1..(Len(s) + 1) : Append(s, e)[i] = IF i <= Len(s) THEN s[i] ELSE e
  OBVIOUS
<1>5. Range(Append(s, e)) \subseteq Range(s) \cup {e}
  BY <1>3, <1>4 DEF Range
<1>6. Range(s) \subseteq Range(Append(s, e))
  BY <1>3, <1>4 DEF Range
<1>7. e \in Range(Append(s, e))
  <2>1. Append(s, e)[Len(s) + 1] = e /\ Len(s) + 1 \in 1..(Len(s) + 1)
    BY <1>3, <1>4
  <2> QED BY <1>3, <2>1 DEF Range
<1> QED BY <1>1, <1>2, <1>5, <1>6, <1>7

\* Two sequences of one length with the same elements have the same items.
LEMMA SameItems ==
  ASSUME NEW S, NEW s \in Seq(S), NEW u \in Seq(S), Len(s) = Len(u),
         \A i \in 1..Len(s) : s[i] = u[i]
  PROVE  Range(s) = Range(u)
<1>1. DOMAIN s = 1..Len(s) /\ DOMAIN u = 1..Len(s)
  OBVIOUS
<1> QED BY <1>1 DEF Range

\* A model's items are a sequence.
LEMMA Plans ==
  ASSUME NEW m \in Models
  PROVE  Plan[m] \in Seq(Items)
<1>1. Plan[m] \in Seq(Range(Plan[m])) /\ Range(Plan[m]) \subseteq Items
  BY InventoryAssumption DEF PlanOK, Items
<1> QED BY <1>1, SeqMonotonic

\* A save writes the file or reports its failure.
LEMMA Saves ==
  ASSUME TypeOK, NEW items \in Seq(Items), NEW att \in SUBSET Range(items),
         NEW failed \in BOOLEAN, Persist(items, att, failed), Closed(disk)
  PROVE  /\ disk' \in Snapshots \cup {NoSnapshot} /\ Closed(disk')
         /\ saveError' \in BOOLEAN /\ unreported' \in BOOLEAN /\ faults' \in 0..MaxFaults
         /\ ~saveError' => disk' = IF items = <<>> THEN NoSnapshot
                                   ELSE [items |-> items, attached |-> att]
<1>1. att \in SUBSET Items
  BY Ranges
<1>2. [items |-> items, attached |-> att] \in Snapshots
  BY <1>1 DEF Snapshots
<1>3. Closed([items |-> items, attached |-> att])
  BY DEF Closed
<1>4. faults \in 0..MaxFaults /\ MaxFaults \in Nat
  BY InventoryAssumption DEF TypeOK
<1>5. Closed(NoSnapshot)
  BY DEF Closed
<1> DEFINE new == IF items = <<>> THEN NoSnapshot ELSE [items |-> items, attached |-> att]
<1>6. new \in Snapshots \cup {NoSnapshot} /\ Closed(new)
  BY <1>2, <1>3, <1>5
<1> HIDE DEF new
<1>7. \/ disk' = new /\ saveError' = failed /\ unreported' = FALSE /\ faults' = faults
      \/ /\ faults > 0 /\ faults' = faults - 1 /\ saveError' = TRUE /\ disk' = disk
         /\ unreported' = unreported
  BY DEF Persist, Fault, new
<1>8. disk \in Snapshots \cup {NoSnapshot}
  BY DEF TypeOK
<1>9. disk' \in Snapshots \cup {NoSnapshot} /\ (~saveError' => disk' = new)
  BY <1>6, <1>7, <1>8
<1>10. Closed(disk')
  <2>1. CASE disk' = new
    BY <1>6, <2>1 DEF Closed
  <2>2. CASE disk' = disk
    BY <2>2 DEF Closed
  <2> QED BY <1>7, <2>1, <2>2
<1>11. saveError' \in BOOLEAN /\ unreported' \in BOOLEAN
  BY <1>7 DEF TypeOK
<1>12. faults' \in 0..MaxFaults
  BY <1>4, <1>7
<1> QED BY <1>9, <1>10, <1>11, <1>12 DEF new

\* Saving an empty inventory.
LEMMA SavesNone ==
  ASSUME TypeOK, NEW failed \in BOOLEAN, Persist(<<>>, {}, failed), Closed(disk)
  PROVE  /\ disk' \in Snapshots \cup {NoSnapshot} /\ Closed(disk')
         /\ saveError' \in BOOLEAN /\ unreported' \in BOOLEAN /\ faults' \in 0..MaxFaults
         /\ ~saveError' => disk' = NoSnapshot
<1>1. <<>> \in Seq(Items) /\ {} \in SUBSET Range(<<>>)
  OBVIOUS
<1> QED BY <1>1, Saves

\* What the daemon would save now is a snapshot.
LEMMA Current ==
  ASSUME TypeOK
  PROVE  Snapshot \in Snapshots /\ Snapshot.items = inv /\ Snapshot.attached = attached
<1>1. attached \in SUBSET Items
  BY Ranges DEF TypeOK
<1> QED BY <1>1 DEF Snapshot, Snapshots, TypeOK

\* A step of thread t puts pc, op, goal and prev of no other thread out of type.
LEMMA Threaded ==
  ASSUME NEW T, NEW f \in [Threads -> T], NEW t \in Threads, NEW x \in T
  PROVE  /\ [f EXCEPT ![t] = x] \in [Threads -> T]
         /\ [f EXCEPT ![t] = x][t] = x
         /\ \A u \in Threads \ {t} : [f EXCEPT ![t] = x][u] = f[u]
OBVIOUS

-----------------------------------------------------------------------------
(* The type invariant.                                                     *)

Static == /\ up' \in {"down", "boot", "up"} /\ state' \in {"empty", "applying", "ready", "desynced"}
          /\ named' \in BOOLEAN /\ reader' \in BOOLEAN
          /\ lock' \in Threads \cup {Nobody} /\ crashes' \in 0..MaxCrashes

\* The scalar variables keep their types.
LEMMA NextStatic ==
  ASSUME TypeOK, [Next]_vars
  PROVE  Static
<1> USE DEF Static
<1>1. crashes \in 0..MaxCrashes /\ MaxCrashes \in Nat
  BY InventoryAssumption DEF TypeOK
<1>2. ASSUME NEW t \in Threads, Step(t) PROVE Static
  BY <1>1, <1>2 DEF Step, SendReset, SendResetFails, ClearAfterReset, InstallBegin, AddItem,
     AddItemFails, InstallDone, Discard, Discarded, Desync, TypeOK, daemonVars
<1>3. ASSUME NEW t \in Threads, Request(t) PROVE Static
  BY <1>1, <1>3 DEF Request, ApplyBegin, ResetBegin, ResyncBegin, Attach, Detach, Begin,
     SetAttached, TypeOK
<1>4. CASE ReaderDies \/ ReplyFails \/ Serve \/ UNCHANGED vars
  BY <1>1, <1>4 DEF ReaderDies, ReplyFails, Serve, vars, TypeOK, daemonVars
<1>5. CASE Crash
  <2>1. crashes' \in 0..MaxCrashes
    BY <1>1, <1>5 DEF Crash
  <2> QED BY <1>5, <2>1 DEF Crash
<1>7. CASE Start
  <2>1. state' \in {state, "applying"}
    BY <1>7 DEF Start
  <2> QED BY <1>1, <1>7, <2>1 DEF Start, TypeOK
<1>6. CASE Rejoin
  BY <1>1, <1>6 DEF Rejoin, Reattach, ReattachRefused, Restored, SetAttached, TypeOK, daemonVars
<1> QED BY <1>2, <1>3, <1>4, <1>5, <1>6, <1>7 DEF Next, Rejoin

Ops == {"none", "apply", "reset", "resync", "rollback", "restore"}

\* Where a failure leads.
LEMMA Failures ==
  ASSUME TypeOK, NEW t \in Threads, op[t] # "none"
  PROVE  /\ AfterFailure(t) \in {"idle", "discard", "broken"}
         /\ AfterFailure(t) = "idle" <=> op[t] = "reset"
<1>1. op[t] \in Ops \ {"none"}
  BY DEF TypeOK, Ops
<1>2. CASE op[t] = "reset"
  BY <1>2 DEF AfterFailure
<1>3. CASE op[t] \in {"apply", "restore"}
  BY <1>3 DEF AfterFailure
<1>4. CASE op[t] \in {"resync", "rollback"}
  BY <1>4 DEF AfterFailure
<1> QED BY <1>1, <1>2, <1>3, <1>4 DEF Ops

\* What a step of t makes of pc and op.
Edge(t) ==
  \/ /\ pc[t] = "idle" /\ pc'[t] = "idle" /\ op'[t] = op[t]
  \/ /\ pc[t] = "idle" /\ pc'[t] = "reset" /\ op'[t] \in {"apply", "reset", "resync"}
     /\ t # Main /\ up = "up"
  \/ /\ pc[t] = "reset" /\ op'[t] = op[t]
     /\ \/ pc'[t] = IF op[t] = "reset" THEN "clear" ELSE "install"
        \/ pc'[t] = AfterFailure(t)
  \/ /\ pc[t] = "clear" /\ pc'[t] = "idle" /\ op'[t] = op[t]
  \/ /\ pc[t] = "install" /\ pc'[t] = "adding" /\ op'[t] = op[t]
  \/ /\ pc[t] = "adding" /\ op'[t] = op[t]
     /\ \/ pc'[t] = "adding" \/ pc'[t] = AfterFailure(t)
        \/ pc'[t] = IF op[t] = "restore" THEN "reattach" ELSE "idle"
  \/ /\ pc[t] = "discard" /\ pc'[t] \in {"discarded", "stuck"} /\ op'[t] = op[t]
  \/ /\ pc[t] = "discarded"
     /\ \/ pc'[t] = "idle" /\ op'[t] = op[t] /\ prev[t] = NoSnapshot
        \/ pc'[t] = "install" /\ op'[t] = "rollback" /\ prev[t] # NoSnapshot
  \/ /\ pc[t] \in {"stuck", "broken"} /\ op'[t] = op[t]
     /\ pc'[t] = IF pc[t] = "stuck" THEN "broken" ELSE "idle"

\* A step of one thread leaves the daemon up and the other threads where they are.
LEMMA Edges ==
  ASSUME TypeOK, NEW t \in Threads, Step(t) \/ Request(t)
  PROVE  /\ up' = up /\ reader' = reader /\ crashes' = crashes
         /\ \A u \in Threads \ {t} :
              pc'[u] = pc[u] /\ op'[u] = op[u] /\ goal'[u] = goal[u] /\ prev'[u] = prev[u]
         /\ pc' = [pc EXCEPT ![t] = pc'[t]] /\ op' = [op EXCEPT ![t] = op'[t]]
         /\ Edge(t)
<1> USE DEF TypeOK, Edge, Goto
<1>1. CASE SendReset(t)
  BY <1>1 DEF SendReset
<1>2. CASE SendResetFails(t)
  BY <1>2 DEF SendResetFails
<1>3. CASE ClearAfterReset(t)
  BY <1>3 DEF ClearAfterReset
<1>4. CASE InstallBegin(t)
  BY <1>4 DEF InstallBegin
<1>5. CASE AddItem(t)
  BY <1>5 DEF AddItem, threadVars
<1>6. CASE AddItemFails(t)
  BY <1>6 DEF AddItemFails
<1>7. CASE InstallDone(t)
  BY <1>7 DEF InstallDone
<1>8. CASE Discard(t)
  BY <1>8 DEF Discard
<1>9. CASE Discarded(t)
  BY <1>9 DEF Discarded
<1>10. CASE Desync(t)
  BY <1>10 DEF Desync
<1>11. ASSUME NEW m \in Models, ApplyBegin(t, m)
       PROVE  /\ up' = up /\ reader' = reader /\ crashes' = crashes
              /\ \A u \in Threads \ {t} :
                   pc'[u] = pc[u] /\ op'[u] = op[u] /\ goal'[u] = goal[u] /\ prev'[u] = prev[u]
              /\ pc' = [pc EXCEPT ![t] = pc'[t]] /\ op' = [op EXCEPT ![t] = op'[t]]
              /\ Edge(t)
  BY <1>11 DEF ApplyBegin, Begin
<1>12. CASE ResetBegin(t) \/ ResyncBegin(t)
  BY <1>12 DEF ResetBegin, ResyncBegin, Begin
<1>13. CASE Attach(t) \/ Detach(t)
  BY <1>13 DEF Attach, Detach, SetAttached
<1> QED BY <1>1, <1>2, <1>3, <1>4, <1>5, <1>6, <1>7, <1>8, <1>9, <1>10, <1>11, <1>12, <1>13
        DEF Step, Request

\* The inventory, the kernel and the snapshots after a step.
Data ==
  /\ inv' \in Seq(Items) /\ attached' \subseteq Range(inv') /\ kernel' \subseteq Items
  /\ disk' \in Snapshots \cup {NoSnapshot} /\ Closed(disk')
  /\ saveError' \in BOOLEAN /\ unreported' \in BOOLEAN /\ faults' \in 0..MaxFaults
  /\ goal' \in [Threads -> Snapshots] /\ prev' \in [Threads -> Snapshots \cup {NoSnapshot}]
  /\ \A t \in Threads : goal'[t].attached \subseteq Range(goal'[t].items) /\ Closed(prev'[t])

\* A fault is one of those that are left.
LEMMA Faults ==
  ASSUME TypeOK, Fault \/ faults' = faults
  PROVE  faults' \in 0..MaxFaults
<1>1. faults \in 0..MaxFaults /\ MaxFaults \in Nat
  BY InventoryAssumption DEF TypeOK
<1> QED BY <1>1 DEF Fault

\* A step of one thread keeps them well formed.
LEMMA StepData ==
  ASSUME Inv, NEW t \in Threads, Step(t)
  PROVE  Data
<1> USE DEF Inv, Data, fileVars
<1>1. CASE SendReset(t) \/ SendResetFails(t) \/ Discard(t)
  <2>1. UNCHANGED <<inv, attached, disk, saveError, unreported, goal, prev>> /\ kernel' \in {kernel, {}}
    BY <1>1 DEF SendReset, SendResetFails, Discard, daemonVars
  <2>2. faults' \in 0..MaxFaults
    BY <1>1, Faults DEF SendReset, SendResetFails, Discard
  <2>3. Closed(disk') /\ \A u \in Threads : Closed(prev'[u])
    BY <2>1 DEF GoalInv, Closed
  <2> QED BY <2>1, <2>2, <2>3 DEF TypeOK, GoalInv
<1>2. CASE ClearAfterReset(t)
  <2>1. UNCHANGED <<kernel, goal, prev>> /\ inv' = <<>> /\ attached' = {} /\ Persist(<<>>, {}, FALSE)
    BY <1>2 DEF ClearAfterReset
  <2>2. /\ disk' \in Snapshots \cup {NoSnapshot} /\ Closed(disk')
        /\ saveError' \in BOOLEAN /\ unreported' \in BOOLEAN /\ faults' \in 0..MaxFaults
    BY <2>1, SavesNone DEF GoalInv
  <2>3. \A u \in Threads : Closed(prev'[u])
    BY <2>1 DEF GoalInv, Closed
  <2> QED BY <2>1, <2>2, <2>3 DEF TypeOK, GoalInv
<1>3. CASE InstallBegin(t)
  <2>1. UNCHANGED <<kernel, disk, saveError, unreported, faults, goal, prev>> /\ inv' = <<>> /\ attached' = {}
    BY <1>3 DEF InstallBegin
  <2>2. Closed(disk') /\ \A u \in Threads : Closed(prev'[u])
    BY <2>1 DEF GoalInv, Closed
  <2> QED BY <2>1, <2>2 DEF TypeOK, GoalInv
<1>4. CASE AddItem(t) \/ AddItemFails(t)
  <2>1. UNCHANGED <<attached, disk, saveError, unreported, goal, prev>>
    BY <1>4 DEF AddItem, AddItemFails, threadVars
  <2>2. faults' \in 0..MaxFaults
    BY <1>4, Faults DEF AddItem, AddItemFails
  <2>3. Closed(disk') /\ \A u \in Threads : Closed(prev'[u])
    BY <2>1 DEF GoalInv, Closed
  <2>4. inv \in Seq(Items) /\ Len(inv) \in Nat /\ goal[t].items \in Seq(Items)
    BY DEF TypeOK, Snapshots
  <2>5. Len(inv) < Len(goal[t].items)
    BY <1>4 DEF AddItem, AddItemFails
  <2>6. NextItem(t) \in Items
    BY <2>4, <2>5 DEF NextItem
  <2>7. Append(inv, NextItem(t)) \in Seq(Items) /\ Range(inv) \subseteq Range(Append(inv, NextItem(t)))
    BY <2>4, <2>6, Ranges
  <2>8. inv' \in {inv, Append(inv, NextItem(t))} /\ kernel' \in {kernel, kernel \cup {NextItem(t)}}
    BY <1>4 DEF AddItem, AddItemFails
  <2>9. inv' \in Seq(Items) /\ Range(inv) \subseteq Range(inv') /\ kernel' \subseteq Items
    BY <2>4, <2>6, <2>7, <2>8 DEF TypeOK
  <2> QED BY <2>1, <2>2, <2>3, <2>9 DEF TypeOK, GoalInv
<1>5. CASE InstallDone(t)
  <2>1. UNCHANGED <<inv, kernel, goal, prev>> /\ Persist(inv, attached', FALSE)
        /\ attached' \in {{}, goal[t].attached}
    BY <1>5 DEF InstallDone
  <2>2. goal[t].items \in Seq(Items) /\ inv \in Seq(Items) /\ Len(inv) = Len(goal[t].items)
    BY <1>5 DEF TypeOK, Snapshots, InstallDone
  <2>3. \A i \in 1..Len(inv) : inv[i] = goal[t].items[i]
    BY <1>5 DEF InstallDone, GoalInv
  <2>4. Range(inv) = Range(goal[t].items)
    BY <2>2, <2>3, SameItems
  <2>5. attached' \subseteq Range(inv)
    BY <2>1, <2>4 DEF GoalInv
  <2>6. /\ disk' \in Snapshots \cup {NoSnapshot} /\ Closed(disk')
        /\ saveError' \in BOOLEAN /\ unreported' \in BOOLEAN /\ faults' \in 0..MaxFaults
    BY <2>1, <2>2, <2>5, Saves DEF GoalInv
  <2>7. \A u \in Threads : Closed(prev'[u])
    BY <2>1 DEF GoalInv, Closed
  <2> QED BY <2>1, <2>2, <2>5, <2>6, <2>7 DEF TypeOK, GoalInv
<1>6. CASE Discarded(t)
  <2>1. UNCHANGED <<kernel, prev>> /\ inv' = <<>> /\ attached' = {}
        /\ Persist(<<>>, {}, Restoring(t)) /\ Restoring(t) \in BOOLEAN
    BY <1>6 DEF Discarded, Restoring
  <2>2. /\ disk' \in Snapshots \cup {NoSnapshot} /\ Closed(disk')
        /\ saveError' \in BOOLEAN /\ unreported' \in BOOLEAN /\ faults' \in 0..MaxFaults
    BY <2>1, SavesNone DEF GoalInv
  <2>3. \A u \in Threads : Closed(prev'[u])
    BY <2>1 DEF GoalInv, Closed
  <2>4. goal' = goal \/ (prev[t] # NoSnapshot /\ goal' = [goal EXCEPT ![t] = prev[t]])
    BY <1>6 DEF Discarded
  <2>5. prev[t] # NoSnapshot => prev[t] \in Snapshots /\ prev[t].attached \subseteq Range(prev[t].items)
    BY DEF TypeOK, GoalInv, Closed
  <2>6. /\ goal' \in [Threads -> Snapshots]
        /\ \A u \in Threads : goal'[u].attached \subseteq Range(goal'[u].items)
    BY <2>4, <2>5 DEF TypeOK, GoalInv
  <2> QED BY <2>1, <2>2, <2>3, <2>6 DEF TypeOK
<1>7. CASE Desync(t)
  <2>1. UNCHANGED <<inv, attached, kernel, goal, prev>> /\ Persist(inv, attached, Restoring(t))
        /\ Restoring(t) \in BOOLEAN
    BY <1>7 DEF Desync, Restoring
  <2>2. /\ disk' \in Snapshots \cup {NoSnapshot} /\ Closed(disk')
        /\ saveError' \in BOOLEAN /\ unreported' \in BOOLEAN /\ faults' \in 0..MaxFaults
    BY <2>1, Saves DEF GoalInv, TypeOK
  <2>3. \A u \in Threads : Closed(prev'[u])
    BY <2>1 DEF GoalInv, Closed
  <2> QED BY <2>1, <2>2, <2>3 DEF TypeOK, GoalInv
<1> QED BY <1>1, <1>2, <1>3, <1>4, <1>5, <1>6, <1>7 DEF Step

\* So does a request ...
LEMMA RequestData ==
  ASSUME Inv, NEW t \in Threads, Request(t)
  PROVE  Data
<1> USE DEF Inv, Data, fileVars
<1>1. ASSUME NEW o, NEW g \in Snapshots, NEW p \in Snapshots \cup {NoSnapshot}, Begin(t, o, g, p),
             g.attached \subseteq Range(g.items), Closed(p)
      PROVE  Data
  <2>1. /\ UNCHANGED <<inv, attached, kernel, disk, saveError, unreported, faults>>
        /\ goal' = [goal EXCEPT ![t] = g] /\ prev' = [prev EXCEPT ![t] = p]
    BY <1>1 DEF Begin
  <2>2. Closed(disk')
    BY <2>1 DEF GoalInv, Closed
  <2>3. \A u \in Threads : Closed(prev'[u])
    BY <1>1, <2>1 DEF GoalInv, TypeOK
  <2>4. \A u \in Threads : goal'[u].attached \subseteq Range(goal'[u].items)
    BY <1>1, <2>1 DEF GoalInv, TypeOK
  <2> QED BY <1>1, <2>1, <2>2, <2>3, <2>4 DEF TypeOK
<1>2. Closed(NoSnapshot) /\ Closed(Snapshot)
  BY Current DEF Closed, TypeOK
<1>3. ASSUME NEW m \in Models, ApplyBegin(t, m)
      PROVE  Data
  <2> DEFINE g == [items |-> Plan[m], attached |-> {}]
             p == IF inv # <<>> \/ named THEN Snapshot ELSE NoSnapshot
  <2>1. g \in Snapshots /\ g.attached \subseteq Range(g.items)
    BY Plans DEF Snapshots
  <2>2. p \in Snapshots \cup {NoSnapshot} /\ Closed(p)
    BY <1>2, Current
  <2>3. Begin(t, "apply", g, p)
    BY <1>3 DEF ApplyBegin
  <2> HIDE DEF g, p
  <2> QED BY <1>1, <2>1, <2>2, <2>3
<1>4. CASE ResetBegin(t)
  <2>1. goal[t] \in Snapshots /\ goal[t].attached \subseteq Range(goal[t].items)
    BY DEF TypeOK, GoalInv
  <2> QED BY <1>1, <1>2, <1>4, <2>1 DEF ResetBegin
<1>5. CASE ResyncBegin(t)
  <2>1. Snapshot \in Snapshots /\ Snapshot.attached \subseteq Range(Snapshot.items)
    BY Current DEF TypeOK
  <2> QED BY <1>1, <1>2, <1>5, <2>1 DEF ResyncBegin
<1>6. ASSUME NEW att \in SUBSET Range(inv), SetAttached(t, att)
      PROVE  Data
  <2>1. UNCHANGED <<inv, kernel, goal, prev>> /\ attached' = att /\ Persist(inv, att, FALSE)
    BY <1>6 DEF SetAttached
  <2>2. /\ disk' \in Snapshots \cup {NoSnapshot} /\ Closed(disk')
        /\ saveError' \in BOOLEAN /\ unreported' \in BOOLEAN /\ faults' \in 0..MaxFaults
    BY <2>1, Saves DEF GoalInv, TypeOK
  <2>3. \A u \in Threads : Closed(prev'[u])
    BY <2>1 DEF GoalInv, Closed
  <2> QED BY <2>1, <2>2, <2>3 DEF TypeOK, GoalInv
<1>7. CASE Attach(t)
  <2>1. PICK d \in Range(inv) : SetAttached(t, attached \cup {d})
    BY <1>7 DEF Attach
  <2>2. attached \cup {d} \in SUBSET Range(inv)
    BY DEF TypeOK
  <2> QED BY <1>6, <2>1, <2>2
<1>8. CASE Detach(t)
  <2>1. PICK d \in attached : SetAttached(t, attached \ {d})
    BY <1>8 DEF Detach
  <2>2. attached \ {d} \in SUBSET Range(inv)
    BY DEF TypeOK
  <2> QED BY <1>6, <2>1, <2>2
<1> QED BY <1>3, <1>4, <1>5, <1>7, <1>8 DEF Request

\* ... and the daemon as a whole.
LEMMA DaemonData ==
  ASSUME Inv, ReaderDies \/ ReplyFails \/ Crash \/ Start \/ Rejoin \/ Serve \/ UNCHANGED vars
  PROVE  Data
<1> USE DEF Inv, Data, fileVars
<1>1. CASE ReaderDies \/ ReplyFails \/ Serve \/ UNCHANGED vars
  <2>1. UNCHANGED <<inv, attached, kernel, disk, saveError, unreported, goal, prev>>
    BY <1>1 DEF ReaderDies, ReplyFails, Serve, vars, daemonVars, threadVars
  <2>2. faults' \in 0..MaxFaults
    BY <1>1, Faults DEF ReaderDies, ReplyFails, Serve, vars
  <2>3. Closed(disk') /\ \A u \in Threads : Closed(prev'[u])
    BY <2>1 DEF GoalInv, Closed
  <2> QED BY <2>1, <2>2, <2>3 DEF TypeOK, GoalInv
<1>2. CASE Crash
  <2> DEFINE none == [items |-> <<>>, attached |-> {}]
  <2>1. none \in Snapshots /\ none.attached \subseteq Range(none.items)
    BY DEF Snapshots
  <2> HIDE DEF none
  <2>2. /\ UNCHANGED <<kernel, disk, faults>> /\ inv' = <<>> /\ attached' = {} /\ saveError' = FALSE
        /\ unreported' = FALSE
        /\ goal' = [t \in Threads |-> none] /\ prev' = [t \in Threads |-> NoSnapshot]
    BY <1>2 DEF Crash, none
  <2>3. Closed(disk') /\ Closed(NoSnapshot)
    BY <2>2 DEF GoalInv, Closed
  <2>4. \A t \in Threads : goal'[t] = none /\ prev'[t] = NoSnapshot
    BY <2>2
  <2>5. /\ goal' \in [Threads -> Snapshots] /\ prev' \in [Threads -> Snapshots \cup {NoSnapshot}]
    BY <2>1, <2>2
  <2>6. inv' \in Seq(Items)
    BY <2>2
  <2>10. saveError' \in BOOLEAN /\ unreported' \in BOOLEAN
    BY <2>2
  <2>7. kernel' \subseteq Items /\ disk' \in Snapshots \cup {NoSnapshot} /\ faults' \in 0..MaxFaults
    BY <2>2 DEF TypeOK
  <2>8. attached' \subseteq Range(inv')
    BY <2>2
  <2>9. \A t \in Threads : goal'[t].attached \subseteq Range(goal'[t].items) /\ Closed(prev'[t])
    BY <2>1, <2>3, <2>4
  <2> QED BY <2>3, <2>5, <2>6, <2>7, <2>8, <2>9, <2>10
<1>3. CASE Start
  <2>1. UNCHANGED <<inv, attached, kernel, disk, saveError, unreported, faults, prev>>
    BY <1>3 DEF Start, threadVars
  <2>2. Closed(disk') /\ \A u \in Threads : Closed(prev'[u])
    BY <2>1 DEF GoalInv, Closed
  <2>3. goal' = goal \/ (disk # NoSnapshot /\ goal' = [goal EXCEPT ![Main] = disk])
    BY <1>3 DEF Start, threadVars
  <2>4. disk # NoSnapshot => disk \in Snapshots /\ disk.attached \subseteq Range(disk.items)
    BY DEF TypeOK, GoalInv, Closed
  <2>5. /\ goal' \in [Threads -> Snapshots]
        /\ \A u \in Threads : goal'[u].attached \subseteq Range(goal'[u].items)
    BY <2>3, <2>4 DEF TypeOK, GoalInv
  <2> QED BY <2>1, <2>2, <2>5 DEF TypeOK
<1>4. CASE Rejoin
  <2>1. UNCHANGED <<inv, kernel, goal, prev>>
    BY <1>4 DEF Rejoin, Reattach, ReattachRefused, Restored, SetAttached, daemonVars
  <2>2. \A u \in Threads : Closed(prev'[u])
    BY <2>1 DEF GoalInv, Closed
  <2>3. CASE Reattach
    <3>1. PICK ds \in SUBSET Missing : SetAttached(Main, attached \cup ds)
      BY <2>3 DEF Reattach
    <3>2. attached' = attached \cup ds /\ Persist(inv, attached \cup ds, FALSE)
      BY <3>1 DEF SetAttached
    <3>3. attached \cup ds \in SUBSET Range(inv)
      BY <2>3 DEF Reattach, GoalInv, TypeOK, Missing
    <3>4. /\ disk' \in Snapshots \cup {NoSnapshot} /\ Closed(disk')
          /\ saveError' \in BOOLEAN /\ unreported' \in BOOLEAN /\ faults' \in 0..MaxFaults
      BY <3>2, <3>3, Saves DEF GoalInv, TypeOK
    <3> QED BY <2>1, <2>2, <3>2, <3>3, <3>4 DEF TypeOK, GoalInv
  <2>4. CASE ReattachRefused \/ Restored
    <3>1. UNCHANGED <<attached, disk, faults>>
      BY <2>4 DEF ReattachRefused, Restored, daemonVars
    <3>2. saveError' \in BOOLEAN /\ unreported' \in BOOLEAN
      BY <2>4 DEF ReattachRefused, Restored, TypeOK
    <3>3. Closed(disk')
      BY <3>1 DEF GoalInv, Closed
    <3> QED BY <2>1, <2>2, <3>1, <3>2, <3>3 DEF TypeOK, GoalInv
  <2> QED BY <1>4, <2>3, <2>4 DEF Rejoin
<1> QED BY <1>1, <1>2, <1>3, <1>4

\* Type correctness of a step: the inventory's data, and where the threads are.
LEMMA NextType ==
  ASSUME Inv, [Next]_vars
  PROVE  TypeOK' /\ Data
<1>1. Data
  BY StepData, RequestData, DaemonData DEF Next, Rejoin
<1>2. Static
  BY NextStatic DEF Inv
<1>3. pc' \in [Threads -> Labels] /\ op' \in [Threads -> Ops]
  <2>1. ASSUME NEW t \in Threads, Step(t) \/ Request(t)
        PROVE  pc' \in [Threads -> Labels] /\ op' \in [Threads -> Ops]
    <3>1. /\ pc' = [pc EXCEPT ![t] = pc'[t]] /\ op' = [op EXCEPT ![t] = op'[t]]
          /\ Edge(t)
      BY <2>1, Edges DEF Inv
    <3>2. pc[t] # "idle" => op[t] # "none" /\ AfterFailure(t) \in {"idle", "discard", "broken"}
      BY Failures DEF Inv, ThreadInv
    <3>3. pc'[t] \in Labels
      BY <3>1, <3>2 DEF Edge, Labels
    <3>4. op'[t] \in Ops
      BY <3>1 DEF Edge, Inv, TypeOK, Ops
    <3> QED BY <3>1, <3>3, <3>4 DEF Inv, TypeOK, Ops
  <2>2. CASE ReaderDies \/ ReplyFails \/ Serve \/ UNCHANGED vars
    BY <2>2 DEF ReaderDies, ReplyFails, Serve, vars, threadVars, Inv, TypeOK, Ops
  <2>3. CASE Crash \/ Start
    BY <2>3 DEF Crash, Start, Goto, threadVars, Inv, TypeOK, Ops, Labels
  <2>4. CASE Rejoin
    BY <2>4 DEF Rejoin, Reattach, ReattachRefused, Restored, SetAttached, Goto, Inv, TypeOK, Ops,
       Labels
  <2> QED BY <2>1, <2>2, <2>3, <2>4 DEF Next, Rejoin
<1> QED BY <1>1, <1>2, <1>3 DEF TypeOK, Data, Static, Ops

-----------------------------------------------------------------------------
(* Threads, goals and the snapshot.                                        *)

\* ThreadInv is inductive.
LEMMA NextThread ==
  ASSUME Inv, [Next]_vars
  PROVE  ThreadInv'
<1> USE DEF Inv
<1>1. Main \in Threads /\ Clients \subseteq Threads /\ Main \notin Clients /\ Nobody \notin Threads
  BY InventoryAssumption DEF Threads
<1>2. ASSUME NEW t \in Threads, Step(t) \/ Request(t)
      PROVE  ThreadInv'
  <2>1. up' = up /\ Edge(t) /\ \A u \in Threads \ {t} : pc'[u] = pc[u] /\ op'[u] = op[u]
    BY <1>2, Edges
  <2>2. /\ pc[t] # "idle" => AfterFailure(t) \in {"idle", "discard", "broken"}
    BY Failures DEF ThreadInv
  <2>3. /\ pc'[t] # "idle" => op'[t] # "none"
        /\ pc'[t] \in {"install", "adding"} => op'[t] # "reset"
        /\ op'[t] = "restore" => op[t] = "restore"
        /\ pc'[t] = "reattach" => op'[t] = "restore"
    BY <2>1, <2>2 DEF Edge, ThreadInv
  <2>4. pc[t] = "idle" => up = "up" \/ pc'[t] = "idle"
    BY <2>1 DEF Edge
  <2>5. t = Main /\ pc[t] = "idle" => pc'[t] = "idle"
    BY <2>1 DEF Edge
  <2>6. \A u \in Threads : lock' = u <=> pc'[u] = "adding"
    <3>1. CASE InstallBegin(t)
      BY <1>1, <2>1, <3>1 DEF InstallBegin, ThreadInv, LockFree, Goto, TypeOK
    <3>2. CASE AddItem(t)
      BY <3>2 DEF AddItem, ThreadInv, threadVars
    <3>3. CASE AddItemFails(t) \/ InstallDone(t)
      <4>1. lock = t /\ lock' = Nobody /\ pc'[t] # "adding"
        BY <2>2, <3>3 DEF AddItemFails, InstallDone, ThreadInv, Goto, TypeOK
      <4> QED BY <1>1, <2>1, <4>1 DEF ThreadInv
    <3>4. CASE ~(InstallBegin(t) \/ AddItem(t) \/ AddItemFails(t) \/ InstallDone(t))
      <4>1. lock' = lock /\ pc[t] # "adding"
        BY <1>2, <3>4 DEF Step, Request, SendReset, SendResetFails, ClearAfterReset, Discard,
           Discarded, Desync, ApplyBegin, ResetBegin, ResyncBegin, Begin, Attach, Detach, SetAttached
      <4>2. pc'[t] # "adding"
        <5>1. pc[t] # "install"
          BY <1>2, <3>4 DEF Step, Request, SendReset, SendResetFails, ClearAfterReset, Discard,
             Discarded, Desync, ApplyBegin, ResetBegin, ResyncBegin, Begin, Attach, Detach
        <5> QED BY <2>1, <2>2, <4>1, <5>1 DEF Edge
      <4> QED BY <2>1, <4>1, <4>2 DEF ThreadInv
    <3> QED BY <3>1, <3>2, <3>3, <3>4
  <2>7. up # "down"
    <3>1. CASE pc[t] = "idle"
      BY <1>2, <3>1 DEF Step, Request, SendReset, SendResetFails, ClearAfterReset, Discard,
         Discarded, Desync, ApplyBegin, ResetBegin, ResyncBegin, Begin, Attach, Detach, InstallBegin,
         AddItem, AddItemFails, InstallDone
    <3>2. CASE pc[t] # "idle"
      BY <3>2, <1>1 DEF ThreadInv, Threads
    <3> QED BY <3>1, <3>2
  <2> QED BY <1>1, <2>1, <2>3, <2>4, <2>5, <2>6, <2>7 DEF ThreadInv
<1>3. CASE ReaderDies \/ ReplyFails \/ Serve \/ UNCHANGED vars
  BY <1>3 DEF ReaderDies, ReplyFails, Serve, vars, threadVars, daemonVars, ThreadInv
<1>4. CASE Crash
  BY <1>1, <1>4 DEF Crash, ThreadInv
<1>5. CASE Start
  BY <1>1, <1>5 DEF Start, ThreadInv, threadVars, Goto, TypeOK
<1>6. CASE Rejoin
  <2>1. UNCHANGED <<up, state, inv, lock, op>> /\ (pc' = pc \/ pc' = [pc EXCEPT ![Main] = "idle"])
    BY <1>6 DEF Rejoin, Reattach, ReattachRefused, Restored, SetAttached, Goto, daemonVars
  <2>2. pc[Main] = "reattach"
    BY <1>6 DEF Rejoin, Reattach, ReattachRefused, Restored
  <2> QED BY <1>1, <2>1, <2>2 DEF ThreadInv, TypeOK
<1> QED BY <1>2, <1>3, <1>4, <1>5, <1>6 DEF Next, Rejoin

\* A thread that runs keeps the daemon from being down, and Main and the others do not
\* run at once.
LEMMA Running ==
  ASSUME Inv, NEW t \in Threads, Step(t) \/ Request(t)
  PROVE  /\ up # "down"
         /\ t # Main => up = "up" /\ pc[Main] = "idle"
<1>1. CASE pc[t] = "idle"
  <2>1. Request(t)
    BY <1>1 DEF Step, SendReset, SendResetFails, ClearAfterReset, Discard, Discarded, Desync,
       InstallBegin, AddItem, AddItemFails, InstallDone
  <2>2. up = "up"
    BY <2>1 DEF Request, ApplyBegin, ResetBegin, ResyncBegin, Begin, Attach, Detach
  <2> QED BY <2>2 DEF Inv, ThreadInv
<1>2. CASE pc[t] # "idle"
  BY <1>2 DEF Inv, ThreadInv, Threads
<1> QED BY <1>1, <1>2

\* Only the thread with the lock changes the inventory while the lock is held.
LEMMA Guarded ==
  ASSUME Inv, NEW t \in Threads, Step(t) \/ Request(t), NEW u \in Threads \ {t}, pc[u] = "adding"
  PROVE  inv' = inv
<1>1. lock = u /\ u # Nobody
  BY InventoryAssumption DEF Inv, ThreadInv, Threads
<1>2. pc[t] # "adding"
  BY <1>1 DEF Inv, ThreadInv
<1>3. ~LockFree
  BY <1>1 DEF LockFree
<1> QED BY <1>2, <1>3 DEF Step, Request, SendReset, SendResetFails, ClearAfterReset, Discard,
        Discarded, Desync, ApplyBegin, ResetBegin, ResyncBegin, Begin, Attach, Detach, SetAttached,
        InstallBegin, AddItem, AddItemFails, InstallDone, daemonVars

\* GoalInv is inductive.
LEMMA NextGoal ==
  ASSUME Inv, [Next]_vars
  PROVE  GoalInv'
<1> DEFINE Begun(u) == pc[u] = "adding" =>
                         /\ Len(inv) <= Len(goal[u].items)
                         /\ \A i \in 1..Len(inv) : inv[i] = goal[u].items[i]
           Back == pc[Main] = "reattach" => goal[Main].attached \subseteq Range(inv)
<1>1. Main \in Threads /\ Clients \subseteq Threads /\ Main \notin Clients
  BY InventoryAssumption DEF Threads
<1>2. Data
  BY NextType
<1>3. SUFFICES (\A u \in Threads : Begun(u)') /\ Back'
  BY <1>2 DEF Data, GoalInv, Closed
<1>4. ASSUME NEW t \in Threads, Step(t) \/ Request(t)
      PROVE  (\A u \in Threads : Begun(u)') /\ Back'
  <2>1. /\ Edge(t) /\ up' = up
        /\ \A u \in Threads \ {t} : pc'[u] = pc[u] /\ op'[u] = op[u] /\ goal'[u] = goal[u]
    BY <1>4, Edges DEF Inv
  <2>2. ASSUME NEW u \in Threads \ {t} PROVE Begun(u)'
    <3>1. pc'[u] = "adding" => inv' = inv
      BY <1>4, <2>1, Guarded
    <3> QED BY <2>1, <3>1 DEF Inv, GoalInv
  <2>3. Begun(t)' /\ (pc'[t] = "reattach" => goal'[t].attached \subseteq Range(inv'))
    <3>1. CASE InstallBegin(t)
      <4>1. inv' = <<>> /\ goal' = goal /\ pc'[t] = "adding"
        BY <3>1 DEF InstallBegin, Goto, Inv, TypeOK
      <4>2. Len(inv') = 0 /\ Len(goal[t].items) \in Nat
        BY <4>1 DEF Inv, TypeOK, Snapshots
      <4> QED BY <4>1, <4>2
    <3>2. CASE AddItem(t)
      <4>1. /\ inv' = Append(inv, goal[t].items[Len(inv) + 1]) /\ goal' = goal /\ pc' = pc
            /\ pc[t] = "adding" /\ Len(inv) < Len(goal[t].items)
        BY <3>2 DEF AddItem, NextItem, threadVars
      <4>2. inv \in Seq(Items) /\ Len(inv) \in Nat /\ Len(goal[t].items) \in Nat
        BY DEF Inv, TypeOK, Snapshots
      <4>3. \A i \in 1..Len(inv) : inv[i] = goal[t].items[i]
        BY <4>1 DEF Inv, GoalInv
      <4>4. Len(inv') = Len(inv) + 1 /\ inv'[Len(inv) + 1] = goal[t].items[Len(inv) + 1]
            /\ \A i \in 1..Len(inv) : inv'[i] = inv[i]
        BY <4>1, <4>2
      <4>5. \A i \in 1..Len(inv') : inv'[i] = goal[t].items[i]
        BY <4>2, <4>3, <4>4
      <4> QED BY <4>1, <4>2, <4>4, <4>5
    <3>3. CASE InstallDone(t)
      <4>1. goal[t].items \in Seq(Items) /\ inv \in Seq(Items) /\ Len(inv) = Len(goal[t].items)
            /\ inv' = inv /\ goal' = goal /\ pc[t] = "adding"
        BY <3>3 DEF Inv, TypeOK, Snapshots, InstallDone
      <4>2. \A i \in 1..Len(inv) : inv[i] = goal[t].items[i]
        BY <4>1 DEF Inv, GoalInv
      <4>3. Range(inv) = Range(goal[t].items)
        BY <4>1, <4>2, SameItems
      <4>4. goal'[t].attached \subseteq Range(inv')
        BY <4>1, <4>3 DEF Inv, GoalInv
      <4>5. pc'[t] # "adding"
        BY <3>3 DEF InstallDone, Goto, Inv, TypeOK
      <4> QED BY <4>4, <4>5
    <3>4. CASE ~(InstallBegin(t) \/ AddItem(t) \/ InstallDone(t))
      <4>1. pc[t] # "install"
        BY <1>4, <3>4 DEF Step, Request, SendReset, SendResetFails, ClearAfterReset, Discard,
           Discarded, Desync, ApplyBegin, ResetBegin, ResyncBegin, Begin, Attach, Detach, AddItemFails
      <4>2. pc[t] # "idle" => AfterFailure(t) \in {"idle", "discard", "broken"}
        BY Failures DEF Inv, ThreadInv
      <4>3. CASE pc[t] = "adding"
        <5>1. AddItemFails(t)
          BY <1>4, <3>4, <4>3 DEF Step, Request, SendReset, SendResetFails, ClearAfterReset, Discard,
             Discarded, Desync, ApplyBegin, ResetBegin, ResyncBegin, Begin, Attach, Detach, InstallBegin
        <5>2. pc'[t] = AfterFailure(t)
          BY <5>1 DEF AddItemFails, Goto, Inv, TypeOK
        <5> QED BY <4>2, <4>3, <5>2
      <4>4. CASE pc[t] # "adding"
        BY <2>1, <4>1, <4>2, <4>4 DEF Edge
      <4> QED BY <4>3, <4>4
    <3> QED BY <3>1, <3>2, <3>3, <3>4
  <2>4. Back'
    <3>1. CASE t = Main
      BY <2>3, <3>1
    <3>2. CASE t # Main
      <4>1. pc[Main] = "idle"
        BY <1>4, <3>2, Running
      <4> QED BY <1>1, <2>1, <3>2, <4>1
    <3> QED BY <3>1, <3>2
  <2> QED BY <2>2, <2>3, <2>4
<1>5. CASE ReaderDies \/ ReplyFails \/ Serve \/ UNCHANGED vars
  <2>1. UNCHANGED <<inv, pc, goal>>
    BY <1>5 DEF ReaderDies, ReplyFails, Serve, vars, threadVars, daemonVars
  <2> QED BY <2>1 DEF Inv, GoalInv
<1>6. CASE Crash
  BY <1>1, <1>6 DEF Crash
<1>7. CASE Start
  <2>1. \A u \in Threads : pc[u] = "idle"
    BY <1>7 DEF Start, Inv, ThreadInv, Threads
  <2>2. \A u \in Threads : pc'[u] \in {"idle", "reset"}
    BY <1>7, <2>1 DEF Start, threadVars, Goto, Inv, TypeOK
  <2> QED BY <1>1, <2>2
<1>8. CASE Rejoin
  <2>1. UNCHANGED <<inv, goal>> /\ (pc' = pc \/ pc' = [pc EXCEPT ![Main] = "idle"])
    BY <1>8 DEF Rejoin, Reattach, ReattachRefused, Restored, SetAttached, Goto, daemonVars
  <2>2. \A u \in Threads : pc'[u] \in {pc[u], "idle"}
    BY <1>1, <2>1 DEF Inv, TypeOK
  <2> QED BY <1>1, <2>1, <2>2 DEF Inv, GoalInv
<1> QED BY <1>4, <1>5, <1>6, <1>7, <1>8 DEF Next, Rejoin

\* SavedInv is inductive: who changes the inventory is dirty until it has saved it.
LEMMA NextSaved ==
  ASSUME Inv, [Next]_vars
  PROVE  SavedInv'
<1> USE DEF fileVars
<1>1. Main \in Threads /\ Clients \subseteq Threads
  BY DEF Threads
<1>2. ASSUME ~saveError' => Saved' PROVE SavedInv'
  BY <1>2 DEF SavedInv
<1>3. ASSUME NEW u \in Threads, Dirty(u)' PROVE SavedInv'
  BY <1>3 DEF SavedInv
<1>4. ASSUME UNCHANGED <<inv, attached, disk, saveError, unreported>>, up # "down",
             \A u \in Threads : Dirty(u) => Dirty(u)'
      PROVE  SavedInv'
  BY <1>4 DEF Inv, SavedInv, Saved, HalfSaved, Snapshot
<1>5. ASSUME NEW items \in Seq(Items), NEW att \in SUBSET Range(items), NEW failed \in BOOLEAN,
             Persist(items, att, failed), inv' = items, attached' = att
      PROVE  SavedInv'
  <2>1. ~saveError' => disk' = IF items = <<>> THEN NoSnapshot ELSE [items |-> items, attached |-> att]
    BY <1>5, Saves DEF Inv, GoalInv
  <2> QED BY <1>2, <1>5, <2>1 DEF Saved, Snapshot
<1>6. inv \in Seq(Items) /\ attached \in SUBSET Range(inv) /\ <<>> \in Seq(Items)
      /\ {} \in SUBSET Range(<<>>)
  BY DEF Inv, TypeOK
<1>7. ASSUME NEW t \in Threads, Step(t)
      PROVE  SavedInv'
  <2>1. /\ \A u \in Threads \ {t} : pc'[u] = pc[u] /\ op'[u] = op[u]
        /\ up # "down"
    BY <1>7, Edges, Running DEF Inv
  <2>2. \A u \in Threads \ {t} : Dirty(u) => Dirty(u)'
    BY <2>1 DEF Dirty
  <2>10. Restoring(t) \in BOOLEAN
    BY DEF Restoring
  <2>3. CASE ClearAfterReset(t) \/ Discarded(t)
    BY <1>5, <1>6, <2>3, <2>10 DEF ClearAfterReset, Discarded
  <2>4. CASE Desync(t)
    BY <1>5, <1>6, <2>4, <2>10 DEF Desync
  <2>5. CASE InstallDone(t)
    <3>1. attached' \in SUBSET Range(inv')
      BY <1>7, StepData DEF Data
    <3> QED BY <1>5, <1>6, <2>5, <3>1 DEF InstallDone
  <2>6. CASE InstallBegin(t) \/ AddItem(t) \/ Discard(t)
    <3>1. pc'[t] \in {"adding", "discarded", "stuck"}
      BY <2>6 DEF InstallBegin, AddItem, Discard, Goto, threadVars, Inv, TypeOK
    <3> QED BY <1>3, <3>1 DEF Dirty
  <2>7. CASE AddItemFails(t)
    <3>1. pc[t] = "adding" /\ op[t] # "none" /\ op[t] # "reset"
      BY <2>7 DEF AddItemFails, Inv, ThreadInv
    <3>2. AfterFailure(t) \in {"discard", "broken"}
      BY <3>1, Failures DEF Inv
    <3>3. pc'[t] \in {"discard", "broken"}
      BY <2>7, <3>2 DEF AddItemFails, Goto, Inv, TypeOK
    <3> QED BY <1>3, <3>3 DEF Dirty
  <2>8. CASE SendReset(t)
    <3>1. UNCHANGED <<inv, attached, disk, saveError, unreported, op>> /\ pc[t] = "reset"
          /\ pc'[t] = IF op[t] = "reset" THEN "clear" ELSE "install"
      BY <2>8 DEF SendReset, Goto, daemonVars, Inv, TypeOK
    <3>2. Dirty(t) => Dirty(t)'
      BY <3>1 DEF Dirty
    <3> QED BY <1>4, <2>1, <2>2, <3>1, <3>2
  <2>9. CASE SendResetFails(t)
    <3>1. UNCHANGED <<inv, attached, disk, saveError, unreported, op>> /\ pc[t] = "reset"
          /\ pc'[t] = AfterFailure(t)
      BY <2>9 DEF SendResetFails, Goto, daemonVars, Inv, TypeOK
    <3>2. op[t] = "restore" => AfterFailure(t) = "discard"
      BY DEF AfterFailure
    <3>3. Dirty(t) => Dirty(t)'
      BY <3>1, <3>2 DEF Dirty
    <3> QED BY <1>4, <2>1, <2>2, <3>1, <3>3
  <2> QED BY <1>7, <2>3, <2>4, <2>5, <2>6, <2>7, <2>8, <2>9 DEF Step
<1>8. ASSUME NEW t \in Threads, Request(t)
      PROVE  SavedInv'
  <2>1. /\ \A u \in Threads \ {t} : pc'[u] = pc[u] /\ op'[u] = op[u]
        /\ up # "down"
    BY <1>8, Edges, Running DEF Inv
  <2>2. \A u \in Threads \ {t} : Dirty(u) => Dirty(u)'
    BY <2>1 DEF Dirty
  <2>3. ASSUME NEW att, SetAttached(t, att) PROVE SavedInv'
    <3>1. attached' \in SUBSET Range(inv')
      BY <1>8, RequestData DEF Data
    <3> QED BY <1>5, <1>6, <2>3, <3>1 DEF SetAttached
  <2>4. ASSUME NEW o, NEW g, NEW p, Begin(t, o, g, p) PROVE SavedInv'
    <3>1. UNCHANGED <<inv, attached, disk, saveError, unreported>> /\ pc[t] = "idle"
      BY <2>4 DEF Begin
    <3>2. ~Dirty(t)
      BY <3>1 DEF Dirty
    <3> QED BY <1>4, <2>1, <2>2, <3>1, <3>2
  <2> QED BY <1>8, <2>3, <2>4 DEF Request, ApplyBegin, ResetBegin, ResyncBegin, Attach, Detach
<1>9. CASE ReaderDies \/ ReplyFails \/ Serve \/ UNCHANGED vars
  <2>1. UNCHANGED <<inv, attached, disk, saveError, unreported, pc, op>> /\ (up' # "down" => up # "down")
    BY <1>9 DEF ReaderDies, ReplyFails, Serve, vars, threadVars, daemonVars
  <2>2. \A u \in Threads : Dirty(u) => Dirty(u)'
    BY <2>1 DEF Dirty
  <2> QED BY <1>4, <2>1, <2>2 DEF SavedInv
<1>10. CASE Crash
  BY <1>10 DEF Crash, SavedInv
<1>11. CASE Start
  <2>1. inv = <<>> /\ UNCHANGED <<inv, disk>>
    BY <1>11 DEF Start, Inv, ThreadInv
  <2>2. CASE disk = NoSnapshot
    BY <1>2, <2>1, <2>2 DEF Saved
  <2>3. CASE disk # NoSnapshot
    <3>1. pc'[Main] = "reset" /\ op'[Main] = "restore"
      BY <1>1, <1>11, <2>3 DEF Start, Goto, Inv, TypeOK
    <3> QED BY <1>1, <1>3, <3>1 DEF Dirty
  <2> QED BY <2>2, <2>3
<1>12. CASE Rejoin
  <2>1. CASE Reattach
    <3>1. PICK ds \in SUBSET Missing : SetAttached(Main, attached \cup ds)
      BY <2>1 DEF Reattach
    <3>2. attached' \in SUBSET Range(inv')
      BY <1>12, DaemonData DEF Data
    <3> QED BY <1>5, <1>6, <3>1, <3>2 DEF SetAttached
  <2>2. CASE ReattachRefused
    BY <2>2 DEF ReattachRefused, SavedInv
  <2>3. CASE Restored
    <3>1. /\ UNCHANGED <<inv, attached, disk, op, up>> /\ saveError' = FALSE
          /\ unreported' = (unreported \/ saveError)
          /\ pc[Main] = "reattach" /\ pc' = [pc EXCEPT ![Main] = "idle"]
      BY <2>3 DEF Restored, Goto, daemonVars
    <3>2. \A u \in Threads : Dirty(u) => Dirty(u)'
      BY <1>1, <3>1 DEF Dirty, Inv, TypeOK
    <3>3. up # "down"
      BY <1>1, <3>1 DEF Inv, ThreadInv
    <3>4. CASE saveError
      <4>1. HalfSaved
        BY <2>3, <3>1 DEF Restored, Missing, HalfSaved, Inv, RestoreInv
      <4> QED BY <3>1, <3>4, <4>1 DEF HalfSaved, SavedInv
    <3>5. CASE ~saveError
      <4>1. Saved \/ (unreported /\ HalfSaved) \/ \E u \in Threads : Dirty(u)
        BY <3>3, <3>5 DEF Inv, SavedInv
      <4>2. (Saved => Saved') /\ (HalfSaved => HalfSaved')
        BY <3>1 DEF Saved, HalfSaved, Snapshot
      <4>3. unreported => unreported'
        BY <3>1
      <4> QED BY <3>2, <4>1, <4>2, <4>3 DEF SavedInv
    <3> QED BY <3>4, <3>5
  <2> QED BY <1>12, <2>1, <2>2, <2>3 DEF Rejoin
<1> QED BY <1>7, <1>8, <1>9, <1>10, <1>11, <1>12 DEF Next, Rejoin

\* A save leaves the file or writes it.
LEMMA SaveOrNot ==
  ASSUME NEW items, NEW att, NEW failed, Persist(items, att, failed)
  PROVE  \/ disk' = disk
         \/ items = <<>> /\ disk' = NoSnapshot
         \/ items # <<>> /\ disk' = [items |-> items, attached |-> att]
BY DEF Persist

\* RestoreInv is inductive: until it serves, only the restore changes file and inventory.
LEMMA NextRestore ==
  ASSUME Inv, [Next]_vars
  PROVE  RestoreInv'
<1> USE DEF Inv, fileVars
<1> DEFINE NotEmpty == disk # NoSnapshot => disk.items # <<>>
           Reading == op[Main] = "restore" /\ pc[Main] \in {"reset", "install", "adding"} =>
                        disk = goal[Main]
           Joining == pc[Main] = "reattach" =>
                        /\ disk # NoSnapshot /\ disk.items = inv
                        /\ disk.attached \subseteq goal[Main].attached
                        /\ attached \subseteq goal[Main].attached
<1>1. Main \in Threads /\ Main \notin Clients
  BY InventoryAssumption DEF Threads
<1>2. NotEmpty /\ Reading /\ Joining
  BY DEF RestoreInv
<1>3. ASSUME NEW items, NEW att, NEW failed, Persist(items, att, failed) PROVE NotEmpty'
  BY <1>2, <1>3, SaveOrNot
<1>4. SUFFICES NotEmpty' /\ Reading' /\ Joining'
  BY DEF RestoreInv
<1>5. ASSUME NEW t \in Threads, Step(t) \/ Request(t)
      PROVE  NotEmpty' /\ Reading' /\ Joining'
  <2>1. NotEmpty'
    <3>1. CASE disk' = disk
      BY <1>2, <3>1
    <3>2. CASE disk' # disk
      <4>1. \E items, att, failed : Persist(items, att, failed)
        BY <1>5, <3>2 DEF Step, Request, SendReset, SendResetFails, ClearAfterReset, Discard,
           Discarded, Desync, ApplyBegin, ResetBegin, ResyncBegin, Begin, Attach, Detach,
           SetAttached, InstallBegin, AddItem, AddItemFails, InstallDone
      <4> QED BY <1>3, <4>1
    <3> QED BY <3>1, <3>2
  <2>2. CASE t # Main
    <3>1. pc[Main] = "idle" /\ pc'[Main] = pc[Main]
      BY <1>1, <1>5, <2>2, Running, Edges
    <3> QED BY <2>1, <3>1
  <2>3. CASE t = Main
    <3>1. pc[Main] # "reattach"
      BY <1>5, <2>3 DEF Step, Request, SendReset, SendResetFails, ClearAfterReset, Discard,
         Discarded, Desync, ApplyBegin, ResetBegin, ResyncBegin, Begin, Attach, Detach,
         InstallBegin, AddItem, AddItemFails, InstallDone
    <3>2. Edge(Main)
      BY <1>5, <2>3, Edges
    <3>3. pc[Main] # "idle" => AfterFailure(Main) \in {"idle", "discard", "broken"}
      BY <1>1, Failures DEF ThreadInv
    <3>4. CASE pc'[Main] \notin {"install", "adding", "reattach"}
      <4>1. pc'[Main] # "reset"
        BY <1>1, <3>1, <3>2, <3>3 DEF Edge
      <4> QED BY <2>1, <3>4, <4>1
    <3>5. CASE pc'[Main] \in {"install", "adding"}
      <4>1. CASE op'[Main] = "restore"
        <5>1. op[Main] = "restore" /\ pc[Main] \in {"reset", "install", "adding"}
          BY <3>1, <3>2, <3>3, <3>5, <4>1 DEF Edge
        <5>2. UNCHANGED <<disk, goal>>
          BY <1>5, <2>3, <3>5, <5>1, <3>3 DEF Step, Request, SendReset, SendResetFails,
             ClearAfterReset, Discard, Discarded, Desync, ApplyBegin, ResetBegin, ResyncBegin, Begin,
             Attach, Detach, InstallBegin, AddItem, AddItemFails, InstallDone, Goto, TypeOK,
             threadVars
        <5> QED BY <1>2, <2>1, <3>5, <5>1, <5>2
      <4>2. CASE op'[Main] # "restore"
        BY <2>1, <3>5, <4>2
      <4> QED BY <4>1, <4>2
    <3>6. CASE pc'[Main] = "reattach"
      <4>1. pc[Main] = "adding" /\ op[Main] = "restore" /\ op'[Main] = "restore"
        BY <3>1, <3>2, <3>3, <3>6 DEF Edge
      <4>2. InstallDone(Main)
        BY <1>5, <2>3, <3>3, <3>6, <4>1 DEF Step, Request, SendReset, SendResetFails,
           ClearAfterReset, Discard, Discarded, Desync, ApplyBegin, ResetBegin, ResyncBegin, Begin,
           Attach, Detach, InstallBegin, AddItem, AddItemFails, Goto, TypeOK, threadVars
      <4>3. /\ attached' = {} /\ Persist(inv, attached', FALSE) /\ UNCHANGED <<inv, goal>>
            /\ Len(inv) = Len(goal[Main].items)
        BY <4>1, <4>2 DEF InstallDone
      <4>4. disk = goal[Main] /\ goal[Main] \in Snapshots /\ inv \in Seq(Items)
        BY <1>1, <1>2, <4>1 DEF TypeOK
      <4>5. inv = goal[Main].items
        <5>1. goal[Main].items \in Seq(Items)
          BY <4>4 DEF Snapshots
        <5>2. \A i \in 1..Len(inv) : inv[i] = goal[Main].items[i]
          BY <1>1, <4>1 DEF GoalInv
        <5> QED BY <4>3, <4>4, <5>1, <5>2
      <4>6. disk # NoSnapshot => inv # <<>>
        BY <1>2, <4>4, <4>5
      <4>7. disk # NoSnapshot
        BY <4>4, InventoryAssumption
      <4>8. disk' = disk \/ disk' = [items |-> inv, attached |-> {}]
        BY <4>3, <4>6, <4>7, SaveOrNot
      <4>9. disk' # NoSnapshot
        <5>1. [items |-> inv, attached |-> {}] \in Snapshots
          BY <4>4 DEF Snapshots
        <5> QED BY <4>7, <4>8, <5>1, InventoryAssumption
      <4>10. disk'.items = inv /\ disk'.attached \subseteq goal[Main].attached
        BY <4>4, <4>5, <4>8
      <4> QED BY <2>1, <3>6, <4>3, <4>9, <4>10
    <3> QED BY <3>4, <3>5, <3>6
  <2> QED BY <2>2, <2>3
<1>6. CASE ReaderDies \/ ReplyFails \/ Serve \/ UNCHANGED vars
  <2>1. UNCHANGED <<inv, attached, disk, goal, pc, op>>
    BY <1>6 DEF ReaderDies, ReplyFails, Serve, vars, threadVars, daemonVars
  <2> QED BY <1>2, <2>1
<1>7. CASE Crash
  BY <1>1, <1>2, <1>7 DEF Crash
<1>8. CASE Start
  <2>1. disk' = disk /\ pc[Main] = "idle"
    BY <1>1, <1>8 DEF Start, ThreadInv
  <2>2. pc'[Main] \in {"idle", "reset"} /\ (pc'[Main] = "reset" => goal'[Main] = disk)
    BY <1>1, <1>8, <2>1 DEF Start, threadVars, Goto, TypeOK
  <2> QED BY <1>2, <2>1, <2>2
<1>9. CASE Reattach
  <2>1. PICK ds \in SUBSET Missing : SetAttached(Main, attached \cup ds)
    BY <1>9 DEF Reattach
  <2>2. /\ attached' = attached \cup ds /\ Persist(inv, attached \cup ds, FALSE)
        /\ UNCHANGED <<inv, goal, pc, op>> /\ pc[Main] = "reattach"
    BY <1>9, <2>1 DEF SetAttached, Reattach
  <2>3. attached' \subseteq goal[Main].attached
    BY <1>2, <2>2 DEF Missing
  <2>4. inv # <<>>
    BY <1>2, <2>2
  <2>5. disk' = disk \/ disk' = [items |-> inv, attached |-> attached']
    BY <2>2, <2>4, SaveOrNot
  <2>6. CASE disk' = disk
    BY <1>2, <2>2, <2>3, <2>6
  <2>7. CASE disk' = [items |-> inv, attached |-> attached'] /\ disk' # NoSnapshot
    BY <1>2, <2>2, <2>3, <2>4, <2>7
  <2>8. disk' # NoSnapshot
    <3>1. attached' \in SUBSET Items /\ inv \in Seq(Items)
      BY <2>3, Ranges, <1>1 DEF TypeOK, Snapshots
    <3>2. [items |-> inv, attached |-> attached'] \in Snapshots
      BY <3>1 DEF Snapshots
    <3> QED BY <1>2, <2>2, <2>5, <3>2, InventoryAssumption
  <2> QED BY <2>5, <2>6, <2>7, <2>8
<1>10. CASE ReattachRefused \/ Restored
  <2>1. disk' = disk /\ pc'[Main] = "idle"
    BY <1>1, <1>10 DEF ReattachRefused, Restored, Goto, TypeOK
  <2> QED BY <1>2, <2>1
<1> QED BY <1>5, <1>6, <1>7, <1>8, <1>9, <1>10 DEF Next

\* The initial state.
LEMMA InitInv == Init => Inv
<1> SUFFICES ASSUME Init PROVE Inv
  OBVIOUS
<1> DEFINE none == [items |-> <<>>, attached |-> {}]
<1>1. none \in Snapshots /\ none.attached \subseteq Range(none.items)
  BY DEF Snapshots
<1> HIDE DEF none
<1>2. goal = [t \in Threads |-> none] /\ prev = [t \in Threads |-> NoSnapshot]
  BY DEF Init, none
<1>3. MaxFaults \in 0..MaxFaults /\ MaxCrashes \in 0..MaxCrashes
  BY InventoryAssumption
<1>4. TypeOK
  <2>1. saveError \in BOOLEAN /\ unreported \in BOOLEAN /\ named \in BOOLEAN /\ reader \in BOOLEAN
    BY DEF Init
  <2>2. goal \in [Threads -> Snapshots] /\ prev \in [Threads -> Snapshots \cup {NoSnapshot}]
    BY <1>1, <1>2
  <2>3. pc \in [Threads -> Labels] /\ op \in [Threads -> Ops]
    BY DEF Init, Labels, Ops
  <2>4. inv \in Seq(Items) /\ attached \subseteq Range(inv) /\ kernel \subseteq Items
    BY DEF Init
  <2>5. faults \in 0..MaxFaults /\ crashes \in 0..MaxCrashes
    BY <1>3 DEF Init
  <2> QED BY <2>1, <2>2, <2>3, <2>4, <2>5 DEF Init, TypeOK, Ops
<1>5. ThreadInv
  BY InventoryAssumption DEF Init, ThreadInv, Threads
<1>6. GoalInv
  <2>1. Closed(disk) /\ Closed(NoSnapshot)
    BY DEF Init, Closed
  <2> QED BY <1>1, <1>2, <2>1 DEF Init, GoalInv, Threads
<1>7. RestoreInv
  BY DEF Init, RestoreInv, Threads
<1> QED BY <1>4, <1>5, <1>6, <1>7 DEF Inv, Init, SavedInv

\* The inductive invariant of the daemon's inventory.
THEOREM Invariant == Spec => []Inv
<1>1. Inv /\ [Next]_vars => Inv'
  BY NextType, NextThread, NextGoal, NextSaved, NextRestore DEF Inv
<1> QED BY <1>1, InitInv, PTL DEF Spec

\* The snapshot on disk is what the daemon would restore right now, attachments included,
\* whenever no operation is under way and no failed save is reported: for any number of RPC
\* threads, whatever they interleave, fail, roll back and crash.  After a restore that has
\* cleared the report of its failed saves, the file has at least the devices.
THEOREM SnapshotSafe == Spec => []SnapshotCurrent
<1>1. Inv => SnapshotCurrent
  <2>1. Inv /\ Quiet => \A t \in Threads : ~Dirty(t)
    BY DEF Inv, Quiet, Dirty
  <2> QED BY <2>1 DEF Inv, SavedInv, SnapshotCurrent, Quiet
<1> QED BY <1>1, Invariant, PTL

-----------------------------------------------------------------------------
(* The kernel, where one RPC runs at a time.                               *)

\* Then one thread runs at a time.
LEMMA Alone ==
  ASSUME OneClient, Inv, NEW t \in Threads, Step(t) \/ Request(t), NEW u \in Threads \ {t}
  PROVE  pc[u] = "idle" /\ pc'[u] = "idle"
<1>1. pc'[u] = pc[u]
  BY Edges DEF Inv
<1>2. CASE t # Main
  <2>1. pc[Main] = "idle"
    BY <1>2, Running
  <2>2. u = Main
    BY <1>2 DEF OneClient, Threads
  <2> QED BY <1>1, <2>1, <2>2
<1>3. CASE t = Main
  <2>1. pc[Main] # "idle"
    BY <1>3 DEF Step, SendReset, SendResetFails, ClearAfterReset, Discard, Discarded, Desync,
       InstallBegin, AddItem, AddItemFails, InstallDone, Request, ApplyBegin, ResetBegin, ResyncBegin,
       Begin, Attach, Detach
  <2>2. up # "up"
    BY <2>1 DEF Inv, ThreadInv
  <2> QED BY <1>1, <1>3, <2>2 DEF Inv, ThreadInv, Threads
<1> QED BY <1>2, <1>3

\* KernelInv is inductive then.
LEMMA NextKernel ==
  ASSUME OneClient, Inv, KernelInv, [Next]_vars
  PROVE  KernelInv'
<1> DEFINE Right == /\ state = "ready" => kernel = Range(inv)
                    /\ state = "empty" /\ crashes = MaxCrashes => kernel = {}
           Calm(t) == pc[t] \in {"idle", "reset", "reattach"}
<1>1. Main \in Threads /\ Clients \subseteq Threads
  BY DEF Threads
<1>2. ASSUME NEW t \in Threads, Step(t) \/ Request(t)
      PROVE  KernelInv'
  <2>1. \A u \in Threads \ {t} : pc[u] = "idle" /\ pc'[u] = "idle"
    BY <1>2, Alone
  <2>2. Calm(t) => Right
    BY <2>1 DEF KernelInv
  <2>3. /\ pc[t] \in {"clear", "install", "discarded"} => kernel = {}
        /\ pc[t] = "adding" => kernel = Range(inv)
    BY DEF KernelInv
  <2>4. SUFFICES /\ pc'[t] \in {"clear", "install", "discarded"} => kernel' = {}
                 /\ pc'[t] = "adding" => kernel' = Range(inv')
                 /\ Calm(t)' => Right'
    BY <2>1 DEF KernelInv
  <2>5. crashes' = crashes
    BY <1>2, Edges DEF Inv
  <2>6. pc[t] # "idle" => /\ AfterFailure(t) \in {"idle", "discard", "broken"}
                          /\ AfterFailure(t) = "idle" <=> op[t] = "reset"
    BY Failures DEF Inv, ThreadInv
  <2>7. CASE SendReset(t) \/ Discard(t)
    <3>1. (kernel' = {} /\ pc'[t] \in {"clear", "install", "discarded"}) \/ pc'[t] = "stuck"
      BY <2>7 DEF SendReset, Discard, Goto, Inv, TypeOK
    <3> QED BY <3>1
  <2>8. CASE SendResetFails(t)
    <3>1. UNCHANGED <<state, kernel, inv>> /\ pc[t] = "reset" /\ pc'[t] = AfterFailure(t)
      BY <2>8 DEF SendResetFails, Goto, daemonVars, Inv, TypeOK
    <3>2. Right'
      BY <2>2, <2>5, <3>1
    <3> QED BY <2>6, <3>1, <3>2
  <2>9. CASE ClearAfterReset(t) \/ Discarded(t)
    <3>1. kernel' = kernel /\ state' = "empty" /\ pc[t] \in {"clear", "discarded"}
          /\ pc'[t] # "adding"
      BY <2>9 DEF ClearAfterReset, Discarded, Goto, Inv, TypeOK
    <3> QED BY <2>3, <3>1
  <2>10. CASE InstallBegin(t)
    <3>1. kernel' = kernel /\ inv' = <<>> /\ pc[t] = "install" /\ pc'[t] = "adding"
      BY <2>10 DEF InstallBegin, Goto, Inv, TypeOK
    <3>2. Range(<<>>) = {}
      BY Ranges, inv \in Seq(Items) DEF Inv, TypeOK
    <3> QED BY <2>3, <3>1, <3>2
  <2>11. CASE AddItem(t)
    <3>1. /\ kernel' = kernel \cup {NextItem(t)} /\ inv' = Append(inv, NextItem(t))
          /\ pc[t] = "adding" /\ pc'[t] = "adding"
      BY <2>11 DEF AddItem, threadVars
    <3>2. Range(Append(inv, NextItem(t))) = Range(inv) \cup {NextItem(t)}
      BY Ranges DEF Inv, TypeOK
    <3> QED BY <2>3, <3>1, <3>2
  <2>12. CASE AddItemFails(t)
    <3>1. pc[t] = "adding" /\ pc'[t] = AfterFailure(t) /\ op[t] # "reset"
      BY <2>12 DEF AddItemFails, Goto, Inv, TypeOK, ThreadInv
    <3> QED BY <2>6, <3>1
  <2>13. CASE InstallDone(t)
    <3>1. UNCHANGED <<kernel, inv>> /\ state' = "ready" /\ pc[t] = "adding"
          /\ pc'[t] \in {"idle", "reattach"}
      BY <2>13 DEF InstallDone, Goto, Inv, TypeOK
    <3> QED BY <2>3, <3>1
  <2>14. CASE Desync(t)
    <3>1. state' = "desynced" /\ pc'[t] \in {"broken", "idle"}
      BY <2>14 DEF Desync, Goto, Inv, TypeOK
    <3> QED BY <3>1
  <2>15. CASE Request(t)
    <3>1. UNCHANGED <<kernel, inv>> /\ state' \in {state, "applying"} /\ pc[t] = "idle"
          /\ pc'[t] \in {"idle", "reset"}
      BY <2>15 DEF Request, ApplyBegin, ResetBegin, ResyncBegin, Begin, Attach, Detach, SetAttached,
         Goto, Inv, TypeOK
    <3> QED BY <2>2, <2>5, <3>1
  <2> QED BY <1>2, <2>7, <2>8, <2>9, <2>10, <2>11, <2>12, <2>13, <2>14, <2>15 DEF Step
<1>3. CASE ReaderDies \/ ReplyFails \/ Serve \/ UNCHANGED vars
  <2>1. UNCHANGED <<inv, kernel, pc, crashes>> /\ state' \in {state, "desynced"}
    BY <1>3 DEF ReaderDies, ReplyFails, Serve, vars, threadVars, daemonVars
  <2> QED BY <2>1 DEF KernelInv
<1>4. CASE Crash
  <2>1. crashes \in 0..MaxCrashes /\ MaxCrashes \in Nat
    BY InventoryAssumption DEF Inv, TypeOK
  <2>2. crashes' # MaxCrashes
    BY <1>4, <2>1 DEF Crash
  <2>3. state' = "empty" /\ \A t \in Threads : pc'[t] = "idle"
    BY <1>4 DEF Crash
  <2> QED BY <2>2, <2>3 DEF KernelInv
<1>5. CASE Start
  <2>1. state = "empty" /\ \A t \in Threads : pc[t] = "idle"
    BY <1>5 DEF Start, Inv, ThreadInv, Threads
  <2>2. state' \in {state, "applying"} /\ \A t \in Threads : pc'[t] \in {"idle", "reset"}
    BY <1>5, <2>1 DEF Start, threadVars, Goto, Inv, TypeOK
  <2>3. UNCHANGED <<kernel, crashes>>
    BY <1>5 DEF Start
  <2> QED BY <2>1, <2>2, <2>3 DEF KernelInv
<1>6. CASE Rejoin
  <2>1. UNCHANGED <<inv, kernel, state, crashes>> /\ pc[Main] = "reattach"
        /\ (pc' = pc \/ pc' = [pc EXCEPT ![Main] = "idle"])
    BY <1>6 DEF Rejoin, Reattach, ReattachRefused, Restored, SetAttached, Goto, daemonVars
  <2>2. \A t \in Threads : pc'[t] = pc[t] \/ (pc'[t] = "idle" /\ pc[t] = "reattach")
    BY <1>1, <2>1 DEF Inv, TypeOK
  <2> QED BY <2>1, <2>2 DEF KernelInv
<1> QED BY <1>2, <1>3, <1>4, <1>5, <1>6 DEF Next, Rejoin

\* Where one RPC runs at a time, the invariant extends to the kernel.
LEMMA KernelAlways ==
  ASSUME OneClient
  PROVE  Spec => []KernelInv
<1>1. Init => KernelInv
  BY DEF Init, KernelInv
<1>2. Inv /\ KernelInv /\ [Next]_vars => KernelInv'
  BY NextKernel
<1> QED BY <1>1, <1>2, Invariant, PTL DEF Spec

\* Where one RPC runs at a time, a "ready" runtime matches the kernel handle by handle,
\* after any number of failed commands, rollbacks, resyncs and restarts.
THEOREM ReadySafe ==
  ASSUME OneClient
  PROVE  Spec => []ReadyMatchesKernel
<1>1. KernelInv => ReadyMatchesKernel
  BY DEF KernelInv, ReadyMatchesKernel, Quiet
<1> QED BY <1>1, KernelAlways, PTL

\* And until the first crash, the kernel of an "empty" runtime is empty.
THEOREM EmptySafe ==
  ASSUME OneClient
  PROVE  Spec => []EmptyMeansEmpty
<1>1. KernelInv => EmptyMeansEmpty
  BY DEF KernelInv, EmptyMeansEmpty, Quiet
<1> QED BY <1>1, KernelAlways, PTL

=============================================================================

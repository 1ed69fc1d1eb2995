-------------------------- MODULE RuntimeInventory --------------------------
(***************************************************************************)
(* The daemon's inventory of buses and devices, its copy in the kernel and *)
(* the snapshot on disk: runtime.apply with its rollback, runtime.reset,   *)
(* runtime.resync, backend.attach and backend.detach, bridge failures, and *)
(* a daemon that crashes, restarts and replays the snapshot                *)
(* (src/sensorium/runtime/inventory.py, state.py, backends.py, bridge.py). *)
(*                                                                         *)
(* RPCs run on a thread pool.  The manager's lock guards the daemon's      *)
(* state, but every RESET is written without it: that is the interleaving  *)
(* this module is about.  Commands are atomic (the bridge has a lock of    *)
(* its own).  The runtime generation is left out: it is only reported.     *)
(***************************************************************************)
EXTENDS Naturals, Sequences, Functions

CONSTANTS
  Clients,    \* RPC worker threads
  Main,       \* the thread that starts the daemon
  Models,     \* runtime models an operator applies
  Plan,       \* per model, the items in the order they are added
  MaxFaults,  \* bound: failures of the bridge, of one command or of one save
  MaxCrashes, \* bound: crashes of the daemon
  NoSnapshot, \* no snapshot file, or previous_snapshot is None
  Nobody      \* no thread holds the lock across steps

\* A bus has bus = 0; a device names the handle of its bus, and buses come
\* first.  Handles restart with every installation, so that they only depend
\* on the position in the model.
PlanOK(items) ==
  /\ items \in Seq(Range(items)) /\ items # <<>> /\ items[1].bus = 0
  /\ \A i, j \in DOMAIN items : i # j => items[i].handle # items[j].handle
  /\ \A i \in DOMAIN items :
       items[i].bus # 0 => \E j \in 1..i-1 : items[j].handle = items[i].bus

Threads == Clients \cup {Main}
Items == UNION {Range(Plan[m]) : m \in Models}
Snapshots == [items : Seq(Items), attached : SUBSET Items]

ASSUME InventoryAssumption ==
  /\ Main \notin Clients /\ Nobody \notin Clients \cup {Main}
  /\ MaxFaults \in Nat /\ MaxCrashes \in Nat
  /\ \A m \in Models : PlanOK(Plan[m])
  /\ NoSnapshot \notin Snapshots

VARIABLES
  up,        \* "down", "boot" (restoring), "up" (serving RPCs)
  state,     \* runtime_state
  named,     \* model_name is set
  inv,       \* self.buses and self.devices, in the order they were added
  attached,  \* devices with an attached_backend
  kernel,    \* buses and devices registered in the kernel
  disk,      \* the snapshot file
  saveError, \* persistence["last_snapshot_error"] is set
  unreported, \* history: a restore has cleared the error of a save that failed
  lock,      \* holder of the manager's lock across steps
  reader,    \* the bridge reader thread is alive
  pc, op,    \* per thread, the operation and where it is
  goal,      \* per thread, what it installs: items and attachments
  prev,      \* per thread, previous_snapshot
  faults, crashes

daemonVars == <<state, named, inv, attached>>
fileVars   == <<disk, saveError, unreported>>
threadVars == <<pc, op, goal, prev>>
vars == <<up, daemonVars, kernel, fileVars, lock, reader, threadVars,
          faults, crashes>>

\* _snapshot_payload_locked: what a restore or a rollback reads of it.
Snapshot == [items |-> inv, attached |-> attached]

Goto(t, label) == pc' = [pc EXCEPT ![t] = label]
LockFree == lock = Nobody

\* A command fails in the daemon or in the kernel for a reason of its own.
Fault == faults > 0 /\ faults' = faults - 1

\* _persist_snapshot_locked, called with the new inventory: an empty one
\* removes the file; a failed write is noted and swallowed.  The caller may
\* set the error afterwards (failed).
Persist(items, att, failed) ==
  \/ /\ disk' = IF items = <<>> THEN NoSnapshot
                ELSE [items |-> items, attached |-> att]
     /\ saveError' = failed
     /\ unreported' = FALSE
     /\ UNCHANGED faults
  \/ /\ Fault
     /\ saveError' = TRUE
     /\ UNCHANGED <<disk, unreported>>

-----------------------------------------------------------------------------
(* The operations' first, locked sections.                                 *)

Begin(t, o, g, p) ==
  /\ up = "up" /\ pc[t] = "idle" /\ t # Main /\ LockFree
  /\ Goto(t, "reset")
  /\ op'   = [op EXCEPT ![t] = o]
  /\ goal' = [goal EXCEPT ![t] = g]
  /\ prev' = [prev EXCEPT ![t] = p]
  /\ UNCHANGED <<up, named, inv, attached, kernel, fileVars, lock, reader,
                 faults, crashes>>

\* _assert_mutation_allowed_locked.
MutationAllowed == state # "desynced"

ApplyBegin(t, m) ==
  /\ MutationAllowed
  /\ Begin(t, "apply", [items |-> Plan[m], attached |-> {}],
           IF inv # <<>> \/ named THEN Snapshot ELSE NoSnapshot)
  /\ state' = "applying"

ResetBegin(t) ==
  /\ MutationAllowed
  /\ Begin(t, "reset", goal[t], NoSnapshot)
  /\ UNCHANGED state

ResyncBegin(t) ==
  /\ Begin(t, "resync", Snapshot, NoSnapshot)
  /\ UNCHANGED state

-----------------------------------------------------------------------------
(* RESET, written without the manager's lock.                              *)

SendReset(t) ==
  /\ pc[t] = "reset"
  /\ kernel' = {}
  /\ Goto(t, IF op[t] = "reset" THEN "clear" ELSE "install")
  /\ UNCHANGED <<up, daemonVars, fileVars, lock, reader, op, goal, prev, faults,
                 crashes>>

\* Where an operation goes on when a command fails: reset_runtime gives up and
\* leaves everything as it is.
AfterFailure(t) ==
  CASE op[t] = "reset" -> "idle"
    [] op[t] \in {"apply", "restore"} -> "discard"
    [] op[t] \in {"resync", "rollback"} -> "broken"

SendResetFails(t) ==
  /\ pc[t] = "reset"
  /\ Fault
  /\ Goto(t, AfterFailure(t))
  /\ UNCHANGED <<up, daemonVars, kernel, fileVars, lock, reader, op, goal, prev,
                 crashes>>

\* reset_runtime, after RESET.
ClearAfterReset(t) ==
  /\ pc[t] = "clear" /\ LockFree
  /\ inv' = <<>> /\ attached' = {} /\ named' = FALSE
  /\ state' = "empty"
  /\ Persist(<<>>, {}, FALSE)
  /\ Goto(t, "idle")
  /\ UNCHANGED <<up, kernel, lock, reader, op, goal, prev, crashes>>

-----------------------------------------------------------------------------
(* Installation: _clear_state and _apply_model_locked, under the lock.     *)

InstallBegin(t) ==
  /\ pc[t] = "install" /\ LockFree
  /\ lock' = t
  /\ inv' = <<>> /\ attached' = {} /\ named' = TRUE
  /\ state' = IF op[t] = "resync" THEN "applying" ELSE state
  /\ Goto(t, "adding")
  /\ UNCHANGED <<up, kernel, fileVars, reader, op, goal, prev, faults, crashes>>

NextItem(t) == goal[t].items[Len(inv) + 1]

\* cmd_bus_add and cmd_device_add: -EEXIST for a handle in use, -ENOENT for a
\* device without its bus.
Accepts(item) ==
  /\ \A k \in kernel : k.handle # item.handle
  /\ item.bus # 0 => \E k \in kernel : k.handle = item.bus

AddItem(t) ==
  /\ pc[t] = "adding" /\ Len(inv) < Len(goal[t].items)
  /\ Accepts(NextItem(t))
  /\ kernel' = kernel \cup {NextItem(t)}
  /\ inv' = Append(inv, NextItem(t))
  /\ UNCHANGED <<up, state, named, attached, fileVars, lock, reader, threadVars,
                 faults, crashes>>

\* Mutant: the error of a command is ignored.
AddItemIgnored(t) ==
  /\ pc[t] = "adding" /\ Len(inv) < Len(goal[t].items)
  /\ Fault
  /\ inv' = Append(inv, NextItem(t))
  /\ UNCHANGED <<up, state, named, attached, kernel, fileVars, lock, reader,
                 threadVars, crashes>>

\* The command is refused or lost, or the daemon fails after the kernel took
\* the item: building its template, or setting a UART's modem defaults.
AddItemFails(t) ==
  /\ pc[t] = "adding" /\ Len(inv) < Len(goal[t].items)
  /\ \/ /\ ~Accepts(NextItem(t))
        /\ UNCHANGED <<kernel, inv, faults>>
     \/ /\ Fault
        /\ UNCHANGED <<kernel, inv>>
     \/ /\ Accepts(NextItem(t)) /\ Fault
        /\ kernel' = kernel \cup {NextItem(t)}
        /\ inv' \in {inv, Append(inv, NextItem(t))}
  /\ lock' = Nobody
  /\ Goto(t, AfterFailure(t))
  /\ UNCHANGED <<up, state, named, attached, fileVars, reader, op, goal, prev,
                 crashes>>

\* A restore attaches the backends afterwards, with calls of their own.
InstallDone(t) ==
  /\ pc[t] = "adding" /\ Len(inv) = Len(goal[t].items)
  /\ attached' = IF op[t] = "restore" THEN {} ELSE goal[t].attached
  /\ state' = "ready"
  /\ Persist(inv, attached', FALSE)
  /\ lock' = Nobody
  /\ Goto(t, IF op[t] = "restore" THEN "reattach" ELSE "idle")
  /\ UNCHANGED <<up, named, inv, kernel, reader, op, goal, prev, crashes>>

-----------------------------------------------------------------------------
(* apply_model's exception handler: discard, then roll back.               *)

\* Mutant: the result of the cleanup RESET is ignored.
DiscardUnchecked(t) ==
  /\ pc[t] = "discard"
  /\ \/ kernel' = {} /\ UNCHANGED faults
     \/ Fault /\ UNCHANGED kernel
  /\ Goto(t, "discarded")
  /\ UNCHANGED <<up, daemonVars, fileVars, lock, reader, op, goal, prev, crashes>>

Discard(t) ==
  /\ pc[t] = "discard"
  /\ \/ /\ kernel' = {}
        /\ Goto(t, "discarded")
        /\ UNCHANGED faults
     \/ /\ Fault
        /\ Goto(t, "stuck")
        /\ UNCHANGED kernel
  /\ UNCHANGED <<up, daemonVars, fileVars, lock, reader, op, goal, prev, crashes>>

\* A failure of apply_model ends restore_snapshot_if_available, which notes it
\* as last_snapshot_error.
Restoring(t) == op[t] = "restore"

Discarded(t) ==
  /\ pc[t] = "discarded" /\ LockFree
  /\ inv' = <<>> /\ attached' = {} /\ named' = FALSE
  /\ state' = "empty"
  /\ Persist(<<>>, {}, Restoring(t))
  /\ IF prev[t] = NoSnapshot
     THEN Goto(t, "idle") /\ UNCHANGED <<op, goal>>
     ELSE /\ Goto(t, "install")
          /\ op' = [op EXCEPT ![t] = "rollback"]
          /\ goal' = [goal EXCEPT ![t] = prev[t]]
  /\ UNCHANGED <<up, kernel, lock, reader, prev, crashes>>

\* The cleanup RESET failed ("stuck": the caller marks the runtime desynced
\* once more), or the rollback or the resync did.
Desync(t) ==
  /\ pc[t] \in {"stuck", "broken"} /\ LockFree
  /\ state' = "desynced"
  /\ Persist(inv, attached, Restoring(t))
  /\ Goto(t, IF pc[t] = "stuck" THEN "broken" ELSE "idle")
  /\ UNCHANGED <<up, named, inv, attached, kernel, lock, reader, op, goal, prev, crashes>>

-----------------------------------------------------------------------------
(* backend.attach and backend.detach of one device.                        *)

\* Mutant: the change is not saved.
SetAttachedUnsaved(t, att) ==
  /\ LockFree /\ MutationAllowed
  /\ attached' = att
  /\ UNCHANGED <<up, state, named, inv, kernel, fileVars, lock, reader, op, goal,
                 prev, faults, crashes>>

SetAttached(t, att) ==
  /\ LockFree /\ MutationAllowed
  /\ attached' = att
  /\ Persist(inv, att, FALSE)
  /\ UNCHANGED <<up, state, named, inv, kernel, lock, reader, op, goal, prev, crashes>>

Attach(t) ==
  /\ up = "up" /\ pc[t] = "idle" /\ t # Main
  /\ \E d \in Range(inv) : d.bus # 0 /\ SetAttached(t, attached \cup {d})
  /\ UNCHANGED pc

Detach(t) ==
  /\ up = "up" /\ pc[t] = "idle" /\ t # Main
  /\ \E d \in attached : SetAttached(t, attached \ {d})
  /\ UNCHANGED pc

-----------------------------------------------------------------------------
(* Bridge failures seen by the bridge reader and the bridge workers.       *)

\* _bridge_loop meets an exception, marks the runtime desynced and ends.
ReaderDies ==
  /\ up # "down" /\ reader /\ LockFree
  /\ Fault
  /\ reader' = FALSE
  /\ state' = "desynced"
  /\ UNCHANGED <<up, named, inv, attached, kernel, fileVars, lock, threadVars,
                 crashes>>

\* _bridge_worker_loop cannot write a reply.
ReplyFails ==
  /\ up # "down" /\ LockFree
  /\ Fault
  /\ state' = "desynced"
  /\ UNCHANGED <<up, named, inv, attached, kernel, fileVars, lock, reader,
                 threadVars, crashes>>

-----------------------------------------------------------------------------
(* The daemon process.                                                     *)

\* The kernel keeps its devices when the daemon goes (bridge_release).
Crash ==
  /\ up # "down" /\ crashes > 0
  /\ crashes' = crashes - 1
  /\ up' = "down"
  /\ state' = "empty" /\ named' = FALSE /\ inv' = <<>> /\ attached' = {}
  /\ saveError' = FALSE /\ unreported' = FALSE /\ lock' = Nobody /\ reader' = FALSE
  /\ pc' = [t \in Threads |-> "idle"]
  /\ op' = [t \in Threads |-> "none"]
  /\ goal' = [t \in Threads |-> [items |-> <<>>, attached |-> {}]]
  /\ prev' = [t \in Threads |-> NoSnapshot]
  /\ UNCHANGED <<kernel, disk, faults>>

\* start: the bridge threads, then restore_snapshot_if_available, which begins
\* an apply_model of the saved model.
Start ==
  /\ up = "down"
  /\ up' = "boot" /\ reader' = TRUE
  /\ IF disk = NoSnapshot
     THEN UNCHANGED <<state, threadVars>>
     ELSE /\ state' = "applying"
          /\ Goto(Main, "reset")
          /\ op' = [op EXCEPT ![Main] = "restore"]
          /\ goal' = [goal EXCEPT ![Main] = disk]
          /\ UNCHANGED prev
  /\ UNCHANGED <<named, inv, attached, kernel, fileVars, lock, faults, crashes>>

Missing == goal[Main].attached \ attached

\* The restored backends attach again, each with its devices and a save.
Reattach ==
  /\ pc[Main] = "reattach"
  /\ \E ds \in SUBSET Missing \ {{}} : SetAttached(Main, attached \cup ds)
  /\ UNCHANGED pc

\* The runtime was marked desynced in between: attach_backend raises.
ReattachRefused ==
  /\ pc[Main] = "reattach" /\ LockFree
  /\ Missing # {} /\ ~MutationAllowed
  /\ saveError' = TRUE
  /\ Goto(Main, "idle")
  /\ UNCHANGED <<up, daemonVars, kernel, disk, unreported, lock, reader, op, goal, prev,
                 faults, crashes>>

\* All are attached: last_snapshot_error is cleared, also when a save of this
\* restore has just set it.
Restored ==
  /\ pc[Main] = "reattach" /\ LockFree
  /\ Missing = {}
  /\ saveError' = FALSE
  /\ unreported' = (unreported \/ saveError)
  /\ Goto(Main, "idle")
  /\ UNCHANGED <<up, daemonVars, kernel, disk, lock, reader, op, goal, prev, faults,
                 crashes>>

\* The RPC server starts, whether the restore succeeded or not.
Serve ==
  /\ up = "boot" /\ pc[Main] = "idle"
  /\ up' = "up"
  /\ UNCHANGED <<daemonVars, kernel, fileVars, lock, reader, threadVars, faults,
                 crashes>>

-----------------------------------------------------------------------------
Init ==
  /\ up = "down" /\ state = "empty" /\ named = FALSE
  /\ inv = <<>> /\ attached = {} /\ kernel = {}
  /\ disk = NoSnapshot /\ saveError = FALSE /\ unreported = FALSE
  /\ lock = Nobody /\ reader = FALSE
  /\ pc = [t \in Threads |-> "idle"]
  /\ op = [t \in Threads |-> "none"]
  /\ goal = [t \in Threads |-> [items |-> <<>>, attached |-> {}]]
  /\ prev = [t \in Threads |-> NoSnapshot]
  /\ faults = MaxFaults /\ crashes = MaxCrashes

Step(t) ==
  \/ SendReset(t) \/ SendResetFails(t) \/ ClearAfterReset(t)
  \/ InstallBegin(t) \/ AddItem(t) \/ AddItemFails(t) \/ InstallDone(t)
  \/ Discard(t) \/ Discarded(t) \/ Desync(t)

Request(t) ==
  \/ \E m \in Models : ApplyBegin(t, m)
  \/ ResetBegin(t) \/ ResyncBegin(t) \/ Attach(t) \/ Detach(t)

Next ==
  \/ \E t \in Threads : Step(t) \/ Request(t)
  \/ ReaderDies \/ ReplyFails
  \/ Crash \/ Start \/ Reattach \/ ReattachRefused \/ Restored \/ Serve

Spec == Init /\ [][Next]_vars

-----------------------------------------------------------------------------
Labels == {"idle", "reset", "clear", "install", "adding", "reattach", "discard",
           "discarded", "stuck", "broken"}

TypeOK ==
  /\ up \in {"down", "boot", "up"}
  /\ state \in {"empty", "applying", "ready", "desynced"}
  /\ named \in BOOLEAN /\ saveError \in BOOLEAN /\ unreported \in BOOLEAN
  /\ reader \in BOOLEAN
  /\ inv \in Seq(Items) /\ attached \subseteq Range(inv)
  /\ kernel \subseteq Items
  /\ disk \in Snapshots \cup {NoSnapshot}
  /\ lock \in Threads \cup {Nobody}
  /\ pc \in [Threads -> Labels]
  /\ op \in [Threads -> {"none", "apply", "reset", "resync", "rollback", "restore"}]
  /\ goal \in [Threads -> Snapshots]
  /\ prev \in [Threads -> Snapshots \cup {NoSnapshot}]
  /\ faults \in 0..MaxFaults /\ crashes \in 0..MaxCrashes

\* The daemon serves and no operation is under way.
Quiet == up = "up" /\ \A t \in Threads : pc[t] = "idle"

\* docs/architecture.md, "ready: the daemon's active generation is believed to
\* match the kernel": it does match, handle by handle, after every mix of
\* failed commands, rollbacks, resyncs and restarts.
ReadyMatchesKernel == Quiet /\ state = "ready" => kernel = Range(inv)

\* The file an operation that has saved leaves.
Saved == disk = IF inv = <<>> THEN NoSnapshot ELSE Snapshot

\* What a restore whose saves failed leaves: the devices, but not all of the
\* attachments.
HalfSaved ==
  disk # NoSnapshot /\ disk.items = inv /\ disk.attached \subseteq attached

\* The snapshot on disk is what the daemon would restore right now, attachments
\* included, unless a failed save is reported (_persist_snapshot_locked at the
\* end of every operation).  One failure is not reported: a restore that could
\* not save its attachments clears the error when it is done, and then the file
\* lacks some of them until the next save.  Attachments are to devices of the
\* inventory.
SnapshotCurrent ==
  /\ TypeOK
  /\ Quiet /\ ~saveError => Saved \/ (unreported /\ HalfSaved)

\* docs/architecture.md, "empty: no active runtime inventory": the kernel has no
\* bus and no device either, whatever failed before (_discard_runtime_state_after_failure
\* says empty only after a RESET the kernel accepted).  It holds until the first
\* crash: a daemon that starts without a snapshot file sends no RESET.
EmptyMeansEmpty ==
  Quiet /\ crashes = MaxCrashes /\ state = "empty" => kernel = {}

-----------------------------------------------------------------------------
(* Strengthenings that make the properties inductive.                      *)

\* The lock is held across steps by the thread that adds items; RPC threads run once the
\* daemon serves, and Main until then; every operation is one of its thread's.
ThreadInv ==
  /\ \A t \in Threads : lock = t <=> pc[t] = "adding"
  /\ up # "up" => \A t \in Clients : pc[t] = "idle"
  /\ up # "boot" => pc[Main] = "idle"
  /\ up = "down" => inv = <<>> /\ state = "empty"
  /\ \A t \in Threads : pc[t] # "idle" => op[t] # "none"
  /\ \A t \in Threads : pc[t] \in {"install", "adding"} => op[t] # "reset"
  /\ \A t \in Threads : op[t] = "restore" => t = Main
  /\ \A t \in Threads : pc[t] = "reattach" => op[t] = "restore"

\* Every snapshot attaches to its own devices.
Closed(s) == s = NoSnapshot \/ s.attached \subseteq Range(s.items)

\* What is being added is the beginning of what is to be installed.
GoalInv ==
  /\ Closed(disk)
  /\ \A t \in Threads : goal[t].attached \subseteq Range(goal[t].items) /\ Closed(prev[t])
  /\ \A t \in Threads : pc[t] = "adding" =>
       /\ Len(inv) <= Len(goal[t].items)
       /\ \A i \in 1..Len(inv) : inv[i] = goal[t].items[i]
  /\ pc[Main] = "reattach" => goal[Main].attached \subseteq Range(inv)

\* A thread that has yet to save what it made of the inventory, or to restore it.
Dirty(t) ==
  \/ pc[t] \in {"adding", "discard", "discarded", "stuck", "broken"}
  \/ op[t] = "restore" /\ pc[t] \in {"reset", "install"}

SavedInv ==
  up # "down" /\ ~saveError =>
    Saved \/ (unreported /\ HalfSaved) \/ \E t \in Threads : Dirty(t)

\* Until a restore has installed what it read, the file is as it was; then it
\* has the same devices, with some of the attachments.
RestoreInv ==
  /\ disk # NoSnapshot => disk.items # <<>>
  /\ op[Main] = "restore" /\ pc[Main] \in {"reset", "install", "adding"} =>
       disk = goal[Main]
  /\ pc[Main] = "reattach" =>
       /\ disk # NoSnapshot /\ disk.items = inv
       /\ disk.attached \subseteq goal[Main].attached
       /\ attached \subseteq goal[Main].attached

\* One RPC at a time: what the kernel holds where nothing of another thread comes between.
OneClient == \A t, u \in Clients : t = u

KernelInv ==
  /\ \A t \in Threads : pc[t] \in {"clear", "install", "discarded"} => kernel = {}
  /\ \A t \in Threads : pc[t] = "adding" => kernel = Range(inv)
  /\ (\A t \in Threads : pc[t] \in {"idle", "reset", "reattach"}) =>
       /\ state = "ready" => kernel = Range(inv)
       /\ state = "empty" /\ crashes = MaxCrashes => kernel = {}

=============================================================================

---------------------------- MODULE DeviceConfig ----------------------------
(***************************************************************************)
(* The configuration of the daemon's devices: backend, settings, faults    *)
(* and attachment, as runtime.apply installs it, device.update patches it  *)
(* (backends.py), the bridge workers change it while they serve requests   *)
(* (a fault is used up, internal.py; a tty reports new termios settings,   *)
(* uart.py) and the snapshot file carries it across resync, rollback and   *)
(* restart (state.py).                                                     *)
(*                                                                         *)
(* RPCs hold the manager's lock; the workers hold a route lock only and    *)
(* take the manager's lock to save.  device.update is two steps, the copy  *)
(* it patches and the assignments, because the workers write in between.   *)
(* A worker refers to the device and the fault objects it has read: after  *)
(* a replacement its writes go to an object nobody reads.  Installing is   *)
(* one step here; RuntimeInventory has its steps and failures.             *)
(***************************************************************************)
EXTENDS ModelNormalise

CONSTANTS
  RawModels,    \* models that runtime.apply may be given
  Patches,      \* patches that device.update may be given
  Backends,     \* names of controller backends
  Termios,      \* UART configuration requests of the kernel
  Workers,      \* bridge worker threads
  MaxCalls,     \* bound: RPCs that change the runtime
  MaxEvents     \* bound: requests the workers take, and losses: bridge failures, restarts
                \* and writes that fail

ASSUME BoundsAssumption == MaxCalls \in Nat /\ MaxEvents \in Nat

\* expect_list: buses and devices are lists.
ASSUME RawAssumption == \A raw \in RawModels : IsList(raw.buses) /\ IsList(raw.devices)

\* What _derive_uart_settings can read from a baud rate, cflag and iflag.
ASSUME TermiosAssumption ==
  Termios \subseteq [baud : Nat, bits : 5..8, stop : 1..2, parity : ParityModes,
                     xon : BOOLEAN, rts : BOOLEAN]

VARIABLES
  buses, devices, \* the inventory: sequences of records, devices with attached_backend
  state,          \* runtime_state: "empty", "ready" or "desynced"
  file,           \* the snapshot file: a set of one snapshot, empty without a file
  rpc,            \* the device.update that holds the lock, or Null
  req,            \* what each bridge worker is doing
  calls, requests, losses,
  \* History:
  collided, \* an accepted model, with no value too large, could not be installed
  switched, \* an update has made an attached device a template or a managed device
  unsaved,  \* the file is behind: an update raised before it saved, or the last write failed
  due,      \* per device: requests its fault still has to hit, or Null for no limit
  asked,    \* per device: the settings asked for, by install, patches and termios
  raced,    \* devices that an RPC changed while a worker was at work on them, or that a
            \* worker serves under a lock which is no longer theirs
  ports     \* places that UART devices have had: the kernel has sent UART requests for them

vars == <<buses, devices, state, file, rpc, req, calls, requests, losses,
          collided, switched, unsaved, due, asked, raced, ports>>

-----------------------------------------------------------------------------
(* Snapshots *)

\* _snapshot_bus and _snapshot_device: without metadata of buses, handles and templates.
BusSaved(b) == [k \in {"id", "transport", "name"} |-> b[k]]

\* Mutant: faults are not part of the snapshot.
SavedWithoutFaults(d) == [k \in DOMAIN d \ {"attached", "faults"} |-> d[k]]

DeviceSaved(d) == [k \in DOMAIN d \ {"attached"} |-> d[k]]

Export == [buses   |-> [i \in DOMAIN buses |-> BusSaved(buses[i])],
           devices |-> [i \in DOMAIN devices |-> DeviceSaved(devices[i])]]

Attachments == [i \in DOMAIN devices |-> devices[i].attached]
Snapshot == [model |-> Export, attached |-> Attachments]

External(backend) == backend.kind = "controller" /\ ~Managed(backend)

\* _validate_backend_attachments_for_devices
AttachmentsOK(s) ==
  \A i \in DOMAIN s.attached :
    s.attached[i] # Null => External(s.model.devices[i].backend)

Restorable(s) == ModelOK(s.model) /\ AttachmentsOK(s)

\* _persist_snapshot_locked, in a state with this inventory.
FileOf(bs, ds, s) == IF bs = <<>> /\ ds = <<>> THEN {} ELSE {s}

EventAllowed == requests + losses < MaxEvents

\* An OSError is counted, and the file stays as it is.
Save ==
  \/ file' = FileOf(buses', devices', Snapshot') /\ unsaved' = FALSE /\ UNCHANGED losses
  \/ /\ EventAllowed /\ losses' = losses + 1
     /\ UNCHANGED file /\ unsaved' = TRUE

-----------------------------------------------------------------------------
(* Devices in use *)

\* dev: the place of the device, which its handle names; Null for a device that is gone.
\* lock: the route lock that the worker waits for or holds, if any.
Serving(pc, i, lock, kind) ==
  [pc |-> pc, dev |-> i, lock |-> lock, kind |-> kind, fault |-> Null, current |-> TRUE]
Idle == Serving("idle", Null, {}, "transfer")
At(w) == req[w].dev
Busy(i) == \E w \in Workers : At(w) = i

Limit(f) == IF f.mode = "none" \/ f.remaining.n = 0 THEN Null ELSE f.remaining.n

\* What the settings of a device were asked to be, without the raw termios flags.
Known(d) == Settings(d.transport, d.settings)

\* _apply_model_locked after RESET and _clear_state: new device objects, new route locks.
Installed(m, attached) ==
  /\ buses' = m.buses
  /\ devices' = [i \in DOMAIN m.devices |-> m.devices[i] ++ [attached |-> attached[i]]]
  /\ due' = [i \in DOMAIN m.devices |-> Limit(m.devices[i].faults)]
  /\ asked' = [i \in DOMAIN m.devices |-> m.devices[i].settings]
  /\ raced' = {}

UartPlaces(ds) == {i \in DOMAIN ds : ds[i].transport = "uart"}

\* Workers keep the locks of the old inventory, which no new device has, and the objects
\* they have looked up.  One that waits for its lock has looked nothing up.
Old(lock) == {<<"old", l>> : l \in lock}
Orphaned ==
  [w \in Workers |-> [req[w] EXCEPT !.lock = Old(@),
                                    !.dev = IF req[w].pc = "lock" THEN @ ELSE Null]]

Nobody(ds) == [i \in DOMAIN ds |-> Null]
Emptied == Installed([buses |-> <<>>, devices |-> <<>>], <<>>)

\* What an installation that fails leaves: the devices before the one that is refused.
Partial(m) ==
  LET bad == CHOOSE i \in DOMAIN m.devices :
               /\ ~(Packs(m.devices[i]) /\ KernelTakes(m, i))
               /\ \A j \in 1..(i - 1) : Packs(m.devices[j]) /\ KernelTakes(m, j)
  IN  [m EXCEPT !.devices = SubSeq(@, 1, bad - 1)]

\* A snapshot of this runtime is installed again, by resync or by the rollback of apply.
Reinstalled(s) ==
  LET m == Model(s.model)
  IN  IF Installs(m) THEN Installed(m, s.attached) /\ state' = "ready"
      ELSE Installed(Partial(m), Nobody(Partial(m).devices)) /\ state' = "desynced"

-----------------------------------------------------------------------------
(* runtime.apply, runtime.resync *)

CallAllowed == calls < MaxCalls /\ rpc = Null /\ state # "desynced"

\* The models that are accepted, in their normal form.
Accepted == {Model(raw) : raw \in {r \in RawModels : ModelOK(r)}}

Apply(m) ==
  /\ CallAllowed
  /\ IF Installs(m)
     THEN /\ Installed(m, Nobody(m.devices))
          /\ state' = "ready" /\ UNCHANGED collided
     ELSE /\ collided' = (collided \/ ~TooLarge(m))
          /\ IF buses = <<>> THEN Emptied /\ state' = "empty"
             ELSE IF Restorable(Snapshot) THEN Reinstalled(Snapshot)
             ELSE Emptied /\ state' = "desynced"
  /\ Save
  /\ req' = Orphaned /\ switched' = (switched /\ unsaved')
  /\ ports' = ports \cup UartPlaces(devices')
  /\ calls' = calls + 1
  /\ UNCHANGED <<rpc, requests>>

\* A runtime whose own snapshot is refused keeps its state: the check comes before RESET.
Resync ==
  /\ calls < MaxCalls /\ rpc = Null /\ Restorable(Snapshot)
  /\ Reinstalled(Snapshot)
  /\ Save
  /\ req' = Orphaned /\ switched' = (switched /\ unsaved')
  /\ ports' = ports \cup UartPlaces(devices')
  /\ calls' = calls + 1
  /\ UNCHANGED <<rpc, requests, collided>>

-----------------------------------------------------------------------------
(* device.update *)

Tables == {"registers", "responses", "prefix_responses",
           "line_responses", "binary_responses", "control_defaults"}

\* The mapping under a key of a mapping.
Entry(t, key) ==
  IF \E e \in ToSet(t) : e[1] = key THEN (CHOOSE e \in ToSet(t) : e[1] = key)[2] ELSE <<>>

\* _merge_patch one level down: in mappings the patch wins key by key.
MergeInner(k, t, p) ==
  CASE k \in Tables -> PutAll(t, p)
    [] k = "write_effects" -> PutAll(t, [i \in DOMAIN p |-> <<p[i][1], PutAll(Entry(t, p[i][1]), p[i][2])>>])
    [] k = "worker" /\ p # None -> p ++ t
    [] OTHER -> p

\* Mutant: a patched mapping replaces the one it patches.
Overwrite(k, t, p) == p

\* A null replaces the mapping, and is read as an empty one.
MergeInto(k, t, p) ==
  CASE k = "backend" -> [j \in DOMAIN t \cup DOMAIN p |->
                           IF j \in DOMAIN t \cap DOMAIN p THEN MergeInner(j, t[j], p[j])
                           ELSE Get(p, j, Get(t, j, Null))]
    [] k \in {"faults", "settings", "metadata"} -> IF p = None THEN EmptyDict ELSE p ++ t
    [] OTHER -> p

Merge(t, p) ==
  [k \in DOMAIN t \cup DOMAIN p |->
     IF k \in DOMAIN t \cap DOMAIN p THEN MergeInto(k, t[k], p[k]) ELSE Get(p, k, Get(t, k, Null))]

SamePlace(d, e) == d.bus = e.bus /\ d.transport = e.transport /\ Location(d) = Location(e)

\* The copy of the device, patched and normalised; refused here, nothing has changed.
UpdateBegin(i, patch) ==
  LET candidate == Merge(DeviceSaved(devices[i]), patch)
  IN  /\ CallAllowed
      /\ DeviceOK(candidate, buses)
      /\ SamePlace(Device(candidate, buses), devices[i])
      /\ rpc' = [dev |-> i, patch |-> patch, new |-> Device(candidate, buses)]
      /\ calls' = calls + 1
      /\ UNCHANGED <<buses, devices, state, file, req, requests, losses, collided, switched,
                     unsaved, due, asked, raced, ports>>

\* What the update does after the assignments and before it saves, and what can raise:
\* the refusal of a worker for an attached device, the launch of a worker, the modem
\* defaults of a UART template.
Raises(d) == Managed(d.backend) /\ d.attached # Null
MayRaise(d) == Managed(d.backend) \/ (d.transport = "uart" /\ d.backend.kind = "template")

Outcomes(d) == IF Raises(d) THEN {FALSE} ELSE IF MayRaise(d) THEN BOOLEAN ELSE {TRUE}

Assigned(i, new) ==
  [devices EXCEPT ![i].metadata = new.metadata, ![i].faults = new.faults,
                  ![i].settings = new.settings, ![i].backend = new.backend]

\* A worker that has read the fault of device i holds an object that is no longer current.
FaultReplaced(i) ==
  [w \in Workers |-> IF At(w) = i THEN [req[w] EXCEPT !.current = FALSE] ELSE req[w]]

\* The settings asked for so far, and what the patch says of them; a null takes them back.
AskedNow(settings, patch) ==
  LET p == Get(patch, "settings", EmptyDict)
  IN  IF p = None THEN EmptyDict ELSE p ++ settings

UpdateEnd ==
  /\ rpc # Null
  /\ UNCHANGED buses
  /\ LET i == rpc.dev
     IN  /\ devices' = Assigned(i, rpc.new)
         /\ req' = FaultReplaced(i)
         /\ due' = [due EXCEPT ![i] = Limit(rpc.new.faults)]
         /\ asked' = [asked EXCEPT ![i] = Settings(devices[i].transport, AskedNow(@, rpc.patch))]
         /\ raced' = IF Busy(i) THEN raced \cup {i} ELSE raced
         /\ switched' = (switched \/ (devices[i].attached # Null /\ ~External(rpc.new.backend)))
         /\ \E saves \in Outcomes(devices'[i]) :
              IF saves
              THEN Save
              ELSE unsaved' = TRUE /\ UNCHANGED <<file, losses>>
  /\ rpc' = Null
  /\ UNCHANGED <<state, calls, requests, collided, ports>>

-----------------------------------------------------------------------------
(* backend.attach, backend.detach: the route lock of the device changes *)

SetAttached(i, backend) ==
  /\ devices' = [devices EXCEPT ![i].attached = backend]
  /\ raced' = IF Busy(i) THEN raced \cup {i} ELSE raced
  /\ UNCHANGED buses
  /\ Save
  /\ calls' = calls + 1
  /\ UNCHANGED <<state, rpc, req, requests, collided, switched, due, asked, ports>>

Attach(i, backend) ==
  /\ CallAllowed /\ External(devices[i].backend)
  /\ SetAttached(i, backend)

Detach(i) ==
  /\ CallAllowed /\ devices[i].attached # Null
  /\ SetAttached(i, Null)

-----------------------------------------------------------------------------
(* A bridge worker serves a request for device i *)

Route(i) ==
  LET d == devices[i]
  IN  IF External(d.backend) /\ d.attached # Null THEN <<"backend", d.attached>>
      ELSE <<"device", d.id>>

\* The worker takes a request from the queue and looks the lock up; later it waits for it.
\* A request that has been in the queue since before an installation names, by its handle,
\* the device that is there now.
Take(w, i, kind) ==
  /\ req[w].pc = "idle" /\ EventAllowed
  /\ kind = "config" => i \in ports
  /\ req' = [req EXCEPT ![w] = Serving("lock", i, {Route(i)}, kind)]
  /\ requests' = requests + 1
  /\ UNCHANGED <<buses, devices, state, file, rpc, calls, losses, collided, switched, unsaved,
                 due, asked, raced, ports>>

Goto(w, pc) == req' = [req EXCEPT ![w].pc = pc]
Config == <<buses, devices, state, file, rpc, calls, requests, losses, collided, switched,
            unsaved, due, asked, ports>>

\* Mutant: requests are not serialised.
LockIgnored(w) == TRUE

LockFree(w) ==
  ~\E v \in Workers \ {w} :
     req[v].pc \notin {"idle", "lock"} /\ req[v].lock \cap req[w].lock # {}

\* The handler looks the device up by its handle when it has the lock: the device of today,
\* whatever the lock is.  Without one the request ends, with -ENOENT.
Acquire(w) ==
  LET i == req[w].dev
      found == i \in DOMAIN devices
  IN  /\ req[w].pc = "lock" /\ LockFree(w)
      /\ IF found THEN Goto(w, IF req[w].kind = "config" THEN "config" ELSE "fault")
         ELSE req' = [req EXCEPT ![w] = Idle]
      /\ raced' = IF found /\ req[w].lock # {Route(i)} THEN raced \cup {i} ELSE raced
      /\ UNCHANGED Config

\* Mutant: a hang-up, which comes with a baud rate of 0, is taken for a setting.
BaudAsSent(d, t) == Plain(t.baud)

Baud(d, t) == IF t.baud = 0 THEN Get(d.settings, "baud_rate", Plain(115200)) ELSE Plain(t.baud)

\* _derive_uart_settings, and the raw flags.
Derived(d, t) ==
  [baud_rate |-> Baud(d, t), data_bits |-> Plain(t.bits), stop_bits |-> Plain(t.stop),
   parity |-> t.parity, xonxoff |-> Bool(t.xon), rtscts |-> Bool(t.rts), cflag |-> t]

\* _handle_uart_config_request up to the save: the settings object is updated in place, of
\* whatever transport the device is.
Configure(w, t) ==
  /\ req[w].pc = "config"
  /\ Goto(w, "save")
  /\ IF req[w].dev = Null THEN UNCHANGED <<devices, asked, raced>>
     ELSE LET i == req[w].dev
              s == Derived(devices[i], t)
          IN  /\ devices' = [devices EXCEPT ![i].settings = s ++ @]
              /\ asked' = IF devices[i].transport = "uart"
                          THEN [asked EXCEPT ![i] = Settings("uart", s)] ELSE asked
              /\ raced' = IF rpc # Null THEN raced \cup {i} ELSE raced
  /\ UNCHANGED <<buses, state, file, rpc, calls, requests, losses, collided, switched,
                 unsaved, due, ports>>

\* _persist_snapshot_locked by a worker: it waits for the manager's lock.
WorkerSaves(w) ==
  /\ req[w].pc \in {"save", "savefault"} /\ rpc = Null
  /\ IF req[w].pc = "save" THEN Goto(w, "fault") ELSE req' = [req EXCEPT ![w] = Idle]
  /\ UNCHANGED <<buses, devices>>
  /\ Save
  /\ UNCHANGED <<state, rpc, calls, requests, collided, switched, due, asked, raced, ports>>

\* _fault_is_active.  The request meets the fault, or there is none; a short reply is
\* made of a success only.
MeetFault(w) ==
  LET i == req[w].dev
      f == IF i = Null THEN Fault("none", Plain(0)) ELSE devices[i].faults
  IN  /\ req[w].pc = "fault"
      /\ \/ /\ f.mode \in {"none", "short-reply"}
            /\ req' = [req EXCEPT ![w] = Idle]
            /\ UNCHANGED due
         \/ /\ f.mode # "none"
            /\ Goto(w, "consume")
            /\ due' = IF due[i] \in {Null, 0} THEN due ELSE [due EXCEPT ![i] = @ - 1]
      /\ UNCHANGED <<buses, devices, state, file, rpc, calls, requests, losses, collided,
                     switched, unsaved, asked, raced, ports>>

\* _consume_fault reads the fault again; without a limit there is nothing to count.
ReadFault(w) ==
  /\ req[w].pc = "consume"
  /\ req' = [req EXCEPT ![w] =
               IF At(w) = Null \/ devices[At(w)].faults.remaining.n = 0 THEN Idle
               ELSE [@ EXCEPT !.pc = "count", !.fault = devices[At(w)].faults,
                              !.current = TRUE]]
  /\ UNCHANGED <<Config, raced>>

\* The fault after its last use.
UsedUp(f) == Fault("none", Plain(0))

\* The fault object it has read counts down; the last use replaces the device's fault,
\* whatever it is by now.
CountFault(w) ==
  LET i == req[w].dev
      left == req[w].fault.remaining.n - 1
  IN  /\ req[w].pc = "count"
      /\ Goto(w, "savefault")
      /\ devices' = IF i = Null THEN devices
                    ELSE IF left = 0 THEN [devices EXCEPT ![i].faults = UsedUp(@)]
                    ELSE IF req[w].current THEN [devices EXCEPT ![i].faults.remaining = Plain(left)]
                    ELSE devices
      /\ UNCHANGED <<buses, state, file, rpc, calls, requests, losses, collided, switched, unsaved,
                     due, asked, raced, ports>>

-----------------------------------------------------------------------------
(* Losses *)

\* A bridge failure: RPCs that change anything are blocked from here on.
BridgeFails ==
  /\ EventAllowed /\ state # "desynced"
  /\ state' = "desynced"
  /\ losses' = losses + 1
  /\ UNCHANGED <<buses, devices, file, rpc, req, calls, requests, collided, switched, unsaved,
                 due, asked, raced, ports>>

\* The daemon ends anywhere and starts again: restore_snapshot_if_available.  A snapshot
\* that is refused stays; one that cannot be installed is removed by the cleanup of apply.
Restart ==
  LET good == {s \in file : Restorable(s) /\ Installs(Model(s.model))}
  IN  /\ EventAllowed
      /\ losses' = losses + 1
      /\ \/ \E s \in good : Installed(Model(s.model), s.attached) /\ state' = "ready"
         \/ good = {} /\ Emptied /\ state' = "empty"
      /\ file' = {s \in file : s \in good \/ ~Restorable(s)}
      /\ rpc' = Null
      /\ req' = [w \in Workers |-> Idle]
      /\ ports' = UartPlaces(devices')
      /\ unsaved' = FALSE
      /\ UNCHANGED <<calls, requests, collided, switched>>

-----------------------------------------------------------------------------
Init ==
  /\ buses = <<>> /\ devices = <<>> /\ state = "empty" /\ file = {}
  /\ rpc = Null /\ req = [w \in Workers |-> Idle]
  /\ calls = 0 /\ requests = 0 /\ losses = 0
  /\ collided = FALSE /\ switched = FALSE /\ unsaved = FALSE /\ due = <<>> /\ asked = <<>> /\ raced = {}
  /\ ports = {}

Next ==
  \/ \E m \in Accepted : Apply(m)
  \/ Resync
  \/ \E i \in DOMAIN devices, patch \in Patches : UpdateBegin(i, patch)
  \/ UpdateEnd
  \/ \E i \in DOMAIN devices, b \in Backends : Attach(i, b)
  \/ \E i \in DOMAIN devices : Detach(i)
  \/ \E w \in Workers, i \in DOMAIN devices, k \in {"transfer", "config"} : Take(w, i, k)
  \/ \E w \in Workers : \/ Acquire(w) \/ WorkerSaves(w) \/ MeetFault(w)
                        \/ ReadFault(w) \/ CountFault(w)
                        \/ \E t \in Termios : Configure(w, t)
  \/ BridgeFails
  \/ Restart

Spec == Init /\ [][Next]_vars

-----------------------------------------------------------------------------
(* Properties *)

\* The states and attachments are known ones, and the update, the workers that serve a device
\* and the histories refer to devices that are there.
TypeOK ==
  /\ state \in {"empty", "ready", "desynced"}
  /\ \A i \in DOMAIN devices : devices[i].attached \in Backends \cup {Null}
  /\ rpc # Null => rpc.dev \in DOMAIN devices
  /\ \A w \in Workers : req[w].pc # "lock" => At(w) \in DOMAIN devices \cup {Null}
  /\ DOMAIN due = DOMAIN devices /\ DOMAIN asked = DOMAIN devices /\ raced \subseteq DOMAIN devices

\* A model that normalize_runtime_model_data accepts and the kernel or struct.pack then
\* refuses has a number or a name that is too large: no two of its buses, devices or nodes
\* collide in the kernel.
AcceptedInstalls == ~collided

\* What the daemon serves, and what it has saved, can be installed again by resync, by a
\* rollback and by the next start: it is accepted by the normalisation, and the kernel takes
\* it, but for a number device.update accepted that DEVICE_ADD cannot carry; its attachments
\* are accepted, but after a device.update that made an attached device a template or a
\* managed device and left attached_backend.
Reinstallable ==
  \A s \in {Snapshot} \cup file :
    /\ ModelOK(s.model)
    /\ Installs(Model(s.model)) \/ TooLarge(s.model)
    /\ AttachmentsOK(s) \/ switched

\* A restart gives back the configuration the daemon serves: devices, faults with what is
\* left of them, settings and attachments.  Excepted are the times when the file is known to
\* be behind: an update is half-way or has raised there, a worker is between its change and
\* its save, or the last write of the file failed and none has worked since.  A file whose
\* attachments are refused (after an update of an attached device, see Reinstallable)
\* restores nothing, and neither does one that cannot be installed: of the first nothing is
\* said, of the second that its contents are the configuration.  Raw termios flags and the
\* metadata of buses are not kept.
Restored(d) ==
  [k \in DOMAIN d \ {"attached"} |-> IF k = "settings" THEN Known(d) ELSE d[k]]
RestartKeepsConfig ==
  \/ unsaved \/ rpc # Null
  \/ \E w \in Workers : req[w].pc \in {"save", "savefault"}
  \/ /\ buses # <<>> => file # {}
     /\ \A s \in file : buses # <<>> /\ AttachmentsOK(s) =>
          /\ Model(s.model).devices = [i \in DOMAIN devices |-> Restored(devices[i])]
          /\ s.attached = Attachments

\* A fault injected for n requests hits n requests and is gone: the requests it still has to
\* hit are what its counter says, less the ones a worker is counting, unless an RPC changed
\* the device while a worker served it, or a worker that waited for the lock of an earlier
\* inventory serves it under that lock, beside another.
InHand(i) == {w \in Workers : At(w) = i /\ req[w].pc \in {"consume", "count"}}
FaultCount ==
  /\ TypeOK
  /\ \A i \in DOMAIN devices \ raced :
       LET f == devices[i].faults
       IN  CASE due[i] = Null -> f.remaining.n = 0 \/ f.mode = "none"
             [] due[i] = 0    -> InHand(i) # {} \/ f.mode = "none"
             [] OTHER -> f.mode # "none" /\ f.remaining.n = due[i] + Cardinality(InHand(i))

\* The settings of a device are the ones asked for last, by the model, by a patch for the
\* keys it names, by a tty's termios, unless an RPC and a worker, or two workers with
\* different locks, were at the device at once.
SettingsAsAsked == \A i \in DOMAIN devices \ raced : Known(devices[i]) = asked[i]

=============================================================================

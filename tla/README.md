# Sensorium: a TLA+ model of the runtime

Sensorium gives Linux programs virtual I2C, SPI and UART devices. A kernel module
owns the nodes (`/dev/i2c-*`, `/dev/spidev*`, `/dev/tty*`); a Python daemon,
`sensoriumd`, owns the model of the devices behind them; controllers outside the
daemon may answer for a device. This directory models that runtime: what happens
to a call between the program that issues it and the code that answers it, and
what becomes of the devices when something on the way fails. Paths below are
relative to the repository root.

## 1. The system

| Part | State | Operations | Talks to |
| --- | --- | --- | --- |
| Kernel request table (`kernel/sensorium-runtime-core.c`, `sensorium-runtime.c`) | list and index of requests, next id, generation, credits in use, session | send a request and wait, time out, reply, RESET, open, setup, start, release | callers in the kernel; the daemon through rings and ioctls |
| Shared-memory bridge (`sensorium-runtime-core.c`, `runtime/bridge_protocol.py`) | three rings (control, transport, reply) with free-running u32 counters, a payload zone for each | reserve, publish, drain, free | kernel and daemon, each the writer of some rings |
| Kernel buses and devices (`sensorium-runtime.c`, `-transport.c`, `-i2c.c`, `-spi.c`, `-uart*.c`) | registered adapters, controllers, ports | BUS_ADD, DEVICE_ADD, RESET, UART inject and modem | request table; the daemon's commands |
| UART port (`sensorium-runtime-uart*.c`) | TX ring, TX work, RX backlog, modem bits, disconnected flag | write, TX work, inject, throttle, flush, hangup, recover | request table, tty layer |
| Daemon inventory (`runtime/inventory.py`, `state.py`, `backends.py`) | buses, devices, handles, attachments, runtime state, snapshot file | apply with rollback, reset, resync, attach, detach, update, restore | kernel by commands, RPC clients, disk |
| Bridge workers (`runtime/bridge.py`, `transport.py`, `i2c.py`, `spi.py`, `uart.py`) | bounded request queue, route locks, pending controller requests, event queues | read, queue, route, handle, dispatch, reply | rings, controllers, inventory |
| Managed workers (`runtime/managed_workers.py`) | one process, socket and restart count for each device | launch, monitor, restart, stop, dispatch | bridge workers, inventory |
| RPC server (`runtime/rpc.py`) | clients with buffers and pending requests, worker slots, event waiters | accept, read, dispatch, answer, long poll, stop | every operation of the daemon |
| Trace writer (`runtime/persistence.py`) | queue bounded by count and bytes, file | enqueue with drop-oldest, write, rewrite, flush, stop | bridge workers, disk |
| Templates (`runtime/templates.py`) | register banks, flash image, line buffers | one transfer at a time | bridge workers |
| Model normalisation (`runtime/model*.py`) | none | a model to a normalised model or an error | inventory |
| Daemon processes (`cli/sensoriumctl.py`, `runtime/rpc.py`, systemd) | processes, socket file, pidfile, unit | start, stop, launch, bind, end, kill | each other through files, signals and status calls |
| Camera, IIO, transport aliases (`kernel/sensorium-capture.c`, `-inject.c`, `-sensor.c`, `-iio.c`, `sensorium-transport-alias*.c`) | buffers, controls, channels | stream, inject, sample | V4L2, IIO |

### Where it is hard

* Callers block in the kernel on an answer from a process that may be slow, dead or
  between two lives. Timeout, reply, RESET and the daemon's death compete for every
  request, and some of their steps are outside the lock.
* Two programs in two languages share counters of 32 bits. One of them computes
  with unbounded integers.
* The inventory exists three times (daemon, kernel, disk) and is changed command by
  command; every command can fail, and so can the repair.
* RPCs run on a thread pool, and RESET is sent without the lock that protects the
  daemon's own state.
* A request is routed, queued and handled at three different moments; devices,
  handles, locks and attachments can be others at each of them.
* Controllers answer when they like: in time, late, never, or at the very moment the
  daemon gives up.
* A managed worker dies while a request waits for it, while an update replaces it, or
  while its own monitor is about to restart it; stopping it may block with the
  daemon's lock held.
* The RPC server is one thread between sockets, a pool and other threads that wake it.
* Bridge workers change faults and UART settings without the lock that RPCs hold.
* Daemons are told apart by two files that anybody may remove by name.

`PROJECT.json` lists these hazards one by one, at their lines, with the properties
that would catch them going wrong.

### What makes each part correct

* Request table: every call returns; no answer is lost on a sleeping caller; nothing
  leaks (credits, descriptors) in any order of reply, timeout, RESET and death.
* Bridge: each direction is a bounded FIFO queue of unchanged messages.
* Inventory: `ready` means that daemon and kernel agree, `empty` that there is
  nothing, and the snapshot on disk is what a restart should restore.
* Bridge workers: every request taken off the ring is answered; no bookkeeping is
  left behind; a template is never entered by two workers.
* Managed workers: one process for a device and no orphan; restarts are bounded and
  never forgotten; requests do not hang on a dead process.
* RPC server: capacity is counted exactly; responses come in order; an event goes to
  one poll; the server never sleeps on finished work, and it ends when told.
* Trace writer: bounded in memory, queue and file; what is lost is counted.
* Configuration: what is accepted can be installed, and installed again from what was
  saved; faults and settings are the ones that were asked for.
* Daemon processes: one daemon answers, it can be found, and a stop leaves nothing.

## 2. The modules

    BridgeRequests ---- MCBridgeRequests (3 runs), BridgeProofs
    PayloadRing ------- refines MessageQueue (1 run), BridgeProofs
    RuntimeInventory -- MCRuntimeInventory (2 runs), RuntimeInventoryProofs
    ControllerDispatch  (1 run), ControllerDispatchProofs
    ManagedWorkers      (1 run), ManagedWorkersProofs
    RpcServer --------- MCRpcServer (1 run), RpcServerProofs
    ModelNormalise ---- operators, used by DeviceConfig
    DeviceConfig ------ MCDeviceConfig (1 run), DeviceConfigProofs
    TraceWriter ------- MCTraceWriter (1 run), TraceWriterProofs
    DaemonLifecycle     (1 run), DaemonLifecycleProofs

Names follow the code; `PROJECT.json` maps every definition to its lines. Operators
marked `Mutant` are wrong on purpose: putting one in the place of the definition it
precedes must break the property that `PROJECT.json` names with it. They take no
part in the specifications.

### BridgeRequests

Model of `sensorium_runtime_send_request` and everything that can end it. A request
object is an element of `Objects`, the slab behind `request_pool`; `pc[o]` is where
the call holding it is (`fresh` before the lock, `waiting`, `expired`: the timer
fired and the lock is not taken yet, `woken`). `transport` is the ring, `held` the
requests the daemon took and has not answered, `link` the state of the bridge
device, `inflight` the credits. A section under `runtime->lock` is one action.
`cmd_reply` is two (`Reply`, `Complete`), because `complete_all` comes after the
unlock, and RESET is two (`ResetBegin`, `ResetFinish`), because it waits, with the
lock held, for the transfers and the TX work of the devices it destroys (`Joined`);
nothing waits for the ioctls of a tty (`ctl`), which can therefore outlive a RESET. A
freed object can be allocated by any later call. `stray` records that a completion hit such an object.

Left out: payloads (PayloadRing), segment counts and sizes, ioctl argument checks,
poll and mmap, and what a tty ioctl does with its device after the RESET that freed it.
`Refuse` may always happen: it stands for -EBUSY and -ETIMEDOUT from
any of the tests in `queue_transport_locked`.

### PayloadRing and MessageQueue

One ring with its payload zone, written by the kernel (transport ring) or by the
daemon (control and reply rings; the submit ioctl reads the entry before the next
one). The counters are modulo `W`, which stands for 2^32. The kernel's arithmetic
wraps where its variables are u32 and does not where they are u64; the daemon's
never wraps, but its descriptor field takes only values below `W`. The reader
advances the ring head and the payload head in two steps. `MessageQueue` is the
promise: a bounded queue. `RingIsFifo` is the refinement, with the queue decoded from
the shared bytes. `RingAssumption` asks of the sizes what those the daemon negotiates have:
`W` is a multiple of the ring's entries (64 or 128) and of the zone (2 or 4 MiB), and the
ring, and a payload with two zones, stay below it. The kernel's setup accepts any number
of entries from 8 to 1024 (`sensorium-runtime.c:149`); of numbers that do not divide 2^32
nothing is claimed, as their slots would jump where the counters wrap.

### RuntimeInventory

The inventory in the daemon (`inv`, `attached`), in the kernel (`kernel`) and on disk
(`disk`), and the threads that change it. Each RPC is a small program: a first locked
section, a RESET without the lock, an installation that holds the lock and adds one
item per step, and the handlers of failures (discard, rollback, desync). Any command
and any save can fail (`Fault`, bounded by `MaxFaults`), the bridge reader can die, a
reply can fail, the daemon can crash at any step (`MaxCrashes`) and starts again from
the snapshot. Handles restart with every installation, as in `_clear_state`. `saveError` is
`last_snapshot_error`: a failed save sets it, the next one that succeeds clears it, and so
does the end of a restore, whatever its own saves did (`Restored`); `unreported` is the
history of that.

Left out: `device.update` (DeviceConfig), the generation number (only reported),
degraded states (ManagedWorkers).

### ControllerDispatch

A request from the ring to its reply: the bounded queue, workers that look up a route
lock, take it, look the device up again, run a template or dispatch an event and wait
for the controller. An installation is one step (it holds the manager's lock); a
device object and a lock object are known by name and installation, so that workers
can hold old ones. `backend.reply` is three steps (`ReplyEvent`, `Lookup`,
`CompletePending`), as the lock is released between them. `UpdateDevice` is
`device.update` with another kind of backend: the object a worker found changes under it,
and so does the route; `switched` remembers the devices that became templates. A request
ends `answered`; `lost`, if the reply cannot be written (the runtime is then desynced);
`raised`, if the controller's status is no 32-bit number (`REPLY_PREFIX_STRUCT.pack`
raises outside of the inner `try` and the thread ends); or `dropped`, if the `-EBUSY` of a
full queue cannot be written, which nobody notices.

Left out: shutdown, statistics, injected faults other than their effect (`Reject`; how
they are used up is in DeviceConfig), devices with a managed worker (ManagedWorkers).

### ManagedWorkers

One device with a worker process. A launch is a record of the process, its socket, its
reader thread and its monitor thread; `current` is the registered one. `box` holds the
messages in the socket, at most `Room`: that is what makes `sendall` block. `job` is
the work of whoever holds the manager's lock while the old worker is stopped
(installation, update, relaunch, shutdown), since sending `shutdown` may block in the
same socket. A worker process can exit, stop reading, or close its end and stay; the
reader can meet a reply it cannot decode; a launch can raise. A request goes through
registration in `pending_controller`, lookup, send and wait, as
`_dispatch_managed_controller` does it, and its deadline may pass at any time. `raised`
is history: the last launch raised.

Left out: the pump of the worker's log, the times between restarts, the contents of
messages and so their size: an event over 8 MiB cannot be sent (`worker_protocol.py`), and
the dispatch then kills a healthy worker as if its socket were broken.

### RpcServer

`RuntimeRpcServer`: the thread that selects (`pc`, the keys still to be served, the
waiters still to be visited, and the client whose `_dispatch_pending` runs), the pool
(release of the slot, append to `_completions` and wake byte are three steps), the
waiters of `backend.next_event`, and the wake socket. What a client sends is a script of
lines, which arrive in chunks of any length: a call, a poll, a poll whose timeout is no
number, a line that is not JSON, a line that is too long.

Left out: the writing of output buffers (a response counts as given when it is in the
buffer), the methods behind the calls (the other modules), more than one backend,
metrics.

### ModelNormalise and DeviceConfig

`ModelNormalise` translates `normalize_runtime_model_data`. A scalar carries how it is
written (`0x10`, a bool, a padded name, a leading zero), so that the conversions have
something to do; each part is a test and a value. `Packs`, `KernelTakesBus` and
`KernelTakes` are the tests that an accepted model meets afterwards in `struct.pack` and in
the kernel: the 64 bytes of a name and the 32 bits of a number in the command structure, the
32 bytes of a tty's `base_name`, the port table, and the number of an adapter, which is an
`int` for I2C and an `s16` for SPI (`BusNumber`): there spi0 and spi65536 are one, and a
negative number asks for any free one. The limits are constants, scaled down in the runs.
`DeviceConfig` is what happens to a model then: applied, patched by `device.update`
(merge, normalisation, assignment, side effects, save), changed by bridge workers
(`consume_fault`, termios), saved, and installed again by resync, rollback and restart.
Workers hold the objects they looked up: a fault or a device that was replaced under them
is written to without effect. A worker that still waits for a lock has looked up the lock
only: after an installation it serves, under the lock of the old inventory, the device that
has the handle now (`Acquire`), beside a worker with the new lock, and so does the UART
configuration request of a device whose handle has gone to a device of another transport
(`ports`). The write of the snapshot may fail, which the code only counts (`Save`). The lock a worker holds is a set of at most one route, and the
snapshot file a set of at most one snapshot. A mapping whose keys are data (registers,
responses) is the list of its pairs in the order of insertion, `None` a value of its own. The
variables under `History` record what was asked for, and which of the named exceptions has
happened. `d ++ e` is a mapping with the keys of both, `d`'s value where they meet.

Left out: error texts, the schema version and the characters of names in
`ModelNormalise`, and the adapters that the machine has besides those of the model; in
`DeviceConfig` the steps of an installation, of resync and of a restore with its saves, which
`RuntimeInventory` has, and patches that put a null in the place of a table inside `backend`
(in the place of settings, faults or metadata they are modelled).

### TraceWriter

Records are numbered. The list in memory, the drop-oldest queue with its two limits, the
writer threads (`stop` gives up on one after two seconds, and `start` can be entered
twice), the file with a torn last line, flush, stop, reset of the counters, write errors,
crash and reload. A line that cannot be decoded is 0. Appending is two steps (open, write)
and a rewrite five (size, snapshot, open of the `.tmp` file, lines, rename), and two writers
share both files: a writer's `on` says whether what it has open is by now the trace file,
the `.tmp` file or neither. `aged` are the records a rewrite left out that memory did not
hold any more, `glued` those written behind a torn line; `overlapped` says that a rewrite
has met the append or the rewrite of another writer, and excepts what is lost from then on.
`Bytes` (the size of a queue or a file) and `Decoded` (the records a reload reads) are
recursive functions over the places of a sequence.

Left out: the contents of records and the payload limit; `enqueue` starts a thread and
appends its record in one step; the lines of a rewrite are written in one step, which may
stop after any of them but not inside one.

### DaemonLifecycle

Daemons and `sensoriumctl` commands as processes. A daemon goes through the steps of
`serve_runtime_daemon` (probe, removal of a stale socket, bridge, bind, listen, pidfile,
and back); a command through those of `daemon_start` and `daemon_stop`. Socket and
pidfile are the daemon they belong to. systemd is external: it launches, restarts on
failure and kills at the end of `TimeoutStopSec`. `systemctl stop`, `kill`, `kill -KILL` and
`rm` may have no effect, as their exit status is ignored (`check=False`): a process that
outlives `kill -KILL` is one for which sudo was refused or that is stuck in the kernel.
`refused` remembers which of them ever failed, `spared` whether a command's own did.

Left out: the reload of the kernel module, the test for a unit that belongs to another
program, the directory systemd removes with the unit, reuse of pids, the bridge threads
that `stop_event` ends.

## 3. The runs

| Run | Instance | Result |
| --- | --- | --- |
| `requests` | 2 request objects, 3 requests, 2 credits, 2 ring entries, 1 RESET, 2 sessions, SPI transfers and tty ioctls | 6 invariants and `CallReturnsUnlessWedged` hold (605,621 states) |
| `requests_stray` | 2 objects, 2 requests | `CompletedOnlyByReply` is violated |
| `requests_wedge` | as above, SPI transfers | `CallReturns` is violated |
| `ring_fifo` | 2 entries, zone of 4, counters modulo 16, payloads up to 4, both writers | refinement and 2 invariants hold (389k states) |
| `inventory_restart` | 1 RPC at a time, 2 models, 3 faults, 1 crash | 3 invariants hold (135,104 states) |
| `inventory_ready_race` | 2 RPCs at a time, no faults | `ReadyMatchesKernel` is violated |
| `dispatch` | 2 workers, 1 template, 1 controlled device, 1 controller, 2 requests, queue of 1, 1 attach, detach or update call, 1 installation | 4 invariants and `RequestAnswered` hold (220,303 states) |
| `managed` | 1 device, restart limit 1, socket for 1 message, 2 requests, 2 operations, 2 failures | 3 invariants and `RequestAnswered` hold (473,740 states) |
| `rpc_serve` | 3 connections of which 2 are admitted, 1 worker slot, 2 pending requests, 1 event | 4 invariants, `RequestsAnswered` and `ShutdownCompletes` hold (554,870 states) |
| `config` | 16 models, 3 patches, 2 workers, 1 controller, 3 RPCs, 2 events: requests, bridge failures, failed writes and restarts | 5 invariants hold (204,528 states) |
| `trace` | 2 producers, 2 writer threads, 4 records of two sizes, memory and queue for 2, 1 write error, 1 crash | 2 invariants and `FlushReturns` hold (639,512 states) |
| `lifecycle` | 2 commands at a time, 3 in all, 3 daemons, 1 fault, with and without systemd | 2 invariants, `StopLeavesNothing` and `StopEndsDaemons` hold (350,542 states) |

Why the bounds are enough. `requests`: two objects are enough for a reuse of one while
the other is alive, three requests for a reuse after a stray completion; two sessions
for descriptors that outlive one; a tty ioctl is needed for a request that outlives a
RESET, an SPI transfer for one that blocks it. `ring_fifo`: the counters wrap four times in a zone
of 4, every payload length of the zone occurs, and the queue is at both limits.
`inventory_restart`: three faults are one more than the longest chain the code has an
answer for (command, cleanup, rollback or resync); two models of different shape make
handles collide. `dispatch`: an exclusion needs two workers, a late reply one
controller, and a stale route one installation, one reattachment or one update; the same
properties were also checked with two attach, detach or update calls (1.28 million states). `managed`: two
failures are a crash and the failure of the restart, with a limit of one; two operations
let an update or an installation come between a worker's death and its monitor; two
requests fill a socket with room for one. `rpc_serve`: one slot makes the second call
busy, two admitted clients make the third refused, a poll with a call behind it stalls,
and three lines are one more than may be pending. `config`: one model is explored in
depth, the others deviate from an acceptable one in one point each; three RPCs are an apply, an update and a resync, or an apply, an
attachment and an update; two events are two workers at one fault, also under the locks of two
inventories, or a worker's change and the write that fails or the restart after it, or a failed
write and a restart. With two requests and one loss beside them it was checked as well, with two
patches (464,833 states). `trace`: two records over
each limit. `lifecycle`: a stop
and two starts are the shortest sequence in which one daemon can remove another's files;
one fault is a kill that has no effect as well as a crash; two faults with two daemons were
checked as well (888,360 states).

`TypeOK` is an invariant of its own in the runs `requests` and `dispatch`, and a conjunct of
one of the invariants in the other passing runs.

Symmetry is used in `config`, which has no liveness: bridge workers are interchangeable.

Deadlock is checked in `requests`, the ring and the inventory runs. `ControllerDispatch`
may stop: no more requests, and controllers that do not poll. In the `requests` runs a
system in which RESET and a call wait for each other may stop (`Stuck`), no other. The later modules may stop as well: a daemon at rest, a server that
was closed, clients that send no more.

### Fairness

* `requests`: each caller (the scheduler runs it, and its timer fires), the completion
  that an ioctl in progress owes, and the end of RESET once nothing blocks it. Nothing
  is assumed of the daemon: `CallReturnsUnlessWedged` does not depend on it.
* `dispatch`: each worker thread. Nothing is assumed of controllers, operators or the
  kernel. The deadline of `pending.cond.wait` makes `StopWaiting` possible at any time.
  The number of requests is bounded, so that weak fairness is enough for the route
  lock; with endless traffic `threading.Lock` promises no turn.
* `managed`: whoever holds the lock goes on unless its send blocks; monitors and handlers
  run; a worker process answers until it fails. Nothing is assumed of the reader thread
  (the deadline is enough) or of the operator.
* `rpc_serve`: the server thread, the pool (a dispatched method returns, which the other
  modules are about), and the clock. Nothing is assumed of clients, events or a shutdown.
* `trace`: the writer threads, and the caller of `flush`, who looks every 100 ms.
* `lifecycle`: the steps of a `daemon_stop`, and systemd's timeout. Nothing is assumed of
  daemons: `StopEndsDaemons` holds for one that never reacts. It rests on SIGKILL being
  delivered and effective: a `kill -KILL` without effect is an action of its own
  (`KillFails`), and the property excepts what follows one.

### What the violations say

* `requests_stray`: `cmd_reply` completes the request after it has released the lock. A
  caller that timed out may have freed it, and the next call may hold it: that call
  wakes without an answer and reads the status 0 that `memset` left.
* `requests_wedge`: RESET holds `runtime->lock` while it waits for calls that need that
  lock to return: for the TX work of a tty in `cancel_delayed_work_sync`, for an SPI
  transfer in `spidev_remove`, for an I2C transfer in `i2c_del_adapter`.
* `inventory_ready_race`: RESET is sent outside the lock. A second operation that
  installs between RESET and the locked section of the first leaves daemon and kernel
  with different devices in state `ready`.

### Also visible in the models

Consequences of the actions that no run states, because each would be a property that
fails and says less than the ones above:

* The timeout path returns a credit that the reply or RESET already returned, so more
  requests than `inflight_credit_limit` can be admitted (`TimeOut`, `CreditReturned`).
  `NoCreditLeak` bounds the counter from above only.
* A reply of the old generation that arrives after RESET failed a request of a tty ioctl,
  and before its caller ran, replaces the -EPIPE (`Matches` uses the request's own generation).
* A payload larger than half its zone may be refused by an idle ring, depending on where
  the tail is; `docs/runtime-bridge-v2.md` names a ceiling of 4 MiB, the size of the
  whole transport zone, and the reply zone has 2 MiB.
* With two RPCs at a time, a reset can end `empty` with devices left in the kernel. After
  a crash during a first apply the daemon restarts `empty` beside them: without a
  snapshot no RESET is sent.
* An apply in flight turns a `desynced` runtime into `ready` or `empty` when it ends.
* A failed apply with a failed cleanup keeps the part that was added; a resync then
  declares that part ready.
* After the bridge reader has died, a resync reports `ready` without a reader.
* A restore attaches the backends one by one and saves each time; if such a save fails, the
  end of the restore clears the error (`state.py:397`), and the file lacks attachments
  without a report until the next save (`SnapshotCurrent` names the state).
* The cleanup of a failed apply, and of a failed restore, removes the snapshot file. After
  a failed restore nothing writes it again.
* A request of an old installation that waited in the queue is handled by the new device
  with the same handle; if it looked up its route before, under the old lock
  (`TemplateExclusive` names the exception).
* `device.update` from a controller to a template changes the route lock of the device
  while workers hold its backend's lock: two of them can be in the template
  (`TemplateExclusive` names the exception).
* A controller that replies with a status outside of 32 bits ends the worker thread that
  relays it, without an answer to the kernel; after as many as there are threads no request
  is served (`RequestAnswered` names both). A `-EBUSY` that cannot be written is dropped
  without a trace.
* A controller that does not poll collects one event for every request, without limit.
* All bridge workers can wait for one controller's route while requests for other
  devices wait in the queue.
* In the last zone before the 32-bit offsets wrap, an idle ring refuses some payloads of
  at most half a zone: in the kernel a lasting -EBUSY, in the daemon a `struct.error`
  that ends a worker thread. `IdleAcceptsHalf` shows that this is the only place.
* A controller's reply that was looked up just before the waiting worker gives up, and is
  completed just after, is accepted and then neither delivered nor counted, although
  `docs/testing.md:457` says that late replies are counted.

Managed workers:

* A request that finds no worker returns -EPIPE and leaves its entry in
  `pending_controller` until the next installation (`PendingReleased` names the case).
* Stopping a worker that no longer reads, with a full socket, blocks with the manager's
  lock held; nothing bounds the wait (`Wedged`).
* A monitor that gives up writes `failed` over the status of a worker launched since; a
  relaunch that raises ends the monitor and leaves the device `restarting`; an
  installation ends `ready` although the start of a worker has just failed
  (`FailureInHand` names both).

RPC server:

* Requests queued behind a `backend.next_event` that found an event at once wait until
  the client sends more (`Stalled`; `RequestsAnswered` shows that nothing else is
  left unanswered).
* An event given to a client that has hung up is lost with its output buffer.
* A refused client that has hung up, or a poll whose timeout is no number, raises in the
  server thread and ends the daemon (`ShutdownCompletes` shows that it ends cleanly).
* An error that closes a connection is sent directly, and may land in the middle of a
  response that is still in the output buffer.

Configuration:

* `max_speed_hz` has no upper limit; a live update accepts what no later resync or
  restart can install.
* An update can make an attached device a template or a managed device and leaves the
  attachment; the resulting snapshot is refused by the next resync, rollback or start.
* An update that raises after its assignments is in effect and not saved.
* Every update rebuilds the device's template, so that a register bank loses what was
  written to it (`backends.py:105`).
* A template of another transport than the device's is accepted
  (`model_normalize.py:73`).
* An update concurrent with a request can bring back a fault that was used up, or lose
  the settings a tty has just made (`raced` marks these devices).
* A request that waited for the lock of an earlier inventory is served by the device that has
  its handle now, beside another worker: both read the same count of a fault, and one
  decrement is lost. If the device is of another transport, a UART request writes termios
  settings into it.
* A tty base name of 32 to 63 bytes, a port beyond the table, an SPI bus number from 2^15 on
  and an I2C one from 2^31 on are accepted by the normalisation; the kernel refuses the first
  two, and the numbers collide or are replaced by free ones (`TooLarge`).
* A snapshot that cannot be written leaves the old file, and the operation succeeds; a
  restart then goes back to what that file says.

Trace:

* A record can be in the file twice, after a rewrite that took it from memory while it was
  still queued. After a torn line the next record is glued to it and lost.
* With two writer threads a rewrite drops what the other one has appended since the
  snapshot, although memory still holds it, and two rewrites share one `.tmp` file: either
  can truncate the other's lines, put its own into the trace file after the rename, or find
  nothing to rename. None of these losses is counted (`overlapped`).
* The order of records in memory and in the file can differ (two producers).
* After `stop()` a record may never be written, and `flush` then does not return.

Daemon processes:

* `daemon.stop` and SIGTERM set the manager's `stop_event`, which `serve_forever` does not
  look at: the daemon goes on answering without bridge threads, until `daemon_stop`
  comes to SIGKILL. If that command is interrupted, such a daemon stays, and the next
  `daemon_start` accepts it.
* A daemon that does not answer within a second is taken for dead and killed by
  `daemon_start`.
* A process that outlives `kill -KILL` and does not answer is not noticed: `daemon_stop`
  removes the files and returns success. A `daemon_start` then launches a daemon beside it,
  which fails to open the bridge if the old one still has it. With systemd, a
  `systemctl stop` that fails leaves the unit wanted, and it comes back after the kill.
* Two commands at once can cost a daemon its socket: between bind and listen it is taken
  for stale (`OwnFiles` is about commands one after the other).

## 4. The proofs

TLAPS checks the following for every value of the constants that satisfies the named
assumptions, of `Spec` (`Init` and `[][Next]_vars`, with or without the fairness). The
assumptions (`ConstantsAssumption`, `NoObjectAssumption`, `DispatchAssumption`,
`LifecycleAssumption`, `WorkersAssumption`, `InventoryAssumption`, `RingAssumption`,
`ServerAssumption`, `SizesAssumption`, `LimitsAssumption`, `BoundsAssumption`,
`RawAssumption`, `TermiosAssumption`) say that limits are positive where the code makes them so, that bounds
are natural numbers, that request objects and clients are finitely many, that values which
stand for "none" (no object, no thread, no snapshot; and the key of the wake-up socket) are not among the others, that a line
of the trace has a positive size, that the buses and devices of a model that is applied are
lists (`expect_list` refuses others), that a termios request carries what
`_derive_uart_settings` can read from its flags (5 to 8 bits, 1 or 2 stop bits), that the
range of an SPI bus number is within that of a number in a command, that
templates and controlled devices are disjoint, and of the ring what section 2 says. TLC
evaluates them in every run.

The strengthenings stand at the end of each module or with its proofs, conjunct by
conjunct; TLC was run with each of them that it can evaluate as an invariant
(not `FileSettled`, which says that some inventory of this form was saved). Every proof has one step for each
action, under it one for each conjunct that the action can disturb.

`BridgeProofs`, for `BridgeRequests` (`Spec`, without fairness):

| Theorem | Property | Inductive strengthening |
| --- | --- | --- |
| `TypeCorrect` | `TypeOK` | none |
| `WakeupSafe` | `NoLostWakeup` | `WakeInv`: a cleared object is unanswered |
| `IdsDistinct` | `DistinctIds`, which no run states because `NoRequestLost` rests on it | `IdInv`: listed ids were handed out |
| `DaemonLossSafe`, `SessionSafe` | `DaemonLossFailsWaiters`, `NoSessionMismatch` | `LinkInv`: without a started daemon, ring and daemon are empty |
| `RequestsKept` | `NoRequestLost` | with `IdInv` and `LinkInv`: answering one descriptor answers only its request |
| `CreditsSafe` | `NoCreditLeak` | `CreditInv`: until a stray completion, only answered requests are complete, so whoever returns without giving a credit back owes none |

The credit proof is about cardinalities: each action adds at most one element to
`Unanswered` or removes at most one, and changes the counter to match.

`ControllerDispatchProofs`:

| Theorem | Property | Inductive strengthening |
| --- | --- | --- |
| `TypeCorrect` | `TypeOK` (the queue within its limit) | `BusyInv`: a worker or a reply call at work has a request |
| `PendingSafe` | `PendingReleased` | with `TypeOK` and `BusyInv` |
| `ReachableSafe` | `PendingReachable` | `CallInv`: a reply call that is over names no request, so that the next call of the controller does not stand in for a request it has dropped |
| `RoutesSafe` | `TemplateExclusive` | `RouteInv`: the lock looked up for a template is named after its device, unless an update of that installation switched it, and two workers in the handler never hold the same lock |

`RouteInv` is needed because exclusion is about devices and the code locks routes: two
locks of one installation with one key are one lock.

`BridgeProofs`, for `PayloadRing` (`RingSpec`; the names of its specification differ from
those of `BridgeRequests`, so that one module can extend both):

| Theorem | Property | Inductive strengthening |
| --- | --- | --- |
| `Invariant` | `FlightInv` | is inductive with `RingTypeOK` |
| `ZoneSafe` | `InsideZone` | `FlightInv`: from the payload head to the payload tail, at most a zone apart, lie the payload being read and those of the queued entries, in order and without overlap |
| `HalfAccepted` | `IdleAcceptsHalf` | `FlightInv`: when the ring is idle, payload head and tail are equal |
| `Refinement` | `RingIsFifo` | `FlightInv` |

Everything is said in distances from the payload head (`Ahead`), as the counters wrap. The
lemmas below it are about remainders: two places of one zone differ if their distances
differ by less than a zone (`Disjoint`), and so do two slots (`Slots`). With them a write
touches no byte in flight, which is what the refinement needs. It maps `Put` to the
queue's `Put`, `Take` to its `Take` and `FreePayload` to a stutter.

`RuntimeInventoryProofs`:

| Theorem | Property | Inductive strengthening |
| --- | --- | --- |
| `SnapshotSafe`, for any number of RPCs at a time | `SnapshotCurrent` | `ThreadInv`: who may hold the lock and run at which time; `GoalInv`: what is added is the beginning of the goal, and snapshots attach to their own devices; `SavedInv`: the snapshot is current, or some thread has yet to save; `RestoreInv`: a restore finds the file as it read it, and then with the same devices |
| `ReadySafe`, `EmptySafe`, for one RPC at a time (`OneClient`) | `ReadyMatchesKernel`, `EmptyMeansEmpty` | `KernelInv`: what the kernel holds at each place of an operation |

`OneClient` is a premise of two theorems and not an assumption of the module: the run
`inventory_ready_race` shows `ReadyMatchesKernel` violated with two. That `SnapshotCurrent`
needs no such premise says that the snapshot is right even where daemon and kernel differ.

`ManagedWorkersProofs`:

| Theorem | Property | Inductive strengthening |
| --- | --- | --- |
| `WorkerExclusive` | `OneWorker` | `LaunchInv`: launches are numbered as they are made, and requests hold numbers of launches made; `LimitInv`: a back-off is begun within the limit; `CountInv` |
| `RestartsCounted` | `CountInv`, an invariant of its own interest: launches made, restarts due and the launch of the lock's holder never exceed operations and failures | with the others |
| `PendingSafe` | `PendingReleased` | none but `TypeOK` |
| `FailureShown` | `FailureInHand` | `RegisteredInv`: a socket is closed on a dead process only, and the device of a registered worker is not degraded |

`CountInv` also shows that `Launches` is large enough: a launch never finds no number left,
so the bound hides no behaviour. The proof of `FailureShown` failed at first: as it stood,
`FailureInHand` was violated by three operations, which the run with its two could not
meet. The property now names its exception by the history `raised`.

`RpcServerProofs`:

| Theorem | Property | Inductive strengthening |
| --- | --- | --- |
| `CapacitySafe` | `CapacityExact` | `ThreadInv`: the server thread serves open clients and dispatches for one with nothing under way; `CompletedInv`: a finished request is announced once |
| `OrderSafe` | `AnsweredInOrder` | `QueuedInv`: queued requests are in the order of their lines and no worker has seen them; `OrderInv`: of a client one request is under way at a time, ahead of what is queued and behind what was answered |
| `EventSafe` | `EventOnce` | `EventInv`: an event has one place, in the queue or in a response |
| `WakeupSafe` | `NoLostWakeup` | `WakeInv`: while the thread has not entered `select`, a result or an event is announced or its waiters are still to be visited |
| `Invariant` | all of them | inductive together |

`Ascending` lists the lines that one `recv` completed in their order. That any finite set of
numbers has such a list is proved from the least-number principle (`Least`, `Listed`,
`AscendingIs`), as the library's induction theorems cannot be used here.

`DaemonLifecycleProofs`:

| Theorem | Property | Inductive strengthening |
| --- | --- | --- |
| `OneDaemonAnswers` | `OneAnswers` | `BridgeInv`: one process has the bridge device open, and a daemon opens it before it binds |
| `FilesOwned` | `OwnFiles` | `FilesInv`: socket and pidfile are the daemon's own from the moment it makes them, unless a process survived a stop; with `AloneInv` |
| `StopComplete` | `StopLeavesNothing`, an action property | `AloneInv`: while commands run one after the other there is one daemon until one survives a stop, a stop whose commands take effect knows every daemon until it is dead (`PlaceInv`, `Ends`), and systemd brings none back (`UnitInv`); `SparedInv`: a command that spared a process is in the history; `OpInv`: some places are only of `daemon_start` |

`OneAnswers` does not rest on the files: it holds when two commands run at once and
daemons lose their sockets, by the exclusive open of the bridge device alone.

`TraceWriterProofs`:

| Theorem | Property | Inductive strengthening |
| --- | --- | --- |
| `TypeSafe` | `TypeOK`: memory and queue within their limits of records and of bytes | `WriterInv`: a writer at work has a record, and the snapshot it rewrites from is no longer than memory's limit |
| `FileKeepsLimit` | `FileBounded` | `StageInv`: a writer alone with the `.tmp` file renames its snapshot; where two met in it, one stays behind and has yet to fail; and whoever makes the file larger has its size still to check |
| `NoSilentLoss` | `LossesCounted` | `MeetInv`: while no rewrite met another writer, the one that rewrites has a snapshot with all that file and memory share, so what it leaves out memory does not hold; `GluedInv`: a torn line glues one record and costs one failure or crash; each other step that takes records out of file, queue and hands adds as many to a counter or to `lost` |

`Bytes` and `Decoded` are recursive functions. That they exist, and what they do under
`Append` and `Tail`, is proved from the least-number principle; with it the loop of
`enqueue` is shown to end within both limits, the number of records it drops being the
number it counts.

`DeviceConfigProofs`:

| Theorem | Property | What it rests on |
| --- | --- | --- |
| `AcceptedModelInstalls` | of every model, not only of those in the run: what `normalize_runtime_model_data` accepts, the kernel takes, but for values it has no room for (`TooLarge`) | distinct names and locations of the normalised model are distinct numbers and nodes in the kernel: a canonical name is determined by its stem and number, and a bus number below half the range is the adapter's number |
| `AcceptedAlwaysInstalls` | `AcceptedInstalls` | the theorem above |
| `OneAtADevice` | `Exclusive`: two workers never serve one device outside `raced` | `LockInv`: a worker at such a device has the lock of its present route; one with any other lock puts the device into `raced` when it gets there |
| `FaultsHitAsOften` | `FaultCount` | `FaultInv`, with `Exclusive`: at most one worker is between meeting a fault and counting it, and it counts the fault the device has |
| `SettingsServed` | `SettingsAsAsked` | `RpcInv`: the copy an update has patched still agrees with the device in what it does not name |
| `AlwaysReinstallable` | `Reinstallable` | `SettledInv`: the inventory, the copy of an update and the snapshot are in normal form; `ServedInv`, `SavedInv`: only external controllers have attachments, in the daemon and in the file |
| `RestartRestores` | `RestartKeepsConfig` | `SettledInv`, whose last part says that the file has the configuration served, or is known to be behind (`unsaved`: an update has raised, or a write failed), or some worker has yet to save |

The three before the last two come from one inductive invariant, `IInv`. It speaks of the
devices outside `raced`: that the route lock alone serialises the workers of a device is
true only as long as no RPC changes the device, and with it the route, while a worker is
there, and no worker comes with the lock of an earlier inventory. At the devices in `raced`
the code does lose counts of a fault, or settings, until the next update or installation.

The last two rest on `SettledInv`, inductive together with `IInv`. Its core is `Settled(bs,
ds)`: every name, number, register, script, fault and backend of the inventory is accepted
by its test and is what its conversion returns. Settings are the exception, since a tty's
raw flags are kept until the next normalisation: of them only acceptance is claimed, and
`Restored` is the device without those flags. The argument has three layers.

* The normalisation returns what it accepts and returns again (`RegistersStay`,
  `EffectsStay`, `ScriptStays`, `BankStays`, ..., `DeviceStays`, `ModelStays`). The
  difficulty is in the data of any length. A mapping is built pair by pair (`PutAll`, a
  recursive function; that it exists and what it returns is proved from the least-number
  principle, `UpTo` and `Recursion`): each key occurs once in the result, and a list
  without repeated keys is rebuilt as it is (`DictHolds`, `DictSame`). `clear_on_read` is
  sorted by rank; the ranks of a finite set of registers are the numbers below its size, so
  that sorting loses none (`SortedHolds`).
* A settled inventory, saved without metadata of buses and attachments, is accepted and
  comes back as `Restored` says (`SavedAccepted`), and the kernel takes it by
  `AcceptedModelInstalls` (`SavedInstalls`).
* Every step keeps the inventory settled: an installation, also one that breaks off in the
  middle (`PrefixSettled`), a patch, a used-up or counted-down fault, a termios change
  (`DerivedSettled`), an attachment. A step that changes a device saves, leaves a worker
  that has yet to save, or sets `unsaved`.

### Only model-checked

* Liveness: `CallReturnsUnlessWedged`, `RequestsAnswered`, `RequestAnswered` of both modules,
  `ShutdownCompletes`, `FlushReturns`, `StopEndsDaemons`. Fairness and `ENABLED` are out of
  the prover's reach.

Every invariant and every action property that a passing run checks is stated by a theorem.

## 5. What is not modelled yet, and the plan

In this order:

1. `UartPort`: the TX ring and TX work against write, flush, hangup and disconnect; RX
   injection and throttling; bytes are neither lost nor sent twice except by flush. Until
   then the UART port is only two kinds of callers in `BridgeRequests`.
2. Templates (register bank, SPI flash, UART script) as operators checked against
   reference definitions.
3. The camera's capture and injection queues and the IIO buffer.

Not planned: the parts of the command line other than daemon start and stop, benchmark and
verification tools, scripts and packaging (no state beyond one call), and the encoding of
I2C and SPI transfers except for what a template does with them.

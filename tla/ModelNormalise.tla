--------------------------- MODULE ModelNormalise ---------------------------
(***************************************************************************)
(* Runtime model normalisation: what runtime.apply, device.update and the  *)
(* restore of a snapshot accept, and the form they keep (model.py,         *)
(* model_base.py, model_normalize.py), and the tests an accepted model     *)
(* still has to pass when its commands are packed and reach the kernel     *)
(* (inventory.py, cmd_bus_add, cmd_device_add).                            *)
(*                                                                         *)
(* A YAML or JSON mapping with fixed keys is a function on the keys it     *)
(* has; a mapping whose keys are data is a sequence of pairs, in insertion *)
(* order.  A scalar is a record that says what it denotes and how it is    *)
(* written, so that the conversions have something to convert:             *)
(*   a number   [n, how]: how is "int", "text" ("0x10") or "bool"          *)
(*   bytes      [bytes, how]: "hex", "text" ("text:...") or "bad"          *)
(*   null       [how]: "none"                                              *)
(*   a name     [stem, num, zero, pad, legal, long]: its numeric suffix    *)
(*              (-1: none), leading zeroes, blanks around it, illegal      *)
(*              characters, 64 bytes or more                               *)
(* Words from a fixed vocabulary (transports, kinds, modes) are strings,   *)
(* and a missing one is empty.                                             *)
(* Each part has a test (... OK), where the code raises RuntimeModelError, *)
(* and a value, what the code returns.                                     *)
(***************************************************************************)
EXTENDS Integers, SequencesExt

CONSTANTS
  Null,        \* None
  WordLimit,   \* 2^32: what the fields of DEVICE_CMD_STRUCT can hold, scaled down
  ShortLimit,  \* 2^15: what the bus_num of an SPI controller, an s16, can hold, scaled down
  PortLimit,   \* ports of one tty base name (num_ports of its group)
  WideStems    \* stems of 32 bytes or more, which a base_name of the kernel cannot hold

ASSUME LimitsAssumption ==
  /\ ShortLimit \in Nat \ {0} /\ WordLimit \in Nat /\ 2 * ShortLimit <= WordLimit
  /\ PortLimit \in Nat \ {0} /\ Null \notin Int /\ WideStems \subseteq STRING

Transports == {"i2c", "spi", "uart"}
TemplateKinds == {"i2c-register-bank", "spi-script", "uart-script"}
FaultModes == {"none", "timeout", "errno", "disconnect", "short-reply"}
ParityModes == {"none", "even", "odd"}
FrameLimit == 262144
MaxErrno == 4095

EmptyDict == [k \in {} |-> Null]
None == [how |-> "none"]

\* expect_list; and expect_mapping, for a mapping whose keys are data.
IsList(s) == Len(s) \in Nat /\ DOMAIN s = 1..Len(s)

Get(d, k, default) == IF k \in DOMAIN d THEN d[k] ELSE default
When(P, d) == IF P THEN d ELSE EmptyDict

\* Two mappings in one; where both have a key, d's value wins.
d ++ e == [k \in DOMAIN d \cup DOMAIN e |-> IF k \in DOMAIN d THEN d[k] ELSE e[k]]

-----------------------------------------------------------------------------
(* Scalars (model_base.py) *)

Plain(n) == [n |-> n, how |-> "int"]
Bool(b) == [n |-> IF b THEN 1 ELSE 0, how |-> "bool"]
Hex(b) == [bytes |-> b, how |-> "hex"]

Stripped(x) == [x EXCEPT !.pad = FALSE]

Names == [stem : STRING, num : Int, zero : BOOLEAN, pad : BOOLEAN, legal : BOOLEAN, long : BOOLEAN]

\* expect_name: the string without the blanks around it, made of legal characters.
Name(x) == Stripped(x)
NameOK(x) == x \in Names /\ x.legal

\* Mutant: i2c-01 is taken for a name of its own.
AnyNumber(x) == NameOK(x) /\ x.num >= 0

\* A numeric suffix without leading zeroes.
Canonical(x) == NameOK(x) /\ x.num >= 0 /\ ~x.zero

BusNameOK(transport, x) ==
  CASE transport = "i2c"  -> Canonical(x) /\ x.stem = "i2c-"
    [] transport = "spi"  -> Canonical(x) /\ x.stem = "spi"
    [] transport = "uart" -> NameOK(x)

PortNameOK(x) == Canonical(x) /\ x.stem \notin {"i2c-", ""}

\* expect_hex_int: an int or a text that int(value, 0) reads, never a bool.
NumberOK(x, low, high) ==
  x.how \in {"int", "text"} /\ x.n \in Int /\ low <= x.n /\ (high # Null => x.n <= high)
Number(x) == Plain(x.n)

BoolOK(x) == x.how = "bool"

\* normalize_bytes_literal
BytesOK(x) == x.how \in {"hex", "text"}
Bytes(x) == Hex(x.bytes)

\* Numbers with a range and a default, under fixed keys.
Field(low, high, default) == [low |-> low, high |-> high, default |-> Plain(default)]
FieldsOK(d, fields) ==
  \A k \in DOMAIN fields :
    NumberOK(Get(d, k, fields[k].default), fields[k].low, fields[k].high)
Fields(d, fields) == [k \in DOMAIN fields |-> Number(Get(d, k, fields[k].default))]

\* Booleans with a default, under fixed keys.
FlagsOK(d, flags) == \A k \in DOMAIN flags : BoolOK(Get(d, k, Bool(flags[k])))
Flags(d, flags) == [k \in DOMAIN flags |-> Get(d, k, Bool(flags[k]))]

-----------------------------------------------------------------------------
(* Mappings whose keys are data *)

\* target[key] = value: in place if the key is there, at the end if not.
Put(d, pair) ==
  IF \E i \in DOMAIN d : d[i][1] = pair[1]
  THEN [i \in DOMAIN d |-> IF d[i][1] = pair[1] THEN pair ELSE d[i]]
  ELSE Append(d, pair)

PutAll(d, pairs) ==
  LET upTo[i \in 0..Len(pairs)] == IF i = 0 THEN d ELSE Put(upTo[i - 1], pairs[i])
  IN  upTo[Len(pairs)]

\* Two spellings of a key become one entry: the value of the later one.
Dict(pairs) == PutAll(<<>>, pairs)

\* A register number is written in hexadecimal.
Register(x) == [n |-> x.n, how |-> "text"]
RegisterOK(x, size) == NumberOK(x, 0, size - 1)

Registers(pairs) ==
  Dict([i \in DOMAIN pairs |-> <<Register(pairs[i][1]), Number(pairs[i][2])>>])
RegistersOK(pairs, size) ==
  /\ IsList(pairs)
  /\ \A i \in DOMAIN pairs : RegisterOK(pairs[i][1], size) /\ NumberOK(pairs[i][2], 0, 255)

Effects(pairs) ==
  Dict([i \in DOMAIN pairs |-> <<Register(pairs[i][1]), Registers(pairs[i][2])>>])
EffectsOK(pairs, size) ==
  /\ IsList(pairs)
  /\ \A i \in DOMAIN pairs : RegisterOK(pairs[i][1], size) /\ RegistersOK(pairs[i][2], size)

Script(pairs) == Dict([i \in DOMAIN pairs |-> <<Bytes(pairs[i][1]), Bytes(pairs[i][2])>>])
ScriptOK(pairs) ==
  IsList(pairs) /\ \A i \in DOMAIN pairs : BytesOK(pairs[i][1]) /\ BytesOK(pairs[i][2])

-----------------------------------------------------------------------------
(* Faults, settings, workers *)

Fault(mode, remaining) == [mode |-> mode, remaining |-> remaining]

Errno(f) == Get(f, "errno", Plain(5))
HasErrno(f) == Get(f, "mode", "none") = "errno" \/ "errno" \in DOMAIN f
HasReply(f) == Get(f, "mode", "none") = "short-reply" \/ "reply_data" \in DOMAIN f

FaultsOK(f) ==
  /\ Get(f, "mode", "none") \in FaultModes
  /\ NumberOK(Get(f, "remaining", Plain(0)), 0, Null)
  /\ HasErrno(f) => NumberOK(Errno(f), 1, MaxErrno)
  /\ HasReply(f) => BytesOK(Get(f, "reply_data", Hex("")))

Faults(f) ==
  Fault(Get(f, "mode", "none"), Number(Get(f, "remaining", Plain(0))))
    ++ When(HasErrno(f), [errno |-> Number(Errno(f))])
    ++ When(HasReply(f), [reply_data |-> Bytes(Get(f, "reply_data", Hex("")))])

SpiFields ==
  [mode |-> Field(0, 3, 0), bits_per_word |-> Field(1, 32, 8),
   max_speed_hz |-> Field(1, Null, 500000)]
UartFields ==
  [baud_rate |-> Field(1, Null, 115200), data_bits |-> Field(5, 8, 8),
   stop_bits |-> Field(1, 2, 1)]
UartFlags == [xonxoff |-> FALSE, rtscts |-> FALSE]

SettingsOK(transport, s) ==
  CASE transport = "i2c"  -> TRUE
    [] transport = "spi"  -> FieldsOK(s, SpiFields)
    [] transport = "uart" -> /\ FieldsOK(s, UartFields) /\ FlagsOK(s, UartFlags)
                             /\ Get(s, "parity", "none") \in ParityModes

\* Keys the normalisation does not know, like a UART's cflag, are dropped.
Settings(transport, s) ==
  CASE transport = "i2c"  -> EmptyDict
    [] transport = "spi"  -> Fields(s, SpiFields)
    [] transport = "uart" -> Fields(s, UartFields) ++ Flags(s, UartFlags)
                               ++ [parity |-> Get(s, "parity", "none")]

WorkerFields ==
  [restart_limit |-> Field(0, 255, 3), restart_backoff_ms |-> Field(0, 60000, 250)]

Managed(backend) == Get(backend, "worker", None) # None

WorkerOK(w) == Get(w, "command", <<>>) # <<>> /\ FieldsOK(w, WorkerFields)
Worker(w) == Fields(w, WorkerFields) ++ [command |-> w.command]

-----------------------------------------------------------------------------
(* Backends *)

BankFields == [size |-> Field(1, FrameLimit, 256), pointer_width |-> Field(1, 2, 1)]
FlashFields ==
  [flash_status_register |-> Field(0, 255, 0), flash_write_busy_cycles |-> Field(0, 255, 0)]
BankFlags == [auto_increment |-> TRUE]
SpiFlags == [echo |-> FALSE]
PortFlags == [echo |-> TRUE, cts_follows_rts |-> FALSE, carrier_follows_dtr |-> FALSE]

\* The register tables of an I2C bank; every register lies inside the bank.
BankOK(b) ==
  /\ FieldsOK(b, BankFields) /\ FlagsOK(b, BankFlags)
  /\ LET size == Get(b, "size", Plain(256)).n
     IN  /\ RegistersOK(Get(b, "registers", <<>>), size)
         /\ IsList(Get(b, "clear_on_read", <<>>))
         /\ \A x \in ToSet(Get(b, "clear_on_read", <<>>)) : RegisterOK(x, size)
         /\ EffectsOK(Get(b, "write_effects", <<>>), size)

\* sorted(set(...)): the k-th register has k - 1 below it.
Sorted(regs) ==
  [k \in 1..Cardinality(regs) |->
     CHOOSE x \in regs : Cardinality({y \in regs : y.n < x.n}) = k - 1]
SortedRegisters(s) == Sorted({Register(x) : x \in ToSet(s)})

Bank(b) ==
  Fields(b, BankFields) ++ Flags(b, BankFlags) ++
    [registers     |-> Registers(Get(b, "registers", <<>>)),
     clear_on_read |-> SortedRegisters(Get(b, "clear_on_read", <<>>)),
     write_effects |-> Effects(Get(b, "write_effects", <<>>))]

HasFlash(b) == "flash_jedec_id" \in DOMAIN b

SpiScriptOK(b) ==
  /\ ScriptOK(Get(b, "responses", <<>>)) /\ ScriptOK(Get(b, "prefix_responses", <<>>))
  /\ BytesOK(Get(b, "default_response", Hex(""))) /\ FlagsOK(b, SpiFlags)
  /\ HasFlash(b) => BytesOK(b.flash_jedec_id) /\ FieldsOK(b, FlashFields)

SpiScript(b) ==
  Flags(b, SpiFlags) ++
    [responses        |-> Script(Get(b, "responses", <<>>)),
     prefix_responses |-> Script(Get(b, "prefix_responses", <<>>)),
     default_response |-> Bytes(Get(b, "default_response", Hex("")))]
    ++ When(HasFlash(b), [flash_jedec_id |-> Bytes(Get(b, "flash_jedec_id", Hex("")))]
                           ++ Fields(b, FlashFields))

\* Lines and modem signals are words; only binary responses are converted.
UartScriptOK(b) ==
  /\ IsList(Get(b, "line_responses", <<>>))
  /\ ScriptOK(Get(b, "binary_responses", <<>>)) /\ FlagsOK(b, PortFlags)
  /\ BytesOK(Get(b, "default_response", Hex("")))
  /\ IsList(Get(b, "control_defaults", <<>>))
  /\ \A i \in DOMAIN Get(b, "control_defaults", <<>>) : BoolOK(b.control_defaults[i][2])

UartScript(b) ==
  Flags(b, PortFlags) ++
    [line_responses   |-> Dict(Get(b, "line_responses", <<>>)),
     binary_responses |-> Script(Get(b, "binary_responses", <<>>)),
     default_response |-> Bytes(Get(b, "default_response", Hex(""))),
     control_defaults |-> Dict(Get(b, "control_defaults", <<>>))]

BackendOK(transport, b) ==
  \/ /\ Get(b, "kind", "") = "controller"
     /\ Managed(b) => WorkerOK(b.worker)
  \/ /\ Get(b, "kind", "") = "template"
     /\ Get(b, "template", "") \in TemplateKinds
     /\ CASE transport = "i2c"  -> BankOK(b)
          [] transport = "spi"  -> SpiScriptOK(b)
          [] transport = "uart" -> UartScriptOK(b)

Backend(transport, b) ==
  IF b.kind = "controller"
  THEN [kind |-> "controller"] ++ When(Managed(b), [worker |-> Worker(b.worker)])
  ELSE [kind |-> "template", template |-> b.template] ++
         CASE transport = "i2c"  -> Bank(b)
           [] transport = "spi"  -> SpiScript(b)
           [] transport = "uart" -> UartScript(b)

-----------------------------------------------------------------------------
(* Buses and devices *)

BusOK(item) ==
  /\ NameOK(item.id) /\ item.transport \in Transports
  /\ BusNameOK(item.transport, item.name)

Bus(item) ==
  [id |-> Name(item.id), transport |-> item.transport, name |-> Name(item.name),
   metadata |-> Get(item, "metadata", EmptyDict)]

BusesNamed(buses, id) == {b \in ToSet(buses) : b.id = id}
BusNamed(buses, id) == CHOOSE b \in BusesNamed(buses, id) : TRUE

\* spidevB.C, for a bus spiB and chip select C: one number stands for both.
SpiDevice(bus, cs) ==
  [stem |-> "spidev", num |-> 256 * bus.name.num + cs, zero |-> FALSE, pad |-> FALSE,
   legal |-> TRUE, long |-> FALSE]

PortName(item) == Get(item, "port_name", Get(item, "device_name", None))

\* The key that tells where a device sits, and what it denotes.
PlaceOK(item, bus) ==
  CASE item.transport = "i2c"  -> NumberOK(Get(item, "address", None), 0, 127)
    [] item.transport = "spi"  ->
         /\ NumberOK(Get(item, "chip_select", None), 0, 255)
         /\ LET node == SpiDevice(bus, item.chip_select.n)
            IN  Name(Get(item, "device_name", node)) = node
    [] item.transport = "uart" -> PortNameOK(PortName(item))

Place(item, bus) ==
  CASE item.transport = "i2c"  -> [address |-> Number(item.address)]
    [] item.transport = "spi"  -> [chip_select |-> Number(item.chip_select),
                                   device_name |-> SpiDevice(bus, item.chip_select.n)]
    [] item.transport = "uart" -> [port_name |-> Name(PortName(item))]

DeviceOK(item, buses) ==
  /\ NameOK(item.id) /\ NameOK(item.bus)
  /\ BusesNamed(buses, Name(item.bus)) # {}
  /\ item.transport \in Transports
  /\ item.transport = BusNamed(buses, Name(item.bus)).transport
  /\ BackendOK(item.transport, item.backend)
  /\ FaultsOK(Get(item, "faults", EmptyDict))
  /\ PlaceOK(item, BusNamed(buses, Name(item.bus)))
  /\ SettingsOK(item.transport, Get(item, "settings", EmptyDict))

Device(item, buses) ==
  [id |-> Name(item.id), bus |-> Name(item.bus), transport |-> item.transport,
   backend  |-> Backend(item.transport, item.backend),
   metadata |-> Get(item, "metadata", EmptyDict),
   faults   |-> Faults(Get(item, "faults", EmptyDict)),
   settings |-> Settings(item.transport, Get(item, "settings", EmptyDict))]
    ++ Place(item, BusNamed(buses, Name(item.bus)))

-----------------------------------------------------------------------------
(* Models *)

\* What must not be used twice: an address or chip select on its bus, a port name.
Location(d) ==
  CASE d.transport = "i2c" -> <<"i2c", d.bus, d.address>>
    [] d.transport = "spi" -> <<"spi", d.bus, d.chip_select>>
    [] d.transport = "uart" -> <<"uart", d.port_name>>

Buses(raw) == [i \in DOMAIN raw.buses |-> Bus(raw.buses[i])]
Devices(raw) == [i \in DOMAIN raw.devices |-> Device(raw.devices[i], Buses(raw))]

\* normalize_runtime_model_data
ModelOK(raw) ==
  LET bs == Buses(raw)
      ds == Devices(raw)
  IN  /\ \A i \in DOMAIN raw.buses : BusOK(raw.buses[i])
      /\ IsInjective([i \in DOMAIN bs |-> bs[i].id])
      /\ IsInjective([i \in DOMAIN bs |-> <<bs[i].transport, bs[i].name>>])
      /\ \A i \in DOMAIN raw.devices : DeviceOK(raw.devices[i], bs)
      /\ IsInjective([i \in DOMAIN ds |-> ds[i].id])
      /\ IsInjective([i \in DOMAIN ds |-> Location(ds[i])])

Model(raw) == [buses |-> Buses(raw), devices |-> Devices(raw)]

-----------------------------------------------------------------------------
(* Installing an accepted model *)

\* The node name and the location of DEVICE_ADD.
Node(d) ==
  CASE d.transport = "i2c"  -> d.id
    [] d.transport = "spi"  -> d.device_name
    [] d.transport = "uart" -> d.port_name
Spot(d) ==
  CASE d.transport = "i2c"  -> d.address.n
    [] d.transport = "spi"  -> d.chip_select.n
    [] d.transport = "uart" -> d.port_name.num

\* encode_c_string and struct.pack have room for the values.
Packs(d) ==
  /\ ~Node(d).long /\ Spot(d) < WordLimit
  /\ d.transport = "spi" => d.settings.max_speed_hz.n < WordLimit

\* The number of a bus as the kernel keeps it: adapter->nr is an int, bus_num an s16.
Half(transport) == IF transport = "spi" THEN ShortLimit ELSE WordLimit \div 2
Signed(n, half) == LET r == n % (2 * half) IN IF r < half THEN r ELSE r - 2 * half

BusNumber(b) == Signed(b.name.num, Half(b.transport))

\* nr[i], the number of the i-th adapter, is free among its kind.  A negative bus_num, or an
\* nr of -1, asks for the lowest free one; I2C refuses the other negative numbers.
KernelTakesBus(bs, nr, i) ==
  LET taken == {nr[j] : j \in {k \in 1..(i - 1) : bs[k].transport = bs[i].transport}}
      n == BusNumber(bs[i])
  IN  bs[i].transport # "uart" =>
        /\ bs[i].name.num < WordLimit
        /\ nr[i] \notin taken
        /\ IF n >= 0 THEN nr[i] = n
           ELSE /\ bs[i].transport = "i2c" => n = -1
                /\ 0..(nr[i] - 1) \subseteq taken

\* The numbers that can come up: the ones asked for and the lowest ones.
Numbers(bs) == {BusNumber(bs[i]) : i \in DOMAIN bs} \cup 0..Len(bs)

KernelTakesBuses(bs) ==
  \E nr \in [DOMAIN bs -> Numbers(bs)] : \A i \in DOMAIN bs : KernelTakesBus(bs, nr, i)

\* The kernel takes the i-th device after the ones before it.
KernelTakes(m, i) ==
  LET d == m.devices[i]
      Clash(e) == IF d.transport = "uart"
                  THEN e.transport = "uart" /\ e.port_name = d.port_name
                  ELSE e.bus = d.bus /\ Spot(e) = Spot(d)
  IN  /\ \A j \in 1..(i - 1) : ~Clash(m.devices[j])
      /\ d.transport = "spi" => /\ d.settings.max_speed_hz.n > 0
                                /\ d.settings.bits_per_word.n \in 1..32
                                /\ d.settings.mode.n \in 0..3
      /\ d.transport = "uart" => /\ d.port_name.stem \notin WideStems
                                 /\ d.port_name.num < PortLimit

Installs(m) ==
  /\ \A i \in DOMAIN m.buses : ~m.buses[i].name.long
  /\ KernelTakesBuses(m.buses)
  /\ \A i \in DOMAIN m.devices : Packs(m.devices[i]) /\ KernelTakes(m, i)

\* Accepted values the command structure, or the kernel, has no room for.
TooLarge(m) ==
  \/ \E b \in ToSet(m.buses) :
       b.name.long \/ (b.transport # "uart" /\ b.name.num >= Half(b.transport))
  \/ \E d \in ToSet(m.devices) :
       \/ ~Packs(d)
       \/ /\ d.transport = "uart"
          /\ d.port_name.num >= PortLimit \/ d.port_name.stem \in WideStems

=============================================================================

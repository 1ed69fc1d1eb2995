------------------------- MODULE DeviceConfigProofs -------------------------
(***************************************************************************)
(* Proofs about the devices' configuration, for any models, patches and    *)
(* termios requests and any number of workers: an accepted model is one    *)
(* the kernel takes, a fault hits as many requests as it was injected for, *)
(* the settings in use are the ones asked for last, what the daemon serves *)
(* or has saved can be installed again, and a restart gives it back.       *)
(***************************************************************************)
EXTENDS DeviceConfig, FiniteSetTheorems, SequenceTheorems, WellFoundedInduction, TLAPS

-----------------------------------------------------------------------------
(* Mappings and what a normalised device holds.                            *)

LEMMA Over ==
  /\ \A d, e : DOMAIN (d ++ e) = DOMAIN d \cup DOMAIN e
  /\ \A d, e : \A k \in DOMAIN d : (d ++ e)[k] = d[k]
  /\ \A d, e : \A k \in DOMAIN e : k \notin DOMAIN d => (d ++ e)[k] = e[k]
BY DEF ++

LEMMA DeviceHolds ==
  ASSUME NEW item, NEW bs, NEW d, d = Device(item, bs), item.transport \in Transports
  PROVE  /\ d.id = Name(item.id) /\ d.bus = Name(item.bus) /\ d.transport = item.transport
         /\ d.backend = Backend(item.transport, item.backend)
         /\ d.metadata = Get(item, "metadata", EmptyDict)
         /\ d.faults = Faults(Get(item, "faults", EmptyDict))
         /\ d.settings = Settings(item.transport, Get(item, "settings", EmptyDict))
         /\ item.transport = "i2c" => d.address = Number(item.address)
         /\ item.transport = "spi" =>
              /\ d.chip_select = Number(item.chip_select)
              /\ d.device_name = SpiDevice(BusNamed(bs, Name(item.bus)), item.chip_select.n)
         /\ item.transport = "uart" => d.port_name = Name(PortName(item))
         /\ d = [k \in DOMAIN d |-> d[k]]
         /\ DOMAIN d = {"id", "bus", "transport", "backend", "metadata", "faults", "settings"}
                         \cup DOMAIN Place(item, BusNamed(bs, Name(item.bus)))
<1>1. PICK c, e : /\ c = [id |-> Name(item.id), bus |-> Name(item.bus), transport |-> item.transport,
                          backend  |-> Backend(item.transport, item.backend),
                          metadata |-> Get(item, "metadata", EmptyDict),
                          faults   |-> Faults(Get(item, "faults", EmptyDict)),
                          settings |-> Settings(item.transport, Get(item, "settings", EmptyDict))]
                  /\ e = Place(item, BusNamed(bs, Name(item.bus)))
  OBVIOUS
<1>2. d = c ++ e
  BY <1>1 DEF Device
<1>3. DOMAIN c = {"id", "bus", "transport", "backend", "metadata", "faults", "settings"}
  BY <1>1
<1>4. \A k \in DOMAIN c : d[k] = c[k]
  BY <1>2, Over
<1>5. \A k \in DOMAIN e : k \notin DOMAIN c => d[k] = e[k]
  BY <1>2, Over
<1>6. DOMAIN d = DOMAIN c \cup DOMAIN e /\ d = [k \in DOMAIN d |-> d[k]]
  BY <1>2 DEF ++
<1>7. item.transport = "i2c" => d.address = Number(item.address)
  <2> SUFFICES ASSUME item.transport = "i2c" PROVE d.address = Number(item.address)
    OBVIOUS
  <2>1. e = [address |-> Number(item.address)]
    BY <1>1 DEF Place
  <2> QED BY <1>3, <1>5, <2>1
<1>8. item.transport = "spi" =>
              /\ d.chip_select = Number(item.chip_select)
              /\ d.device_name = SpiDevice(BusNamed(bs, Name(item.bus)), item.chip_select.n)
  <2> SUFFICES ASSUME item.transport = "spi"
               PROVE  /\ d.chip_select = Number(item.chip_select)
                      /\ d.device_name = SpiDevice(BusNamed(bs, Name(item.bus)), item.chip_select.n)
    OBVIOUS
  <2>1. e = [chip_select |-> Number(item.chip_select),
             device_name |-> SpiDevice(BusNamed(bs, Name(item.bus)), item.chip_select.n)]
    BY <1>1 DEF Place
  <2> QED BY <1>3, <1>5, <2>1
<1>9. item.transport = "uart" => d.port_name = Name(PortName(item))
  <2> SUFFICES ASSUME item.transport = "uart" PROVE d.port_name = Name(PortName(item))
    OBVIOUS
  <2>1. e = [port_name |-> Name(PortName(item))]
    BY <1>1 DEF Place
  <2> QED BY <1>3, <1>5, <2>1
<1>10. /\ d.id = Name(item.id) /\ d.bus = Name(item.bus) /\ d.transport = item.transport
       /\ d.backend = Backend(item.transport, item.backend)
       /\ d.metadata = Get(item, "metadata", EmptyDict)
       /\ d.faults = Faults(Get(item, "faults", EmptyDict))
       /\ d.settings = Settings(item.transport, Get(item, "settings", EmptyDict))
  BY <1>1, <1>3, <1>4
<1> QED BY <1>1, <1>3, <1>6, <1>7, <1>8, <1>9, <1>10

LEMMA DeviceFields ==
  ASSUME NEW item, NEW bs, item.transport \in Transports
  PROVE  Device(item, bs).bus = Name(item.bus) /\ Device(item, bs).transport = item.transport
<1>1. PICK d : d = Device(item, bs)
  OBVIOUS
<1>2. d.bus = Name(item.bus)
  BY <1>1, DeviceHolds, Zenon
<1>3. d.transport = item.transport
  BY <1>1, DeviceHolds, Zenon
<1> QED BY <1>1, <1>2, <1>3, Zenon

LEMMA I2cDevice ==
  ASSUME NEW item, NEW bs, item.transport = "i2c"
  PROVE  Device(item, bs).address = Number(item.address)
<1>1. item.transport \in Transports
  BY DEF Transports
<1> QED BY <1>1, DeviceHolds, Zenon

LEMMA SpiDeviceFields ==
  ASSUME NEW item, NEW bs, item.transport = "spi"
  PROVE  Device(item, bs).chip_select = Number(item.chip_select)
<1>1. item.transport \in Transports
  BY DEF Transports
<1> QED BY <1>1, DeviceHolds, Zenon

-----------------------------------------------------------------------------
(* An accepted model can be installed, unless a value is too large.        *)

\* Two stripped names that agree in stem and number, are canonical and short are the same.
LEMMA SameName ==
  ASSUME NEW x, NEW y, Canonical(x), Canonical(y), x.stem = y.stem,
         Name(x).num = Name(y).num, ~Name(x).long, ~Name(y).long
  PROVE  Name(x) = Name(y)
<1>1. x \in Names /\ y \in Names /\ x.legal /\ y.legal /\ ~x.zero /\ ~y.zero
  BY DEF Canonical, NameOK
<1>2. \A z \in Names : Name(z) = [stem |-> z.stem, num |-> z.num, zero |-> z.zero, pad |-> FALSE,
                                  legal |-> z.legal, long |-> z.long]
  <2> SUFFICES ASSUME NEW z \in Names
               PROVE  Name(z) = [stem |-> z.stem, num |-> z.num, zero |-> z.zero, pad |-> FALSE,
                                 legal |-> z.legal, long |-> z.long]
    OBVIOUS
  <2>1. z = [stem |-> z.stem, num |-> z.num, zero |-> z.zero, pad |-> z.pad,
             legal |-> z.legal, long |-> z.long]
    BY DEF Names
  <2>2. PICK y1 : y1 = Name(z)
    OBVIOUS
  <2>3. y1 = [z EXCEPT !.pad = FALSE]
    BY <2>2 DEF Name, Stripped
  <2> QED BY <2>1, <2>2, <2>3
<1>3. x.num = y.num /\ ~x.long /\ ~y.long
  BY <1>1, <1>2
<1>4. x.zero = y.zero /\ x.legal = y.legal /\ x.long = y.long
  BY <1>1, <1>3 DEF Names
<1> QED BY <1>1, <1>2, <1>3, <1>4

LEMMA NameHolds ==
  ASSUME NEW x \in Names
  PROVE  /\ Name(x) \in Names /\ Name(x).stem = x.stem /\ Name(x).num = x.num /\ Name(x).num \in Int
         /\ Name(x).long = x.long /\ Name(x).zero = x.zero /\ Name(x).legal = x.legal
BY DEF Name, Stripped, Names

\* A number that fits is kept as it is.
LEMMA SignedFits ==
  ASSUME NEW t \in Transports, NEW n \in Nat, n < Half(t)
  PROVE  Signed(n, Half(t)) = n /\ n < WordLimit
<1>1. PICK h : h = Half(t)
  OBVIOUS
<1>2. h \in Nat /\ n < h /\ h <= WordLimit /\ WordLimit \in Nat
  <2>1. CASE t = "spi"
    BY <1>1, <2>1, LimitsAssumption DEF Half
  <2>2. CASE t # "spi"
    <3>1. h = WordLimit \div 2
      BY <1>1, <2>2 DEF Half
    <3> QED BY <1>1, <3>1, LimitsAssumption
  <2> QED BY <2>1, <2>2
<1>3. n % (2 * h) = n
  BY <1>2
<1>4. Signed(n, h) = n
  BY <1>2, <1>3 DEF Signed
<1> QED BY <1>1, <1>2, <1>4

\* The buses of an accepted model have distinct numbers.
LEMMA BusesTaken ==
  ASSUME NEW raw, IsList(raw.buses), ModelOK(raw), ~TooLarge(Model(raw)), NEW bs, bs = Model(raw).buses
  PROVE  (\A i \in DOMAIN bs : ~bs[i].name.long) /\ KernelTakesBuses(bs)
<1>1. bs = Buses(raw) /\ DOMAIN bs = DOMAIN raw.buses
  BY DEF Model, Buses
<1>3. \A k \in DOMAIN bs : bs[k] = Bus(raw.buses[k]) /\ BusOK(raw.buses[k])
  BY <1>1 DEF Buses, ModelOK
<1>2. \A x : Bus(x).name = Name(x.name) /\ Bus(x).transport = x.transport
  BY DEF Bus
<1>4. \A k \in DOMAIN bs : bs[k].name = Name(raw.buses[k].name) /\ bs[k].transport = raw.buses[k].transport
  BY <1>2, <1>3, Zenon
<1>5. \A k \in DOMAIN bs : bs[k] \in ToSet(bs)
  BY DEF ToSet
<1>6. \A k \in DOMAIN bs : ~bs[k].name.long
                             /\ (bs[k].transport # "uart" => ~(bs[k].name.num >= Half(bs[k].transport)))
  BY <1>5 DEF TooLarge
<1>7. \A k \in DOMAIN bs : raw.buses[k].transport \in Transports /\ BusNameOK(raw.buses[k].transport, raw.buses[k].name)
  BY <1>3 DEF BusOK
<1>8. \A k \in DOMAIN bs : raw.buses[k].transport # "uart" =>
         Canonical(raw.buses[k].name)
           /\ raw.buses[k].name.stem = IF raw.buses[k].transport = "i2c" THEN "i2c-" ELSE "spi"
  BY <1>7 DEF BusNameOK, Transports
<1>9. ASSUME NEW k \in DOMAIN bs, bs[k].transport # "uart"
      PROVE  bs[k].name.num \in Nat /\ bs[k].name.num < WordLimit /\ BusNumber(bs[k]) = bs[k].name.num
  <2>1. raw.buses[k].name \in Names /\ raw.buses[k].name.num >= 0
    BY <1>4, <1>8, <1>9 DEF Canonical, NameOK
  <2>2. PICK n, t : n = bs[k].name.num /\ t = bs[k].transport
    OBVIOUS
  <2>3. n \in Nat /\ t \in Transports
    <3>1. n = raw.buses[k].name.num /\ n \in Int
      BY <1>4, <2>1, <2>2, NameHolds
    <3> QED BY <1>4, <1>7, <2>1, <2>2, <3>1
  <2>4. Half(t) \in Int /\ ~(n >= Half(t))
    BY <1>6, <1>9, <2>2, LimitsAssumption DEF Half
  <2>5. n < Half(t)
    BY <2>3, <2>4
  <2>6. Signed(n, Half(t)) = n /\ n < WordLimit
    BY <2>3, <2>5, SignedFits
  <2> QED BY <2>2, <2>3, <2>6 DEF BusNumber
<1>10. ASSUME NEW i \in DOMAIN bs, NEW j \in 1..(i - 1), bs[i].transport # "uart",
              bs[i].transport = bs[j].transport, bs[i].name.num = bs[j].name.num
       PROVE  FALSE
  <2>1. i \in Nat /\ j \in DOMAIN bs /\ i \in DOMAIN bs /\ j # i
    BY <1>1 DEF IsList
  <2>2. bs[i].name = bs[j].name
    BY <1>4, <1>6, <1>8, <1>10, <2>1, SameName
  <2>3. IsInjective([k \in DOMAIN bs |-> <<bs[k].transport, bs[k].name>>])
    BY <1>1 DEF ModelOK
  <2> QED BY <1>10, <2>1, <2>2, <2>3 DEF IsInjective
<1>11. PICK nr : nr = [i \in DOMAIN bs |-> BusNumber(bs[i])]
  OBVIOUS
<1>12. nr \in [DOMAIN bs -> Numbers(bs)]
  BY <1>11 DEF Numbers
<1>13. ASSUME NEW i \in DOMAIN bs
       PROVE  KernelTakesBus(bs, nr, i)
  <2> SUFFICES ASSUME bs[i].transport # "uart" PROVE KernelTakesBus(bs, nr, i)
    BY DEF KernelTakesBus
  <2>1. nr[i] = bs[i].name.num /\ nr[i] = BusNumber(bs[i]) /\ nr[i] \in Nat /\ bs[i].name.num < WordLimit
    BY <1>9, <1>11
  <2>2. ASSUME NEW j \in 1..(i - 1), bs[j].transport = bs[i].transport
        PROVE  nr[j] # nr[i]
    <3>1. j \in DOMAIN bs
      BY <1>1 DEF IsList
    <3>2. nr[j] = bs[j].name.num
      BY <1>9, <1>11, <2>2, <3>1
    <3> QED BY <1>10, <2>1, <2>2, <3>2
  <2>3. nr[i] \notin {nr[j] : j \in {k \in 1..(i - 1) : bs[k].transport = bs[i].transport}}
    BY <2>2
  <2>4. BusNumber(bs[i]) >= 0
    BY <2>1
  <2> QED BY <2>1, <2>3, <2>4 DEF KernelTakesBus
<1> QED BY <1>6, <1>12, <1>13 DEF KernelTakesBuses

\* A number that was accepted is an integer within its bounds.
LEMMA NumberHolds ==
  ASSUME NEW x, NEW low \in Int, NEW high, NumberOK(x, low, high)
  PROVE  /\ x.n \in Int /\ low <= x.n /\ Number(x).n = x.n
         /\ high \in Int => x.n <= high
BY LimitsAssumption DEF NumberOK, Number, Plain

\* The settings of an accepted SPI device are in the kernel's ranges.
LEMMA SpiInRange ==
  ASSUME NEW s, SettingsOK("spi", s), NEW r, r = Settings("spi", s)
  PROVE  /\ r.max_speed_hz.n \in Int /\ r.max_speed_hz.n > 0
         /\ r.bits_per_word.n \in 1..32 /\ r.mode.n \in 0..3
<1>1. FieldsOK(s, SpiFields) /\ r = Fields(s, SpiFields)
  BY DEF SettingsOK, Settings
<1>2. DOMAIN SpiFields = {"mode", "bits_per_word", "max_speed_hz"}
  BY DEF SpiFields
<1>3. /\ SpiFields["mode"].low = 0 /\ SpiFields["mode"].high = 3
      /\ SpiFields["bits_per_word"].low = 1 /\ SpiFields["bits_per_word"].high = 32
      /\ SpiFields["max_speed_hz"].low = 1
  BY DEF SpiFields, Field
<1>4. \A k \in DOMAIN SpiFields :
        /\ NumberOK(Get(s, k, SpiFields[k].default), SpiFields[k].low, SpiFields[k].high)
        /\ r[k] = Number(Get(s, k, SpiFields[k].default))
  BY <1>1 DEF FieldsOK, Fields
<1>5. PICK a, b, c : /\ a = Get(s, "mode", SpiFields["mode"].default)
                     /\ b = Get(s, "bits_per_word", SpiFields["bits_per_word"].default)
                     /\ c = Get(s, "max_speed_hz", SpiFields["max_speed_hz"].default)
  OBVIOUS
<1>6. NumberOK(a, 0, 3) /\ NumberOK(b, 1, 32) /\ NumberOK(c, 1, SpiFields["max_speed_hz"].high)
  BY <1>2, <1>3, <1>4, <1>5
<1>7. r.mode = Number(a) /\ r.bits_per_word = Number(b) /\ r.max_speed_hz = Number(c)
  BY <1>2, <1>4, <1>5
<1>8. a.n \in 0..3 /\ Number(a).n = a.n
  BY <1>6, NumberHolds
<1>9. b.n \in 1..32 /\ Number(b).n = b.n
  BY <1>6, NumberHolds
<1>10. c.n \in Int /\ 1 <= c.n /\ Number(c).n = c.n
  BY <1>6, NumberHolds
<1> QED BY <1>7, <1>8, <1>9, <1>10

LEMMA SpotHolds ==
  ASSUME NEW z, NEW bs, NEW g, DeviceOK(z, bs), g = Device(z, bs), g.transport # "uart"
  PROVE  /\ g.transport = BusNamed(bs, g.bus).transport
         /\ \/ g.transport = "i2c" /\ g.address = Plain(Spot(g))
            \/ g.transport = "spi" /\ g.chip_select = Plain(Spot(g))
<1>1. z.transport \in Transports /\ z.transport = BusNamed(bs, Name(z.bus)).transport
  BY DEF DeviceOK
<1>2. /\ g.transport = z.transport /\ g.bus = Name(z.bus)
      /\ z.transport = "i2c" => g.address = Number(z.address)
      /\ z.transport = "spi" => g.chip_select = Number(z.chip_select)
  BY <1>1, DeviceFields, I2cDevice, SpiDeviceFields
<1>3. CASE z.transport = "i2c"
  <2>1. g.transport = "i2c" /\ g.address = Plain(z.address.n)
    BY <1>2, <1>3 DEF Number
  <2>2. Spot(g) = z.address.n
    BY <2>1 DEF Spot, Plain
  <2> QED BY <1>1, <1>2, <2>1, <2>2
<1>4. CASE z.transport = "spi"
  <2>1. g.transport = "spi" /\ g.chip_select = Plain(z.chip_select.n)
    BY <1>2, <1>4 DEF Number
  <2>2. Spot(g) = z.chip_select.n
    BY <2>1 DEF Spot, Plain
  <2> QED BY <1>1, <1>2, <2>1, <2>2
<1> QED BY <1>1, <1>2, <1>3, <1>4 DEF Transports

\* Two devices on one bus at one spot have the same transport and location.
LEMMA SameSpot ==
  ASSUME NEW bs, NEW x, NEW y, DeviceOK(x, bs), DeviceOK(y, bs),
         NEW d, NEW e, d = Device(x, bs), e = Device(y, bs), d.transport # "uart",
         e.bus = d.bus, Spot(e) = Spot(d)
  PROVE  Location(e) = Location(d)
<1>1. d.transport = BusNamed(bs, d.bus).transport
  BY SpotHolds, Zenon
<1>2. \/ d.transport = "i2c" /\ d.address = Plain(Spot(d))
      \/ d.transport = "spi" /\ d.chip_select = Plain(Spot(d))
  BY SpotHolds, Zenon
<1>3. y.transport \in Transports /\ y.transport = BusNamed(bs, Name(y.bus)).transport
  BY DEF DeviceOK
<1>4. e.transport = y.transport /\ e.bus = Name(y.bus)
  BY <1>3, DeviceFields, Zenon
<1>5. e.transport = d.transport
  BY <1>1, <1>3, <1>4
<1>6. \/ e.transport = "i2c" /\ e.address = Plain(Spot(e))
      \/ e.transport = "spi" /\ e.chip_select = Plain(Spot(e))
  <2>1. e.transport # "uart"
    BY <1>5
  <2> QED BY <2>1, SpotHolds, Zenon
<1>7. CASE d.transport = "i2c"
  <2>1. d.address = e.address /\ e.transport = "i2c"
    BY <1>2, <1>5, <1>6, <1>7
  <2> QED BY <1>7, <2>1 DEF Location
<1>8. CASE d.transport = "spi"
  <2>1. d.chip_select = e.chip_select /\ e.transport = "spi"
    BY <1>2, <1>5, <1>6, <1>8
  <2> QED BY <1>8, <2>1 DEF Location
<1> QED BY <1>2, <1>7, <1>8

\* No two devices of an accepted model meet in the kernel.
LEMMA DevicesTaken ==
  ASSUME NEW raw, IsList(raw.devices), ModelOK(raw), ~TooLarge(Model(raw)),
         NEW i \in DOMAIN raw.devices
  PROVE  Packs(Model(raw).devices[i]) /\ KernelTakes(Model(raw), i)
<1>1. PICK bs, ds : bs = Buses(raw) /\ ds = Devices(raw)
  OBVIOUS
<1>2. Model(raw).devices = ds /\ DOMAIN ds = DOMAIN raw.devices
  BY <1>1 DEF Model, Devices
<1>3. \A k \in DOMAIN ds : ds[k] = Device(raw.devices[k], bs) /\ DeviceOK(raw.devices[k], bs)
  BY <1>1 DEF Devices, ModelOK
<1>4. \A k \in DOMAIN ds : ds[k] \in ToSet(ds)
  BY DEF ToSet
<1>5. \A k \in DOMAIN ds :
        Packs(ds[k]) /\ (ds[k].transport = "uart" =>
                           ~(ds[k].port_name.num >= PortLimit) /\ ds[k].port_name.stem \notin WideStems)
  BY <1>2, <1>4 DEF TooLarge
<1>6. IsInjective([k \in DOMAIN ds |-> Location(ds[k])])
  BY <1>1 DEF ModelOK
<1>7. PICK d, x : d = ds[i] /\ x = raw.devices[i]
  OBVIOUS
<1>8. d = Device(x, bs) /\ DeviceOK(x, bs) /\ x.transport \in Transports
  BY <1>2, <1>3, <1>7 DEF DeviceOK
<1>9. d.transport = x.transport
  BY <1>8, DeviceHolds
<1>10. ASSUME NEW j \in 1..(i - 1)
       PROVE  ~(IF d.transport = "uart"
                THEN ds[j].transport = "uart" /\ ds[j].port_name = d.port_name
                ELSE ds[j].bus = d.bus /\ Spot(ds[j]) = Spot(d))
  <2>1. i \in Nat /\ j \in DOMAIN ds /\ i \in DOMAIN ds /\ j # i
    BY <1>2 DEF IsList
  <2>2. Location(ds[j]) # Location(d)
    BY <1>6, <1>7, <2>1 DEF IsInjective
  <2>3. CASE d.transport = "uart"
    BY <2>2, <2>3 DEF Location
  <2>4. CASE d.transport # "uart"
    <3>1. ds[j] = Device(raw.devices[j], bs) /\ DeviceOK(raw.devices[j], bs)
      BY <1>3, <2>1
    <3>2. ~(ds[j].bus = d.bus /\ Spot(ds[j]) = Spot(d))
      BY <1>8, <2>2, <2>4, <3>1, SameSpot
    <3> QED BY <2>4, <3>2
  <2> QED BY <2>3, <2>4
<1>11. ASSUME d.transport = "spi"
       PROVE  /\ d.settings.max_speed_hz.n > 0 /\ d.settings.bits_per_word.n \in 1..32
              /\ d.settings.mode.n \in 0..3
  <2>1. PICK s : s = Get(x, "settings", EmptyDict)
    OBVIOUS
  <2>2. x.transport = "spi"
    BY <1>9, <1>11
  <2>3. d.settings = Settings("spi", s)
    BY <1>8, <2>1, <2>2, DeviceHolds
  <2>4. SettingsOK("spi", s)
    BY <1>8, <2>1, <2>2 DEF DeviceOK
  <2> QED BY <2>3, <2>4, SpiInRange
<1>12. ASSUME d.transport = "uart"
       PROVE  d.port_name.stem \notin WideStems /\ d.port_name.num < PortLimit
  <2>1. x.transport = "uart"
    BY <1>9, <1>12
  <2>2. d.port_name = Name(PortName(x))
    BY <1>8, <2>1, DeviceHolds
  <2>3. PlaceOK(x, BusNamed(bs, Name(x.bus)))
    BY <1>8 DEF DeviceOK
  <2>4. PortName(x) \in Names
    BY <2>1, <2>3 DEF PlaceOK, PortNameOK, Canonical, NameOK
  <2>5. d.port_name.num \in Int
    BY <2>2, <2>4, NameHolds
  <2> QED BY <1>2, <1>5, <1>7, <1>12, <2>5, LimitsAssumption
<1>13. KernelTakes(Model(raw), i)
  BY <1>2, <1>7, <1>10, <1>11, <1>12, Zenon DEF KernelTakes
<1> QED BY <1>2, <1>5, <1>13

\* What normalize_runtime_model_data accepts the kernel takes, but for a value that is too
\* large: for its command structure, the type of its bus number, its port table or the field
\* for the base name of a tty.
THEOREM AcceptedModelInstalls ==
  ASSUME NEW raw, IsList(raw.buses), IsList(raw.devices), ModelOK(raw)
  PROVE  Installs(Model(raw)) \/ TooLarge(Model(raw))
<1> SUFFICES ASSUME ~TooLarge(Model(raw)) PROVE Installs(Model(raw))
  OBVIOUS
<1>1. DOMAIN Model(raw).buses = DOMAIN raw.buses /\ DOMAIN Model(raw).devices = DOMAIN raw.devices
  BY DEF Model, Buses, Devices
<1>2. PICK bs : bs = Model(raw).buses
  OBVIOUS
<1>3. (\A i \in DOMAIN bs : ~bs[i].name.long) /\ KernelTakesBuses(bs)
  BY <1>2, BusesTaken
<1> QED BY <1>1, <1>2, <1>3, DevicesTaken DEF Installs

-----------------------------------------------------------------------------
(* The specification: collided, the only thing AcceptedInstalls is about.  *)

\* No accepted model whose values fit what the kernel keeps them in is refused by the kernel
\* in any behaviour.
THEOREM AcceptedAlwaysInstalls == Spec => []AcceptedInstalls
<1>1. Init => AcceptedInstalls
  BY DEF Init, AcceptedInstalls
<1>2. AcceptedInstalls /\ [Next]_vars => AcceptedInstalls'
  <2> SUFFICES ASSUME ~collided, [Next]_vars PROVE ~collided'
    BY DEF AcceptedInstalls
  <2>1. ASSUME NEW m \in Accepted, Apply(m) PROVE ~collided'
    <3>1. PICK raw \in RawModels : ModelOK(raw) /\ m = Model(raw)
      BY DEF Accepted
    <3>2. Installs(m) \/ TooLarge(m)
      BY <3>1, AcceptedModelInstalls, RawAssumption
    <3> QED BY <2>1, <3>2, Zenon DEF Apply
  <2>2. CASE Resync
    BY <2>2, Zenon DEF Resync
  <2>3. ASSUME NEW i \in DOMAIN devices, NEW patch \in Patches, UpdateBegin(i, patch) PROVE ~collided'
    BY <2>3, Zenon DEF UpdateBegin
  <2>4. CASE UpdateEnd
    BY <2>4, Zenon DEF UpdateEnd
  <2>5. ASSUME NEW i \in DOMAIN devices, NEW b \in Backends, Attach(i, b) PROVE ~collided'
    BY <2>5, Zenon DEF Attach, SetAttached
  <2>6. ASSUME NEW i \in DOMAIN devices, Detach(i) PROVE ~collided'
    BY <2>6, Zenon DEF Detach, SetAttached
  <2>7. ASSUME NEW w \in Workers, NEW i \in DOMAIN devices, NEW k \in {"transfer", "config"}, Take(w, i, k)
        PROVE  ~collided'
    BY <2>7, Zenon DEF Take
  <2>8. ASSUME NEW w \in Workers, Acquire(w) \/ ReadFault(w) PROVE ~collided'
    BY <2>8, Zenon DEF Acquire, ReadFault, Config
  <2>9. ASSUME NEW w \in Workers, WorkerSaves(w) \/ MeetFault(w) \/ CountFault(w) PROVE ~collided'
    BY <2>9, Zenon DEF WorkerSaves, MeetFault, CountFault
  <2>10. ASSUME NEW w \in Workers, NEW t \in Termios, Configure(w, t) PROVE ~collided'
    BY <2>10, Zenon DEF Configure
  <2>11. CASE BridgeFails
    BY <2>11, Zenon DEF BridgeFails
  <2>12. CASE Restart
    BY <2>12, Zenon DEF Restart
  <2>13. CASE UNCHANGED vars
    BY <2>13, Zenon DEF vars
  <2> QED BY <2>1, <2>2, <2>3, <2>4, <2>5, <2>6, <2>7, <2>8, <2>9, <2>10, <2>11, <2>12, <2>13, Zenon DEF Next
<1> QED BY <1>1, <1>2, PTL DEF Spec

-----------------------------------------------------------------------------
(* Settings: normalising twice changes nothing, a patch may be applied to  *)
(* the settings before or after they are normalised.                       *)

LEMMA GetOver ==
  \A p, s, k, v : Get(p ++ s, k, v) = IF k \in DOMAIN p THEN p[k] ELSE Get(s, k, v)
BY DEF ++, Get

LEMMA DictNotNone == EmptyDict # None
<1>1. DOMAIN EmptyDict = {} /\ DOMAIN None = {"how"}
  BY DEF EmptyDict, None
<1> QED BY <1>1

LEMMA NumberTwice == \A x : Number(Number(x)) = Number(x)
BY DEF Number, Plain

LEMMA FieldsPatch ==
  ASSUME NEW fields, NEW p, NEW s, NEW r, \A k \in DOMAIN fields : k \in DOMAIN r /\ r[k] = Fields(s, fields)[k]
  PROVE  Fields(p ++ r, fields) = Fields(p ++ s, fields)
<1>1. ASSUME NEW k \in DOMAIN fields
      PROVE  Number(Get(p ++ r, k, fields[k].default)) = Number(Get(p ++ s, k, fields[k].default))
  <2>1. CASE k \in DOMAIN p
    <3>1. Get(p ++ r, k, fields[k].default) = p[k] /\ Get(p ++ s, k, fields[k].default) = p[k]
      BY <2>1, GetOver
    <3> QED BY <3>1
  <2>2. CASE k \notin DOMAIN p
    <3>1. /\ Get(p ++ r, k, fields[k].default) = Get(r, k, fields[k].default)
          /\ Get(p ++ s, k, fields[k].default) = Get(s, k, fields[k].default)
      BY <2>2, GetOver
    <3>2. Get(r, k, fields[k].default) = r[k]
      BY DEF Get
    <3>3. r[k] = Number(Get(s, k, fields[k].default))
      BY DEF Fields
    <3> QED BY <3>1, <3>2, <3>3, NumberTwice
  <2> QED BY <2>1, <2>2
<1> QED BY <1>1 DEF Fields

LEMMA FlagsPatch ==
  ASSUME NEW flags, NEW p, NEW s, NEW r, \A k \in DOMAIN flags : k \in DOMAIN r /\ r[k] = Flags(s, flags)[k]
  PROVE  Flags(p ++ r, flags) = Flags(p ++ s, flags)
<1>1. ASSUME NEW k \in DOMAIN flags
      PROVE  Get(p ++ r, k, Bool(flags[k])) = Get(p ++ s, k, Bool(flags[k]))
  <2>1. Get(r, k, Bool(flags[k])) = r[k]
    BY DEF Get
  <2>2. r[k] = Get(s, k, Bool(flags[k]))
    BY DEF Flags
  <2> QED BY <2>1, <2>2, GetOver
<1> QED BY <1>1 DEF Flags

LEMMA UartSettings ==
  ASSUME NEW s, NEW r, r = Settings("uart", s)
  PROVE  /\ \A k \in DOMAIN UartFields : k \in DOMAIN r /\ r[k] = Fields(s, UartFields)[k]
         /\ \A k \in DOMAIN UartFlags : k \in DOMAIN r /\ r[k] = Flags(s, UartFlags)[k]
         /\ "parity" \in DOMAIN r /\ r.parity = Get(s, "parity", "none")
<1>1. PICK f, g, h : /\ f = Fields(s, UartFields) /\ g = Flags(s, UartFlags)
                     /\ h = [parity |-> Get(s, "parity", "none")]
  OBVIOUS
<1>2. r = f ++ g ++ h
  BY <1>1 DEF Settings
<1>3. DOMAIN f = {"baud_rate", "data_bits", "stop_bits"} /\ DOMAIN UartFields = DOMAIN f
  BY <1>1 DEF Fields, UartFields
<1>4. DOMAIN g = {"xonxoff", "rtscts"} /\ DOMAIN UartFlags = DOMAIN g
  BY <1>1 DEF Flags, UartFlags
<1>5. DOMAIN h = {"parity"} /\ h.parity = Get(s, "parity", "none")
  BY <1>1
<1>6. PICK fg : fg = f ++ g
  OBVIOUS
<1>7. /\ DOMAIN fg = DOMAIN f \cup DOMAIN g /\ \A k \in DOMAIN f : fg[k] = f[k]
      /\ \A k \in DOMAIN g : k \notin DOMAIN f => fg[k] = g[k]
  <2>1. fg = [k \in DOMAIN f \cup DOMAIN g |-> IF k \in DOMAIN f THEN f[k] ELSE g[k]]
    BY <1>6 DEF ++
  <2> QED BY <2>1
<1>8. /\ DOMAIN r = DOMAIN fg \cup DOMAIN h /\ \A k \in DOMAIN fg : r[k] = fg[k]
      /\ \A k \in DOMAIN h : k \notin DOMAIN fg => r[k] = h[k]
  <2>1. r = fg ++ h
    BY <1>2, <1>6
  <2>2. r = [k \in DOMAIN fg \cup DOMAIN h |-> IF k \in DOMAIN fg THEN fg[k] ELSE h[k]]
    BY <2>1 DEF ++
  <2> QED BY <2>2
<1>9. \A k \in DOMAIN UartFields : k \in DOMAIN r /\ r[k] = f[k]
  BY <1>3, <1>7, <1>8
<1>10. \A k \in DOMAIN UartFlags : k \in DOMAIN r /\ r[k] = g[k]
  BY <1>3, <1>4, <1>7, <1>8
<1>11. "parity" \in DOMAIN r /\ r.parity = h.parity
  BY <1>3, <1>4, <1>5, <1>7, <1>8
<1> QED BY <1>1, <1>5, <1>9, <1>10, <1>11

LEMMA SettingsPatch ==
  ASSUME NEW t \in Transports, NEW p, NEW s
  PROVE  Settings(t, p ++ Settings(t, s)) = Settings(t, p ++ s)
<1>1. CASE t = "i2c"
  BY <1>1 DEF Settings
<1>2. CASE t = "spi"
  <2>1. PICK r : r = Settings("spi", s)
    OBVIOUS
  <2>2. r = Fields(s, SpiFields)
    BY <2>1 DEF Settings
  <2>3. \A k \in DOMAIN SpiFields : k \in DOMAIN r /\ r[k] = Fields(s, SpiFields)[k]
    BY <2>2 DEF Fields
  <2>4. Fields(p ++ r, SpiFields) = Fields(p ++ s, SpiFields)
    BY <2>3, FieldsPatch, Zenon
  <2>5. \A x : Settings("spi", x) = Fields(x, SpiFields)
    BY DEF Settings
  <2> QED BY <1>2, <2>1, <2>4, <2>5, Zenon
<1>3. CASE t = "uart"
  <2>1. PICK r : r = Settings("uart", s)
    OBVIOUS
  <2>2. Fields(p ++ r, UartFields) = Fields(p ++ s, UartFields)
    <3>1. \A k \in DOMAIN UartFields : k \in DOMAIN r /\ r[k] = Fields(s, UartFields)[k]
      BY <2>1, UartSettings, Zenon
    <3> QED BY <3>1, FieldsPatch, Zenon
  <2>3. Flags(p ++ r, UartFlags) = Flags(p ++ s, UartFlags)
    <3>1. \A k \in DOMAIN UartFlags : k \in DOMAIN r /\ r[k] = Flags(s, UartFlags)[k]
      BY <2>1, UartSettings, Zenon
    <3> QED BY <3>1, FlagsPatch, Zenon
  <2>4. "parity" \in DOMAIN r /\ r.parity = Get(s, "parity", "none")
    BY <2>1, UartSettings, Zenon
  <2>5. Get(r, "parity", "none") = Get(s, "parity", "none")
    BY <2>4 DEF Get
  <2>6. Get(p ++ r, "parity", "none") = Get(p ++ s, "parity", "none")
    BY <2>5, GetOver
  <2>7. \A x : Settings("uart", x) = Fields(x, UartFields) ++ Flags(x, UartFlags) ++ [parity |-> Get(x, "parity", "none")]
    BY DEF Settings
  <2>8. Settings("uart", p ++ r) = Settings("uart", p ++ s)
    BY <2>2, <2>3, <2>6, <2>7, Zenon
  <2> QED BY <1>3, <2>1, <2>8, Zenon
<1> QED BY <1>1, <1>2, <1>3 DEF Transports

\* Where two mappings agree on what they give for every key, their settings agree.
LEMMA SettingsSame ==
  ASSUME NEW t \in Transports, NEW a, NEW b, \A k, v : Get(a, k, v) = Get(b, k, v)
  PROVE  Settings(t, a) = Settings(t, b)
<1>1. \A fields : Fields(a, fields) = Fields(b, fields)
  BY Zenon DEF Fields
<1>2. \A flags : Flags(a, flags) = Flags(b, flags)
  BY Zenon DEF Flags
<1>3. Get(a, "parity", "none") = Get(b, "parity", "none")
  OBVIOUS
<1>4. CASE t = "i2c"
  BY <1>4 DEF Settings
<1>5. CASE t = "spi"
  <2>1. \A x : Settings("spi", x) = Fields(x, SpiFields)
    BY DEF Settings
  <2> QED BY <1>1, <1>5, <2>1, Zenon
<1>6. CASE t = "uart"
  <2>1. \A x : Settings("uart", x) = Fields(x, UartFields) ++ Flags(x, UartFlags) ++ [parity |-> Get(x, "parity", "none")]
    BY DEF Settings
  <2> QED BY <1>1, <1>2, <1>3, <1>6, <2>1, Zenon
<1> QED BY <1>4, <1>5, <1>6 DEF Transports

LEMMA EmptyPatch ==
  ASSUME NEW t \in Transports, NEW s
  PROVE  Settings(t, EmptyDict ++ s) = Settings(t, s)
<1>1. \A k : k \notin DOMAIN EmptyDict
  BY DEF EmptyDict
<1>2. \A k, v : Get(EmptyDict ++ s, k, v) = Get(s, k, v)
  BY <1>1, GetOver
<1> QED BY <1>2, SettingsSame, Zenon

LEMMA SettingsTwice ==
  ASSUME NEW t \in Transports, NEW s
  PROVE  Settings(t, Settings(t, s)) = Settings(t, s)
<1>1. Settings(t, EmptyDict ++ Settings(t, s)) = Settings(t, Settings(t, s))
  BY EmptyPatch, Zenon
<1>2. Settings(t, EmptyDict ++ s) = Settings(t, s)
  BY EmptyPatch, Zenon
<1> QED BY <1>1, <1>2, SettingsPatch, Zenon

\* What a tty reports decides every setting, whatever the settings were.
LEMMA DerivedWins ==
  ASSUME NEW d, NEW t, NEW old
  PROVE  Settings("uart", Derived(d, t) ++ old) = Settings("uart", Derived(d, t))
<1>1. PICK s : s = Derived(d, t)
  OBVIOUS
<1>2. {"baud_rate", "data_bits", "stop_bits", "parity", "xonxoff", "rtscts"} \subseteq DOMAIN s
  BY <1>1 DEF Derived
<1>3. \A k \in DOMAIN s : \A v : Get(s ++ old, k, v) = s[k] /\ Get(s, k, v) = s[k]
  <2>1. \A k \in DOMAIN s : \A v : Get(s, k, v) = s[k]
    BY DEF Get
  <2>2. \A k \in DOMAIN s : \A v : Get(s ++ old, k, v) = s[k]
    BY GetOver, Zenon
  <2> QED BY <2>1, <2>2
<1>4. DOMAIN UartFields \subseteq DOMAIN s /\ DOMAIN UartFlags \subseteq DOMAIN s
  BY <1>2 DEF UartFields, UartFlags
<1>5. Fields(s ++ old, UartFields) = Fields(s, UartFields)
  <2>1. \A k \in DOMAIN UartFields :
          Get(s ++ old, k, UartFields[k].default) = Get(s, k, UartFields[k].default)
    BY <1>3, <1>4
  <2> QED BY <2>1 DEF Fields
<1>6. Flags(s ++ old, UartFlags) = Flags(s, UartFlags)
  <2>1. \A k \in DOMAIN UartFlags :
          Get(s ++ old, k, Bool(UartFlags[k])) = Get(s, k, Bool(UartFlags[k]))
    BY <1>3, <1>4
  <2> QED BY <2>1 DEF Flags
<1>7. Get(s ++ old, "parity", "none") = Get(s, "parity", "none")
  BY <1>2, <1>3
<1>8. \A x : Settings("uart", x) = Fields(x, UartFields) ++ Flags(x, UartFlags) ++ [parity |-> Get(x, "parity", "none")]
  BY DEF Settings
<1>9. Settings("uart", s ++ old) = Settings("uart", s)
  BY <1>5, <1>6, <1>7, <1>8, Zenon
<1> QED BY <1>1, <1>9

\* It says nothing of the settings of a device that is no UART.
LEMMA DerivedElsewhere ==
  ASSUME NEW d, NEW t, NEW old, NEW tr \in Transports \ {"uart"}
  PROVE  Settings(tr, Derived(d, t) ++ old) = Settings(tr, old)
<1>1. PICK s : s = Derived(d, t)
  OBVIOUS
<1>2. \A k \in DOMAIN SpiFields : k \notin DOMAIN s
  BY <1>1 DEF Derived, SpiFields
<1>3. \A k \in DOMAIN SpiFields : \A v : Get(s ++ old, k, v) = Get(old, k, v)
  BY <1>2, GetOver
<1>4. Fields(s ++ old, SpiFields) = Fields(old, SpiFields)
  BY <1>3 DEF Fields
<1>5. tr = "i2c" \/ tr = "spi"
  BY DEF Transports
<1>6. Settings(tr, s ++ old) = Settings(tr, old)
  BY <1>4, <1>5 DEF Settings
<1> QED BY <1>1, <1>6

-----------------------------------------------------------------------------
(* What is installed: devices in normal form.                              *)

IsArray(s) == \E n \in Nat : DOMAIN s = 1..n

FaultShape(f) ==
  {"mode", "remaining"} \subseteq DOMAIN f /\ f.remaining \in [n : Nat, how : {"int"}]

NormalDevice(d) ==
  /\ {"id", "bus", "transport", "backend", "metadata", "faults", "settings"} \subseteq DOMAIN d
  /\ "attached" \notin DOMAIN d
  /\ d.transport \in Transports /\ FaultShape(d.faults)
  /\ Settings(d.transport, d.settings) = d.settings

Normal(m) == IsArray(m.devices) /\ \A i \in DOMAIN m.devices : NormalDevice(m.devices[i])

BusesFit(bs) ==
  /\ IsArray(bs)
  /\ \A i \in DOMAIN bs : ~bs[i].name.long
  /\ KernelTakesBuses(bs)

LEMMA NoBusFits ==
  ASSUME NEW bs, bs = <<>>
  PROVE  BusesFit(bs)
<1>1. DOMAIN bs = {} /\ 0 \in Nat /\ 1..0 = {}
  OBVIOUS
<1>2. [i \in DOMAIN bs |-> 0] \in [DOMAIN bs -> Numbers(bs)]
  BY <1>1
<1> QED BY <1>1, <1>2 DEF BusesFit, IsArray, KernelTakesBuses

LEMMA FaultsHold ==
  ASSUME NEW f, FaultsOK(f)
  PROVE  FaultShape(Faults(f))
<1>1. PICK a, b, c, n : /\ a = Fault(Get(f, "mode", "none"), n)
                        /\ b = When(HasErrno(f), [errno |-> Number(Errno(f))])
                        /\ c = When(HasReply(f), [reply_data |-> Bytes(Get(f, "reply_data", Hex("")))])
                        /\ n = Number(Get(f, "remaining", Plain(0)))
  OBVIOUS
<1>2. Faults(f) = a ++ b ++ c
  BY <1>1 DEF Faults
<1>3. n \in [n : Nat, how : {"int"}]
  <2>1. PICK x : x = Get(f, "remaining", Plain(0))
    OBVIOUS
  <2>2. x.n \in Int /\ 0 <= x.n
    <3>1. NumberOK(Get(f, "remaining", Plain(0)), 0, Null)
      BY DEF FaultsOK
    <3>2. NumberOK(x, 0, Null)
      BY <2>1, <3>1
    <3> QED BY <3>2 DEF NumberOK
  <2>3. n = [n |-> x.n, how |-> "int"]
    BY <1>1, <2>1 DEF Number, Plain
  <2> QED BY <2>2, <2>3
<1>4. DOMAIN a = {"mode", "remaining"} /\ a.remaining = n
  BY <1>1 DEF Fault
<1>5. PICK e : e = a ++ b
  OBVIOUS
<1>6. {"mode", "remaining"} \subseteq DOMAIN e /\ e.remaining = n
  BY <1>4, <1>5 DEF ++
<1>7. PICK g : g = e ++ c
  OBVIOUS
<1>8. {"mode", "remaining"} \subseteq DOMAIN g /\ g.remaining = n
  BY <1>6, <1>7 DEF ++
<1>9. Faults(f) = g
  BY <1>2, <1>5, <1>7
<1> QED BY <1>3, <1>8, <1>9 DEF FaultShape

LEMMA DeviceNormal ==
  ASSUME NEW x, NEW bs, DeviceOK(x, bs)
  PROVE  NormalDevice(Device(x, bs))
<1>1. x.transport \in Transports /\ FaultsOK(Get(x, "faults", EmptyDict))
  BY DEF DeviceOK
<1>2. PICK d : d = Device(x, bs)
  OBVIOUS
<1>3. /\ {"id", "bus", "transport", "backend", "metadata", "faults", "settings"} \subseteq DOMAIN d
      /\ "attached" \notin DOMAIN d
  <2>2. PICK e : e = Place(x, BusNamed(bs, Name(x.bus)))
    OBVIOUS
  <2>3. "attached" \notin DOMAIN e
    <3>1. CASE x.transport = "i2c"
      BY <2>2, <3>1 DEF Place
    <3>2. CASE x.transport = "spi"
      BY <2>2, <3>2 DEF Place
    <3>3. CASE x.transport = "uart"
      BY <2>2, <3>3 DEF Place
    <3> QED BY <1>1, <3>1, <3>2, <3>3 DEF Transports
  <2>1. DOMAIN d = {"id", "bus", "transport", "backend", "metadata", "faults", "settings"}
                         \cup DOMAIN Place(x, BusNamed(bs, Name(x.bus)))
    BY <1>1, <1>2, DeviceHolds, Zenon
  <2> QED BY <2>1, <2>2, <2>3
<1>4. d.transport = x.transport
  BY <1>1, <1>2, DeviceHolds, Zenon
<1>5. d.faults = Faults(Get(x, "faults", EmptyDict))
  BY <1>1, <1>2, DeviceHolds, Zenon
<1>6. d.settings = Settings(x.transport, Get(x, "settings", EmptyDict))
  BY <1>1, <1>2, DeviceHolds, Zenon
<1>7. Settings(d.transport, d.settings) = d.settings
  BY <1>1, <1>4, <1>6, SettingsTwice
<1>8. FaultShape(d.faults)
  BY <1>1, <1>5, FaultsHold
<1> QED BY <1>1, <1>2, <1>3, <1>4, <1>7, <1>8 DEF NormalDevice

LEMMA ModelNormal ==
  ASSUME NEW raw, ModelOK(raw), IsArray(raw.devices)
  PROVE  Normal(Model(raw)) /\ DOMAIN Model(raw).devices = DOMAIN raw.devices
<1>1. PICK bs, ds : bs = Buses(raw) /\ ds = Devices(raw)
  OBVIOUS
<1>2. Model(raw).devices = ds /\ DOMAIN ds = DOMAIN raw.devices
  BY <1>1 DEF Model, Devices
<1>3. \A k \in DOMAIN ds : ds[k] = Device(raw.devices[k], bs) /\ DeviceOK(raw.devices[k], bs)
  BY <1>1 DEF Devices, ModelOK
<1>4. \A k \in DOMAIN ds : NormalDevice(ds[k])
  BY <1>3, DeviceNormal
<1> QED BY <1>2, <1>4 DEF Normal, IsArray

\* A set of natural numbers has a least element.
LEMMA Least ==
  ASSUME NEW T, T \subseteq Nat, T # {}
  PROVE  \E x \in T : \A y \in T : x <= y
<1>1. PICK R : R = OpToRel(<, Nat)
  BY Zenon
<1>2. IsWellFoundedOn(R, Nat)
  BY <1>1, NatLessThanWellFounded, Zenon
<1>3. PICK x \in T : \A y \in T : ~(<<y, x>> \in R)
  BY <1>2, WFMin, Zenon
<1>4. R = {ss \in Nat \X Nat : ss[1] < ss[2]}
  BY <1>1, Zenon DEF OpToRel
<1>5. ASSUME NEW y \in T
      PROVE  x <= y
  <2>1. x \in Nat /\ y \in Nat /\ <<y, x>> \notin R
    BY <1>3
  <2>2. <<y, x>> \in Nat \X Nat /\ <<y, x>>[1] = y /\ <<y, x>>[2] = x
    BY <2>1
  <2>3. ~(y < x)
    BY <1>4, <2>1, <2>2
  <2> QED BY <2>1, <2>3
<1> QED BY <1>5

\* The buses bs with the first of the devices ds.
PrefixOf(m, bs, ds) ==
  /\ m.buses = bs /\ DOMAIN m.devices \subseteq DOMAIN ds
  /\ \A i \in DOMAIN m.devices : m.devices[i] = ds[i]

\* The devices before the first one that is refused.
LEMMA PartialNormal ==
  ASSUME NEW bs, NEW ds, NEW n \in Nat, ds = [i \in 1..n |-> ds[i]],
         NEW m, m = [buses |-> bs, devices |-> ds], Normal(m), BusesFit(bs), ~Installs(m)
  PROVE  Normal(Partial(m)) /\ PrefixOf(Partial(m), bs, ds)
<1> DEFINE Fits(i) == Packs(ds[i]) /\ KernelTakes(m, i)
<1>1. DOMAIN ds = 1..n /\ m.buses = bs /\ m.devices = ds
  OBVIOUS
<1>2. (\A i \in DOMAIN bs : ~bs[i].name.long) /\ KernelTakesBuses(bs)
  BY DEF BusesFit
<1>3. \E i \in 1..n : ~Fits(i)
  BY <1>1, <1>2 DEF Installs
<1>4. PICK T : T = {i \in 1..n : ~Fits(i)}
  OBVIOUS
<1>5. PICK x \in T : \A y \in T : x <= y
  <2> HIDE DEF Fits
  <2>1. T \subseteq Nat /\ T # {}
    BY <1>3, <1>4
  <2> QED BY <2>1, Least, Zenon
<1>6. x \in 1..n /\ ~Fits(x) /\ \A j \in 1..(x - 1) : Fits(j)
  <2> HIDE DEF Fits
  <2> QED BY <1>4, <1>5
<1> DEFINE Bad(i) == ~Fits(i) /\ \A j \in 1..(i - 1) : Fits(j)
<1>7. PICK bad : bad = CHOOSE i \in 1..n : Bad(i)
  OBVIOUS
<1>8. bad \in 1..n
  <2>1. \E i \in 1..n : Bad(i)
    BY <1>6
  <2> HIDE DEF Bad
  <2> QED BY <1>7, <2>1
<1>9. Partial(m) = [m EXCEPT !.devices = SubSeq(@, 1, bad - 1)]
  BY <1>1, <1>7 DEF Partial
<1>10. Partial(m) = [buses |-> bs, devices |-> SubSeq(ds, 1, bad - 1)]
  BY <1>1, <1>9
<1>11. PICK S : S = {ds[i] : i \in 1..n}
  OBVIOUS
<1>12. ds \in Seq(S) /\ Len(ds) = n
  <2>1. ds \in [1..n -> S]
    BY <1>11
  <2> QED BY <2>1
<1>13. PICK es : es = SubSeq(ds, 1, bad - 1)
  OBVIOUS
<1>14. DOMAIN es = 1..(bad - 1) /\ \A i \in 1..(bad - 1) : es[i] = ds[i] /\ i \in 1..n
  BY <1>8, <1>12, <1>13
<1>15. \A i \in DOMAIN es : NormalDevice(es[i])
  BY <1>1, <1>14 DEF Normal
<1>16. IsArray(es)
  BY <1>8, <1>14 DEF IsArray
<1>17. Partial(m).devices = es /\ Partial(m).buses = bs
  <2>1. PICK q : q = Partial(m)
    OBVIOUS
  <2>2. q = [buses |-> bs, devices |-> es]
    BY <1>10, <1>13, <2>1
  <2> QED BY <2>1, <2>2
<1>18. Normal(Partial(m))
  BY <1>15, <1>16, <1>17 DEF Normal
<1>19. DOMAIN es \subseteq DOMAIN ds /\ \A i \in DOMAIN es : es[i] = ds[i]
  BY <1>1, <1>14
<1> QED BY <1>17, <1>18, <1>19 DEF PrefixOf

-----------------------------------------------------------------------------
(* The inductive invariant.                                                *)

DeviceShape(d) ==
  /\ {"id", "bus", "transport", "backend", "metadata", "faults", "settings", "attached"} \subseteq DOMAIN d
  /\ d.transport \in Transports /\ FaultShape(d.faults) /\ d.attached \in Backends \cup {Null}

\* The inventory, and the histories that are kept per device.
DeviceInv ==
  /\ IsArray(devices) /\ \A i \in DOMAIN devices : DeviceShape(devices[i])
  /\ DOMAIN due = DOMAIN devices /\ \A i \in DOMAIN devices : due[i] \in Nat \cup {Null}
  /\ DOMAIN asked = DOMAIN devices
  /\ raced \subseteq DOMAIN devices

FileInv ==
  /\ \A s, r \in file : s = r
  /\ \A s \in file :
       /\ IsArray(s.model.buses) /\ IsArray(s.model.devices)
       /\ DOMAIN s.attached = DOMAIN s.model.devices
       /\ \A i \in DOMAIN s.model.devices : s.attached[i] \in Backends \cup {Null}

\* The update that holds the lock has patched the settings the device still has, unless a
\* worker has changed them since.
RpcInv ==
  rpc # Null =>
    /\ rpc.dev \in DOMAIN devices /\ FaultShape(rpc.new.faults)
    /\ rpc.dev \notin raced =>
         rpc.new.settings = Settings(devices[rpc.dev].transport,
                                     AskedNow(devices[rpc.dev].settings, rpc.patch))

Steps == {"idle", "lock", "config", "save", "fault", "consume", "count", "savefault"}

RequestShape(r, ds) ==
  /\ DOMAIN r = {"pc", "dev", "lock", "kind", "fault", "current"}
  /\ r.pc \in Steps
  /\ r.pc # "lock" => r.dev \in DOMAIN ds \cup {Null}
  /\ r.pc = "idle" => r.dev = Null
  /\ r.pc = "count" => r.fault.remaining.n \in Nat \ {0}

WorkerInv == DOMAIN req = Workers /\ \A w \in Workers : RequestShape(req[w], devices)

\* A worker at a device has the lock of the device's present route, and is alone there.
RouteOf(d) ==
  IF External(d.backend) /\ d.attached # Null THEN <<"backend", d.attached>> ELSE <<"device", d.id>>

LockInv ==
  \A w \in Workers :
    req[w].pc # "lock" /\ req[w].dev \in DOMAIN devices \ raced =>
      req[w].lock = {RouteOf(devices[req[w].dev])}

Holds(r, i) == r.dev = i /\ r.pc \notin {"idle", "lock"}

Exclusive ==
  \A i \in DOMAIN devices \ raced : \A w, v \in Workers :
    Holds(req[w], i) /\ Holds(req[v], i) => w = v

\* The counter n of a fault f of device i, against what is left of it.
Counting(r, i) == r.dev = i /\ r.pc \in {"consume", "count"}
InUse(q, i) == \E w \in Workers : Counting(q[w], i)
CountOK(q, i, f, n) ==
  /\ InUse(q, i) => f.mode # "none"
  /\ \A w \in Workers : q[w].dev = i /\ q[w].pc = "count" => q[w].current = TRUE /\ q[w].fault = f
  /\ n = Null => f.remaining.n = 0 \/ f.mode = "none"
  /\ n # Null /\ f.mode = "none" => n = 0
  /\ n # Null /\ f.mode # "none" =>
       IF InUse(q, i) THEN f.remaining.n = n + 1 ELSE f.remaining.n = n /\ n # 0

FaultInv == \A i \in DOMAIN devices \ raced : CountOK(req, i, devices[i].faults, due[i])

\* Attachments are to external controllers, in the daemon and in the file.
ServedInv == switched \/ \A i \in DOMAIN devices : devices[i].attached # Null => External(devices[i].backend)
SavedInv == switched \/ \A s \in file : AttachmentsOK(s)

StateInv == state \in {"empty", "ready", "desynced"} /\ BusesFit(buses)

IInv ==
  /\ StateInv /\ DeviceInv /\ FileInv /\ RpcInv /\ WorkerInv /\ LockInv /\ Exclusive
  /\ FaultInv /\ SettingsAsAsked /\ ServedInv /\ SavedInv

-----------------------------------------------------------------------------
(* A new inventory.                                                        *)

LEMMA NotNull == \A i \in Int : i # Null
BY LimitsAssumption

\* Workers that keep the objects of an inventory that is gone, or have none yet.
Released ==
  /\ DOMAIN req' = Workers
  /\ \A w \in Workers : (req'[w].pc = "lock" \/ req'[w].dev = Null) /\ RequestShape(req'[w], devices')

LEMMA InstalledInv ==
  ASSUME NEW m, NEW attached, Installed(m, attached), Normal(m), Released, rpc' = Null,
         \A i \in DOMAIN m.devices : attached[i] \in Backends \cup {Null}
  PROVE  /\ DeviceInv' /\ RpcInv' /\ WorkerInv' /\ LockInv' /\ Exclusive' /\ FaultInv'
         /\ SettingsAsAsked'
         /\ DOMAIN devices' = DOMAIN m.devices
         /\ \A i \in DOMAIN m.devices : /\ devices'[i].attached = attached[i]
                                        /\ devices'[i].backend = m.devices[i].backend
<1>1. /\ devices' = [i \in DOMAIN m.devices |-> m.devices[i] ++ [attached |-> attached[i]]]
      /\ due' = [i \in DOMAIN m.devices |-> Limit(m.devices[i].faults)]
      /\ asked' = [i \in DOMAIN m.devices |-> m.devices[i].settings]
      /\ raced' = {}
  BY DEF Installed
<1>2. \A i \in DOMAIN m.devices :
        NormalDevice(m.devices[i]) /\ devices'[i] = m.devices[i] ++ [attached |-> attached[i]]
  BY <1>1 DEF Normal
<1>3. \A i \in DOMAIN m.devices :
        /\ DOMAIN devices'[i] = DOMAIN m.devices[i] \cup {"attached"} /\ devices'[i].attached = attached[i]
        /\ devices'[i].transport = m.devices[i].transport /\ devices'[i].faults = m.devices[i].faults
        /\ devices'[i].settings = m.devices[i].settings /\ devices'[i].backend = m.devices[i].backend
  <2> SUFFICES ASSUME NEW i \in DOMAIN m.devices
               PROVE  /\ DOMAIN devices'[i] = DOMAIN m.devices[i] \cup {"attached"}
                      /\ devices'[i].attached = attached[i]
                      /\ devices'[i].transport = m.devices[i].transport
                      /\ devices'[i].faults = m.devices[i].faults
                      /\ devices'[i].settings = m.devices[i].settings
                      /\ devices'[i].backend = m.devices[i].backend
    OBVIOUS
  <2>1. PICK d, a, e : d = m.devices[i] /\ a = attached[i] /\ e = devices'[i]
    OBVIOUS
  <2>2. NormalDevice(d) /\ e = d ++ [attached |-> a]
    BY <1>2, <2>1
  <2>3. PICK c : c = [attached |-> a]
    OBVIOUS
  <2>4. DOMAIN c = {"attached"} /\ c.attached = a
    BY <2>3
  <2>5. e = [k \in DOMAIN d \cup DOMAIN c |-> IF k \in DOMAIN d THEN d[k] ELSE c[k]]
    BY <2>2, <2>3 DEF ++
  <2>6. DOMAIN e = DOMAIN d \cup {"attached"} /\ e.attached = a
    BY <2>2, <2>4, <2>5 DEF NormalDevice
  <2>7. /\ e.transport = d.transport /\ e.faults = d.faults /\ e.settings = d.settings
        /\ e.backend = d.backend
    BY <2>2, <2>5 DEF NormalDevice
  <2> QED BY <2>1, <2>6, <2>7
<1>4. DOMAIN devices' = DOMAIN m.devices /\ DOMAIN due' = DOMAIN m.devices /\ DOMAIN asked' = DOMAIN m.devices
  BY <1>1
<1>5. \A i \in DOMAIN m.devices : FaultShape(m.devices[i].faults) /\ m.devices[i].transport \in Transports
  BY <1>2 DEF NormalDevice
<1>6. ASSUME NEW i \in DOMAIN m.devices PROVE DeviceShape(devices'[i])
  <2>1. PICK d, e, a : d = m.devices[i] /\ e = devices'[i] /\ a = attached[i]
    OBVIOUS
  <2>2. NormalDevice(d) /\ FaultShape(d.faults) /\ d.transport \in Transports /\ a \in Backends \cup {Null}
    BY <1>2, <1>5, <2>1
  <2>3. DOMAIN e = DOMAIN d \cup {"attached"} /\ e.attached = a /\ e.transport = d.transport /\ e.faults = d.faults
    BY <1>3, <2>1
  <2>4. DeviceShape(e)
    BY <2>2, <2>3 DEF DeviceShape, NormalDevice
  <2> QED BY <2>1, <2>4
<1>7. \A f : FaultShape(f) => f.remaining.n \in Nat
  BY DEF FaultShape
<1>8. \A i \in DOMAIN m.devices : due'[i] = Limit(devices'[i].faults) /\ due'[i] \in Nat \cup {Null}
  BY <1>1, <1>3, <1>5, <1>7 DEF Limit
<1>9. IsArray(devices') /\ \A i \in DOMAIN m.devices : i \in Int /\ i # Null
  BY <1>4, NotNull DEF Normal, IsArray
<1>10. DeviceInv'
  BY <1>1, <1>4, <1>6, <1>8, <1>9 DEF DeviceInv
<1>11. RpcInv'
  BY DEF RpcInv
<1>12. WorkerInv'
  BY DEF WorkerInv, Released
<1>13. \A w \in Workers : req'[w].pc # "lock" => req'[w].dev \notin DOMAIN devices'
  BY <1>4, <1>9 DEF Released
<1>14. LockInv' /\ Exclusive'
  BY <1>13 DEF LockInv, Exclusive, Holds
<1>15. FaultInv'
  <2> SUFFICES ASSUME NEW i \in DOMAIN m.devices
               PROVE  CountOK(req', i, devices'[i].faults, due'[i])
    BY <1>4 DEF FaultInv
  <2>1. \A w \in Workers : req'[w].pc # "lock" => req'[w].dev # i
    BY <1>4, <1>13
  <2>2. ~InUse(req', i)
    BY <2>1 DEF InUse, Counting
  <2>3. PICK f : f = devices'[i].faults
    OBVIOUS
  <2>4. due'[i] = Limit(f) /\ f.remaining.n \in Nat
    BY <1>3, <1>5, <1>7, <1>8, <2>3
  <2>5. CASE f.mode = "none" \/ f.remaining.n = 0
    <3>1. due'[i] = Null
      BY <2>4, <2>5 DEF Limit
    <3> QED BY <2>1, <2>2, <2>3, <2>5, <3>1 DEF CountOK
  <2>6. CASE ~(f.mode = "none" \/ f.remaining.n = 0)
    <3>1. due'[i] = f.remaining.n /\ f.remaining.n # Null
      BY <2>4, <2>6, NotNull DEF Limit
    <3> QED BY <2>1, <2>2, <2>3, <2>4, <2>6, <3>1 DEF CountOK
  <2> QED BY <2>5, <2>6
<1>16. SettingsAsAsked'
  <2>1. \A i \in DOMAIN m.devices : asked'[i] = devices'[i].settings
    BY <1>1, <1>3
  <2>2. \A i \in DOMAIN m.devices : Settings(devices'[i].transport, devices'[i].settings) = devices'[i].settings
    BY <1>2, <1>3 DEF NormalDevice
  <2> QED BY <1>4, <2>1, <2>2 DEF SettingsAsAsked, Known
<1> QED BY <1>3, <1>4, <1>10, <1>11, <1>12, <1>14, <1>15, <1>16

LEMMA SavedHolds ==
  ASSUME FileInv, SavedInv, DeviceInv', BusesFit(buses'), Save, ServedInv',
         switched /\ unsaved' => switched'
  PROVE  FileInv' /\ SavedInv'
<1>1. file' = {} \/ file' = {[model |-> Export', attached |-> Attachments']} \/ (file' = file /\ unsaved')
  BY DEF Save, FileOf, Snapshot
<1>12. CASE file' = file /\ unsaved'
  BY <1>12 DEF FileInv, SavedInv, AttachmentsOK
<1> SUFFICES ASSUME file' = {[model |-> Export', attached |-> Attachments']}
             PROVE  FileInv' /\ SavedInv'
  BY <1>1, <1>12 DEF FileInv, SavedInv
<1>2. PICK f, ms, as : file' = {f} /\ f = [model |-> ms, attached |-> as] /\ ms = Export' /\ as = Attachments'
  OBVIOUS
<1>3. f.model = ms /\ f.attached = as
  BY <1>2
<1>4. DOMAIN ms.devices = DOMAIN devices' /\ \A i \in DOMAIN devices' : ms.devices[i] = DeviceSaved(devices'[i])
  BY <1>2 DEF Export
<1>5. DOMAIN as = DOMAIN devices' /\ \A i \in DOMAIN devices' : as[i] = devices'[i].attached
  BY <1>2 DEF Attachments
<1>6. \A i \in DOMAIN devices' : DeviceShape(devices'[i])
  BY DEF DeviceInv
<1>7. \A i \in DOMAIN devices' : as[i] \in Backends \cup {Null}
  BY <1>5, <1>6 DEF DeviceShape
<1>8. IsArray(ms.devices) /\ IsArray(ms.buses)
  <2>1. DOMAIN ms.buses = DOMAIN buses'
    BY <1>2 DEF Export
  <2> QED BY <1>4, <2>1 DEF DeviceInv, BusesFit, IsArray
<1>9. FileInv'
  <2>1. /\ IsArray(f.model.buses) /\ IsArray(f.model.devices)
        /\ DOMAIN f.attached = DOMAIN f.model.devices
        /\ \A i \in DOMAIN f.model.devices : f.attached[i] \in Backends \cup {Null}
    BY <1>3, <1>4, <1>5, <1>7, <1>8, Zenon
  <2>2. \A x \in file' : x = f
    BY <1>2
  <2>3. \A x, r \in file' : x = r
    BY <2>2
  <2>4. ASSUME NEW x \in file'
        PROVE  /\ IsArray(x.model.buses) /\ IsArray(x.model.devices)
               /\ DOMAIN x.attached = DOMAIN x.model.devices
               /\ \A i \in DOMAIN x.model.devices : x.attached[i] \in Backends \cup {Null}
    BY <2>1, <2>2, Zenon
  <2> QED BY <2>3, <2>4, Zenon DEF FileInv
<1>10. ASSUME NEW i \in DOMAIN devices' PROVE ms.devices[i].backend = devices'[i].backend
  <2>1. PICK d, e : d = devices'[i] /\ e = ms.devices[i]
    OBVIOUS
  <2>2. e = DeviceSaved(d)
    BY <1>4, <2>1, Zenon
  <2>3. "backend" \in DOMAIN d
    BY <1>6, <2>1 DEF DeviceShape
  <2>4. e.backend = d.backend
    BY <2>2, <2>3 DEF DeviceSaved
  <2> QED BY <2>1, <2>4, Zenon
<1>11. switched' \/ AttachmentsOK(f)
  BY <1>3, <1>5, <1>10 DEF ServedInv, AttachmentsOK
<1> QED BY <1>2, <1>9, <1>11 DEF SavedInv

LEMMA OrphanedReleased ==
  ASSUME WorkerInv, req' = Orphaned
  PROVE  Released
<1>1. \A w \in Workers : req'[w] = [req[w] EXCEPT !.lock = Old(@),
                                                   !.dev = IF req[w].pc = "lock" THEN @ ELSE Null]
  BY DEF Orphaned
<1>2. DOMAIN req' = Workers
  BY DEF Orphaned
<1>3. ASSUME NEW w \in Workers
      PROVE  (req'[w].pc = "lock" \/ req'[w].dev = Null) /\ RequestShape(req'[w], devices')
  <2>1. RequestShape(req[w], devices)
    BY DEF WorkerInv
  <2>2. PICK r, q, l, i : r = req[w] /\ q = req'[w] /\ l = Old(r.lock) /\ i = IF r.pc = "lock" THEN r.dev ELSE Null
    OBVIOUS
  <2>3. q = [r EXCEPT !.lock = l, !.dev = i] /\ RequestShape(r, devices)
    BY <1>1, <2>1, <2>2
  <2>4. /\ DOMAIN q = {"pc", "dev", "lock", "kind", "fault", "current"} /\ q.dev = i
        /\ q.pc = r.pc /\ q.kind = r.kind /\ q.fault = r.fault
    BY <2>3 DEF RequestShape
  <2> QED BY <2>2, <2>3, <2>4 DEF RequestShape
<1> QED BY <1>2, <1>3 DEF Released

LEMMA IdleReleased ==
  ASSUME req' = [w \in Workers |-> Idle]
  PROVE  Released
<1>1. /\ DOMAIN Idle = {"pc", "dev", "lock", "kind", "fault", "current"}
      /\ Idle.dev = Null /\ Idle.pc = "idle" /\ Idle.kind = "transfer"
  BY DEF Idle, Serving
<1>2. \A w \in Workers : req'[w] = Idle
  OBVIOUS
<1>3. RequestShape(Idle, devices')
  BY <1>1 DEF RequestShape, Steps
<1> QED BY <1>1, <1>2, <1>3 DEF Released

LEMMA EmptiedInv ==
  ASSUME Emptied, Released, rpc' = Null
  PROVE  /\ DeviceInv' /\ RpcInv' /\ WorkerInv' /\ LockInv' /\ Exclusive' /\ FaultInv'
         /\ SettingsAsAsked' /\ ServedInv' /\ BusesFit(buses')
<1>1. PICK m : m = [buses |-> <<>>, devices |-> <<>>]
  OBVIOUS
<1>2. Installed(m, <<>>) /\ DOMAIN m.devices = {} /\ m.buses = <<>> /\ m.devices = <<>>
  BY <1>1 DEF Emptied
<1>3. Normal(m)
  <2>1. 0 \in Nat /\ DOMAIN m.devices = 1..0
    BY <1>2
  <2> QED BY <1>2, <2>1 DEF Normal, IsArray
<1>4. /\ DeviceInv' /\ RpcInv' /\ WorkerInv' /\ LockInv' /\ Exclusive' /\ FaultInv'
      /\ SettingsAsAsked' /\ DOMAIN devices' = DOMAIN m.devices
  BY <1>2, <1>3, InstalledInv
<1>5. ServedInv'
  BY <1>2, <1>4 DEF ServedInv
<1>6. BusesFit(buses')
  BY <1>2, NoBusFits DEF Installed
<1> QED BY <1>4, <1>5, <1>6

\* An external controller stays one when the model is normalised.
LEMMA ExternalKept ==
  ASSUME NEW t, NEW b, External(b)
  PROVE  External(Backend(t, b))
<1>1. b.kind = "controller" /\ ~Managed(b)
  BY DEF External
<1>2. Backend(t, b) = [kind |-> "controller"] ++ EmptyDict
  BY <1>1 DEF Backend, When
<1>3. PICK c : c = [kind |-> "controller"]
  OBVIOUS
<1>4. DOMAIN c = {"kind"} /\ c.kind = "controller"
  BY <1>3
<1>5. PICK e : e = c ++ EmptyDict
  OBVIOUS
<1>6. DOMAIN e = {"kind"} /\ e.kind = "controller"
  BY <1>4, <1>5 DEF ++, EmptyDict
<1>7. External(e)
  BY <1>6 DEF External, Managed, Get
<1> QED BY <1>2, <1>3, <1>5, <1>7

\* A snapshot's model in normal form, with its attachments.
LEMMA RestorableHolds ==
  ASSUME NEW s, Restorable(s), IsArray(s.model.devices), DOMAIN s.attached = DOMAIN s.model.devices,
         NEW m, m = Model(s.model)
  PROVE  /\ Normal(m) /\ DOMAIN m.devices = DOMAIN s.model.devices
         /\ \A i \in DOMAIN m.devices : s.attached[i] # Null => External(m.devices[i].backend)
<1>1. ModelOK(s.model) /\ AttachmentsOK(s)
  BY DEF Restorable
<1>2. Normal(m) /\ DOMAIN m.devices = DOMAIN s.model.devices
  BY <1>1, ModelNormal
<1>3. ASSUME NEW i \in DOMAIN m.devices, s.attached[i] # Null
      PROVE  External(m.devices[i].backend)
  <2>1. External(s.model.devices[i].backend)
    BY <1>1, <1>2, <1>3 DEF AttachmentsOK
  <2>2. PICK x, bs : x = s.model.devices[i] /\ bs = Buses(s.model)
    OBVIOUS
  <2>3. m.devices[i] = Device(x, bs) /\ DeviceOK(x, bs)
    BY <1>1, <1>2, <1>3, <2>2 DEF Model, Devices, ModelOK
  <2>4. x.transport \in Transports
    BY <2>3 DEF DeviceOK
  <2>5. PICK d : d = Device(x, bs)
    OBVIOUS
  <2>6. d.backend = Backend(x.transport, x.backend)
    BY <2>4, <2>5, DeviceHolds, Zenon
  <2>7. External(x.backend)
    BY <2>1, <2>2
  <2>8. External(d.backend)
    BY <2>6, <2>7, ExternalKept
  <2> QED BY <2>3, <2>5, <2>8
<1> QED BY <1>2, <1>3

LEMMA LenIs == \A s : \A n \in Nat : DOMAIN s = 1..n => Len(s) = n
OBVIOUS

\* The buses that are installed can be installed again.
LEMMA SnapshotBuses ==
  ASSUME BusesFit(buses), ModelOK(Snapshot.model)
  PROVE  BusesFit(Buses(Snapshot.model))
<1>1. PICK raw : raw = Snapshot.model
  OBVIOUS
<1>2. raw = Export
  BY <1>1 DEF Snapshot
<1>3. DOMAIN raw.buses = DOMAIN buses /\ \A i \in DOMAIN buses : raw.buses[i] = BusSaved(buses[i])
  BY <1>2 DEF Export
<1>4. PICK bs : bs = Buses(raw)
  OBVIOUS
<1>5. DOMAIN bs = DOMAIN buses /\ \A i \in DOMAIN buses : bs[i] = Bus(raw.buses[i])
  BY <1>3, <1>4 DEF Buses
<1>6. \A i \in DOMAIN buses : BusOK(raw.buses[i])
  BY <1>1, <1>3 DEF ModelOK
<1>7. \A i \in DOMAIN buses : raw.buses[i].name = buses[i].name /\ raw.buses[i].transport = buses[i].transport
  <2> SUFFICES ASSUME NEW i \in DOMAIN buses
               PROVE  raw.buses[i].name = buses[i].name /\ raw.buses[i].transport = buses[i].transport
    OBVIOUS
  <2>1. PICK b, c : b = buses[i] /\ c = raw.buses[i]
    OBVIOUS
  <2>2. c = BusSaved(b)
    BY <1>3, <2>1, Zenon
  <2>3. c.name = b.name /\ c.transport = b.transport
    BY <2>2 DEF BusSaved
  <2> QED BY <2>1, <2>3, Zenon
<1>8. \A i \in DOMAIN buses : raw.buses[i].name \in Names
  <2> SUFFICES ASSUME NEW i \in DOMAIN buses PROVE raw.buses[i].name \in Names
    OBVIOUS
  <2>1. raw.buses[i].transport \in Transports /\ BusNameOK(raw.buses[i].transport, raw.buses[i].name)
    BY <1>6 DEF BusOK
  <2> QED BY <2>1 DEF BusNameOK, Canonical, NameOK, Transports
<1>9. \A i \in DOMAIN buses : bs[i].name = Name(raw.buses[i].name) /\ bs[i].transport = raw.buses[i].transport
  BY <1>5 DEF Bus
<1>10. \A i \in DOMAIN buses : Name(raw.buses[i].name).num = raw.buses[i].name.num
                                /\ Name(raw.buses[i].name).long = raw.buses[i].name.long
  BY <1>8, NameHolds
<1>11. \A i \in DOMAIN buses : /\ bs[i].name.num = buses[i].name.num /\ bs[i].name.long = buses[i].name.long
                               /\ bs[i].transport = buses[i].transport
  BY <1>7, <1>9, <1>10
<1>12. \A i \in DOMAIN buses : BusNumber(bs[i]) = BusNumber(buses[i])
  BY <1>11, Zenon DEF BusNumber
<1>13. PICK nr \in [DOMAIN buses -> Numbers(buses)] : \A i \in DOMAIN buses : KernelTakesBus(buses, nr, i)
  BY DEF BusesFit, KernelTakesBuses
<1>14. ASSUME NEW i \in DOMAIN buses
       PROVE  ~bs[i].name.long /\ KernelTakesBus(bs, nr, i)
  <2>1. ~buses[i].name.long /\ KernelTakesBus(buses, nr, i)
    BY <1>13 DEF BusesFit
  <2>2. i \in Nat /\ 1..(i - 1) \subseteq DOMAIN buses
    BY DEF BusesFit, IsArray
  <2>3. {nr[j] : j \in {k \in 1..(i - 1) : bs[k].transport = bs[i].transport}}
        = {nr[j] : j \in {k \in 1..(i - 1) : buses[k].transport = buses[i].transport}}
    BY <1>11, <2>2
  <2> QED BY <1>11, <1>12, <2>1, <2>3, Zenon DEF KernelTakesBus
<1>15. IsArray(bs)
  BY <1>5 DEF BusesFit, IsArray
<1>16. BusesFit(bs)
  <2>1. Len(bs) = Len(buses)
    <3>1. PICK n \in Nat : DOMAIN buses = 1..n
      BY DEF BusesFit, IsArray
    <3> QED BY <1>5, <3>1, LenIs
  <2>2. Numbers(bs) = Numbers(buses)
    BY <1>5, <1>12, <2>1 DEF Numbers
  <2>3. nr \in [DOMAIN bs -> Numbers(bs)]
    BY <1>5, <1>13, <2>2
  <2> QED BY <1>5, <1>14, <1>15, <2>3 DEF BusesFit, KernelTakesBuses
<1> QED BY <1>1, <1>4, <1>16

\* The kernel takes the buses of every model that is installed, whole or in part.
LEMMA InstallsBuses ==
  ASSUME NEW m, Installs(m), IsArray(m.buses)
  PROVE  BusesFit(m.buses)
BY DEF Installs, BusesFit

\* What a state owes the invariant after a new inventory, before it is saved.
Renewed ==
  /\ StateInv' /\ DeviceInv' /\ RpcInv' /\ WorkerInv' /\ LockInv' /\ Exclusive' /\ FaultInv'
  /\ SettingsAsAsked' /\ ServedInv'

LEMMA ReinstalledInv ==
  ASSUME StateInv, DeviceInv, Reinstalled(Snapshot), Restorable(Snapshot), Released, rpc' = Null
  PROVE  Renewed
<1>1. PICK s : s = Snapshot
  OBVIOUS
<1>2. /\ DOMAIN s.model.devices = DOMAIN devices /\ DOMAIN s.attached = DOMAIN devices
      /\ \A i \in DOMAIN devices : s.attached[i] = devices[i].attached
  BY <1>1 DEF Snapshot, Export, Attachments
<1>3. \A i \in DOMAIN devices : s.attached[i] \in Backends \cup {Null}
  BY <1>2 DEF DeviceInv, DeviceShape
<1>4. IsArray(s.model.devices)
  BY <1>2 DEF DeviceInv, IsArray
<1>5. PICK m : m = Model(s.model)
  OBVIOUS
<1>6. Restorable(s) /\ ModelOK(s.model)
  BY <1>1 DEF Restorable
<1>7. Normal(m) /\ DOMAIN m.devices = DOMAIN devices
  BY <1>2, <1>4, <1>5, <1>6, RestorableHolds
<1>8. \A i \in DOMAIN devices : s.attached[i] # Null => External(m.devices[i].backend)
  <2>1. \A i \in DOMAIN m.devices : s.attached[i] # Null => External(m.devices[i].backend)
    BY <1>2, <1>4, <1>5, <1>6, RestorableHolds
  <2> QED BY <1>7, <2>1
<1>9. BusesFit(m.buses)
  <2>1. m.buses = Buses(s.model)
    BY <1>5 DEF Model
  <2> QED BY <1>1, <1>6, <2>1, SnapshotBuses DEF StateInv
<1>10. IF Installs(m) THEN Installed(m, s.attached) /\ state' = "ready"
       ELSE Installed(Partial(m), Nobody(Partial(m).devices)) /\ state' = "desynced"
  BY <1>1, <1>5 DEF Reinstalled
<1>11. CASE Installs(m)
  <2>1. Installed(m, s.attached) /\ state' = "ready" /\ buses' = m.buses
    BY <1>10, <1>11 DEF Installed
  <2>2. \A i \in DOMAIN m.devices : s.attached[i] \in Backends \cup {Null}
    BY <1>3, <1>7
  <2>3. /\ DeviceInv' /\ RpcInv' /\ WorkerInv' /\ LockInv' /\ Exclusive' /\ FaultInv' /\ SettingsAsAsked'
        /\ DOMAIN devices' = DOMAIN m.devices
        /\ \A i \in DOMAIN m.devices : /\ devices'[i].attached = s.attached[i]
                                       /\ devices'[i].backend = m.devices[i].backend
    BY <1>7, <2>1, <2>2, InstalledInv
  <2>4. ServedInv'
    BY <1>7, <1>8, <2>3 DEF ServedInv
  <2>5. StateInv'
    BY <1>9, <2>1 DEF StateInv
  <2> QED BY <2>3, <2>4, <2>5 DEF Renewed
<1>12. CASE ~Installs(m)
  <2>1. PICK p, none : p = Partial(m) /\ none = Nobody(Partial(m).devices)
    OBVIOUS
  <2>2. Normal(p) /\ p.buses = m.buses
    <3>1. PICK bs, ds : bs = m.buses /\ ds = m.devices
      OBVIOUS
    <3>2. m = [buses |-> bs, devices |-> ds] /\ ds = [i \in DOMAIN ds |-> ds[i]]
      BY <1>5, <3>1 DEF Model, Devices
    <3>3. PICK n \in Nat : DOMAIN ds = 1..n
      BY <1>7, <3>1 DEF Normal, IsArray
    <3>4. ds = [i \in 1..n |-> ds[i]]
      BY <3>2, <3>3
    <3>5. BusesFit(bs)
      BY <1>9, <3>1
    <3>6. Normal(Partial(m)) /\ Partial(m).buses = bs
      BY <1>7, <1>12, <3>2, <3>4, <3>5, PartialNormal DEF PrefixOf
    <3> QED BY <2>1, <3>1, <3>6
  <2>3. Installed(p, none) /\ state' = "desynced" /\ buses' = m.buses
    BY <1>10, <1>12, <2>1, <2>2 DEF Installed
  <2>4. \A i \in DOMAIN p.devices : none[i] = Null
    BY <2>1 DEF Nobody
  <2>5. /\ DeviceInv' /\ RpcInv' /\ WorkerInv' /\ LockInv' /\ Exclusive' /\ FaultInv' /\ SettingsAsAsked'
        /\ DOMAIN devices' = DOMAIN p.devices
        /\ \A i \in DOMAIN p.devices : devices'[i].attached = none[i]
    BY <2>2, <2>3, <2>4, InstalledInv
  <2>6. ServedInv'
    BY <2>4, <2>5 DEF ServedInv
  <2>7. StateInv'
    BY <1>9, <2>3 DEF StateInv
  <2> QED BY <2>5, <2>6, <2>7 DEF Renewed
<1> QED BY <1>11, <1>12

LEMMA RenewedSaved ==
  ASSUME IInv, Renewed, Save, switched' = (switched /\ unsaved')
  PROVE  IInv'
<1>2. FileInv /\ SavedInv /\ DeviceInv' /\ BusesFit(buses') /\ ServedInv'
  BY DEF IInv, Renewed, StateInv
<1>1. FileInv' /\ SavedInv'
  BY <1>2, SavedHolds
<1> QED BY <1>1, Zenon DEF Renewed, IInv

LEMMA AcceptedHolds ==
  ASSUME NEW m \in Accepted
  PROVE  Normal(m) /\ IsArray(m.buses)
<1>1. PICK raw \in RawModels : ModelOK(raw) /\ m = Model(raw)
  BY DEF Accepted
<1>2. IsArray(raw.devices) /\ IsArray(raw.buses)
  BY RawAssumption DEF IsList, IsArray
<1>3. DOMAIN m.buses = DOMAIN raw.buses
  BY <1>1 DEF Model, Buses
<1> QED BY <1>1, <1>2, <1>3, ModelNormal DEF IsArray

LEMMA ApplyInv ==
  ASSUME IInv, NEW m \in Accepted, Apply(m)
  PROVE  IInv'
<1>1. Normal(m) /\ IsArray(m.buses)
  BY AcceptedHolds
<1>2. StateInv /\ DeviceInv /\ WorkerInv
  BY DEF IInv
<1>3. rpc' = Null /\ req' = Orphaned /\ Save /\ switched' = (switched /\ unsaved')
  BY DEF Apply, CallAllowed
<1>4. Released
  BY <1>2, <1>3, OrphanedReleased
<1>5. CASE Installs(m)
  <2>1. Installed(m, Nobody(m.devices)) /\ state' = "ready" /\ buses' = m.buses
    BY <1>5 DEF Apply, Installed
  <2>2. PICK none : none = Nobody(m.devices)
    OBVIOUS
  <2>3. \A i \in DOMAIN m.devices : none[i] = Null
    BY <2>2 DEF Nobody
  <2>4. /\ DeviceInv' /\ RpcInv' /\ WorkerInv' /\ LockInv' /\ Exclusive' /\ FaultInv' /\ SettingsAsAsked'
        /\ DOMAIN devices' = DOMAIN m.devices
        /\ \A i \in DOMAIN m.devices : devices'[i].attached = none[i]
    BY <1>1, <1>3, <1>4, <2>1, <2>2, <2>3, InstalledInv
  <2>5. ServedInv'
    BY <2>3, <2>4 DEF ServedInv
  <2>6. StateInv'
    BY <1>1, <1>5, <2>1, InstallsBuses DEF StateInv
  <2>7. Renewed
    BY <2>4, <2>5, <2>6 DEF Renewed
  <2> QED BY <1>3, <2>7, RenewedSaved
<1>6. ASSUME Emptied, state' \in {"empty", "desynced"}
      PROVE  IInv'
  <2>1. Renewed
    BY <1>3, <1>4, <1>6, EmptiedInv DEF Renewed, StateInv
  <2> QED BY <1>3, <2>1, RenewedSaved
<1>7. ASSUME Restorable(Snapshot), Reinstalled(Snapshot)
      PROVE  IInv'
  <2>1. Renewed
    BY <1>2, <1>3, <1>4, <1>7, ReinstalledInv
  <2> QED BY <1>3, <2>1, RenewedSaved
<1>8. \/ Installs(m)
      \/ Emptied /\ state' \in {"empty", "desynced"}
      \/ Restorable(Snapshot) /\ Reinstalled(Snapshot)
  BY DEF Apply
<1> QED BY <1>5, <1>6, <1>7, <1>8

LEMMA ResyncInv ==
  ASSUME IInv, Resync
  PROVE  IInv'
<1>1. StateInv /\ DeviceInv /\ WorkerInv
  BY DEF IInv
<1>2. /\ rpc' = Null /\ req' = Orphaned /\ Save /\ switched' = (switched /\ unsaved')
      /\ Restorable(Snapshot) /\ Reinstalled(Snapshot)
  BY DEF Resync
<1>3. Released
  BY <1>1, <1>2, OrphanedReleased
<1>4. Renewed
  BY <1>1, <1>2, <1>3, ReinstalledInv
<1> QED BY <1>2, <1>4, RenewedSaved

LEMMA RestartInv ==
  ASSUME IInv, Restart
  PROVE  IInv'
<1>1. FileInv /\ SavedInv
  BY DEF IInv
<1>2. rpc' = Null /\ req' = [w \in Workers |-> Idle] /\ switched' = switched
  BY DEF Restart
<1>3. Released
  BY <1>2, IdleReleased
<1>4. \A s \in file' : s \in file
  BY DEF Restart
<1>5. FileInv' /\ SavedInv'
  <2>1. FileInv'
    BY <1>1, <1>4, Zenon DEF FileInv
  <2>2. SavedInv'
    BY <1>1, <1>2, <1>4, Zenon DEF SavedInv, AttachmentsOK
  <2> QED BY <2>1, <2>2
<1>6. ASSUME NEW s \in file, Restorable(s), Installs(Model(s.model)),
             Installed(Model(s.model), s.attached), state' = "ready"
      PROVE  IInv'
  <2>1. PICK m : m = Model(s.model)
    OBVIOUS
  <2>2. Installed(m, s.attached) /\ state' = "ready" /\ buses' = m.buses
    BY <1>6, <2>1 DEF Installed
  <2>3. /\ IsArray(s.model.buses) /\ IsArray(s.model.devices) /\ DOMAIN s.attached = DOMAIN s.model.devices
        /\ \A i \in DOMAIN s.model.devices : s.attached[i] \in Backends \cup {Null}
    BY <1>1, <1>6, <2>1 DEF FileInv
  <2>4. Restorable(s) /\ m = Model(s.model)
    BY <1>6, <2>1
  <2>5. /\ Normal(m) /\ DOMAIN m.devices = DOMAIN s.model.devices
        /\ \A i \in DOMAIN m.devices : s.attached[i] # Null => External(m.devices[i].backend)
    BY <2>3, <2>4, RestorableHolds
  <2>6. /\ DeviceInv' /\ RpcInv' /\ WorkerInv' /\ LockInv' /\ Exclusive' /\ FaultInv' /\ SettingsAsAsked'
        /\ DOMAIN devices' = DOMAIN m.devices
        /\ \A i \in DOMAIN m.devices : /\ devices'[i].attached = s.attached[i]
                                       /\ devices'[i].backend = m.devices[i].backend
    BY <1>2, <1>3, <2>2, <2>3, <2>5, InstalledInv
  <2>7. ServedInv'
    BY <2>5, <2>6 DEF ServedInv
  <2>8. IsArray(m.buses)
    BY <2>3, <2>4 DEF Model, Buses, IsArray
  <2>9. StateInv'
    BY <1>6, <2>1, <2>2, <2>8, InstallsBuses DEF StateInv
  <2> QED BY <1>5, <2>6, <2>7, <2>9, Zenon DEF IInv
<1>7. ASSUME Emptied, state' = "empty"
      PROVE  IInv'
  <2>1. Emptied /\ state' = "empty"
    BY <1>7
  <2>2. /\ DeviceInv' /\ RpcInv' /\ WorkerInv' /\ LockInv' /\ Exclusive' /\ FaultInv'
        /\ SettingsAsAsked' /\ ServedInv' /\ BusesFit(buses')
    BY <1>2, <1>3, <2>1, EmptiedInv
  <2>3. StateInv'
    BY <2>1, <2>2 DEF StateInv
  <2> QED BY <1>5, <2>2, <2>3, Zenon DEF IInv
<1> QED BY <1>6, <1>7, Zenon DEF Restart

-----------------------------------------------------------------------------
(* A step of a worker.                                                     *)

\* Worker w goes on to r: the device keeps its route, and w is alone there.
LEMMA Moved ==
  ASSUME IInv, NEW w \in Workers, NEW r, req' = [req EXCEPT ![w] = r], RequestShape(r, devices),
         DOMAIN devices' = DOMAIN devices, raced \subseteq raced',
         \A i \in DOMAIN devices : /\ devices'[i].transport = devices[i].transport
                                   /\ RouteOf(devices'[i]) = RouteOf(devices[i]),
         r.pc # "lock" /\ r.dev \in DOMAIN devices \ raced' => r.lock = {RouteOf(devices[r.dev])},
         \A i \in DOMAIN devices \ raced' : \A v \in Workers : Holds(r, i) /\ Holds(req[v], i) => v = w
  PROVE  WorkerInv' /\ LockInv' /\ Exclusive'
<1>1. WorkerInv /\ LockInv /\ Exclusive
  BY DEF IInv
<1>2. DOMAIN req' = Workers /\ req'[w] = r /\ \A v \in Workers : v # w => req'[v] = req[v]
  BY <1>1 DEF WorkerInv
<1>3. WorkerInv'
  <2> SUFFICES ASSUME NEW v \in Workers PROVE RequestShape(req'[v], devices')
    BY <1>2 DEF WorkerInv
  <2>1. PICK q : q = req'[v]
    OBVIOUS
  <2>2. RequestShape(q, devices)
    BY <1>1, <1>2, <2>1 DEF WorkerInv
  <2>3. RequestShape(q, devices')
    BY <2>2 DEF RequestShape
  <2> QED BY <2>1, <2>3
<1>4. LockInv'
  <2> SUFFICES ASSUME NEW v \in Workers, req'[v].pc # "lock", req'[v].dev \in DOMAIN devices' \ raced'
               PROVE  req'[v].lock = {RouteOf(devices'[req'[v].dev])}
    BY DEF LockInv
  <2>1. PICK q : q = req'[v]
    OBVIOUS
  <2>2. q.pc # "lock" /\ q.dev \in DOMAIN devices \ raced /\ q.dev \notin raced'
    BY <2>1
  <2>3. q.lock = {RouteOf(devices[q.dev])}
    BY <1>1, <1>2, <2>1, <2>2 DEF LockInv
  <2> QED BY <2>1, <2>2, <2>3
<1>5. Exclusive'
  <2> SUFFICES ASSUME NEW i \in DOMAIN devices \ raced', NEW u \in Workers, NEW v \in Workers,
                      Holds(req'[u], i), Holds(req'[v], i)
               PROVE  u = v
    BY DEF Exclusive
  <2>1. CASE u = w
    BY <1>2, <2>1
  <2>2. CASE v = w
    BY <1>2, <2>2
  <2>3. CASE u # w /\ v # w
    BY <1>1, <1>2, <2>3 DEF Exclusive
  <2> QED BY <2>1, <2>2, <2>3
<1> QED BY <1>3, <1>4, <1>5

LEMMA CountKept ==
  ASSUME NEW q, NEW p, NEW w \in Workers, NEW i, NEW f, NEW n, CountOK(q, i, f, n),
         \A v \in Workers : v # w => p[v] = q[v], ~Counting(q[w], i), ~Counting(p[w], i)
  PROVE  CountOK(p, i, f, n)
<1>1. InUse(p, i) <=> InUse(q, i)
  BY DEF InUse
<1>2. \A v \in Workers : p[v].dev = i /\ p[v].pc = "count" => v # w
  BY DEF Counting
<1> QED BY <1>1, <1>2 DEF CountOK

LEMMA GotoHolds ==
  ASSUME WorkerInv, NEW w \in Workers, NEW pc \in Steps, Goto(w, pc), NEW r, r = req'[w]
  PROVE  /\ req' = [req EXCEPT ![w] = r]
         /\ DOMAIN r = {"pc", "dev", "lock", "kind", "fault", "current"}
         /\ r.pc = pc /\ r.dev = req[w].dev /\ r.lock = req[w].lock /\ r.kind = req[w].kind
         /\ r.fault = req[w].fault /\ r.current = req[w].current
<1>1. DOMAIN req = Workers /\ DOMAIN req[w] = {"pc", "dev", "lock", "kind", "fault", "current"}
  BY DEF WorkerInv, RequestShape
<1>2. r = [req[w] EXCEPT !.pc = pc] /\ req' = [req EXCEPT ![w] = [req[w] EXCEPT !.pc = pc]]
  BY <1>1 DEF Goto
<1> QED BY <1>1, <1>2

LEMMA IdleShape ==
  /\ RequestShape(Idle, devices) /\ Idle.dev = Null /\ Idle.pc = "idle"
  /\ \A i : ~Counting(Idle, i) /\ ~Holds(Idle, i)
<1>1. /\ DOMAIN Idle = {"pc", "dev", "lock", "kind", "fault", "current"}
      /\ Idle.dev = Null /\ Idle.pc = "idle" /\ Idle.kind = "transfer"
  BY DEF Idle, Serving
<1> QED BY <1>1 DEF RequestShape, Steps, Counting, Holds

LEMMA Indices == ASSUME DeviceInv PROVE \A i \in DOMAIN devices : i \in Int /\ i # Null
BY NotNull DEF DeviceInv, IsArray

\* What stays when only the workers and the bookkeeping move.
LEMMA Frame ==
  ASSUME IInv, UNCHANGED <<buses, devices, state, rpc, switched, asked>>,
         raced \subseteq raced', raced' \subseteq DOMAIN devices, DOMAIN due' = DOMAIN due, \A i \in DOMAIN devices : due'[i] \in Nat \cup {Null}
  PROVE  StateInv' /\ DeviceInv' /\ RpcInv' /\ SettingsAsAsked' /\ ServedInv'
<1>1. StateInv'
  BY Zenon DEF IInv, StateInv
<1>2. DeviceInv'
  <2>1. DeviceInv
    BY DEF IInv
  <2> QED BY <2>1 DEF DeviceInv
<1>4. RpcInv'
  BY Zenon DEF IInv, RpcInv
<1>5. SettingsAsAsked'
  BY Zenon DEF IInv, SettingsAsAsked, Known
<1>6. ServedInv'
  BY Zenon DEF IInv, ServedInv
<1> QED BY <1>1, <1>2, <1>4, <1>5, <1>6

LEMMA FileFrame ==
  ASSUME IInv, file' = file, switched => switched'
  PROVE  FileInv' /\ SavedInv'
<1>1. FileInv'
  BY Zenon DEF IInv, FileInv
<1>2. SavedInv'
  BY Zenon DEF IInv, SavedInv, AttachmentsOK
<1> QED BY <1>1, <1>2

LEMMA FaultFrame ==
  ASSUME IInv, UNCHANGED <<devices, due>>, raced \subseteq raced',
         NEW w \in Workers, NEW r, req' = [req EXCEPT ![w] = r],
         \A i \in DOMAIN devices \ raced' : ~Counting(req[w], i) /\ ~Counting(r, i)
  PROVE  FaultInv'
<1>1. DOMAIN req = Workers
  BY DEF IInv, WorkerInv
<1>2. req'[w] = r /\ \A v \in Workers : v # w => req'[v] = req[v]
  BY <1>1
<1>3. ASSUME NEW i \in DOMAIN devices \ raced'
      PROVE  CountOK(req', i, devices[i].faults, due[i])
  <2>1. CountOK(req, i, devices[i].faults, due[i])
    BY DEF IInv, FaultInv
  <2>2. ~Counting(req[w], i) /\ ~Counting(req'[w], i)
    BY <1>2
  <2>3. PICK p, q, f, n : p = req' /\ q = req /\ f = devices[i].faults /\ n = due[i]
    OBVIOUS
  <2>4. CountOK(p, i, f, n)
    BY <1>2, <2>1, <2>2, <2>3, CountKept
  <2> QED BY <2>3, <2>4
<1> QED BY <1>3 DEF FaultInv

LEMMA TakeInv ==
  ASSUME IInv, NEW w \in Workers, NEW i \in DOMAIN devices, NEW kind \in {"transfer", "config"}, Take(w, i, kind)
  PROVE  IInv'
<1>1. PICK r : r = Serving("lock", i, {Route(i)}, kind)
  OBVIOUS
<1>2. req[w].pc = "idle" /\ req' = [req EXCEPT ![w] = r]
  BY <1>1 DEF Take
<1>3. UNCHANGED <<buses, devices, state, rpc, switched, asked, raced>> /\ UNCHANGED <<due, file>>
  BY DEF Take
<1>4. DeviceInv /\ WorkerInv /\ raced' \subseteq DOMAIN devices
  BY <1>3 DEF IInv, DeviceInv
<1>5. /\ DOMAIN r = {"pc", "dev", "lock", "kind", "fault", "current"}
      /\ r.pc = "lock" /\ r.dev = i /\ r.kind = kind
  BY <1>1 DEF Serving
<1>7. RequestShape(r, devices)
  BY <1>2, <1>5 DEF RequestShape, Steps
<1>8. WorkerInv' /\ LockInv' /\ Exclusive'
  BY <1>2, <1>3, <1>5, <1>7, Moved DEF Holds
<1>9. FaultInv'
  BY <1>2, <1>3, <1>5, FaultFrame DEF Counting
<1>10. \A j \in DOMAIN devices : due'[j] \in Nat \cup {Null}
  BY <1>3, <1>4 DEF DeviceInv
<1>11. StateInv' /\ DeviceInv' /\ RpcInv' /\ SettingsAsAsked' /\ ServedInv'
  BY <1>3, <1>4, <1>10, Frame
<1>12. FileInv' /\ SavedInv'
  BY <1>3, FileFrame
<1> QED BY <1>8, <1>9, <1>11, <1>12, Zenon DEF IInv

\* Worker w goes on and nothing else changes.
LEMMA StepInv ==
  ASSUME IInv, UNCHANGED Config, raced \subseteq raced', raced' \subseteq DOMAIN devices,
         NEW w \in Workers, NEW r, req' = [req EXCEPT ![w] = r],
         RequestShape(r, devices), FaultInv',
         r.pc # "lock" /\ r.dev \in DOMAIN devices \ raced' => r.lock = {RouteOf(devices[r.dev])},
         \A i \in DOMAIN devices \ raced' : \A v \in Workers : Holds(r, i) /\ Holds(req[v], i) => v = w
  PROVE  IInv'
<1>1. UNCHANGED <<buses, devices, state, rpc, switched, asked>> /\ UNCHANGED <<due, file>>
  BY DEF Config
<1>2. WorkerInv' /\ LockInv' /\ Exclusive'
  BY <1>1, Moved
<1>3. DeviceInv
  BY DEF IInv
<1>4. \A j \in DOMAIN devices : due'[j] \in Nat \cup {Null}
  BY <1>1, <1>3 DEF DeviceInv
<1>5. StateInv' /\ DeviceInv' /\ RpcInv' /\ SettingsAsAsked' /\ ServedInv'
  BY <1>1, <1>4, Frame
<1>6. FileInv' /\ SavedInv'
  BY <1>1, FileFrame
<1> QED BY <1>2, <1>5, <1>6, Zenon DEF IInv

LEMMA AcquireInv ==
  ASSUME IInv, NEW w \in Workers, Acquire(w)
  PROVE  IInv'
<1>1. req[w].pc = "lock" /\ LockFree(w) /\ UNCHANGED Config
  BY DEF Acquire
<1>2. DeviceInv /\ WorkerInv /\ LockInv /\ RequestShape(req[w], devices)
  BY DEF IInv, WorkerInv
<1>3. \A i : ~Counting(req[w], i)
  BY <1>1 DEF Counting
<1>4. UNCHANGED <<devices, due>>
  BY <1>1 DEF Config
<1>7. raced \subseteq raced' /\ raced' \subseteq DOMAIN devices
  BY <1>2 DEF Acquire, DeviceInv
<1>5. CASE req[w].dev \notin DOMAIN devices
  <2>1. req' = [req EXCEPT ![w] = Idle]
    BY <1>5 DEF Acquire
  <2>2. FaultInv'
    BY <1>3, <1>4, <1>7, <2>1, IdleShape, FaultFrame
  <2>3. Idle.dev \notin DOMAIN devices
    BY <1>2, IdleShape, Indices
  <2> QED BY <1>1, <1>7, <2>1, <2>2, <2>3, IdleShape, StepInv
<1>6. CASE req[w].dev \in DOMAIN devices
  <2>1. PICK r, pc : r = req'[w] /\ pc = IF req[w].kind = "config" THEN "config" ELSE "fault"
    OBVIOUS
  <2>2. Goto(w, pc) /\ pc \in Steps
    BY <1>6, <2>1 DEF Acquire, Steps
  <2>3. /\ req' = [req EXCEPT ![w] = r]
        /\ DOMAIN r = {"pc", "dev", "lock", "kind", "fault", "current"}
        /\ r.pc = pc /\ r.dev = req[w].dev /\ r.lock = req[w].lock /\ r.kind = req[w].kind
    BY <1>2, <2>1, <2>2, GotoHolds
  <2>4. RequestShape(r, devices)
    BY <1>6, <2>1, <2>3 DEF RequestShape, Steps
  <2>5. \A i : ~Counting(r, i)
    BY <2>1, <2>3 DEF Counting
  <2>6. FaultInv'
    BY <1>3, <1>4, <1>7, <2>3, <2>5, FaultFrame
  <2>7. r.dev \notin raced' => r.lock = {RouteOf(devices[r.dev])}
    <3>1. \A i : Route(i) = RouteOf(devices[i])
      BY DEF Route, RouteOf
    <3>2. req[w].lock # {Route(req[w].dev)} => req[w].dev \in raced'
      BY <1>6 DEF Acquire
    <3> QED BY <2>3, <3>1, <3>2
  <2>8. ASSUME NEW i \in DOMAIN devices \ raced', NEW v \in Workers, Holds(r, i), Holds(req[v], i)
        PROVE  v = w
    <3>1. req[w].dev = i /\ req[v].dev = i /\ req[v].pc \notin {"idle", "lock"} /\ r.dev = i
      BY <2>3, <2>8 DEF Holds
    <3>2. req[w].lock = {RouteOf(devices[i])} /\ req[v].lock = {RouteOf(devices[i])}
      BY <1>2, <1>7, <2>3, <2>7, <3>1 DEF LockInv
    <3>3. req[v].lock \cap req[w].lock # {}
      BY <3>2
    <3> QED BY <1>1, <3>1, <3>3 DEF LockFree
  <2> QED BY <1>1, <1>7, <2>3, <2>4, <2>6, <2>7, <2>8, StepInv
<1> QED BY <1>5, <1>6

LEMMA WorkerSavesInv ==
  ASSUME IInv, NEW w \in Workers, WorkerSaves(w)
  PROVE  IInv'
<1>1. /\ req[w].pc \in {"save", "savefault"} /\ Save
      /\ UNCHANGED <<buses, devices, state, rpc, switched, asked, raced>> /\ UNCHANGED due
  BY DEF WorkerSaves
<1>2. /\ DeviceInv /\ WorkerInv /\ LockInv /\ Exclusive /\ RequestShape(req[w], devices)
      /\ FileInv /\ SavedInv /\ raced' \subseteq DOMAIN devices
  BY <1>1 DEF IInv, WorkerInv, DeviceInv
<1>3. \E r : /\ req' = [req EXCEPT ![w] = r] /\ RequestShape(r, devices)
             /\ \A i : ~Counting(r, i)
             /\ r = Idle \/ (r.dev = req[w].dev /\ r.lock = req[w].lock)
  <2>1. CASE req[w].pc = "save"
    <3>1. PICK r : r = req'[w]
      OBVIOUS
    <3>2. Goto(w, "fault") /\ "fault" \in Steps
      BY <2>1 DEF WorkerSaves, Steps
    <3>3. /\ req' = [req EXCEPT ![w] = r]
          /\ DOMAIN r = {"pc", "dev", "lock", "kind", "fault", "current"}
          /\ r.pc = "fault" /\ r.dev = req[w].dev /\ r.lock = req[w].lock /\ r.kind = req[w].kind
      BY <1>2, <3>1, <3>2, GotoHolds
    <3>4. RequestShape(r, devices) /\ \A i : ~Counting(r, i)
      BY <1>2, <2>1, <3>3 DEF RequestShape, Steps, Counting
    <3> QED BY <3>3, <3>4
  <2>2. CASE req[w].pc = "savefault"
    <3>1. req' = [req EXCEPT ![w] = Idle]
      BY <2>2 DEF WorkerSaves
    <3> QED BY <3>1, IdleShape
  <2> QED BY <1>1, <2>1, <2>2
<1>4. PICK r : /\ req' = [req EXCEPT ![w] = r] /\ RequestShape(r, devices)
               /\ \A i : ~Counting(r, i)
               /\ r = Idle \/ (r.dev = req[w].dev /\ r.lock = req[w].lock)
  BY <1>3
<1>5. FaultInv'
  <2>1. \A i : ~Counting(req[w], i)
    BY <1>1 DEF Counting
  <2> QED BY <1>1, <1>4, <2>1, FaultFrame
<1>6. r.dev \in DOMAIN devices \ raced => r.lock = {RouteOf(devices[r.dev])}
  BY <1>1, <1>2, <1>4, IdleShape, Indices DEF LockInv
<1>7. ASSUME NEW i \in DOMAIN devices \ raced, NEW v \in Workers, Holds(r, i), Holds(req[v], i)
      PROVE  v = w
  <2>1. Holds(req[w], i)
    BY <1>1, <1>4, <1>7, IdleShape DEF Holds
  <2> QED BY <1>2, <1>7, <2>1 DEF Exclusive
<1>8. WorkerInv' /\ LockInv' /\ Exclusive'
  BY <1>1, <1>4, <1>6, <1>7, Moved
<1>9. \A j \in DOMAIN devices : due'[j] \in Nat \cup {Null}
  BY <1>1, <1>2 DEF DeviceInv
<1>10. StateInv' /\ DeviceInv' /\ RpcInv' /\ SettingsAsAsked' /\ ServedInv'
  BY <1>1, <1>2, <1>9, Frame
<1>11. FileInv' /\ SavedInv'
  BY <1>1, <1>2, <1>10, SavedHolds DEF StateInv
<1> QED BY <1>5, <1>8, <1>10, <1>11, Zenon DEF IInv

\* A request meets a fault that nobody else is counting.
LEMMA CountMet ==
  ASSUME NEW q, NEW p, NEW w \in Workers, NEW i, NEW f, NEW n \in Nat \cup {Null}, CountOK(q, i, f, n),
         \A v \in Workers : v # w => p[v] = q[v], ~InUse(q, i), f.mode # "none",
         p[w].dev = i, p[w].pc = "consume", NEW k, k = IF n \in {Null, 0} THEN n ELSE n - 1
  PROVE  CountOK(p, i, f, k)
<1>1. InUse(p, i)
  BY DEF InUse, Counting
<1>2. \A v \in Workers : ~(p[v].dev = i /\ p[v].pc = "count")
  <2>1. \A v \in Workers : v # w => ~Counting(p[v], i)
    BY DEF InUse
  <2> QED BY <2>1 DEF Counting
<1>3. CASE n = Null
  BY <1>1, <1>2, <1>3 DEF CountOK
<1>4. CASE n # Null
  <2>1. n \in Nat /\ f.remaining.n = n /\ n # 0
    BY <1>4 DEF CountOK
  <2>2. k = n - 1 /\ k # Null
    BY <1>4, <2>1, NotNull
  <2>3. f.remaining.n = k + 1
    BY <2>1, <2>2
  <2> QED BY <1>1, <1>2, <2>2, <2>3 DEF CountOK
<1> QED BY <1>3, <1>4

\* The holder of the device's lock is the only one that can be counting.
LEMMA Alone ==
  ASSUME Exclusive, NEW i \in DOMAIN devices \ raced, NEW w \in Workers, Holds(req[w], i)
  PROVE  \A v \in Workers : Counting(req[v], i) => v = w
<1>1. \A v \in Workers : Counting(req[v], i) => Holds(req[v], i)
  BY DEF Counting, Holds
<1> QED BY <1>1 DEF Exclusive

LEMMA MeetFaultInv ==
  ASSUME IInv, NEW w \in Workers, MeetFault(w)
  PROVE  IInv'
<1>1. req[w].pc = "fault" /\ UNCHANGED <<buses, devices, state, rpc, switched, asked, raced>> /\ file' = file
  BY DEF MeetFault
<1>2. /\ DeviceInv /\ WorkerInv /\ LockInv /\ Exclusive /\ RequestShape(req[w], devices)
      /\ raced' \subseteq DOMAIN devices
  BY <1>1 DEF IInv, WorkerInv, DeviceInv
<1>3. \A j : ~Counting(req[w], j)
  BY <1>1 DEF Counting
<1>4. CASE req' = [req EXCEPT ![w] = Idle] /\ due' = due
  <2>1. UNCHANGED Config
    BY <1>4 DEF MeetFault, Config
  <2>2. FaultInv'
    BY <1>1, <1>3, <1>4, IdleShape, FaultFrame
  <2>3. Idle.dev \notin DOMAIN devices
    BY <1>2, IdleShape, Indices
  <2> QED BY <1>1, <1>2, <1>4, <2>1, <2>2, <2>3, IdleShape, StepInv
<1>5. CASE ~(req' = [req EXCEPT ![w] = Idle] /\ due' = due)
  <2>1. PICK i, f : /\ i = req[w].dev
                    /\ f = IF req[w].dev = Null THEN Fault("none", Plain(0)) ELSE devices[req[w].dev].faults
    OBVIOUS
  <2>2. /\ f.mode # "none" /\ Goto(w, "consume")
        /\ due' = IF due[i] \in {Null, 0} THEN due ELSE [due EXCEPT ![i] = @ - 1]
    BY <1>5, <2>1 DEF MeetFault
  <2>3. i \in DOMAIN devices /\ f = devices[i].faults
    BY <1>1, <1>2, <2>1, <2>2 DEF Fault, RequestShape
  <2>4. PICK r : r = req'[w]
    OBVIOUS
  <2>5. "consume" \in Steps
    BY DEF Steps
  <2>6. /\ req' = [req EXCEPT ![w] = r]
        /\ DOMAIN r = {"pc", "dev", "lock", "kind", "fault", "current"}
        /\ r.pc = "consume" /\ r.dev = i /\ r.lock = req[w].lock /\ r.kind = req[w].kind
    BY <1>2, <2>1, <2>2, <2>4, <2>5, GotoHolds
  <2>7. RequestShape(r, devices)
    BY <1>2, <2>1, <2>3, <2>5, <2>6 DEF RequestShape
  <2>8. r.dev \in DOMAIN devices \ raced => r.lock = {RouteOf(devices[r.dev])}
    BY <1>1, <1>2, <2>1, <2>6 DEF LockInv
  <2>9. ASSUME NEW j \in DOMAIN devices \ raced, NEW v \in Workers, Holds(r, j), Holds(req[v], j)
        PROVE  v = w
    <3>1. Holds(req[w], j)
      BY <1>1, <2>1, <2>6, <2>9 DEF Holds
    <3> QED BY <1>2, <2>9, <3>1 DEF Exclusive
  <2>10. WorkerInv' /\ LockInv' /\ Exclusive'
    BY <1>1, <2>6, <2>7, <2>8, <2>9, Moved
  <2>11. DOMAIN due = DOMAIN devices /\ \A j \in DOMAIN devices : due[j] \in Nat \cup {Null}
    BY <1>2 DEF DeviceInv
  <2>12. /\ DOMAIN due' = DOMAIN due /\ \A j \in DOMAIN devices : j # i => due'[j] = due[j]
         /\ due'[i] = IF due[i] \in {Null, 0} THEN due[i] ELSE due[i] - 1
    BY <2>2, <2>3, <2>11
  <2>13. due'[i] \in Nat \cup {Null}
    BY <2>3, <2>11, <2>12
  <2>14. \A j \in DOMAIN devices : due'[j] \in Nat \cup {Null}
    BY <2>11, <2>12, <2>13
  <2>15. StateInv' /\ DeviceInv' /\ RpcInv' /\ SettingsAsAsked' /\ ServedInv'
    BY <1>1, <1>2, <2>12, <2>14, Frame
  <2>16. FileInv' /\ SavedInv'
    BY <1>1, FileFrame
  <2>17. req'[w] = r /\ \A v \in Workers : v # w => req'[v] = req[v]
    BY <1>2, <2>6 DEF WorkerInv
  <2>18. ASSUME NEW j \in DOMAIN devices \ raced
         PROVE  CountOK(req', j, devices[j].faults, due'[j])
    <3>1. PICK p, q, g, n, k : p = req' /\ q = req /\ g = devices[j].faults /\ n = due[j] /\ k = due'[j]
      OBVIOUS
    <3>2. CountOK(q, j, g, n)
      BY <3>1 DEF IInv, FaultInv
    <3>3. CASE j # i
      <4>1. ~Counting(q[w], j) /\ ~Counting(p[w], j) /\ k = n
        BY <1>3, <2>6, <2>12, <2>17, <3>1, <3>3 DEF Counting
      <4>2. CountOK(p, j, g, n)
        BY <2>17, <3>1, <3>2, <4>1, CountKept
      <4> QED BY <3>1, <4>1, <4>2
    <3>4. CASE j = i
      <4>1. Holds(req[w], j)
        BY <1>1, <2>1, <3>4 DEF Holds
      <4>2. ~InUse(q, j)
        BY <1>2, <1>3, <3>1, <4>1, Alone DEF InUse
      <4>3. n \in Nat \cup {Null} /\ k = IF n \in {Null, 0} THEN n ELSE n - 1
        BY <2>11, <2>12, <3>1, <3>4
      <4>4. g.mode # "none" /\ p[w].dev = j /\ p[w].pc = "consume"
        BY <2>2, <2>3, <2>6, <2>17, <3>1, <3>4
      <4>6. \A v \in Workers : v # w => p[v] = q[v]
        BY <2>17, <3>1
      <4>5. CountOK(p, j, g, k)
        BY <3>2, <4>2, <4>3, <4>4, <4>6, CountMet, Zenon
      <4> QED BY <3>1, <4>5
    <3> QED BY <3>3, <3>4
  <2>19. FaultInv'
    BY <1>1, <2>18 DEF FaultInv
  <2> QED BY <2>10, <2>15, <2>16, <2>19, Zenon DEF IInv
<1> QED BY <1>4, <1>5

LEMMA ReadFaultInv ==
  ASSUME IInv, NEW w \in Workers, ReadFault(w)
  PROVE  IInv'
<1>1. req[w].pc = "consume" /\ UNCHANGED Config
  BY DEF ReadFault
<1>2. UNCHANGED <<devices, due, raced>>
  BY DEF ReadFault, Config
<1>3. /\ DeviceInv /\ WorkerInv /\ LockInv /\ Exclusive /\ RequestShape(req[w], devices)
      /\ raced' \subseteq DOMAIN devices
  BY <1>2 DEF IInv, WorkerInv, DeviceInv
<1>4. PICK i, r : i = req[w].dev /\ r = req'[w]
  OBVIOUS
<1>5. i \in DOMAIN devices \cup {Null}
  BY <1>1, <1>3, <1>4 DEF RequestShape
<1>6. DOMAIN req = Workers /\ DOMAIN req[w] = {"pc", "dev", "lock", "kind", "fault", "current"}
  BY <1>3 DEF WorkerInv, RequestShape
<1>7. /\ req' = [req EXCEPT ![w] = r]
      /\ r = IF i = Null \/ devices[i].faults.remaining.n = 0 THEN Idle
             ELSE [req[w] EXCEPT !.pc = "count", !.fault = devices[i].faults, !.current = TRUE]
  BY <1>4, <1>6 DEF ReadFault, At
<1>8. \A v \in Workers : v # w => req'[v] = req[v]
  BY <1>6, <1>7
<1>9. CASE i = Null \/ devices[i].faults.remaining.n = 0
  <2>1. r = Idle
    BY <1>7, <1>9
  <2>2. ASSUME NEW j \in DOMAIN devices \ raced
        PROVE  CountOK(req', j, devices[j].faults, due[j])
    <3>1. PICK p, q, g, n : p = req' /\ q = req /\ g = devices[j].faults /\ n = due[j]
      OBVIOUS
    <3>2. CountOK(q, j, g, n) /\ p[w] = Idle
      BY <1>4, <2>1, <3>1 DEF IInv, FaultInv
    <3>3. CASE j # i
      <4>1. ~Counting(q[w], j) /\ ~Counting(p[w], j)
        BY <1>4, <3>1, <3>2, <3>3, IdleShape DEF Counting
      <4>2. CountOK(p, j, g, n)
        BY <1>8, <3>1, <3>2, <4>1, CountKept
      <4> QED BY <3>1, <4>2
    <3>4. CASE j = i
      <4>1. Counting(q[w], j)
        BY <1>1, <1>4, <3>1, <3>4 DEF Counting
      <4>2. InUse(q, j) /\ g.mode # "none"
        BY <3>2, <4>1 DEF InUse, CountOK
      <4>3. g.remaining.n = 0
        BY <1>3, <1>9, <3>1, <3>4, Indices
      <4>4. n \in Nat \cup {Null}
        BY <1>3, <3>1 DEF DeviceInv
      <4>5. n = Null
        BY <3>2, <4>2, <4>3, <4>4 DEF CountOK
      <4>6. \A v \in Workers : p[v].dev = j /\ p[v].pc = "count" => v # w
        <5>1. p[w].pc = "idle"
          BY <3>2, IdleShape
        <5> QED BY <5>1
      <4>7. \A v \in Workers : v # w => p[v] = q[v]
        BY <1>8, <3>1
      <4>8. CountOK(p, j, g, n)
        BY <3>2, <4>2, <4>3, <4>5, <4>6, <4>7 DEF CountOK
      <4> QED BY <3>1, <4>8
    <3> QED BY <3>3, <3>4
  <2>3. FaultInv'
    BY <1>2, <2>2 DEF FaultInv
  <2>4. Idle.dev \notin DOMAIN devices
    BY <1>3, IdleShape, Indices
  <2> QED BY <1>1, <1>2, <1>3, <1>7, <2>1, <2>3, <2>4, IdleShape, StepInv
<1>10. CASE ~(i = Null \/ devices[i].faults.remaining.n = 0)
  <2>1. /\ DOMAIN r = {"pc", "dev", "lock", "kind", "fault", "current"}
        /\ r.pc = "count" /\ r.dev = i /\ r.lock = req[w].lock /\ r.kind = req[w].kind
        /\ r.fault = devices[i].faults /\ r.current = TRUE
    BY <1>4, <1>6, <1>7, <1>10
  <2>2. r.fault.remaining.n \in Nat \ {0}
    BY <1>3, <1>5, <1>10, <2>1 DEF DeviceInv, DeviceShape, FaultShape
  <2>3. RequestShape(r, devices)
    BY <1>5, <2>1, <2>2 DEF RequestShape, Steps
  <2>4. ASSUME NEW j \in DOMAIN devices \ raced
        PROVE  CountOK(req', j, devices[j].faults, due[j])
    <3>1. PICK p, q, g, n : p = req' /\ q = req /\ g = devices[j].faults /\ n = due[j]
      OBVIOUS
    <3>2. CountOK(q, j, g, n) /\ p[w] = r
      BY <1>4, <3>1 DEF IInv, FaultInv
    <3>3. CASE j # i
      <4>1. ~Counting(q[w], j) /\ ~Counting(p[w], j)
        BY <1>4, <2>1, <3>1, <3>2, <3>3 DEF Counting
      <4>2. CountOK(p, j, g, n)
        BY <1>8, <3>1, <3>2, <4>1, CountKept
      <4> QED BY <3>1, <4>2
    <3>4. CASE j = i
      <4>1. Counting(q[w], j) /\ Counting(p[w], j)
        BY <1>1, <1>4, <2>1, <3>1, <3>2, <3>4 DEF Counting
      <4>2. InUse(q, j) /\ InUse(p, j)
        BY <4>1 DEF InUse
      <4>3. p[w].fault = g /\ p[w].current = TRUE
        BY <2>1, <3>1, <3>2, <3>4
      <4>4. \A v \in Workers : v # w => p[v] = q[v]
        BY <1>8, <3>1
      <4>5. CountOK(p, j, g, n)
        BY <3>2, <4>2, <4>3, <4>4 DEF CountOK
      <4> QED BY <3>1, <4>5
    <3> QED BY <3>3, <3>4
  <2>5. FaultInv'
    BY <1>2, <2>4 DEF FaultInv
  <2>6. r.dev \in DOMAIN devices \ raced => r.lock = {RouteOf(devices[r.dev])}
    BY <1>1, <1>3, <1>4, <2>1 DEF LockInv
  <2>7. ASSUME NEW j \in DOMAIN devices \ raced, NEW v \in Workers, Holds(r, j), Holds(req[v], j)
        PROVE  v = w
    <3>1. Holds(req[w], j)
      BY <1>1, <1>4, <2>1, <2>7 DEF Holds
    <3> QED BY <1>3, <2>7, <3>1 DEF Exclusive
  <2> QED BY <1>1, <1>2, <1>3, <1>7, <2>3, <2>5, <2>6, <2>7, StepInv
<1> QED BY <1>9, <1>10

\* A device that changes in its faults, its settings or its metadata.
SameRoute(d, e) ==
  /\ DOMAIN e = DOMAIN d /\ e.id = d.id /\ e.transport = d.transport
  /\ e.backend = d.backend /\ e.attached = d.attached

LEMMA RouteKept ==
  ASSUME NEW d, NEW e, SameRoute(d, e)
  PROVE  RouteOf(e) = RouteOf(d) /\ e.transport = d.transport
BY DEF SameRoute, RouteOf

LEMMA DeviceFrame ==
  ASSUME IInv, UNCHANGED <<buses, state, switched>>, DOMAIN devices' = DOMAIN devices,
         \A j \in DOMAIN devices : SameRoute(devices[j], devices'[j]) /\ FaultShape(devices'[j].faults),
         due' = due, DOMAIN asked' = DOMAIN asked, raced' \subseteq DOMAIN devices
  PROVE  StateInv' /\ DeviceInv' /\ ServedInv'
<1>1. StateInv /\ DeviceInv /\ ServedInv
  BY DEF IInv
<1>2. StateInv'
  BY <1>1, Zenon DEF StateInv
<1>3. \A j \in DOMAIN devices : DeviceShape(devices'[j])
  <2> SUFFICES ASSUME NEW j \in DOMAIN devices PROVE DeviceShape(devices'[j])
    OBVIOUS
  <2>1. PICK d, e : d = devices[j] /\ e = devices'[j]
    OBVIOUS
  <2>2. DeviceShape(d) /\ SameRoute(d, e) /\ FaultShape(e.faults)
    BY <1>1, <2>1 DEF DeviceInv
  <2>3. DeviceShape(e)
    BY <2>2 DEF DeviceShape, SameRoute
  <2> QED BY <2>1, <2>3
<1>4. DeviceInv'
  BY <1>1, <1>3 DEF DeviceInv, IsArray
<1>5. ServedInv'
  BY <1>1 DEF ServedInv, SameRoute
<1> QED BY <1>2, <1>4, <1>5

\* The last request of a fault, or one of several, has been counted.
LEMMA CountDone ==
  ASSUME NEW q, NEW p, NEW w \in Workers, NEW i, NEW f, NEW n \in Nat \cup {Null}, CountOK(q, i, f, n),
         \A v \in Workers : v # w => p[v] = q[v], \A v \in Workers : Counting(q[v], i) => v = w,
         q[w].dev = i, q[w].pc = "count", q[w].fault.remaining.n \in Nat \ {0}, ~Counting(p[w], i), NEW g,
         IF f.remaining.n - 1 = 0 THEN g.mode = "none"
         ELSE g.mode = f.mode /\ g.remaining.n = f.remaining.n - 1
  PROVE  CountOK(p, i, g, n)
<1>1. Counting(q[w], i)
  BY DEF Counting
<1>2. InUse(q, i)
  BY <1>1 DEF InUse
<1>3. f.mode # "none" /\ q[w].fault = f
  BY <1>2 DEF CountOK
<1>4. n # Null /\ n \in Nat /\ f.remaining.n = n + 1
  BY <1>2, <1>3 DEF CountOK
<1>5. \A v \in Workers : ~Counting(p[v], i)
  OBVIOUS
<1>6. ~InUse(p, i) /\ \A v \in Workers : ~(p[v].dev = i /\ p[v].pc = "count")
  BY <1>5 DEF InUse, Counting
<1>7. CASE n = 0
  <2>1. g.mode = "none"
    BY <1>4, <1>7
  <2> QED BY <1>4, <1>6, <1>7, <2>1 DEF CountOK
<1>8. CASE n # 0
  <2>1. g.mode # "none" /\ g.remaining.n = n
    BY <1>3, <1>4, <1>8
  <2> QED BY <1>4, <1>6, <1>8, <2>1 DEF CountOK
<1> QED BY <1>7, <1>8

LEMMA CountFaultInv ==
  ASSUME IInv, NEW w \in Workers, CountFault(w)
  PROVE  IInv'
<1>1. /\ req[w].pc = "count" /\ Goto(w, "savefault") /\ UNCHANGED <<buses, state, switched>>
      /\ UNCHANGED <<file, rpc, due, asked, raced>>
  BY DEF CountFault
<1>2. DeviceInv /\ WorkerInv /\ LockInv /\ Exclusive /\ RequestShape(req[w], devices)
  BY DEF IInv, WorkerInv
<1>3. PICK i, r, left : i = req[w].dev /\ r = req'[w] /\ left = req[w].fault.remaining.n - 1
  OBVIOUS
<1>4. i \in DOMAIN devices \cup {Null} /\ req[w].fault.remaining.n \in Nat \ {0} /\ left \in Nat
  BY <1>1, <1>2, <1>3 DEF RequestShape
<1>5. "savefault" \in Steps
  BY DEF Steps
<1>6. /\ req' = [req EXCEPT ![w] = r]
      /\ DOMAIN r = {"pc", "dev", "lock", "kind", "fault", "current"}
      /\ r.pc = "savefault" /\ r.dev = i /\ r.lock = req[w].lock /\ r.kind = req[w].kind
  BY <1>1, <1>2, <1>3, <1>5, GotoHolds
<1>7. RequestShape(r, devices)
  BY <1>4, <1>5, <1>6 DEF RequestShape
<1>8. devices' = IF i = Null THEN devices
                 ELSE IF left = 0 THEN [devices EXCEPT ![i].faults = UsedUp(@)]
                 ELSE IF req[w].current THEN [devices EXCEPT ![i].faults.remaining = Plain(left)]
                 ELSE devices
  BY <1>3 DEF CountFault
<1>9. /\ DOMAIN devices' = DOMAIN devices
      /\ \A j \in DOMAIN devices : SameRoute(devices[j], devices'[j]) /\ devices'[j].settings = devices[j].settings
      /\ \A j \in DOMAIN devices : FaultShape(devices'[j].faults)
      /\ \A j \in DOMAIN devices : j # i => devices'[j].faults = devices[j].faults
      /\ i # Null /\ left = 0 => devices'[i].faults = UsedUp(devices[i].faults)
      /\ i # Null /\ left # 0 /\ req[w].current =>
           devices'[i].faults = [devices[i].faults EXCEPT !.remaining = Plain(left)]
  <2>1. \A j \in DOMAIN devices : DeviceShape(devices[j])
    BY <1>2 DEF DeviceInv
  <2>2. \A j \in DOMAIN devices : FaultShape(devices[j].faults) /\ SameRoute(devices[j], devices[j])
    BY <2>1 DEF DeviceShape, SameRoute
  <2>3. CASE devices' = devices /\ ~(i # Null /\ left = 0) /\ ~(i # Null /\ left # 0 /\ req[w].current)
    BY <2>2, <2>3
  <2>4. CASE i # Null /\ (left = 0 \/ req[w].current)
    <3>1. i \in DOMAIN devices
      BY <1>4, <2>4
    <3>2. PICK d, f, g : /\ d = devices[i] /\ f = devices[i].faults
                         /\ g = IF left = 0 THEN UsedUp(f) ELSE [f EXCEPT !.remaining = Plain(left)]
      OBVIOUS
    <3>3. devices' = [devices EXCEPT ![i] = [d EXCEPT !.faults = g]]
      BY <1>8, <2>4, <3>1, <3>2
    <3>4. FaultShape(g)
      <4>1. FaultShape(f)
        BY <2>2, <3>1, <3>2
      <4>2. Plain(left) \in [n : Nat, how : {"int"}] /\ Plain(0) \in [n : Nat, how : {"int"}]
        BY <1>4 DEF Plain
      <4>3. FaultShape(UsedUp(f))
        BY <4>2 DEF FaultShape, UsedUp, Fault
      <4>4. FaultShape([f EXCEPT !.remaining = Plain(left)])
        BY <4>1, <4>2 DEF FaultShape
      <4> QED BY <3>2, <4>3, <4>4
    <3>5. DeviceShape(d)
      BY <2>1, <3>1, <3>2
    <3>6. PICK e : e = [d EXCEPT !.faults = g]
      OBVIOUS
    <3>7. SameRoute(d, e) /\ e.faults = g /\ e.settings = d.settings
      BY <3>5, <3>6 DEF DeviceShape, SameRoute
    <3>8. /\ DOMAIN devices' = DOMAIN devices /\ devices'[i] = e
          /\ \A j \in DOMAIN devices : j # i => devices'[j] = devices[j]
      BY <3>1, <3>3, <3>6
    <3>9. \A j \in DOMAIN devices : SameRoute(devices[j], devices'[j]) /\ devices'[j].settings = devices[j].settings
      BY <2>2, <3>2, <3>7, <3>8
    <3>10. \A j \in DOMAIN devices : FaultShape(devices'[j].faults)
      BY <2>2, <3>4, <3>7, <3>8
    <3> QED BY <3>2, <3>7, <3>8, <3>9, <3>10
  <2> QED BY <1>8, <2>3, <2>4
<1>10. \A j \in DOMAIN devices : /\ devices'[j].transport = devices[j].transport
                                 /\ RouteOf(devices'[j]) = RouteOf(devices[j])
  BY <1>9, RouteKept
<1>11. r.dev \in DOMAIN devices \ raced => r.lock = {RouteOf(devices[r.dev])}
  BY <1>1, <1>2, <1>3, <1>6 DEF LockInv
<1>12. ASSUME NEW j \in DOMAIN devices \ raced, NEW v \in Workers, Holds(r, j), Holds(req[v], j)
       PROVE  v = w
  <2>1. Holds(req[w], j)
    BY <1>1, <1>3, <1>6, <1>12 DEF Holds
  <2> QED BY <1>2, <1>12, <2>1 DEF Exclusive
<1>13. WorkerInv' /\ LockInv' /\ Exclusive'
  BY <1>1, <1>6, <1>7, <1>9, <1>10, <1>11, <1>12, Moved
<1>14. StateInv' /\ DeviceInv' /\ ServedInv'
  <2>1. raced' \subseteq DOMAIN devices
    BY <1>1, <1>2 DEF DeviceInv
  <2> QED BY <1>1, <1>9, <2>1, DeviceFrame
<1>15. RpcInv'
  BY <1>1, <1>9 DEF IInv, RpcInv, SameRoute
<1>16. SettingsAsAsked'
  <2>1. \A j \in DOMAIN devices : devices'[j].settings = devices[j].settings /\ devices'[j].transport = devices[j].transport
    BY <1>9 DEF SameRoute
  <2> QED BY <1>1, <1>9, <2>1 DEF IInv, SettingsAsAsked, Known
<1>17. FileInv' /\ SavedInv'
  BY <1>1, FileFrame
<1>18. req'[w] = r /\ \A v \in Workers : v # w => req'[v] = req[v]
  BY <1>2, <1>6 DEF WorkerInv
<1>19. ASSUME NEW j \in DOMAIN devices \ raced
       PROVE  CountOK(req', j, devices'[j].faults, due[j])
  <2>1. PICK p, q, f, g, n : p = req' /\ q = req /\ f = devices[j].faults /\ g = devices'[j].faults /\ n = due[j]
    OBVIOUS
  <2>2. CountOK(q, j, f, n)
    BY <2>1 DEF IInv, FaultInv
  <2>3. \A v \in Workers : v # w => p[v] = q[v]
    BY <1>18, <2>1
  <2>4. ~Counting(p[w], j)
    BY <1>6, <1>18, <2>1 DEF Counting
  <2>5. CASE j # i
    <3>1. ~Counting(q[w], j)
      BY <1>3, <2>1, <2>5 DEF Counting
    <3>2. g = f
      BY <1>9, <2>1, <2>5
    <3>3. CountOK(p, j, f, n)
      BY <2>2, <2>3, <2>4, <3>1, CountKept, Zenon
    <3> QED BY <2>1, <3>2, <3>3
  <2>6. CASE j = i
    <3>1. q[w].dev = j /\ q[w].pc = "count" /\ q[w].fault.remaining.n \in Nat \ {0}
      BY <1>1, <1>3, <1>4, <2>1, <2>6
    <3>2. Holds(req[w], j)
      BY <2>1, <3>1 DEF Holds
    <3>3. \A v \in Workers : Counting(q[v], j) => v = w
      BY <1>2, <2>1, <3>2, Alone
    <3>4. n \in Nat \cup {Null}
      BY <1>2, <2>1 DEF DeviceInv
    <3>5. q[w].fault = f /\ q[w].current = TRUE
      BY <2>2, <3>1 DEF CountOK
    <3>6. left = f.remaining.n - 1 /\ req[w].current = TRUE /\ i # Null
      BY <1>2, <1>3, <2>1, <2>6, <3>5, Indices
    <3>7. IF f.remaining.n - 1 = 0 THEN g.mode = "none"
          ELSE g.mode = f.mode /\ g.remaining.n = f.remaining.n - 1
      <4>1. CASE left = 0
        BY <1>9, <2>1, <2>6, <3>6, <4>1 DEF UsedUp, Fault
      <4>2. CASE left # 0
        <5>1. FaultShape(f)
          BY <1>2, <2>1 DEF DeviceInv, DeviceShape
        <5>2. g = [f EXCEPT !.remaining = Plain(left)]
          BY <1>9, <2>1, <2>6, <3>6, <4>2
        <5>3. g.mode = f.mode /\ g.remaining.n = left
          BY <5>1, <5>2 DEF FaultShape, Plain
        <5> QED BY <3>6, <4>2, <5>3
      <4> QED BY <4>1, <4>2
    <3>8. CountOK(p, j, g, n)
      BY <2>2, <2>3, <2>4, <3>1, <3>3, <3>4, <3>7, CountDone, Zenon
    <3> QED BY <2>1, <3>8
  <2> QED BY <2>5, <2>6
<1>20. FaultInv'
  BY <1>1, <1>9, <1>19 DEF FaultInv
<1> QED BY <1>13, <1>14, <1>15, <1>16, <1>17, <1>20, Zenon DEF IInv

LEMMA ConfigureInv ==
  ASSUME IInv, NEW w \in Workers, NEW t \in Termios, Configure(w, t)
  PROVE  IInv'
<1>1. /\ req[w].pc = "config" /\ Goto(w, "save") /\ UNCHANGED <<buses, state, switched>>
      /\ UNCHANGED <<file, rpc, due>>
  BY DEF Configure
<1>2. DeviceInv /\ WorkerInv /\ LockInv /\ Exclusive /\ RequestShape(req[w], devices)
  BY DEF IInv, WorkerInv
<1>3. PICK i, r : i = req[w].dev /\ r = req'[w]
  OBVIOUS
<1>4. i \in DOMAIN devices \cup {Null}
  BY <1>1, <1>2, <1>3 DEF RequestShape
<1>5. "save" \in Steps
  BY DEF Steps
<1>6. /\ req' = [req EXCEPT ![w] = r]
      /\ DOMAIN r = {"pc", "dev", "lock", "kind", "fault", "current"}
      /\ r.pc = "save" /\ r.dev = i /\ r.lock = req[w].lock /\ r.kind = req[w].kind
  BY <1>1, <1>2, <1>3, <1>5, GotoHolds
<1>7. RequestShape(r, devices)
  BY <1>4, <1>5, <1>6 DEF RequestShape
<1>8. PICK s : s = Derived(devices[i], t)
  OBVIOUS
<1>9. IF i = Null THEN UNCHANGED <<devices, asked, raced>>
      ELSE /\ devices' = [devices EXCEPT ![i].settings = s ++ @]
           /\ asked' = IF devices[i].transport = "uart" THEN [asked EXCEPT ![i] = Settings("uart", s)] ELSE asked
           /\ raced' = IF rpc # Null THEN raced \cup {i} ELSE raced
  BY <1>3, <1>8 DEF Configure
<1>10. \A j \in DOMAIN devices : DeviceShape(devices[j])
  BY <1>2 DEF DeviceInv
<1>11. DOMAIN asked = DOMAIN devices /\ raced \subseteq DOMAIN devices
  BY <1>2 DEF DeviceInv
<1>12. /\ DOMAIN devices' = DOMAIN devices /\ DOMAIN asked' = DOMAIN asked
       /\ raced \subseteq raced' /\ raced' \subseteq DOMAIN devices
       /\ \A j \in DOMAIN devices : SameRoute(devices[j], devices'[j]) /\ devices'[j].faults = devices[j].faults
       /\ \A j \in DOMAIN devices : j # i => devices'[j].settings = devices[j].settings /\ asked'[j] = asked[j]
       /\ i # Null => /\ devices'[i].settings = s ++ devices[i].settings
                      /\ asked'[i] = IF devices[i].transport = "uart" THEN Settings("uart", s) ELSE asked[i]
                      /\ rpc # Null => i \in raced'
  <2>1. \A j \in DOMAIN devices : SameRoute(devices[j], devices[j])
    BY DEF SameRoute
  <2>2. CASE i = Null
    <3>1. devices' = devices /\ asked' = asked /\ raced' = raced
      BY <1>9, <2>2
    <3> QED BY <1>11, <2>1, <2>2, <3>1
  <2>3. CASE i # Null
    <3>1. i \in DOMAIN devices
      BY <1>4, <2>3
    <3>2. PICK d, e : d = devices[i] /\ e = [d EXCEPT !.settings = s ++ d.settings]
      OBVIOUS
    <3>3. devices' = [devices EXCEPT ![i] = e]
      BY <1>9, <2>3, <3>1, <3>2
    <3>4. DeviceShape(d)
      BY <1>10, <3>1, <3>2
    <3>5. SameRoute(d, e) /\ e.faults = d.faults /\ e.settings = s ++ d.settings
      BY <3>2, <3>4 DEF DeviceShape, SameRoute
    <3>6. /\ DOMAIN devices' = DOMAIN devices /\ devices'[i] = e
          /\ \A j \in DOMAIN devices : j # i => devices'[j] = devices[j]
      BY <3>1, <3>3
    <3>7. /\ DOMAIN asked' = DOMAIN asked
          /\ asked'[i] = IF devices[i].transport = "uart" THEN Settings("uart", s) ELSE asked[i]
          /\ \A j \in DOMAIN devices : j # i => asked'[j] = asked[j]
      BY <1>9, <1>11, <2>3, <3>1
    <3>8. raced \subseteq raced' /\ raced' \subseteq DOMAIN devices /\ (rpc # Null => i \in raced')
      BY <1>9, <1>11, <2>3, <3>1
    <3>9. \A j \in DOMAIN devices : SameRoute(devices[j], devices'[j]) /\ devices'[j].faults = devices[j].faults
      BY <2>1, <3>2, <3>5, <3>6
    <3> QED BY <3>2, <3>5, <3>6, <3>7, <3>8, <3>9
  <2> QED BY <2>2, <2>3
<1>13. \A j \in DOMAIN devices : /\ devices'[j].transport = devices[j].transport
                                 /\ RouteOf(devices'[j]) = RouteOf(devices[j])
  BY <1>12, RouteKept
<1>14. r.dev \in DOMAIN devices \ raced => r.lock = {RouteOf(devices[r.dev])}
  BY <1>1, <1>2, <1>3, <1>6 DEF LockInv
<1>15. ASSUME NEW j \in DOMAIN devices \ raced, NEW v \in Workers, Holds(r, j), Holds(req[v], j)
       PROVE  v = w
  <2>1. Holds(req[w], j)
    BY <1>1, <1>3, <1>6, <1>15 DEF Holds
  <2> QED BY <1>2, <1>15, <2>1 DEF Exclusive
<1>16. WorkerInv' /\ LockInv' /\ Exclusive'
  BY <1>6, <1>7, <1>12, <1>13, <1>14, <1>15, Moved
<1>17. \A j \in DOMAIN devices : FaultShape(devices'[j].faults)
  BY <1>10, <1>12 DEF DeviceShape
<1>18. StateInv' /\ DeviceInv' /\ ServedInv'
  BY <1>1, <1>12, <1>17, DeviceFrame
<1>19. RpcInv'
  <2> SUFFICES ASSUME rpc # Null PROVE RpcInv'
    BY <1>1 DEF RpcInv
  <2>1. RpcInv /\ rpc' = rpc
    BY <1>1 DEF IInv
  <2>2. rpc.dev \in DOMAIN devices /\ FaultShape(rpc.new.faults)
    BY <2>1 DEF RpcInv
  <2>3. CASE rpc.dev = i
    <3>1. rpc.dev \in raced'
      BY <1>2, <1>12, <2>2, <2>3, Indices
    <3> QED BY <1>12, <2>1, <2>2, <3>1 DEF RpcInv
  <2>4. CASE rpc.dev # i
    <3>1. /\ devices'[rpc.dev].settings = devices[rpc.dev].settings
          /\ devices'[rpc.dev].transport = devices[rpc.dev].transport
      BY <1>12, <1>13, <2>2, <2>4
    <3> QED BY <1>12, <2>1, <2>2, <3>1 DEF RpcInv
  <2> QED BY <2>3, <2>4
<1>20. SettingsAsAsked'
  <2> SUFFICES ASSUME NEW j \in DOMAIN devices \ raced
               PROVE  Settings(devices'[j].transport, devices'[j].settings) = asked'[j]
    BY <1>12 DEF SettingsAsAsked, Known
  <2>1. CASE j # i
    BY <1>12, <1>13, <2>1 DEF IInv, SettingsAsAsked, Known
  <2>2. CASE j = i
    <3>1. i # Null
      BY <1>2, <2>2, Indices
    <3>2. /\ devices'[j].transport = devices[j].transport /\ devices'[j].settings = s ++ devices[j].settings
          /\ asked'[j] = IF devices[j].transport = "uart" THEN Settings("uart", s) ELSE asked[j]
      BY <1>12, <1>13, <2>2, <3>1
    <3>3. CASE devices[j].transport = "uart"
      <4>1. Settings("uart", s ++ devices[j].settings) = Settings("uart", s)
        BY <1>8, DerivedWins
      <4> QED BY <3>2, <3>3, <4>1
    <3>4. CASE devices[j].transport # "uart"
      <4>1. PICK tr : tr = devices[j].transport
        OBVIOUS
      <4>2. tr \in Transports \ {"uart"}
        BY <1>10, <3>4, <4>1 DEF DeviceShape
      <4>3. Settings(tr, s ++ devices[j].settings) = Settings(tr, devices[j].settings)
        BY <1>8, <4>2, DerivedElsewhere
      <4>4. Settings(tr, devices[j].settings) = asked[j]
        BY <4>1 DEF IInv, SettingsAsAsked, Known
      <4> QED BY <3>2, <3>4, <4>1, <4>3, <4>4
    <3> QED BY <3>3, <3>4
  <2> QED BY <2>1, <2>2
<1>21. FileInv' /\ SavedInv'
  BY <1>1, FileFrame
<1>22. req'[w] = r /\ \A v \in Workers : v # w => req'[v] = req[v]
  BY <1>2, <1>6 DEF WorkerInv
<1>23. ASSUME NEW j \in DOMAIN devices \ raced
       PROVE  CountOK(req', j, devices'[j].faults, due[j])
  <2>1. PICK p, q, f, n : p = req' /\ q = req /\ f = devices[j].faults /\ n = due[j]
    OBVIOUS
  <2>2. CountOK(q, j, f, n)
    BY <2>1 DEF IInv, FaultInv
  <2>3. \A v \in Workers : v # w => p[v] = q[v]
    BY <1>22, <2>1
  <2>4. ~Counting(p[w], j) /\ ~Counting(q[w], j)
    BY <1>1, <1>6, <1>22, <2>1 DEF Counting
  <2>5. CountOK(p, j, f, n)
    BY <2>2, <2>3, <2>4, CountKept, Zenon
  <2> QED BY <1>12, <2>1, <2>5
<1>24. FaultInv'
  BY <1>1, <1>12, <1>23 DEF FaultInv
<1> QED BY <1>16, <1>18, <1>19, <1>20, <1>21, <1>24, Zenon DEF IInv

-----------------------------------------------------------------------------
(* device.update, backend.attach and backend.detach.                       *)

\* The settings of the patched copy.
LEMMA PatchedSettings ==
  ASSUME NEW d, DeviceShape(d), NEW patch, NEW c, c = Merge(DeviceSaved(d), patch)
  PROVE  Settings(d.transport, Get(c, "settings", EmptyDict))
           = Settings(d.transport, AskedNow(d.settings, patch))
<1>1. d.transport \in Transports /\ "settings" \in DOMAIN d
  BY DEF DeviceShape
<1>2. PICK e : e = DeviceSaved(d)
  OBVIOUS
<1>3. "settings" \in DOMAIN e /\ e.settings = d.settings
  BY <1>1, <1>2 DEF DeviceSaved
<1>4. c = [k \in DOMAIN e \cup DOMAIN patch |->
            IF k \in DOMAIN e \cap DOMAIN patch THEN MergeInto(k, e[k], patch[k])
            ELSE Get(patch, k, Get(e, k, Null))]
  BY <1>2 DEF Merge
<1>5. Get(c, "settings", EmptyDict) = c.settings
  BY <1>3, <1>4 DEF Get
<1>6. CASE "settings" \in DOMAIN patch
  <2>1. c.settings = MergeInto("settings", e.settings, patch.settings)
    BY <1>3, <1>4, <1>6
  <2>2. \A x, y : MergeInto("settings", x, y) = IF y = None THEN EmptyDict ELSE y ++ x
    BY DEF MergeInto
  <2>3. Get(patch, "settings", EmptyDict) = patch.settings
    BY <1>6 DEF Get
  <2>4. c.settings = AskedNow(d.settings, patch)
    BY <1>3, <2>1, <2>2, <2>3, Zenon DEF AskedNow
  <2> QED BY <1>5, <2>4
<1>7. CASE "settings" \notin DOMAIN patch
  <2>1. c.settings = Get(patch, "settings", Get(e, "settings", Null))
    BY <1>3, <1>4, <1>7
  <2>2. c.settings = d.settings
    BY <1>3, <1>7, <2>1 DEF Get
  <2>3. Get(patch, "settings", EmptyDict) = EmptyDict
    BY <1>7 DEF Get
  <2>4. Settings(d.transport, EmptyDict ++ d.settings) = Settings(d.transport, d.settings)
    BY <1>1, EmptyPatch
  <2>5. EmptyDict # None
    BY DictNotNone
  <2>6. AskedNow(d.settings, patch) = EmptyDict ++ d.settings
    BY <2>3, <2>5, Zenon DEF AskedNow
  <2> QED BY <1>5, <2>2, <2>4, <2>6
<1> QED BY <1>6, <1>7

LEMMA UpdateBeginInv ==
  ASSUME IInv, NEW i \in DOMAIN devices, NEW patch \in Patches, UpdateBegin(i, patch)
  PROVE  IInv'
<1>1. PICK d, c, e, new : /\ d = devices[i] /\ c = Merge(DeviceSaved(devices[i]), patch)
                          /\ e = Device(c, buses) /\ new = [dev |-> i, patch |-> patch, new |-> e]
  OBVIOUS
<1>2. DeviceOK(c, buses) /\ SamePlace(e, d) /\ rpc' = new
  BY <1>1 DEF UpdateBegin
<1>3. UNCHANGED <<buses, devices, state, file, req, switched, due, asked, raced>>
  BY DEF UpdateBegin
<1>4. DeviceShape(d)
  BY <1>1 DEF IInv, DeviceInv
<1>5. NormalDevice(e) /\ FaultShape(e.faults)
  BY <1>1, <1>2, DeviceNormal DEF NormalDevice
<1>6. c.transport \in Transports
  BY <1>2 DEF DeviceOK
<1>7. e.transport = c.transport
  BY <1>1, <1>6, DeviceFields
<1>8. e.settings = Settings(c.transport, Get(c, "settings", EmptyDict))
  BY <1>1, <1>6, DeviceHolds, Zenon
<1>9. e.settings = Settings(d.transport, AskedNow(d.settings, patch))
  <2>1. c.transport = d.transport
    BY <1>2, <1>7 DEF SamePlace
  <2>2. Settings(d.transport, Get(c, "settings", EmptyDict))
           = Settings(d.transport, AskedNow(d.settings, patch))
    BY <1>1, <1>4, PatchedSettings
  <2> QED BY <1>8, <2>1, <2>2
<1>10. RpcInv'
  <2>1. new.dev = i /\ new.patch = patch /\ new.new = e
    BY <1>1
  <2> QED BY <1>1, <1>2, <1>3, <1>5, <1>9, <2>1 DEF RpcInv
<1>11. StateInv' /\ DeviceInv' /\ ServedInv'
  <2>1. StateInv'
    BY <1>3, Zenon DEF IInv, StateInv
  <2>2. DeviceInv'
    BY <1>3, Zenon DEF IInv, DeviceInv
  <2>3. ServedInv'
    BY <1>3, Zenon DEF IInv, ServedInv
  <2> QED BY <2>1, <2>2, <2>3
<1>12. FileInv' /\ SavedInv'
  BY <1>3, FileFrame
<1>13. WorkerInv' /\ LockInv' /\ Exclusive' /\ FaultInv'
  BY <1>3, Zenon DEF IInv, WorkerInv, LockInv, Exclusive, FaultInv
<1>14. SettingsAsAsked'
  BY <1>3, Zenon DEF IInv, SettingsAsAsked, Known
<1> QED BY <1>10, <1>11, <1>12, <1>13, <1>14, Zenon DEF IInv

\* A device that nobody serves starts with what its fault says.
LEMMA CountFresh ==
  ASSUME NEW p, NEW i, NEW f, FaultShape(f), \A w \in Workers : p[w].dev # i
  PROVE  CountOK(p, i, f, Limit(f)) /\ Limit(f) \in Nat \cup {Null}
<1>1. f.remaining.n \in Nat
  BY DEF FaultShape
<1>2. ~InUse(p, i)
  BY DEF InUse, Counting
<1>3. PICK n : n = Limit(f)
  OBVIOUS
<1>4. CASE f.mode = "none" \/ f.remaining.n = 0
  <2>1. n = Null
    BY <1>3, <1>4 DEF Limit
  <2> QED BY <1>2, <1>3, <1>4, <2>1 DEF CountOK
<1>5. CASE ~(f.mode = "none" \/ f.remaining.n = 0)
  <2>1. n = f.remaining.n /\ n # Null
    BY <1>1, <1>3, <1>5, NotNull DEF Limit
  <2> QED BY <1>1, <1>2, <1>3, <1>5, <2>1 DEF CountOK
<1> QED BY <1>4, <1>5

\* Device i changes while the workers at other devices go on.
LEMMA OthersKept ==
  ASSUME IInv, NEW i \in DOMAIN devices, DOMAIN devices' = DOMAIN devices,
         \A j \in DOMAIN devices : devices'[j].transport = devices[j].transport,
         \A j \in DOMAIN devices : j # i => devices'[j] = devices[j],
         raced' = IF Busy(i) THEN raced \cup {i} ELSE raced, DOMAIN req' = Workers,
         \A w \in Workers : RequestShape(req'[w], devices) /\ req'[w].pc = req[w].pc
                              /\ req'[w].dev = req[w].dev /\ req'[w].lock = req[w].lock
  PROVE  WorkerInv' /\ LockInv' /\ Exclusive'
<1>1. LockInv /\ Exclusive
  BY DEF IInv
<1>2. WorkerInv'
  <2> SUFFICES ASSUME NEW v \in Workers PROVE RequestShape(req'[v], devices')
    BY DEF WorkerInv
  <2>1. PICK q : q = req'[v]
    OBVIOUS
  <2>2. RequestShape(q, devices)
    BY <2>1
  <2>3. RequestShape(q, devices')
    BY <2>2 DEF RequestShape
  <2> QED BY <2>1, <2>3
<1>3. LockInv'
  <2> SUFFICES ASSUME NEW v \in Workers, req[v].pc # "lock", req[v].dev \in DOMAIN devices \ raced'
               PROVE  req[v].lock = {RouteOf(devices'[req[v].dev])}
    BY DEF LockInv
  <2>1. req[v].dev # i /\ req[v].dev \notin raced
    BY DEF Busy, At
  <2> QED BY <1>1, <2>1 DEF LockInv
<1>4. Exclusive'
  <2> SUFFICES ASSUME NEW j \in DOMAIN devices \ raced, NEW u \in Workers, NEW v \in Workers,
                      Holds(req'[u], j), Holds(req'[v], j)
               PROVE  u = v
    BY DEF Exclusive
  <2>1. Holds(req[u], j) /\ Holds(req[v], j)
    BY DEF Holds
  <2> QED BY <1>1, <2>1 DEF Exclusive
<1> QED BY <1>2, <1>3, <1>4

LEMMA UpdateEndInv ==
  ASSUME IInv, UpdateEnd
  PROVE  IInv'
<1>1. PICK i, new : i = rpc.dev /\ new = rpc.new
  OBVIOUS
<1>2. /\ rpc # Null /\ rpc' = Null /\ UNCHANGED <<buses, state>>
      /\ devices' = Assigned(i, new) /\ req' = FaultReplaced(i)
      /\ due' = [due EXCEPT ![i] = Limit(new.faults)]
      /\ asked' = [asked EXCEPT ![i] = Settings(devices[i].transport, AskedNow(@, rpc.patch))]
      /\ raced' = IF Busy(i) THEN raced \cup {i} ELSE raced
      /\ switched' = (switched \/ (devices[i].attached # Null /\ ~External(new.backend)))
      /\ Save \/ file' = file
  BY <1>1 DEF UpdateEnd
<1>3. DeviceInv /\ WorkerInv /\ ServedInv /\ RpcInv /\ FaultInv /\ FileInv /\ SavedInv
  BY DEF IInv
<1>4. i \in DOMAIN devices /\ FaultShape(new.faults)
  BY <1>1, <1>2, <1>3 DEF RpcInv
<1>5. \A j \in DOMAIN devices : DeviceShape(devices[j])
  BY <1>3 DEF DeviceInv
<1>6. PICK d, e : d = devices[i] /\ e = devices'[i]
  OBVIOUS
<1>7. DeviceShape(d)
  BY <1>4, <1>5, <1>6
<1>8. /\ DOMAIN devices' = DOMAIN devices /\ \A j \in DOMAIN devices : j # i => devices'[j] = devices[j]
      /\ e = [d EXCEPT !.metadata = new.metadata, !.faults = new.faults, !.settings = new.settings,
                       !.backend = new.backend]
  BY <1>2, <1>4, <1>6 DEF Assigned
<1>9. /\ DOMAIN e = DOMAIN d /\ e.faults = new.faults /\ e.settings = new.settings /\ e.backend = new.backend
      /\ e.id = d.id /\ e.transport = d.transport /\ e.attached = d.attached
  BY <1>7, <1>8 DEF DeviceShape
<1>10. DeviceShape(e)
  BY <1>4, <1>7, <1>9 DEF DeviceShape
<1>11. DOMAIN due = DOMAIN devices /\ DOMAIN asked = DOMAIN devices /\ raced \subseteq DOMAIN devices
  BY <1>3 DEF DeviceInv
<1>12. /\ DOMAIN due' = DOMAIN devices /\ due'[i] = Limit(new.faults)
       /\ \A j \in DOMAIN devices : j # i => due'[j] = due[j]
  BY <1>2, <1>4, <1>11
<1>13. /\ DOMAIN asked' = DOMAIN devices
       /\ asked'[i] = Settings(d.transport, AskedNow(asked[i], rpc.patch))
       /\ \A j \in DOMAIN devices : j # i => asked'[j] = asked[j]
  BY <1>2, <1>4, <1>6, <1>11
<1>14. Limit(new.faults) \in Nat \cup {Null}
  <2>1. new.faults.remaining.n \in Nat
    BY <1>4 DEF FaultShape
  <2> QED BY <2>1 DEF Limit
<1>15. DeviceInv'
  <2>1. IsArray(devices')
    BY <1>3, <1>8 DEF DeviceInv, IsArray
  <2>2. \A j \in DOMAIN devices : DeviceShape(devices'[j])
    BY <1>5, <1>6, <1>8, <1>10
  <2>3. \A j \in DOMAIN devices : due'[j] \in Nat \cup {Null}
    BY <1>3, <1>12, <1>14 DEF DeviceInv
  <2>4. raced' \subseteq DOMAIN devices
    BY <1>2, <1>4, <1>11
  <2> QED BY <1>8, <1>12, <1>13, <2>1, <2>2, <2>3, <2>4 DEF DeviceInv
<1>16. StateInv' /\ RpcInv'
  BY <1>2, Zenon DEF IInv, StateInv, RpcInv
<1>17. /\ DOMAIN req' = Workers
       /\ \A w \in Workers : req[w].dev # i => req'[w] = req[w]
       /\ \A w \in Workers : RequestShape(req'[w], devices) /\ req'[w].pc = req[w].pc
                               /\ req'[w].dev = req[w].dev /\ req'[w].lock = req[w].lock
  <2>1. /\ DOMAIN req' = Workers
        /\ \A w \in Workers : req'[w] = IF req[w].dev = i THEN [req[w] EXCEPT !.current = FALSE] ELSE req[w]
    BY <1>2 DEF FaultReplaced, At
  <2>2. ASSUME NEW w \in Workers
        PROVE  RequestShape(req'[w], devices) /\ req'[w].pc = req[w].pc
                 /\ req'[w].dev = req[w].dev /\ req'[w].lock = req[w].lock
    <3>1. PICK q, r : q = req[w] /\ r = req'[w]
      OBVIOUS
    <3>2. RequestShape(q, devices) /\ r = IF q.dev = i THEN [q EXCEPT !.current = FALSE] ELSE q
      BY <1>3, <2>1, <3>1 DEF WorkerInv
    <3>3. /\ DOMAIN r = {"pc", "dev", "lock", "kind", "fault", "current"}
          /\ r.pc = q.pc /\ r.dev = q.dev /\ r.lock = q.lock /\ r.kind = q.kind /\ r.fault = q.fault
      BY <3>2 DEF RequestShape
    <3>4. RequestShape(r, devices)
      BY <3>2, <3>3 DEF RequestShape
    <3> QED BY <3>1, <3>3, <3>4
  <2> QED BY <2>1, <2>2
<1>18. WorkerInv' /\ LockInv' /\ Exclusive'
  <2>1. \A j \in DOMAIN devices : devices'[j].transport = devices[j].transport
    BY <1>6, <1>8, <1>9
  <2> QED BY <1>2, <1>4, <1>8, <1>17, <2>1, OthersKept
<1>19. \A w \in Workers : i \notin raced' => req'[w].dev # i
  BY <1>2, <1>17 DEF Busy, At
<1>20. ASSUME NEW j \in DOMAIN devices \ raced'
       PROVE  CountOK(req', j, devices'[j].faults, due'[j])
  <2>1. CASE j = i
    <3>1. PICK p, f : p = req' /\ f = new.faults
      OBVIOUS
    <3>2. CountOK(p, i, f, Limit(f))
      BY <1>4, <1>19, <2>1, <3>1, CountFresh
    <3> QED BY <1>6, <1>9, <1>12, <2>1, <3>1, <3>2
  <2>2. CASE j # i
    <3>1. PICK p, q, f, n : p = req' /\ q = req /\ f = devices[j].faults /\ n = due[j]
      OBVIOUS
    <3>2. CountOK(q, j, f, n)
      BY <1>2, <1>3, <3>1 DEF FaultInv
    <3>3. \A w \in Workers : /\ Counting(p[w], j) <=> Counting(q[w], j)
                             /\ p[w].dev = q[w].dev /\ p[w].pc = q[w].pc
                             /\ q[w].dev = j => p[w] = q[w]
      BY <1>17, <2>2, <3>1 DEF Counting
    <3>4. InUse(p, j) <=> InUse(q, j)
      BY <3>3 DEF InUse
    <3>5. CountOK(p, j, f, n)
      BY <3>2, <3>3, <3>4 DEF CountOK
    <3> QED BY <1>8, <1>12, <2>2, <3>1, <3>5
  <2> QED BY <2>1, <2>2
<1>21. FaultInv'
  BY <1>8, <1>20 DEF FaultInv
<1>22. SettingsAsAsked'
  <2> SUFFICES ASSUME NEW j \in DOMAIN devices \ raced'
               PROVE  Settings(devices'[j].transport, devices'[j].settings) = asked'[j]
    BY <1>8 DEF SettingsAsAsked, Known
  <2>1. j \notin raced
    BY <1>2
  <2>2. Settings(devices[j].transport, devices[j].settings) = asked[j]
    BY <2>1 DEF IInv, SettingsAsAsked, Known
  <2>3. CASE j # i
    BY <1>8, <1>13, <2>2, <2>3
  <2>4. CASE j = i
    <3>1. PICK p, t, s : p = Get(rpc.patch, "settings", EmptyDict) /\ t = d.transport /\ s = d.settings
      OBVIOUS
    <3>2. t \in Transports
      BY <1>7, <3>1 DEF DeviceShape
    <3>3. new.settings = Settings(t, AskedNow(s, rpc.patch))
      BY <1>1, <1>2, <1>3, <1>6, <2>1, <2>4, <3>1 DEF RpcInv
    <3>4. asked[i] = Settings(t, s)
      BY <1>6, <2>2, <2>4, <3>1
    <3>5. asked'[i] = Settings(t, AskedNow(Settings(t, s), rpc.patch))
      BY <1>13, <3>1, <3>4
    <3>6. \A x : Settings(t, Settings(t, x)) = Settings(t, x)
      BY <3>2, SettingsTwice
    <3>7. Settings(t, AskedNow(Settings(t, s), rpc.patch)) = Settings(t, AskedNow(s, rpc.patch))
      <4>1. \A x : AskedNow(x, rpc.patch) = IF p = None THEN EmptyDict ELSE p ++ x
        BY <3>1, Zenon DEF AskedNow
      <4>2. CASE p = None
        BY <4>1, <4>2, Zenon
      <4>3. CASE p # None
        <5>1. Settings(t, p ++ Settings(t, s)) = Settings(t, p ++ s)
          BY <3>2, SettingsPatch
        <5>2. \A x : AskedNow(x, rpc.patch) = p ++ x
          BY <4>1, <4>3
        <5> QED BY <5>1, <5>2
      <4> QED BY <4>2, <4>3
    <3>8. devices'[i].transport = t /\ devices'[i].settings = new.settings
      BY <1>6, <1>9, <3>1
    <3> QED BY <2>4, <3>3, <3>5, <3>6, <3>7, <3>8
  <2> QED BY <2>3, <2>4
<1>23. ServedInv'
  <2> SUFFICES ASSUME ~switched', NEW j \in DOMAIN devices, devices'[j].attached # Null
               PROVE  External(devices'[j].backend)
    BY <1>8 DEF ServedInv
  <2>1. CASE j # i
    BY <1>2, <1>3, <1>8, <2>1 DEF ServedInv
  <2>2. CASE j = i
    BY <1>2, <1>6, <1>9, <2>2
  <2> QED BY <2>1, <2>2
<1>24. FileInv' /\ SavedInv'
  <2>1. CASE Save
    <3>1. BusesFit(buses') /\ (switched /\ unsaved' => switched')
      BY <1>2, <1>16 DEF StateInv
    <3> QED BY <1>3, <1>15, <1>23, <2>1, <3>1, SavedHolds
  <2>2. CASE file' = file
    BY <1>2, <2>2, FileFrame
  <2> QED BY <1>2, <2>1, <2>2
<1> QED BY <1>15, <1>16, <1>18, <1>21, <1>22, <1>23, <1>24, Zenon DEF IInv

LEMMA SetAttachedInv ==
  ASSUME IInv, NEW i \in DOMAIN devices, NEW b \in Backends \cup {Null}, rpc = Null, SetAttached(i, b),
         b # Null => External(devices[i].backend)
  PROVE  IInv'
<1>1. /\ devices' = [devices EXCEPT ![i].attached = b] /\ Save
      /\ raced' = IF Busy(i) THEN raced \cup {i} ELSE raced
      /\ UNCHANGED <<buses, state, rpc, req, switched, due, asked>>
  BY DEF SetAttached
<1>2. DeviceInv /\ WorkerInv /\ ServedInv /\ FaultInv /\ FileInv /\ SavedInv
  BY DEF IInv
<1>3. \A j \in DOMAIN devices : DeviceShape(devices[j])
  BY <1>2 DEF DeviceInv
<1>4. PICK d, e : d = devices[i] /\ e = devices'[i]
  OBVIOUS
<1>5. DeviceShape(d)
  BY <1>3, <1>4
<1>6. /\ DOMAIN devices' = DOMAIN devices /\ \A j \in DOMAIN devices : j # i => devices'[j] = devices[j]
      /\ e = [d EXCEPT !.attached = b]
  BY <1>1, <1>4
<1>7. /\ DOMAIN e = DOMAIN d /\ e.faults = d.faults /\ e.settings = d.settings /\ e.backend = d.backend
      /\ e.transport = d.transport /\ e.attached = b
  BY <1>5, <1>6 DEF DeviceShape
<1>8. DeviceShape(e)
  BY <1>5, <1>7 DEF DeviceShape
<1>9. \A j \in DOMAIN devices : /\ devices'[j].transport = devices[j].transport
                                /\ devices'[j].settings = devices[j].settings
                                /\ devices'[j].faults = devices[j].faults
                                /\ devices'[j].backend = devices[j].backend
  BY <1>4, <1>6, <1>7
<1>10. DeviceInv'
  <2>1. IsArray(devices')
    BY <1>2, <1>6 DEF DeviceInv, IsArray
  <2>2. \A j \in DOMAIN devices : DeviceShape(devices'[j])
    BY <1>3, <1>4, <1>6, <1>8
  <2>3. raced' \subseteq DOMAIN devices
    BY <1>1, <1>2 DEF DeviceInv
  <2> QED BY <1>1, <1>2, <1>6, <2>1, <2>2, <2>3 DEF DeviceInv
<1>11. StateInv' /\ RpcInv'
  BY <1>1, Zenon DEF IInv, StateInv, RpcInv
<1>12. WorkerInv' /\ LockInv' /\ Exclusive'
  <2>1. DOMAIN req' = Workers /\ \A w \in Workers : RequestShape(req'[w], devices) /\ req'[w] = req[w]
    BY <1>1, <1>2 DEF WorkerInv
  <2> QED BY <1>1, <1>6, <1>9, <2>1, OthersKept
<1>13. FaultInv'
  <2>1. \A j \in DOMAIN devices \ raced' : CountOK(req, j, devices[j].faults, due[j])
    BY <1>1, <1>2 DEF FaultInv
  <2> QED BY <1>1, <1>6, <1>9, <2>1 DEF FaultInv
<1>14. SettingsAsAsked'
  <2>1. \A j \in DOMAIN devices \ raced' : Settings(devices[j].transport, devices[j].settings) = asked[j]
    BY <1>1 DEF IInv, SettingsAsAsked, Known
  <2> QED BY <1>1, <1>6, <1>9, <2>1 DEF SettingsAsAsked, Known
<1>15. ServedInv'
  <2> SUFFICES ASSUME ~switched, NEW j \in DOMAIN devices, devices'[j].attached # Null
               PROVE  External(devices'[j].backend)
    BY <1>1, <1>6 DEF ServedInv
  <2>1. CASE j # i
    BY <1>2, <1>6, <2>1 DEF ServedInv
  <2>2. CASE j = i
    BY <1>4, <1>7, <2>2
  <2> QED BY <2>1, <2>2
<1>16. FileInv' /\ SavedInv'
  BY <1>1, <1>2, <1>10, <1>11, <1>15, SavedHolds DEF StateInv
<1> QED BY <1>10, <1>11, <1>12, <1>13, <1>14, <1>15, <1>16, Zenon DEF IInv

LEMMA BridgeFailsInv ==
  ASSUME IInv, BridgeFails
  PROVE  IInv'
<1>1. state' = "desynced" /\ UNCHANGED <<buses, devices, file, rpc, req, switched, due, asked, raced>>
  BY DEF BridgeFails
<1>2. StateInv'
  BY <1>1, Zenon DEF IInv, StateInv
<1>3. DeviceInv' /\ RpcInv' /\ ServedInv'
  BY <1>1, Zenon DEF IInv, DeviceInv, RpcInv, ServedInv
<1>4. FileInv' /\ SavedInv'
  BY <1>1, FileFrame
<1>5. WorkerInv' /\ LockInv' /\ Exclusive' /\ FaultInv'
  BY <1>1, Zenon DEF IInv, WorkerInv, LockInv, Exclusive, FaultInv
<1>6. SettingsAsAsked'
  BY <1>1, Zenon DEF IInv, SettingsAsAsked, Known
<1> QED BY <1>2, <1>3, <1>4, <1>5, <1>6, Zenon DEF IInv

LEMMA StutterInv ==
  ASSUME IInv, UNCHANGED vars
  PROVE  IInv'
<1>1. UNCHANGED <<buses, devices, state, file, rpc, req, switched, due, asked, raced>>
  BY Zenon DEF vars
<1>2. StateInv' /\ RpcInv'
  BY <1>1, Zenon DEF IInv, StateInv, RpcInv
<1>3. DeviceInv' /\ ServedInv'
  BY <1>1, Zenon DEF IInv, DeviceInv, ServedInv
<1>4. FileInv' /\ SavedInv'
  BY <1>1, FileFrame
<1>5. WorkerInv' /\ LockInv' /\ Exclusive' /\ FaultInv'
  BY <1>1, Zenon DEF IInv, WorkerInv, LockInv, Exclusive, FaultInv
<1>6. SettingsAsAsked'
  BY <1>1, Zenon DEF IInv, SettingsAsAsked, Known
<1> QED BY <1>2, <1>3, <1>4, <1>5, <1>6, Zenon DEF IInv

LEMMA InitInv == Init => IInv
<1> SUFFICES ASSUME Init PROVE IInv
  OBVIOUS
<1>1. /\ buses = <<>> /\ devices = <<>> /\ state = "empty" /\ file = {} /\ rpc = Null
      /\ req = [w \in Workers |-> Idle] /\ due = <<>> /\ asked = <<>> /\ raced = {}
  BY DEF Init
<1>2. \A s : s = <<>> => DOMAIN s = {} /\ IsArray(s)
  <2>1. \A s : s = <<>> => DOMAIN s = {} /\ DOMAIN s = 1..0 /\ 0 \in Nat
    OBVIOUS
  <2> QED BY <2>1 DEF IsArray
<1>3. StateInv /\ DeviceInv /\ ServedInv
  BY <1>1, <1>2, NoBusFits DEF StateInv, DeviceInv, ServedInv
<1>4. FileInv /\ SavedInv /\ RpcInv
  BY <1>1 DEF FileInv, SavedInv, RpcInv
<1>5. DOMAIN devices = {} /\ \A w \in Workers : req[w] = Idle
  BY <1>1, <1>2
<1>6. WorkerInv
  BY <1>1, <1>5, IdleShape DEF WorkerInv
<1>7. LockInv /\ Exclusive /\ FaultInv /\ SettingsAsAsked
  BY <1>5 DEF LockInv, Exclusive, FaultInv, SettingsAsAsked
<1> QED BY <1>3, <1>4, <1>6, <1>7 DEF IInv

LEMMA NextInv == IInv /\ [Next]_vars => IInv'
<1> SUFFICES ASSUME IInv, [Next]_vars PROVE IInv'
  OBVIOUS
<1>1. ASSUME NEW i \in DOMAIN devices, NEW b \in Backends, Attach(i, b) PROVE IInv'
  BY <1>1, SetAttachedInv DEF Attach, CallAllowed
<1>2. ASSUME NEW i \in DOMAIN devices, Detach(i) PROVE IInv'
  BY <1>2, SetAttachedInv DEF Detach, CallAllowed
<1>3. ASSUME NEW w \in Workers,
             \/ Acquire(w) \/ WorkerSaves(w) \/ MeetFault(w) \/ ReadFault(w) \/ CountFault(w)
             \/ \E t \in Termios : Configure(w, t)
      PROVE  IInv'
  BY <1>3, AcquireInv, WorkerSavesInv, MeetFaultInv, ReadFaultInv, CountFaultInv, ConfigureInv, Zenon
<1>4. ASSUME Next PROVE IInv'
  BY <1>1, <1>2, <1>3, <1>4, ApplyInv, ResyncInv, UpdateBeginInv, UpdateEndInv, TakeInv, BridgeFailsInv,
     RestartInv, Zenon DEF Next
<1> QED BY <1>4, StutterInv

LEMMA Inductive == Spec => []IInv
BY InitInv, NextInv, PTL DEF Spec

-----------------------------------------------------------------------------
(* Faults, settings and locks: the theorems.                               *)

LEMMA InHandSize ==
  ASSUME IInv, NEW i \in DOMAIN devices \ raced
  PROVE  /\ InHand(i) # {} <=> InUse(req, i)
         /\ InUse(req, i) => Cardinality(InHand(i)) = 1
         /\ ~InUse(req, i) => Cardinality(InHand(i)) = 0
<1>1. InHand(i) = {w \in Workers : Counting(req[w], i)}
  BY DEF InHand, Counting, At
<1>2. InHand(i) # {} <=> InUse(req, i)
  BY <1>1 DEF InUse
<1>3. ASSUME InUse(req, i) PROVE Cardinality(InHand(i)) = 1
  <2>1. PICK w \in Workers : Counting(req[w], i)
    BY <1>3 DEF InUse
  <2>2. Holds(req[w], i)
    BY <2>1 DEF Counting, Holds
  <2>3. \A v \in Workers : Counting(req[v], i) => v = w
    BY <2>2, Alone DEF IInv
  <2>4. InHand(i) = {w}
    BY <1>1, <2>1, <2>3
  <2> QED BY <2>4, FS_Singleton
<1>4. ASSUME ~InUse(req, i) PROVE Cardinality(InHand(i)) = 0
  <2>1. InHand(i) = {}
    BY <1>2, <1>4
  <2> QED BY <2>1, FS_EmptySet
<1> QED BY <1>2, <1>3, <1>4

LEMMA InvType == IInv => TypeOK
<1> SUFFICES ASSUME IInv PROVE TypeOK
  OBVIOUS
<1>1. StateInv /\ DeviceInv /\ RpcInv /\ WorkerInv
  BY DEF IInv
<1>2. \A i \in DOMAIN devices : devices[i].attached \in Backends \cup {Null}
  BY <1>1 DEF DeviceInv, DeviceShape
<1>3. \A w \in Workers : req[w].pc # "lock" => At(w) \in DOMAIN devices \cup {Null}
  BY <1>1 DEF WorkerInv, RequestShape, At
<1>4. rpc # Null => rpc.dev \in DOMAIN devices
  BY <1>1 DEF RpcInv
<1> QED BY <1>1, <1>2, <1>3, <1>4 DEF TypeOK, StateInv, DeviceInv

\* A fault that was injected for n requests hits n requests, for any models, patches and
\* number of workers, at every device that no RPC has changed while a worker served it and
\* no worker has served under the lock of an earlier inventory.
THEOREM FaultsHitAsOften == Spec => []FaultCount
<1>1. IInv => FaultCount
  <2> SUFFICES ASSUME IInv, NEW i \in DOMAIN devices \ raced, NEW f, f = devices[i].faults
               PROVE  CASE due[i] = Null -> f.remaining.n = 0 \/ f.mode = "none"
                        [] due[i] = 0    -> InHand(i) # {} \/ f.mode = "none"
                        [] OTHER -> f.mode # "none" /\ f.remaining.n = due[i] + Cardinality(InHand(i))
    BY InvType DEF FaultCount
  <2>1. PICK n, c : n = due[i] /\ c = Cardinality(InHand(i))
    OBVIOUS
  <2>2. CountOK(req, i, f, n) /\ n \in Nat \cup {Null}
    BY <2>1 DEF IInv, FaultInv, DeviceInv
  <2>3. /\ InHand(i) # {} <=> InUse(req, i)
        /\ InUse(req, i) => c = 1
        /\ ~InUse(req, i) => c = 0
    BY <2>1, InHandSize
  <2>4. n = Null => f.remaining.n = 0 \/ f.mode = "none"
    BY <2>2 DEF CountOK
  <2>5. n # Null /\ n = 0 => InHand(i) # {} \/ f.mode = "none"
    BY <2>2, <2>3 DEF CountOK
  <2>6. n # Null /\ n # 0 => f.mode # "none" /\ f.remaining.n = n + c
    BY <2>2, <2>3 DEF CountOK
  <2>7. 0 # Null
    BY NotNull
  <2> QED BY <2>1, <2>4, <2>5, <2>6, <2>7
<1> QED BY <1>1, Inductive, PTL

\* The settings of a device are the ones asked for last, by the model, a patch or a tty.
THEOREM SettingsServed == Spec => []SettingsAsAsked
<1>1. IInv => SettingsAsAsked
  BY DEF IInv
<1> QED BY <1>1, Inductive, PTL

\* The route locks serialise the requests of a device, as long as no RPC changes its route
\* while a worker is at the device, and no worker that waited for the lock of an earlier
\* inventory, or of an earlier route, serves it under that lock.
THEOREM OneAtADevice == Spec => []Exclusive
<1>1. IInv => Exclusive
  BY DEF IInv
<1> QED BY <1>1, Inductive, PTL

-----------------------------------------------------------------------------
(* Recursion, and the mappings that PutAll builds.                         *)

\* Induction up to n, for the numbers of a set T.
LEMMA UpTo ==
  ASSUME NEW n \in Nat, NEW T, 0 \in T, \A i \in 1..n : i - 1 \in T => i \in T
  PROVE  \A i \in 0..n : i \in T
<1> DEFINE U == {i \in 0..n : i \notin T}
<1> SUFFICES ASSUME U # {} PROVE FALSE
  OBVIOUS
<1>1. U \subseteq Nat
  OBVIOUS
<1>2. PICK x \in U : \A y \in U : x <= y
  BY <1>1, Least, Zenon
<1>3. x \in 1..n /\ x \notin T /\ x - 1 \in 0..n
  BY <1>2
<1>4. x - 1 \notin U
  BY <1>2, <1>3
<1> QED BY <1>3, <1>4

\* A function defined by recursion on 0..n exists.
Follows(f, b, G, m) == f[0] = b /\ \A i \in 1..m : f[i] = G[<<f[i - 1], i>>]

LEMMA Recursion ==
  ASSUME NEW S, NEW b \in S, NEW n \in Nat, NEW G \in [S \X (1..n) -> S]
  PROVE  \E f \in [0..n -> S] : Follows(f, b, G, n)
<1> DEFINE T == {m \in 0..n : \E f \in [0..m -> S] : Follows(f, b, G, m)}
<1>1. 0 \in T
  <2>1. [i \in 0..0 |-> b] \in [0..0 -> S]
    OBVIOUS
  <2>2. Follows([i \in 0..0 |-> b], b, G, 0)
    BY DEF Follows
  <2> QED BY <2>1, <2>2
<1>2. ASSUME NEW m \in 1..n, m - 1 \in T
      PROVE  m \in T
  <2>1. PICK f \in [0..(m - 1) -> S] : Follows(f, b, G, m - 1)
    BY <1>2
  <2>2. f[m - 1] \in S
    OBVIOUS
  <2>3. G[<<f[m - 1], m>>] \in S
    BY <2>2
  <2>4. PICK g : g = [i \in 0..m |-> IF i = m THEN G[<<f[m - 1], m>>] ELSE f[i]]
    OBVIOUS
  <2>5. g \in [0..m -> S]
    BY <2>3, <2>4
  <2>6. \A i \in 0..(m - 1) : g[i] = f[i]
    BY <2>4
  <2>7. g[m] = G[<<f[m - 1], m>>]
    BY <2>4
  <2>8. g[0] = b
    BY <2>1, <2>6 DEF Follows
  <2>9. ASSUME NEW i \in 1..m
        PROVE  g[i] = G[<<g[i - 1], i>>]
    <3>1. CASE i = m
      BY <2>6, <2>7, <3>1
    <3>2. CASE i # m
      <4>1. i \in 1..(m - 1) /\ i - 1 \in 0..(m - 1) /\ i \in 0..(m - 1)
        BY <3>2
      <4>2. f[i] = G[<<f[i - 1], i>>]
        BY <2>1, <4>1 DEF Follows
      <4> QED BY <2>6, <4>1, <4>2
    <3> QED BY <3>1, <3>2
  <2>10. Follows(g, b, G, m)
    BY <2>8, <2>9 DEF Follows
  <2> QED BY <2>5, <2>10
<1>3. n \in T
  <2>1. \A i \in 0..n : i \in T
    <3> HIDE DEF T
    <3> QED BY <1>1, <1>2, UpTo
  <2>2. n \in 0..n
    OBVIOUS
  <2> QED BY <2>1, <2>2, Zenon
<1> QED BY <1>3

DictEquation(pairs, f) ==
  f = [i \in 0..Len(pairs) |-> IF i = 0 THEN <<>> ELSE Put(f[i - 1], pairs[i])]

\* A function that follows the loop ends where Dict does.
LEMMA DictIs ==
  ASSUME NEW pairs, NEW n \in Nat, n = Len(pairs), NEW f, f = [i \in 0..n |-> f[i]],
         f[0] = <<>>, \A i \in 1..n : f[i] = Put(f[i - 1], pairs[i])
  PROVE  Dict(pairs) = f[n]
<1>1. DictEquation(pairs, f)
  <2>1. \A i \in 0..n : f[i] = IF i = 0 THEN <<>> ELSE Put(f[i - 1], pairs[i])
    OBVIOUS
  <2> QED BY <2>1 DEF DictEquation
<1>2. PICK h : h = CHOOSE g : DictEquation(pairs, g)
  OBVIOUS
<1>3. DictEquation(pairs, h)
  BY <1>1, <1>2, Zenon
<1>4. Dict(pairs) = h[n]
  BY <1>2, Zenon DEF Dict, PutAll, DictEquation
<1>5. PICK V : V = [i \in 0..n |-> IF i = 0 THEN <<>> ELSE Put(h[i - 1], pairs[i])]
  OBVIOUS
<1>6. h = V
  BY <1>3, <1>5, Zenon DEF DictEquation
<1>7. h[0] = <<>> /\ \A i \in 1..n : h[i] = Put(h[i - 1], pairs[i])
  <2>1. V[0] = <<>> /\ \A i \in 1..n : V[i] = Put(h[i - 1], pairs[i])
    BY <1>5
  <2> QED BY <1>6, <2>1
<1> DEFINE T == {i \in 0..n : h[i] = f[i]}
<1>8. 0 \in T
  BY <1>7
<1>9. \A i \in 1..n : i - 1 \in T => i \in T
  BY <1>7
<1>10. \A i \in 0..n : i \in T
  <2> HIDE DEF T
  <2> QED BY <1>8, <1>9, UpTo
<1>11. n \in T
  BY <1>10
<1> QED BY <1>4, <1>11

\* Pairs with different keys, from a set of pairs.
Mapping(d, S) == d \in Seq(S) /\ \A i, j \in 1..Len(d) : d[i][1] = d[j][1] => i = j

LEMMA PutMapping ==
  ASSUME NEW S, NEW d, Mapping(d, S), NEW x \in S
  PROVE  Mapping(Put(d, x), S)
<1>1. PICK n \in Nat : n = Len(d) /\ DOMAIN d = 1..n /\ d \in [1..n -> S]
  BY LenProperties DEF Mapping
<1>2. \A i, j \in 1..n : d[i][1] = d[j][1] => i = j
  BY <1>1 DEF Mapping
<1>3. CASE \E i \in DOMAIN d : d[i][1] = x[1]
  <2>1. PICK e : e = [i \in 1..n |-> IF d[i][1] = x[1] THEN x ELSE d[i]]
    OBVIOUS
  <2>2. Put(d, x) = e
    BY <1>1, <1>3, <2>1 DEF Put
  <2>3. e \in [1..n -> S]
    BY <1>1, <2>1
  <2>4. e \in Seq(S) /\ Len(e) = n
    BY <2>3
  <2>5. \A i \in 1..n : e[i][1] = d[i][1]
    BY <2>1
  <2> QED BY <1>2, <2>2, <2>4, <2>5 DEF Mapping
<1>4. CASE ~\E i \in DOMAIN d : d[i][1] = x[1]
  <2>1. PICK e : e = Append(d, x)
    OBVIOUS
  <2>2. Put(d, x) = e
    BY <1>4, <2>1 DEF Put
  <2>3. e \in Seq(S) /\ Len(e) = n + 1 /\ e[n + 1] = x /\ \A i \in 1..n : e[i] = d[i]
    BY <1>1, <2>1 DEF Mapping
  <2>4. \A i \in 1..n : e[i][1] # x[1]
    BY <1>1, <1>4, <2>3
  <2>5. ASSUME NEW i \in 1..(n + 1), NEW j \in 1..(n + 1), e[i][1] = e[j][1]
        PROVE  i = j
    <3>1. CASE i = n + 1 /\ j = n + 1
      BY <3>1
    <3>2. CASE i = n + 1 /\ j # n + 1
      BY <2>3, <2>4, <2>5, <3>2
    <3>3. CASE i # n + 1 /\ j = n + 1
      BY <2>3, <2>4, <2>5, <3>3
    <3>4. CASE i # n + 1 /\ j # n + 1
      BY <1>2, <2>3, <2>5, <3>4
    <3> QED BY <3>1, <3>2, <3>3, <3>4
  <2> QED BY <2>2, <2>3, <2>5 DEF Mapping
<1> QED BY <1>3, <1>4

\* A mapping holds pairs it was built from, one for each key.
LEMMA DictHolds ==
  ASSUME NEW pairs, IsList(pairs), NEW S, \A i \in DOMAIN pairs : pairs[i] \in S
  PROVE  Mapping(Dict(pairs), S)
<1>1. PICK n \in Nat : n = Len(pairs) /\ DOMAIN pairs = 1..n
  BY DEF IsList
<1>2. PICK D : D = {d \in Seq(S) : Mapping(d, S)}
  OBVIOUS
<1>3. <<>> \in D
  BY <1>2 DEF Mapping
<1>4. PICK G : G = [x \in D \X (1..n) |-> Put(x[1], pairs[x[2]])]
  OBVIOUS
<1>5. ASSUME NEW d \in D, NEW i \in 1..n
      PROVE  G[<<d, i>>] = Put(d, pairs[i]) /\ Put(d, pairs[i]) \in D
  <2>1. G[<<d, i>>] = Put(d, pairs[i])
    BY <1>4
  <2>2. Mapping(Put(d, pairs[i]), S)
    BY <1>1, <1>2, PutMapping
  <2> QED BY <1>2, <2>1, <2>2 DEF Mapping
<1>6. G \in [D \X (1..n) -> D]
  BY <1>4, <1>5
<1>7. PICK f \in [0..n -> D] : Follows(f, <<>>, G, n)
  BY <1>3, <1>6, Recursion
<1>8. f[0] = <<>> /\ \A i \in 1..n : f[i] = Put(f[i - 1], pairs[i])
  <2>1. \A i \in 1..n : f[i - 1] \in D /\ f[i] = G[<<f[i - 1], i>>]
    BY <1>7 DEF Follows
  <2> QED BY <1>5, <1>7, <2>1 DEF Follows
<1>9. f = [i \in 0..n |-> f[i]]
  OBVIOUS
<1>10. Dict(pairs) = f[n]
  <2>1. n = Len(pairs) /\ Len(pairs) \in Nat
    BY <1>1
  <2> QED BY <1>8, <1>9, <2>1, DictIs, SMTT(30)
<1>11. f[n] \in D
  OBVIOUS
<1> QED BY <1>2, <1>10, <1>11

\* A mapping is rebuilt as it was.
LEMMA DictSame ==
  ASSUME NEW S, NEW d, Mapping(d, S)
  PROVE  Dict(d) = d
<1>1. PICK n \in Nat : n = Len(d) /\ DOMAIN d = 1..n /\ d \in [1..n -> S] /\ d \in Seq(S)
  BY LenProperties DEF Mapping
<1>2. PICK f : f = [i \in 0..n |-> [k \in 1..i |-> d[k]]]
  OBVIOUS
<1>3. f = [i \in 0..n |-> f[i]]
  BY <1>2
<1>4. f[0] = <<>>
  BY <1>2
<1>5. ASSUME NEW i \in 1..n
      PROVE  f[i] = Put(f[i - 1], d[i])
  <2>0. \A j \in 0..n : f[j] = [k \in 1..j |-> d[k]]
    BY <1>2
  <2>1. PICK e : e = f[i - 1] /\ e = [k \in 1..(i - 1) |-> d[k]]
    <3>1. i - 1 \in 0..n
      OBVIOUS
    <3> QED BY <2>0, <3>1, Zenon
  <2>2. e \in [1..(i - 1) -> S] /\ i - 1 \in Nat
    BY <1>1, <2>1
  <2>3. e \in Seq(S) /\ Len(e) = i - 1
    BY <2>2
  <2>4. ~\E k \in DOMAIN e : e[k][1] = d[i][1]
    <3>1. \A k \in 1..(i - 1) : e[k] = d[k] /\ k \in 1..n /\ k # i
      BY <2>1
    <3>2. \A k \in 1..(i - 1) : d[k][1] # d[i][1]
      BY <1>1, <3>1 DEF Mapping
    <3> QED BY <2>1, <3>1, <3>2
  <2>5. Put(e, d[i]) = Append(e, d[i])
    BY <2>4 DEF Put
  <2>6. PICK g : g = Append(e, d[i])
    OBVIOUS
  <2>7. d[i] \in S
    BY <1>1
  <2>8. g \in Seq(S) /\ Len(g) = i /\ g[i] = d[i] /\ \A k \in 1..(i - 1) : g[k] = d[k]
    BY <2>1, <2>3, <2>6, <2>7
  <2>9. g = [k \in 1..i |-> d[k]]
    <3>1. g \in [1..i -> S]
      BY <2>8, LenProperties
    <3>2. \A k \in 1..i : g[k] = d[k]
      BY <2>8
    <3> QED BY <3>1, <3>2
  <2>10. f[i] = [k \in 1..i |-> d[k]]
    BY <1>2
  <2> QED BY <2>1, <2>5, <2>6, <2>9, <2>10
<1>6. Dict(d) = f[n]
  BY <1>1, <1>3, <1>4, <1>5, DictIs
<1>7. f[n] = d
  BY <1>1, <1>2
<1> QED BY <1>6, <1>7

-----------------------------------------------------------------------------
(* What the normalisation returns, it accepts and returns again.           *)

LEMMA NumberStays ==
  ASSUME NEW x, NEW low, NEW high, NumberOK(x, low, high)
  PROVE  NumberOK(Number(x), low, high)
BY DEF NumberOK, Number, Plain

LEMMA BytesStay ==
  ASSUME NEW x
  PROVE  BytesOK(Bytes(x)) /\ Bytes(Bytes(x)) = Bytes(x)
BY DEF BytesOK, Bytes, Hex

LEMMA RegisterStays ==
  ASSUME NEW x
  PROVE  /\ Register(Register(x)) = Register(x)
         /\ \A size : RegisterOK(x, size) => RegisterOK(Register(x), size)
BY DEF RegisterOK, NumberOK, Register

\* A mapping e that has the normalised fields of d.
LEMMA FieldsStay ==
  ASSUME NEW fields, NEW d, NEW e, FieldsOK(d, fields), DOMAIN fields \subseteq DOMAIN e,
         \A k \in DOMAIN fields : e[k] = Fields(d, fields)[k]
  PROVE  FieldsOK(e, fields) /\ Fields(e, fields) = Fields(d, fields)
<1>1. ASSUME NEW k \in DOMAIN fields
      PROVE  /\ NumberOK(Get(e, k, fields[k].default), fields[k].low, fields[k].high)
             /\ Number(Get(e, k, fields[k].default)) = Number(Get(d, k, fields[k].default))
  <2>1. PICK x : x = Get(d, k, fields[k].default)
    OBVIOUS
  <2>2. NumberOK(x, fields[k].low, fields[k].high)
    BY <2>1 DEF FieldsOK
  <2>3. Fields(d, fields)[k] = Number(x)
    BY <2>1 DEF Fields
  <2>4. Get(e, k, fields[k].default) = Number(x)
    BY <2>3 DEF Get
  <2> QED BY <2>1, <2>2, <2>4, NumberStays, NumberTwice
<1>2. FieldsOK(e, fields)
  BY <1>1 DEF FieldsOK
<1>3. Fields(e, fields) = Fields(d, fields)
  BY <1>1, Zenon DEF Fields
<1> QED BY <1>2, <1>3

LEMMA FlagsStay ==
  ASSUME NEW flags, NEW d, NEW e, FlagsOK(d, flags), DOMAIN flags \subseteq DOMAIN e,
         \A k \in DOMAIN flags : e[k] = Flags(d, flags)[k]
  PROVE  FlagsOK(e, flags) /\ Flags(e, flags) = Flags(d, flags)
<1>1. ASSUME NEW k \in DOMAIN flags
      PROVE  Get(e, k, Bool(flags[k])) = Get(d, k, Bool(flags[k]))
  BY DEF Flags, Get
<1>2. FlagsOK(e, flags)
  BY <1>1 DEF FlagsOK
<1>3. Flags(e, flags) = Flags(d, flags)
  BY <1>1, Zenon DEF Flags
<1> QED BY <1>2, <1>3

\* A mapping built from pairs of S.
LEMMA Table ==
  ASSUME NEW pairs, IsList(pairs), NEW q, q = [i \in DOMAIN pairs |-> q[i]], NEW S,
         \A i \in DOMAIN pairs : q[i] \in S, NEW r, r = Dict(q)
  PROVE  /\ IsList(r) /\ Dict(r) = r /\ r = [i \in DOMAIN r |-> r[i]]
         /\ \A i \in DOMAIN r : r[i] \in S
<1>1. PICK n \in Nat : n = Len(pairs) /\ DOMAIN pairs = 1..n
  BY DEF IsList
<1>2. q \in [1..n -> S]
  BY <1>1
<1>3. q \in Seq(S) /\ Len(q) = n /\ DOMAIN q = 1..n
  BY <1>2
<1>4. IsList(q) /\ \A i \in DOMAIN q : q[i] \in S
  BY <1>2, <1>3 DEF IsList
<1>5. Mapping(r, S)
  BY <1>4, DictHolds
<1>6. Dict(r) = r
  BY <1>5, DictSame
<1>7. Len(r) \in Nat /\ r \in [1..Len(r) -> S]
  BY <1>5, LenProperties DEF Mapping
<1> QED BY <1>6, <1>7 DEF IsList

LEMMA RegistersStay ==
  ASSUME NEW pairs, NEW size, RegistersOK(pairs, size), NEW r, r = Registers(pairs)
  PROVE  RegistersOK(r, size) /\ Registers(r) = r
<1> DEFINE F(p) == <<Register(p[1]), Number(p[2])>>
<1>1. PICK q : q = [i \in DOMAIN pairs |-> F(pairs[i])]
  OBVIOUS
<1>2. PICK S : S = {F(pairs[i]) : i \in DOMAIN pairs}
  OBVIOUS
<1>3. IsList(pairs) /\ r = Dict(q)
  BY <1>1 DEF RegistersOK, Registers
<1>4. q = [i \in DOMAIN pairs |-> q[i]] /\ \A i \in DOMAIN pairs : q[i] \in S
  <2> HIDE DEF F
  <2> QED BY <1>1, <1>2
<1>5. /\ IsList(r) /\ Dict(r) = r /\ r = [i \in DOMAIN r |-> r[i]]
      /\ \A i \in DOMAIN r : r[i] \in S
  <2> HIDE DEF F
  <2> QED BY <1>3, <1>4, Table
<1>6. ASSUME NEW p \in S
      PROVE  F(p) = p /\ RegisterOK(p[1], size) /\ NumberOK(p[2], 0, 255)
  <2>1. PICK i \in DOMAIN pairs : p = F(pairs[i])
    BY <1>2
  <2>2. PICK x, y : x = pairs[i][1] /\ y = pairs[i][2]
    OBVIOUS
  <2>3. RegisterOK(x, size) /\ NumberOK(y, 0, 255)
    BY <2>2 DEF RegistersOK
  <2>4. p = <<Register(x), Number(y)>> /\ p[1] = Register(x) /\ p[2] = Number(y)
    BY <2>1, <2>2
  <2>5. RegisterOK(Register(x), size) /\ Register(Register(x)) = Register(x)
    BY <2>3, RegisterStays
  <2>6. NumberOK(Number(y), 0, 255) /\ Number(Number(y)) = Number(y)
    BY <2>3, NumberStays, NumberTwice
  <2> QED BY <2>4, <2>5, <2>6
<1>7. Registers(r) = Dict([i \in DOMAIN r |-> F(r[i])])
  BY DEF Registers
<1>8. RegistersOK(r, size)
  <2> HIDE DEF F
  <2> QED BY <1>5, <1>6 DEF RegistersOK
<1>9. [i \in DOMAIN r |-> F(r[i])] = r
  <2> HIDE DEF F
  <2>1. \A i \in DOMAIN r : F(r[i]) = r[i]
    BY <1>5, <1>6
  <2>2. [i \in DOMAIN r |-> F(r[i])] = [i \in DOMAIN r |-> r[i]]
    BY <2>1, Zenon
  <2> QED BY <1>5, <2>2
<1> QED BY <1>5, <1>7, <1>8, <1>9

LEMMA EffectsStay ==
  ASSUME NEW pairs, NEW size, EffectsOK(pairs, size), NEW r, r = Effects(pairs)
  PROVE  EffectsOK(r, size) /\ Effects(r) = r
<1> DEFINE F(p) == <<Register(p[1]), Registers(p[2])>>
<1>1. PICK q : q = [i \in DOMAIN pairs |-> F(pairs[i])]
  OBVIOUS
<1>2. PICK S : S = {F(pairs[i]) : i \in DOMAIN pairs}
  OBVIOUS
<1>3. IsList(pairs) /\ r = Dict(q)
  BY <1>1 DEF EffectsOK, Effects
<1>4. q = [i \in DOMAIN pairs |-> q[i]] /\ \A i \in DOMAIN pairs : q[i] \in S
  <2> HIDE DEF F
  <2> QED BY <1>1, <1>2
<1>5. /\ IsList(r) /\ Dict(r) = r /\ r = [i \in DOMAIN r |-> r[i]]
      /\ \A i \in DOMAIN r : r[i] \in S
  <2> HIDE DEF F
  <2> QED BY <1>3, <1>4, Table
<1>6. ASSUME NEW p \in S
      PROVE  F(p) = p /\ RegisterOK(p[1], size) /\ RegistersOK(p[2], size)
  <2>1. PICK i \in DOMAIN pairs : p = F(pairs[i])
    BY <1>2
  <2>2. PICK x, y : x = pairs[i][1] /\ y = pairs[i][2]
    OBVIOUS
  <2>3. RegisterOK(x, size) /\ RegistersOK(y, size)
    BY <2>2 DEF EffectsOK
  <2>4. p = <<Register(x), Registers(y)>> /\ p[1] = Register(x) /\ p[2] = Registers(y)
    BY <2>1, <2>2
  <2>5. RegisterOK(Register(x), size) /\ Register(Register(x)) = Register(x)
    BY <2>3, RegisterStays
  <2>6. RegistersOK(Registers(y), size) /\ Registers(Registers(y)) = Registers(y)
    BY <2>3, RegistersStay
  <2> QED BY <2>4, <2>5, <2>6
<1>7. Effects(r) = Dict([i \in DOMAIN r |-> F(r[i])])
  BY DEF Effects
<1>8. EffectsOK(r, size)
  <2> HIDE DEF F
  <2> QED BY <1>5, <1>6 DEF EffectsOK
<1>9. [i \in DOMAIN r |-> F(r[i])] = r
  <2> HIDE DEF F
  <2>1. \A i \in DOMAIN r : F(r[i]) = r[i]
    BY <1>5, <1>6
  <2>2. [i \in DOMAIN r |-> F(r[i])] = [i \in DOMAIN r |-> r[i]]
    BY <2>1, Zenon
  <2> QED BY <1>5, <2>2
<1> QED BY <1>5, <1>7, <1>8, <1>9

LEMMA ScriptStays ==
  ASSUME NEW pairs, ScriptOK(pairs), NEW r, r = Script(pairs)
  PROVE  ScriptOK(r) /\ Script(r) = r
<1> DEFINE F(p) == <<Bytes(p[1]), Bytes(p[2])>>
<1>1. PICK q : q = [i \in DOMAIN pairs |-> F(pairs[i])]
  OBVIOUS
<1>2. PICK S : S = {F(pairs[i]) : i \in DOMAIN pairs}
  OBVIOUS
<1>3. IsList(pairs) /\ r = Dict(q)
  BY <1>1 DEF ScriptOK, Script
<1>4. q = [i \in DOMAIN pairs |-> q[i]] /\ \A i \in DOMAIN pairs : q[i] \in S
  <2> HIDE DEF F
  <2> QED BY <1>1, <1>2
<1>5. /\ IsList(r) /\ Dict(r) = r /\ r = [i \in DOMAIN r |-> r[i]]
      /\ \A i \in DOMAIN r : r[i] \in S
  <2> HIDE DEF F
  <2> QED BY <1>3, <1>4, Table
<1>6. ASSUME NEW p \in S
      PROVE  F(p) = p /\ BytesOK(p[1]) /\ BytesOK(p[2])
  <2>1. PICK i \in DOMAIN pairs : p = F(pairs[i])
    BY <1>2
  <2>2. PICK x, y : x = Bytes(pairs[i][1]) /\ y = Bytes(pairs[i][2])
    OBVIOUS
  <2>3. p = <<x, y>> /\ p[1] = x /\ p[2] = y
    BY <2>1, <2>2
  <2>4. BytesOK(x) /\ Bytes(x) = x /\ BytesOK(y) /\ Bytes(y) = y
    BY <2>2, BytesStay
  <2> QED BY <2>3, <2>4
<1>7. Script(r) = Dict([i \in DOMAIN r |-> F(r[i])])
  BY DEF Script
<1>8. ScriptOK(r)
  <2> HIDE DEF F
  <2> QED BY <1>5, <1>6 DEF ScriptOK
<1>9. [i \in DOMAIN r |-> F(r[i])] = r
  <2> HIDE DEF F
  <2>1. \A i \in DOMAIN r : F(r[i]) = r[i]
    BY <1>5, <1>6
  <2>2. [i \in DOMAIN r |-> F(r[i])] = [i \in DOMAIN r |-> r[i]]
    BY <2>1, Zenon
  <2> QED BY <1>5, <2>2
<1> QED BY <1>5, <1>7, <1>8, <1>9

\* Words are kept as they are.
LEMMA WordsStay ==
  ASSUME NEW pairs, IsList(pairs), NEW r, r = Dict(pairs)
  PROVE  /\ IsList(r) /\ Dict(r) = r
         /\ \A i \in DOMAIN r : \E j \in DOMAIN pairs : r[i] = pairs[j]
<1>2. PICK S : S = {pairs[i] : i \in DOMAIN pairs}
  OBVIOUS
<1>3. \A i \in DOMAIN pairs : pairs[i] \in S
  BY <1>2
<1>4. Mapping(r, S)
  BY <1>3, DictHolds
<1>5. Dict(r) = r
  BY <1>4, DictSame
<1>6. Len(r) \in Nat /\ r \in [1..Len(r) -> S]
  BY <1>4, LenProperties DEF Mapping
<1> QED BY <1>2, <1>5, <1>6 DEF IsList

\* Sorting a finite set of registers loses none: their ranks are the numbers below its size.
LEMMA SortedHolds ==
  ASSUME NEW R, IsFiniteSet(R), \A x \in R : x.n \in Int,
         \A x, y \in R : x.n = y.n => x = y, NEW r, r = Sorted(R)
  PROVE  IsList(r) /\ ToSet(r) = R
<1> DEFINE B(x) == {y \in R : y.n < x.n}
<1>1. PICK c \in Nat : c = Cardinality(R)
  BY FS_CardinalityType
<1>2. ASSUME NEW x \in R
      PROVE  IsFiniteSet(B(x)) /\ Cardinality(B(x)) \in 0..(c - 1)
  <2>1. B(x) \in SUBSET R /\ x \notin B(x)
    OBVIOUS
  <2>2. IsFiniteSet(B(x)) /\ Cardinality(B(x)) <= c /\ (c = Cardinality(B(x)) => R = B(x))
    <3> HIDE DEF B
    <3> QED BY <1>1, <2>1, FS_Subset
  <2>3. Cardinality(B(x)) \in Nat
    <3> HIDE DEF B
    <3> QED BY <2>2, FS_CardinalityType
  <2>4. Cardinality(B(x)) # c
    BY <2>1, <2>2
  <2> HIDE DEF B
  <2> QED BY <1>1, <2>2, <2>3, <2>4
<1>3. ASSUME NEW x \in R, NEW y \in R, x.n < y.n
      PROVE  Cardinality(B(x)) < Cardinality(B(y))
  <2>1. B(x) \in SUBSET B(y)
    BY <1>3
  <2>2. x \in B(y) /\ x \notin B(x)
    BY <1>3
  <2>3. IsFiniteSet(B(y)) /\ Cardinality(B(y)) \in Nat /\ Cardinality(B(x)) \in Nat
    <3>1. Cardinality(B(x)) \in 0..(c - 1) /\ IsFiniteSet(B(y)) /\ Cardinality(B(y)) \in 0..(c - 1)
      BY <1>2, Zenon
    <3> HIDE DEF B
    <3> QED BY <3>1
  <2>4. Cardinality(B(x)) <= Cardinality(B(y)) /\ (Cardinality(B(y)) = Cardinality(B(x)) => B(y) = B(x))
    <3> HIDE DEF B
    <3> QED BY <2>1, <2>3, FS_Subset
  <2>5. Cardinality(B(x)) # Cardinality(B(y))
    BY <2>2, <2>4
  <2> HIDE DEF B
  <2> QED BY <2>3, <2>4, <2>5
<1>4. PICK f : f = [x \in R |-> Cardinality(B(x))]
  OBVIOUS
<1>5. f \in [R -> 0..(c - 1)] /\ \A x \in R : f[x] = Cardinality(B(x))
  <2>1. \A x \in R : Cardinality(B(x)) \in 0..(c - 1)
    BY <1>2
  <2> HIDE DEF B
  <2> QED BY <1>4, <2>1
<1>6. \A x, y \in R : f[x] = f[y] => x = y
  <2> SUFFICES ASSUME NEW x \in R, NEW y \in R, f[x] = f[y]
               PROVE  x.n = y.n
    OBVIOUS
  <2>1. ~(x.n < y.n)
    <3>1. SUFFICES ASSUME x.n < y.n PROVE FALSE
      OBVIOUS
    <3>2. Cardinality(B(x)) < Cardinality(B(y))
      BY <1>3, <3>1
    <3>3. f[x] < f[y] /\ f[x] \in Int
      <4> HIDE DEF B
      <4> QED BY <1>5, <3>2
    <3> QED BY <3>3
  <2>2. ~(y.n < x.n)
    <3>1. SUFFICES ASSUME y.n < x.n PROVE FALSE
      OBVIOUS
    <3>2. Cardinality(B(y)) < Cardinality(B(x))
      BY <1>3, <3>1
    <3>3. f[y] < f[x] /\ f[x] \in Int
      <4> HIDE DEF B
      <4> QED BY <1>5, <3>2
    <3> QED BY <3>3
  <2>3. x.n \in Int /\ y.n \in Int
    OBVIOUS
  <2> QED BY <2>1, <2>2, <2>3
<1>7. f \in Injection(R, 0..(c - 1))
  BY <1>5, <1>6 DEF Injection, IsInjective
<1>8. IsFiniteSet(0..(c - 1)) /\ Cardinality(0..(c - 1)) = c
  <2>1. c - 1 \in Int
    OBVIOUS
  <2>2. /\ IsFiniteSet(0..(c - 1))
        /\ Cardinality(0..(c - 1)) = IF 0 > c - 1 THEN 0 ELSE (c - 1) - 0 + 1
    BY <2>1, FS_Interval
  <2> QED BY <2>2
<1>9. f \in Surjection(R, 0..(c - 1))
  BY <1>1, <1>7, <1>8, FS_Injection
<1>10. \A k \in 1..c : \E x \in R : f[x] = k - 1
  BY <1>9 DEF Surjection
<1>11. DOMAIN r = 1..c /\ \A k \in 1..c : r[k] = CHOOSE x \in R : f[x] = k - 1
  <2>1. r = [k \in 1..Cardinality(R) |-> CHOOSE x \in R : Cardinality(B(x)) = k - 1]
    BY DEF Sorted
  <2>2. ASSUME NEW k \in 1..c
        PROVE  (CHOOSE x \in R : Cardinality(B(x)) = k - 1) = CHOOSE x \in R : f[x] = k - 1
    <3>1. \A x \in R : (Cardinality(B(x)) = k - 1) <=> (f[x] = k - 1)
      BY <1>5
    <3> HIDE DEF B
    <3> QED BY <3>1, Zenon
  <2> HIDE DEF B
  <2> QED BY <1>1, <2>1, <2>2
<1>12. \A k \in 1..c : r[k] \in R /\ f[r[k]] = k - 1
  BY <1>10, <1>11, Zenon
<1>13. r \in [1..c -> R]
  <2>1. r = [k \in 1..c |-> r[k]]
    BY <1>1, <1>11 DEF Sorted
  <2> QED BY <1>12, <2>1
<1>14. Len(r) = c /\ DOMAIN r = 1..c
  BY <1>13
<1>15. \A x \in R : \E k \in 1..c : r[k] = x
  <2> SUFFICES ASSUME NEW x \in R PROVE \E k \in 1..c : r[k] = x
    OBVIOUS
  <2>1. f[x] \in 0..(c - 1)
    BY <1>5
  <2>2. f[x] + 1 \in 1..c /\ (f[x] + 1) - 1 = f[x]
    BY <2>1
  <2>3. r[f[x] + 1] \in R /\ f[r[f[x] + 1]] = f[x]
    BY <1>12, <2>2
  <2> QED BY <1>6, <2>2, <2>3
<1>16. IsList(r)
  BY <1>14 DEF IsList
<1>17. ToSet(r) = R
  <2>1. PICK U : U = {r[k] : k \in 1..c} /\ U = ToSet(r)
    BY <1>14 DEF ToSet
  <2>2. \A x \in U : x \in R
    BY <1>12, <2>1
  <2>3. \A x \in R : x \in U
    BY <1>15, <2>1
  <2> QED BY <2>1, <2>2, <2>3, Zenon
<1> QED BY <1>16, <1>17

\* A sequence has finitely many elements.
LEMMA ListFinite ==
  ASSUME NEW s, IsList(s), NEW T, T = {Register(x) : x \in ToSet(s)}
  PROVE  IsFiniteSet(T)
<1>1. PICK n \in Nat : n = Len(s) /\ DOMAIN s = 1..n
  BY DEF IsList
<1>2. PICK f : f = [i \in 1..n |-> Register(s[i])]
  OBVIOUS
<1>3. T = {Register(s[i]) : i \in 1..n}
  BY <1>1 DEF ToSet
<1>4. f \in [1..n -> T] /\ \A y \in T : \E i \in 1..n : f[i] = y
  BY <1>2, <1>3
<1>5. f \in Surjection(1..n, T)
  BY <1>4 DEF Surjection
<1>6. IsFiniteSet(1..n)
  BY FS_Interval
<1> QED BY <1>5, <1>6, FS_Surjection

LEMMA RegisterListStays ==
  ASSUME NEW s, IsList(s), NEW size, \A x \in ToSet(s) : RegisterOK(x, size),
         NEW r, r = SortedRegisters(s)
  PROVE  IsList(r) /\ (\A x \in ToSet(r) : RegisterOK(x, size)) /\ SortedRegisters(r) = r
<1>1. PICK T : T = {Register(x) : x \in ToSet(s)}
  OBVIOUS
<1>2. r = Sorted(T)
  BY <1>1 DEF SortedRegisters
<1>3. IsFiniteSet(T)
  BY <1>1, ListFinite
<1>4. \A x \in T : RegisterOK(x, size) /\ Register(x) = x
  BY <1>1, RegisterStays
<1>5. \A x \in T : x.n \in Int
  BY <1>4 DEF RegisterOK, NumberOK
<1>6. \A x, y \in T : x.n = y.n => x = y
  BY <1>4 DEF Register
<1>7. IsList(r) /\ ToSet(r) = T
  BY <1>2, <1>3, <1>5, <1>6, SortedHolds
<1>8. {Register(x) : x \in ToSet(r)} = T
  BY <1>4, <1>7
<1> QED BY <1>2, <1>4, <1>7, <1>8 DEF SortedRegisters

\* Two mappings with the same keys and values are the same.
LEMMA SameMapping ==
  ASSUME NEW d, NEW e, d = [k \in DOMAIN d |-> d[k]], e = [k \in DOMAIN e |-> e[k]],
         DOMAIN d = DOMAIN e, \A k \in DOMAIN d : d[k] = e[k]
  PROVE  d = e
OBVIOUS

BankTables == {"registers", "clear_on_read", "write_effects"}

LEMMA BankHolds ==
  ASSUME NEW b, NEW r, r = Bank(b)
  PROVE  /\ DOMAIN r = DOMAIN BankFields \cup DOMAIN BankFlags \cup BankTables
         /\ \A k \in DOMAIN BankFields : r[k] = Fields(b, BankFields)[k]
         /\ \A k \in DOMAIN BankFlags : r[k] = Flags(b, BankFlags)[k]
         /\ r.registers = Registers(Get(b, "registers", <<>>))
         /\ r.clear_on_read = SortedRegisters(Get(b, "clear_on_read", <<>>))
         /\ r.write_effects = Effects(Get(b, "write_effects", <<>>))
<1>1. PICK f, g, h : /\ f = Fields(b, BankFields) /\ g = Flags(b, BankFlags)
                     /\ h = [registers     |-> Registers(Get(b, "registers", <<>>)),
                             clear_on_read |-> SortedRegisters(Get(b, "clear_on_read", <<>>)),
                             write_effects |-> Effects(Get(b, "write_effects", <<>>))]
  OBVIOUS
<1>2. PICK c : c = f ++ g
  OBVIOUS
<1>3. r = c ++ h
  BY <1>1, <1>2 DEF Bank
<1>4. DOMAIN f = DOMAIN BankFields /\ DOMAIN g = DOMAIN BankFlags
  BY <1>1 DEF Fields, Flags
<1>5. DOMAIN BankFields = {"size", "pointer_width"} /\ DOMAIN BankFlags = {"auto_increment"}
  BY DEF BankFields, BankFlags
<1>6. DOMAIN h = BankTables
  BY <1>1 DEF BankTables
<1>7. DOMAIN c = DOMAIN f \cup DOMAIN g /\ (\A k \in DOMAIN f : c[k] = f[k])
      /\ \A k \in DOMAIN g : k \notin DOMAIN f => c[k] = g[k]
  BY <1>2 DEF ++
<1>8. DOMAIN r = DOMAIN c \cup DOMAIN h /\ (\A k \in DOMAIN c : r[k] = c[k])
      /\ \A k \in DOMAIN h : k \notin DOMAIN c => r[k] = h[k]
  BY <1>3 DEF ++
<1>9. \A k \in DOMAIN BankFields : r[k] = f[k]
  BY <1>4, <1>7, <1>8
<1>10. \A k \in DOMAIN BankFlags : r[k] = g[k]
  BY <1>4, <1>5, <1>7, <1>8
<1>11. \A k \in BankTables : r[k] = h[k]
  BY <1>4, <1>5, <1>6, <1>7, <1>8 DEF BankTables
<1>12. r.registers = h.registers /\ r.clear_on_read = h.clear_on_read /\ r.write_effects = h.write_effects
  BY <1>11 DEF BankTables
<1>13. DOMAIN r = DOMAIN BankFields \cup DOMAIN BankFlags \cup BankTables
  BY <1>4, <1>6, <1>7, <1>8
<1> QED BY <1>1, <1>9, <1>10, <1>12, <1>13

\* e has the normalised bank of b among its keys.
LEMMA BankStays ==
  ASSUME NEW b, BankOK(b), NEW r, r = Bank(b), NEW e, DOMAIN r \subseteq DOMAIN e,
         \A k \in DOMAIN r : e[k] = r[k]
  PROVE  BankOK(e) /\ Bank(e) = r
<1>1. /\ DOMAIN r = DOMAIN BankFields \cup DOMAIN BankFlags \cup BankTables
      /\ \A k \in DOMAIN BankFields : r[k] = Fields(b, BankFields)[k]
      /\ \A k \in DOMAIN BankFlags : r[k] = Flags(b, BankFlags)[k]
      /\ r.registers = Registers(Get(b, "registers", <<>>))
      /\ r.clear_on_read = SortedRegisters(Get(b, "clear_on_read", <<>>))
      /\ r.write_effects = Effects(Get(b, "write_effects", <<>>))
  BY BankHolds
<1>2. PICK n : n = Get(b, "size", Plain(256)).n
  OBVIOUS
<1>3. /\ FieldsOK(b, BankFields) /\ FlagsOK(b, BankFlags)
      /\ RegistersOK(Get(b, "registers", <<>>), n)
      /\ IsList(Get(b, "clear_on_read", <<>>))
      /\ \A x \in ToSet(Get(b, "clear_on_read", <<>>)) : RegisterOK(x, n)
      /\ EffectsOK(Get(b, "write_effects", <<>>), n)
  BY <1>2 DEF BankOK
<1>4. FieldsOK(e, BankFields) /\ Fields(e, BankFields) = Fields(b, BankFields)
  BY <1>1, <1>3, FieldsStay
<1>5. FlagsOK(e, BankFlags) /\ Flags(e, BankFlags) = Flags(b, BankFlags)
  BY <1>1, <1>3, FlagsStay
<1>6. Get(e, "registers", <<>>) = r.registers /\ Get(e, "clear_on_read", <<>>) = r.clear_on_read
      /\ Get(e, "write_effects", <<>>) = r.write_effects
  BY <1>1 DEF Get, BankTables
<1>7. Get(e, "size", Plain(256)).n = n
  <2>1. "size" \in DOMAIN BankFields /\ BankFields["size"].default = Plain(256)
    BY DEF BankFields, Field
  <2>2. Fields(b, BankFields)["size"] = Number(Get(b, "size", Plain(256)))
    BY <2>1 DEF Fields
  <2>3. e["size"] = Number(Get(b, "size", Plain(256)))
    BY <1>1, <2>1, <2>2
  <2>4. Get(e, "size", Plain(256)) = Number(Get(b, "size", Plain(256)))
    BY <1>1, <2>1, <2>3 DEF Get
  <2>5. \A x : Number(x).n = x.n
    BY DEF Number, Plain
  <2> QED BY <1>2, <2>4, <2>5
<1>8. RegistersOK(r.registers, n) /\ Registers(r.registers) = r.registers
  BY <1>1, <1>3, RegistersStay
<1>9. EffectsOK(r.write_effects, n) /\ Effects(r.write_effects) = r.write_effects
  BY <1>1, <1>3, EffectsStay
<1>10. /\ IsList(r.clear_on_read) /\ (\A x \in ToSet(r.clear_on_read) : RegisterOK(x, n))
       /\ SortedRegisters(r.clear_on_read) = r.clear_on_read
  BY <1>1, <1>3, RegisterListStays
<1>11. BankOK(e)
  BY <1>4, <1>5, <1>6, <1>7, <1>8, <1>9, <1>10 DEF BankOK
<1>12. Bank(e) = Bank(b)
  BY <1>1, <1>4, <1>5, <1>6, <1>8, <1>9, <1>10, Zenon DEF Bank
<1> QED BY <1>11, <1>12

ScriptTables == {"responses", "prefix_responses", "default_response"}

LEMMA SpiScriptHolds ==
  ASSUME NEW b, NEW r, r = SpiScript(b)
  PROVE  /\ DOMAIN r = DOMAIN SpiFlags \cup ScriptTables \cup
              (IF HasFlash(b) THEN {"flash_jedec_id"} \cup DOMAIN FlashFields ELSE {})
         /\ \A k \in DOMAIN SpiFlags : r[k] = Flags(b, SpiFlags)[k]
         /\ r.responses = Script(Get(b, "responses", <<>>))
         /\ r.prefix_responses = Script(Get(b, "prefix_responses", <<>>))
         /\ r.default_response = Bytes(Get(b, "default_response", Hex("")))
         /\ HasFlash(b) =>
              /\ r.flash_jedec_id = Bytes(Get(b, "flash_jedec_id", Hex("")))
              /\ \A k \in DOMAIN FlashFields : r[k] = Fields(b, FlashFields)[k]
<1>1. PICK g, h, i, j : /\ g = Flags(b, SpiFlags)
                        /\ h = [responses        |-> Script(Get(b, "responses", <<>>)),
                                prefix_responses |-> Script(Get(b, "prefix_responses", <<>>)),
                                default_response |-> Bytes(Get(b, "default_response", Hex("")))]
                        /\ i = [flash_jedec_id |-> Bytes(Get(b, "flash_jedec_id", Hex("")))]
                        /\ j = Fields(b, FlashFields)
  OBVIOUS
<1>2. PICK c, p, q : c = g ++ h /\ p = i ++ j /\ q = When(HasFlash(b), p)
  OBVIOUS
<1>3. r = c ++ q
  BY <1>1, <1>2 DEF SpiScript
<1>4. DOMAIN g = DOMAIN SpiFlags /\ DOMAIN j = DOMAIN FlashFields
  BY <1>1 DEF Fields, Flags
<1>5. DOMAIN SpiFlags = {"echo"}
      /\ DOMAIN FlashFields = {"flash_status_register", "flash_write_busy_cycles"}
  BY DEF SpiFlags, FlashFields
<1>6. DOMAIN h = ScriptTables /\ DOMAIN i = {"flash_jedec_id"}
  BY <1>1 DEF ScriptTables
<1>7. DOMAIN c = DOMAIN g \cup DOMAIN h /\ (\A k \in DOMAIN g : c[k] = g[k])
      /\ \A k \in DOMAIN h : k \notin DOMAIN g => c[k] = h[k]
  BY <1>2 DEF ++
<1>8. DOMAIN p = DOMAIN i \cup DOMAIN j /\ (\A k \in DOMAIN i : p[k] = i[k])
      /\ \A k \in DOMAIN j : k \notin DOMAIN i => p[k] = j[k]
  BY <1>2 DEF ++
<1>9. DOMAIN r = DOMAIN c \cup DOMAIN q /\ (\A k \in DOMAIN c : r[k] = c[k])
      /\ \A k \in DOMAIN q : k \notin DOMAIN c => r[k] = q[k]
  BY <1>3 DEF ++
<1>10. \A k \in DOMAIN SpiFlags : r[k] = g[k]
  BY <1>4, <1>7, <1>9
<1>11. \A k \in ScriptTables : r[k] = h[k]
  BY <1>4, <1>5, <1>6, <1>7, <1>9 DEF ScriptTables
<1>12. r.responses = h.responses /\ r.prefix_responses = h.prefix_responses
       /\ r.default_response = h.default_response
  BY <1>11 DEF ScriptTables
<1>13. DOMAIN c = {"echo", "responses", "prefix_responses", "default_response"}
  BY <1>4, <1>5, <1>6, <1>7 DEF ScriptTables
<1>14. CASE HasFlash(b)
  <2>1. q = p
    BY <1>2, <1>14 DEF When
  <2>2. DOMAIN p = {"flash_jedec_id", "flash_status_register", "flash_write_busy_cycles"}
    BY <1>4, <1>5, <1>6, <1>8
  <2>3. r.flash_jedec_id = i.flash_jedec_id
    BY <1>6, <1>8, <1>9, <1>13, <2>1, <2>2
  <2>4. \A k \in DOMAIN FlashFields : r[k] = j[k]
    BY <1>4, <1>5, <1>6, <1>8, <1>9, <1>13, <2>1, <2>2
  <2>5. DOMAIN r = DOMAIN SpiFlags \cup ScriptTables \cup ({"flash_jedec_id"} \cup DOMAIN FlashFields)
    BY <1>4, <1>6, <1>7, <1>8, <1>9, <2>1
  <2> QED BY <1>1, <1>10, <1>12, <1>14, <2>3, <2>4, <2>5
<1>15. CASE ~HasFlash(b)
  <2>1. DOMAIN q = {}
    BY <1>2, <1>15 DEF When, EmptyDict
  <2>2. DOMAIN r = DOMAIN SpiFlags \cup ScriptTables
    BY <1>4, <1>6, <1>7, <1>9, <2>1
  <2> QED BY <1>1, <1>10, <1>12, <1>15, <2>2
<1> QED BY <1>14, <1>15

LEMMA SpiScriptStays ==
  ASSUME NEW b, SpiScriptOK(b), NEW r, r = SpiScript(b), NEW e,
         DOMAIN e = DOMAIN r \cup {"kind", "template"}, \A k \in DOMAIN r : e[k] = r[k]
  PROVE  SpiScriptOK(e) /\ SpiScript(e) = r
<1>1. /\ DOMAIN r = DOMAIN SpiFlags \cup ScriptTables \cup
              (IF HasFlash(b) THEN {"flash_jedec_id"} \cup DOMAIN FlashFields ELSE {})
      /\ \A k \in DOMAIN SpiFlags : r[k] = Flags(b, SpiFlags)[k]
      /\ r.responses = Script(Get(b, "responses", <<>>))
      /\ r.prefix_responses = Script(Get(b, "prefix_responses", <<>>))
      /\ r.default_response = Bytes(Get(b, "default_response", Hex("")))
      /\ HasFlash(b) =>
           /\ r.flash_jedec_id = Bytes(Get(b, "flash_jedec_id", Hex("")))
           /\ \A k \in DOMAIN FlashFields : r[k] = Fields(b, FlashFields)[k]
  BY SpiScriptHolds, Zenon
<1>2. FlagsOK(e, SpiFlags) /\ Flags(e, SpiFlags) = Flags(b, SpiFlags)
  <2>1. DOMAIN SpiFlags \subseteq DOMAIN e /\ \A k \in DOMAIN SpiFlags : e[k] = Flags(b, SpiFlags)[k]
    BY <1>1
  <2>2. FlagsOK(b, SpiFlags)
    BY DEF SpiScriptOK
  <2> QED BY <2>1, <2>2, FlagsStay
<1>3. /\ Get(e, "responses", <<>>) = r.responses
      /\ Get(e, "prefix_responses", <<>>) = r.prefix_responses
      /\ Get(e, "default_response", Hex("")) = r.default_response
  BY <1>1 DEF Get, ScriptTables
<1>4. ScriptOK(r.responses) /\ Script(r.responses) = r.responses
      /\ ScriptOK(r.prefix_responses) /\ Script(r.prefix_responses) = r.prefix_responses
  <2>1. ScriptOK(Get(b, "responses", <<>>)) /\ ScriptOK(Get(b, "prefix_responses", <<>>))
    BY DEF SpiScriptOK
  <2> QED BY <1>1, <2>1, ScriptStays
<1>5. BytesOK(r.default_response) /\ Bytes(r.default_response) = r.default_response
  BY <1>1, BytesStay
<1>6. HasFlash(e) <=> HasFlash(b)
  BY <1>1 DEF HasFlash, ScriptTables, SpiFlags
<1>7. CASE HasFlash(b)
  <2>1. FieldsOK(e, FlashFields) /\ Fields(e, FlashFields) = Fields(b, FlashFields)
    <3>1. DOMAIN FlashFields \subseteq DOMAIN e /\ \A k \in DOMAIN FlashFields : e[k] = Fields(b, FlashFields)[k]
      BY <1>1, <1>7
    <3>2. FieldsOK(b, FlashFields)
      BY <1>7 DEF SpiScriptOK
    <3> QED BY <3>1, <3>2, FieldsStay
  <2>2. e.flash_jedec_id = r.flash_jedec_id /\ Get(e, "flash_jedec_id", Hex("")) = r.flash_jedec_id
    BY <1>1, <1>7 DEF Get
  <2>3. BytesOK(r.flash_jedec_id) /\ Bytes(r.flash_jedec_id) = r.flash_jedec_id
    BY <1>1, <1>7, BytesStay
  <2>4. SpiScriptOK(e)
    BY <1>2, <1>3, <1>4, <1>5, <2>1, <2>2, <2>3 DEF SpiScriptOK
  <2>5. SpiScript(e) = SpiScript(b)
    BY <1>1, <1>2, <1>3, <1>4, <1>5, <1>6, <1>7, <2>1, <2>2, <2>3, Zenon DEF SpiScript, When
  <2> QED BY <2>4, <2>5
<1>8. CASE ~HasFlash(b)
  <2>1. SpiScriptOK(e)
    BY <1>2, <1>3, <1>4, <1>5, <1>6, <1>8 DEF SpiScriptOK
  <2>2. SpiScript(e) = SpiScript(b)
    BY <1>1, <1>2, <1>3, <1>4, <1>5, <1>6, <1>8, Zenon DEF SpiScript, When
  <2> QED BY <2>1, <2>2
<1> QED BY <1>7, <1>8

PortTables == {"line_responses", "binary_responses", "default_response", "control_defaults"}

LEMMA UartScriptHolds ==
  ASSUME NEW b, NEW r, r = UartScript(b)
  PROVE  /\ DOMAIN r = DOMAIN PortFlags \cup PortTables
         /\ \A k \in DOMAIN PortFlags : r[k] = Flags(b, PortFlags)[k]
         /\ r.line_responses = Dict(Get(b, "line_responses", <<>>))
         /\ r.binary_responses = Script(Get(b, "binary_responses", <<>>))
         /\ r.default_response = Bytes(Get(b, "default_response", Hex("")))
         /\ r.control_defaults = Dict(Get(b, "control_defaults", <<>>))
<1>1. PICK g, h : /\ g = Flags(b, PortFlags)
                  /\ h = [line_responses   |-> Dict(Get(b, "line_responses", <<>>)),
                          binary_responses |-> Script(Get(b, "binary_responses", <<>>)),
                          default_response |-> Bytes(Get(b, "default_response", Hex(""))),
                          control_defaults |-> Dict(Get(b, "control_defaults", <<>>))]
  OBVIOUS
<1>2. r = g ++ h
  BY <1>1 DEF UartScript
<1>3. DOMAIN g = DOMAIN PortFlags
  BY <1>1 DEF Flags
<1>4. DOMAIN PortFlags = {"echo", "cts_follows_rts", "carrier_follows_dtr"}
  BY DEF PortFlags
<1>5. DOMAIN h = PortTables
  BY <1>1 DEF PortTables
<1>6. DOMAIN r = DOMAIN g \cup DOMAIN h /\ (\A k \in DOMAIN g : r[k] = g[k])
      /\ \A k \in DOMAIN h : k \notin DOMAIN g => r[k] = h[k]
  BY <1>2 DEF ++
<1>7. \A k \in PortTables : r[k] = h[k]
  BY <1>3, <1>4, <1>5, <1>6 DEF PortTables
<1>8. r.line_responses = h.line_responses /\ r.binary_responses = h.binary_responses
      /\ r.default_response = h.default_response /\ r.control_defaults = h.control_defaults
  BY <1>7 DEF PortTables
<1> QED BY <1>1, <1>3, <1>5, <1>6, <1>8

LEMMA UartScriptStays ==
  ASSUME NEW b, UartScriptOK(b), NEW r, r = UartScript(b), NEW e, DOMAIN r \subseteq DOMAIN e,
         \A k \in DOMAIN r : e[k] = r[k]
  PROVE  UartScriptOK(e) /\ UartScript(e) = r
<1>1. /\ DOMAIN r = DOMAIN PortFlags \cup PortTables
      /\ \A k \in DOMAIN PortFlags : r[k] = Flags(b, PortFlags)[k]
      /\ r.line_responses = Dict(Get(b, "line_responses", <<>>))
      /\ r.binary_responses = Script(Get(b, "binary_responses", <<>>))
      /\ r.default_response = Bytes(Get(b, "default_response", Hex("")))
      /\ r.control_defaults = Dict(Get(b, "control_defaults", <<>>))
  BY UartScriptHolds
<1>2. PICK c : c = Get(b, "control_defaults", <<>>)
  OBVIOUS
<1>3. /\ IsList(Get(b, "line_responses", <<>>)) /\ ScriptOK(Get(b, "binary_responses", <<>>))
      /\ FlagsOK(b, PortFlags) /\ IsList(c) /\ \A i \in DOMAIN c : BoolOK(b.control_defaults[i][2])
  BY <1>2 DEF UartScriptOK
<1>4. \A i \in DOMAIN c : BoolOK(c[i][2])
  <2>1. CASE "control_defaults" \in DOMAIN b
    BY <1>2, <1>3, <2>1 DEF Get
  <2>2. CASE "control_defaults" \notin DOMAIN b
    BY <1>2, <2>2 DEF Get
  <2> QED BY <2>1, <2>2
<1>5. FlagsOK(e, PortFlags) /\ Flags(e, PortFlags) = Flags(b, PortFlags)
  BY <1>1, <1>3, FlagsStay
<1>6. /\ Get(e, "line_responses", <<>>) = r.line_responses
      /\ Get(e, "binary_responses", <<>>) = r.binary_responses
      /\ Get(e, "default_response", Hex("")) = r.default_response
      /\ Get(e, "control_defaults", <<>>) = r.control_defaults
      /\ e.control_defaults = r.control_defaults
  BY <1>1 DEF Get, PortTables
<1>7. IsList(r.line_responses) /\ Dict(r.line_responses) = r.line_responses
  BY <1>1, <1>3, WordsStay
<1>8. ScriptOK(r.binary_responses) /\ Script(r.binary_responses) = r.binary_responses
  BY <1>1, <1>3, ScriptStays
<1>9. BytesOK(r.default_response) /\ Bytes(r.default_response) = r.default_response
  BY <1>1, BytesStay
<1>10. /\ IsList(r.control_defaults) /\ Dict(r.control_defaults) = r.control_defaults
       /\ \A i \in DOMAIN r.control_defaults : \E j \in DOMAIN c : r.control_defaults[i] = c[j]
  <2>1. PICK d : d = r.control_defaults /\ d = Dict(c)
    BY <1>1, <1>2
  <2>2. IsList(d) /\ Dict(d) = d /\ \A i \in DOMAIN d : \E j \in DOMAIN c : d[i] = c[j]
    BY <1>3, <2>1, WordsStay
  <2> QED BY <2>1, <2>2
<1>11. \A i \in DOMAIN r.control_defaults : BoolOK(r.control_defaults[i][2])
  <2> SUFFICES ASSUME NEW i \in DOMAIN r.control_defaults
               PROVE  BoolOK(r.control_defaults[i][2])
    OBVIOUS
  <2>1. PICK j \in DOMAIN c : r.control_defaults[i] = c[j]
    BY <1>10
  <2> QED BY <1>4, <2>1
<1>12. UartScriptOK(e)
  BY <1>5, <1>6, <1>7, <1>8, <1>9, <1>10, <1>11 DEF UartScriptOK
<1>13. UartScript(e) = UartScript(b)
  BY <1>1, <1>5, <1>6, <1>7, <1>8, <1>9, <1>10, Zenon DEF UartScript
<1> QED BY <1>12, <1>13

LEMMA WorkerStays ==
  ASSUME NEW w, WorkerOK(w), NEW r, r = Worker(w)
  PROVE  WorkerOK(r) /\ Worker(r) = r /\ r # None
<1>1. PICK f, c : f = Fields(w, WorkerFields) /\ c = [command |-> w.command]
  OBVIOUS
<1>2. r = f ++ c
  BY <1>1 DEF Worker
<1>3. DOMAIN f = DOMAIN WorkerFields
  BY <1>1 DEF Fields
<1>4. DOMAIN WorkerFields = {"restart_limit", "restart_backoff_ms"}
  BY DEF WorkerFields
<1>5. DOMAIN c = {"command"} /\ c.command = w.command
  BY <1>1
<1>6. DOMAIN r = DOMAIN f \cup DOMAIN c /\ (\A k \in DOMAIN f : r[k] = f[k])
      /\ \A k \in DOMAIN c : k \notin DOMAIN f => r[k] = c[k]
  BY <1>2 DEF ++
<1>7. "command" \in DOMAIN r /\ r.command = w.command
  BY <1>3, <1>4, <1>5, <1>6
<1>8. w.command # <<>> /\ FieldsOK(w, WorkerFields)
  BY DEF WorkerOK, Get
<1>9. FieldsOK(r, WorkerFields) /\ Fields(r, WorkerFields) = Fields(w, WorkerFields)
  BY <1>1, <1>3, <1>6, <1>8, FieldsStay
<1>10. WorkerOK(r)
  BY <1>7, <1>8, <1>9 DEF WorkerOK, Get
<1>11. Worker(r) = Worker(w)
  BY <1>7, <1>9, Zenon DEF Worker
<1>12. r # None
  <2>1. DOMAIN None = {"how"}
    BY DEF None
  <2> QED BY <1>7, <2>1
<1> QED BY <1>10, <1>11, <1>12

LEMMA BackendStays ==
  ASSUME NEW t \in Transports, NEW b, BackendOK(t, b), NEW e, e = Backend(t, b)
  PROVE  BackendOK(t, e) /\ Backend(t, e) = e
<1>1. CASE Get(b, "kind", "") = "controller" /\ (Managed(b) => WorkerOK(b.worker))
  <2>1. b.kind = "controller"
    BY <1>1 DEF Get
  <2>2. PICK k : k = [kind |-> "controller"]
    OBVIOUS
  <2>3. e = k ++ When(Managed(b), [worker |-> Worker(b.worker)])
    BY <2>1, <2>2 DEF Backend
  <2>4. DOMAIN k = {"kind"} /\ k.kind = "controller"
    BY <2>2
  <2>5. CASE Managed(b)
    <3>1. PICK w : w = Worker(b.worker)
      OBVIOUS
    <3>2. WorkerOK(w) /\ Worker(w) = w /\ w # None
      BY <1>1, <2>5, <3>1, WorkerStays
    <3>3. PICK h : h = [worker |-> w]
      OBVIOUS
    <3>4. e = k ++ h
      BY <2>3, <2>5, <3>1, <3>3 DEF When
    <3>5. DOMAIN e = {"kind", "worker"} /\ e.kind = "controller" /\ e.worker = w
      BY <2>4, <3>3, <3>4 DEF ++
    <3>6. Managed(e)
      BY <3>2, <3>5 DEF Managed, Get
    <3>7. BackendOK(t, e)
      BY <3>2, <3>5, <3>6 DEF BackendOK, Get
    <3>8. Backend(t, e) = [kind |-> "controller"] ++ When(Managed(e), [worker |-> Worker(e.worker)])
      BY <3>5 DEF Backend
    <3>9. Backend(t, e) = k ++ h
      BY <2>2, <3>2, <3>3, <3>5, <3>6, <3>8, Zenon DEF When
    <3> QED BY <3>4, <3>7, <3>9
  <2>6. CASE ~Managed(b)
    <3>1. e = k ++ EmptyDict
      BY <2>3, <2>6 DEF When
    <3>2. DOMAIN e = {"kind"} /\ e.kind = "controller"
      BY <2>4, <3>1 DEF ++, EmptyDict
    <3>3. ~Managed(e)
      BY <3>2 DEF Managed, Get
    <3>4. BackendOK(t, e)
      BY <3>2, <3>3 DEF BackendOK, Get
    <3>5. Backend(t, e) = [kind |-> "controller"] ++ When(Managed(e), [worker |-> Worker(e.worker)])
      BY <3>2 DEF Backend
    <3>6. Backend(t, e) = k ++ EmptyDict
      BY <2>2, <3>3, <3>5, Zenon DEF When
    <3> QED BY <3>1, <3>4, <3>6
  <2> QED BY <2>5, <2>6
<1>2. CASE /\ Get(b, "kind", "") = "template" /\ Get(b, "template", "") \in TemplateKinds
           /\ CASE t = "i2c"  -> BankOK(b)
                [] t = "spi"  -> SpiScriptOK(b)
                [] t = "uart" -> UartScriptOK(b)
  <2>1. b.kind = "template" /\ b.template \in TemplateKinds
    BY <1>2 DEF Get, TemplateKinds
  <2>2. PICK k : k = [kind |-> "template", template |-> b.template]
    OBVIOUS
  <2>3. DOMAIN k = {"kind", "template"} /\ k.kind = "template" /\ k.template = b.template
    BY <2>2
  <2>4. ASSUME NEW r, e = k ++ r, "kind" \notin DOMAIN r, "template" \notin DOMAIN r
        PROVE  /\ DOMAIN e = DOMAIN r \cup {"kind", "template"} /\ (\A x \in DOMAIN r : e[x] = r[x])
               /\ e.kind = "template" /\ e.template = b.template
               /\ Get(e, "kind", "") = "template" /\ Get(e, "template", "") \in TemplateKinds
    <3>1. /\ DOMAIN e = DOMAIN r \cup {"kind", "template"} /\ (\A x \in DOMAIN r : e[x] = r[x])
          /\ e.kind = "template" /\ e.template = b.template
      BY <2>3, <2>4 DEF ++
    <3> QED BY <2>1, <3>1 DEF Get
  <2>5. CASE t = "i2c"
    <3>1. PICK r : r = Bank(b)
      OBVIOUS
    <3>2. BankOK(b)
      BY <1>2, <2>5
    <3>3. e = k ++ r
      BY <2>1, <2>2, <2>5, <3>1 DEF Backend
    <3>4. "kind" \notin DOMAIN r /\ "template" \notin DOMAIN r
      BY <3>1, BankHolds DEF BankFields, BankFlags, BankTables
    <3>5. /\ DOMAIN e = DOMAIN r \cup {"kind", "template"} /\ (\A x \in DOMAIN r : e[x] = r[x])
          /\ e.kind = "template" /\ e.template = b.template
          /\ Get(e, "kind", "") = "template" /\ Get(e, "template", "") \in TemplateKinds
      BY <2>4, <3>3, <3>4
    <3>6. BankOK(e) /\ Bank(e) = r
      BY <3>1, <3>2, <3>5, BankStays
    <3>7. BackendOK(t, e)
      BY <2>5, <3>5, <3>6 DEF BackendOK
    <3>8. Backend(t, e) = [kind |-> "template", template |-> e.template] ++ Bank(e)
      BY <2>5, <3>5 DEF Backend
    <3>9. Backend(t, e) = k ++ r
      BY <2>2, <3>5, <3>6, <3>8, Zenon
    <3> QED BY <3>3, <3>7, <3>9
  <2>6. CASE t = "spi"
    <3>1. PICK r : r = SpiScript(b)
      OBVIOUS
    <3>2. SpiScriptOK(b)
      BY <1>2, <2>6
    <3>3. e = k ++ r
      BY <2>1, <2>2, <2>6, <3>1 DEF Backend
    <3>4. "kind" \notin DOMAIN r /\ "template" \notin DOMAIN r
      <4>1. DOMAIN r = DOMAIN SpiFlags \cup ScriptTables \cup
                         (IF HasFlash(b) THEN {"flash_jedec_id"} \cup DOMAIN FlashFields ELSE {})
        BY <3>1, SpiScriptHolds, Zenon
      <4>2. DOMAIN SpiFlags = {"echo"}
            /\ DOMAIN FlashFields = {"flash_status_register", "flash_write_busy_cycles"}
        BY DEF SpiFlags, FlashFields
      <4> QED BY <4>1, <4>2 DEF ScriptTables
    <3>5. /\ DOMAIN e = DOMAIN r \cup {"kind", "template"} /\ (\A x \in DOMAIN r : e[x] = r[x])
          /\ e.kind = "template" /\ e.template = b.template
          /\ Get(e, "kind", "") = "template" /\ Get(e, "template", "") \in TemplateKinds
      BY <2>4, <3>3, <3>4
    <3>6. SpiScriptOK(e) /\ SpiScript(e) = r
      BY <3>1, <3>2, <3>5, SpiScriptStays
    <3>7. BackendOK(t, e)
      BY <2>6, <3>5, <3>6 DEF BackendOK
    <3>8. Backend(t, e) = [kind |-> "template", template |-> e.template] ++ SpiScript(e)
      BY <2>6, <3>5 DEF Backend
    <3>9. Backend(t, e) = k ++ r
      BY <2>2, <3>5, <3>6, <3>8, Zenon
    <3> QED BY <3>3, <3>7, <3>9
  <2>7. CASE t = "uart"
    <3>1. PICK r : r = UartScript(b)
      OBVIOUS
    <3>2. UartScriptOK(b)
      BY <1>2, <2>7
    <3>3. e = k ++ r
      BY <2>1, <2>2, <2>7, <3>1 DEF Backend
    <3>4. "kind" \notin DOMAIN r /\ "template" \notin DOMAIN r
      <4>1. DOMAIN r = DOMAIN PortFlags \cup PortTables
        BY <3>1, UartScriptHolds, Zenon
      <4>2. DOMAIN PortFlags = {"echo", "cts_follows_rts", "carrier_follows_dtr"}
        BY DEF PortFlags
      <4> QED BY <4>1, <4>2 DEF PortTables
    <3>5. /\ DOMAIN e = DOMAIN r \cup {"kind", "template"} /\ (\A x \in DOMAIN r : e[x] = r[x])
          /\ e.kind = "template" /\ e.template = b.template
          /\ Get(e, "kind", "") = "template" /\ Get(e, "template", "") \in TemplateKinds
      BY <2>4, <3>3, <3>4
    <3>6. UartScriptOK(e) /\ UartScript(e) = r
      BY <3>1, <3>2, <3>5, UartScriptStays
    <3>7. BackendOK(t, e)
      BY <2>7, <3>5, <3>6 DEF BackendOK
    <3>8. Backend(t, e) = [kind |-> "template", template |-> e.template] ++ UartScript(e)
      BY <2>7, <3>5 DEF Backend
    <3>9. Backend(t, e) = k ++ r
      BY <2>2, <3>5, <3>6, <3>8, Zenon
    <3> QED BY <3>3, <3>7, <3>9
  <2> QED BY <2>5, <2>6, <2>7 DEF Transports
<1> QED BY <1>1, <1>2 DEF BackendOK

\* Faults, settings and backends in the form the normalisation returns.
FaultsSettled(f) == FaultsOK(f) /\ Faults(f) = f
BackendSettled(t, b) == BackendOK(t, b) /\ Backend(t, b) = b
SettingsSettled(t, s) ==
  /\ SettingsOK(t, s)
  /\ t = "spi" => "max_speed_hz" \in DOMAIN s
  /\ t = "uart" => "baud_rate" \in DOMAIN s

\* r has the fields the normalisation makes of f, and no other.
FaultsAre(r, f) ==
  /\ r = [k \in DOMAIN r |-> r[k]]
  /\ DOMAIN r = {"mode", "remaining"} \cup (IF HasErrno(f) THEN {"errno"} ELSE {})
                                      \cup (IF HasReply(f) THEN {"reply_data"} ELSE {})
  /\ r.mode = Get(f, "mode", "none") /\ r.remaining = Number(Get(f, "remaining", Plain(0)))
  /\ HasErrno(f) => r.errno = Number(Errno(f))
  /\ HasReply(f) => r.reply_data = Bytes(Get(f, "reply_data", Hex("")))

LEMMA FaultsParts ==
  ASSUME NEW f, NEW r, r = Faults(f)
  PROVE  FaultsAre(r, f)
<1>1. PICK a, b, c, x, y :
        /\ a = Fault(Get(f, "mode", "none"), Number(Get(f, "remaining", Plain(0))))
        /\ b = [errno |-> Number(Errno(f))]
        /\ c = [reply_data |-> Bytes(Get(f, "reply_data", Hex("")))]
        /\ x = When(HasErrno(f), b) /\ y = When(HasReply(f), c)
  OBVIOUS
<1>2. PICK e : e = a ++ x
  OBVIOUS
<1>3. r = e ++ y
  BY <1>1, <1>2 DEF Faults
<1>4. DOMAIN a = {"mode", "remaining"} /\ a.mode = Get(f, "mode", "none")
      /\ a.remaining = Number(Get(f, "remaining", Plain(0)))
  BY <1>1 DEF Fault
<1>5. DOMAIN b = {"errno"} /\ b.errno = Number(Errno(f))
  BY <1>1
<1>6. DOMAIN c = {"reply_data"} /\ c.reply_data = Bytes(Get(f, "reply_data", Hex("")))
  BY <1>1
<1>7. DOMAIN e = DOMAIN a \cup DOMAIN x /\ (\A k \in DOMAIN a : e[k] = a[k])
      /\ \A k \in DOMAIN x : k \notin DOMAIN a => e[k] = x[k]
  BY <1>2 DEF ++
<1>8. DOMAIN r = DOMAIN e \cup DOMAIN y /\ (\A k \in DOMAIN e : r[k] = e[k])
      /\ \A k \in DOMAIN y : k \notin DOMAIN e => r[k] = y[k]
  BY <1>3 DEF ++
<1>9. r = [k \in DOMAIN r |-> r[k]]
  BY <1>3 DEF ++
<1>10. IF HasErrno(f) THEN x = b ELSE DOMAIN x = {}
  BY <1>1 DEF When, EmptyDict
<1>11. IF HasReply(f) THEN y = c ELSE DOMAIN y = {}
  BY <1>1 DEF When, EmptyDict
<1>12. DOMAIN x = (IF HasErrno(f) THEN {"errno"} ELSE {})
       /\ DOMAIN y = (IF HasReply(f) THEN {"reply_data"} ELSE {})
  BY <1>5, <1>6, <1>10, <1>11
<1>13. r.mode = a.mode /\ r.remaining = a.remaining
  BY <1>4, <1>7, <1>8
<1>14. HasErrno(f) => r.errno = b.errno
  BY <1>4, <1>5, <1>7, <1>8, <1>10
<1>15. HasReply(f) => r.reply_data = c.reply_data
  BY <1>4, <1>6, <1>7, <1>8, <1>11, <1>12
<1>16. DOMAIN r = {"mode", "remaining"} \cup (IF HasErrno(f) THEN {"errno"} ELSE {})
                                        \cup (IF HasReply(f) THEN {"reply_data"} ELSE {})
  BY <1>4, <1>7, <1>8, <1>12
<1> QED BY <1>4, <1>5, <1>6, <1>9, <1>13, <1>14, <1>15, <1>16 DEF FaultsAre

\* Normalised faults with any number of requests left.
LEMMA FaultsStay ==
  ASSUME NEW f, FaultsOK(f), NEW n \in Nat, NEW g, g = [g EXCEPT !.remaining = Plain(n)],
         g = [k \in DOMAIN g |-> g[k]], DOMAIN g = DOMAIN Faults(f),
         \A k \in DOMAIN g : k # "remaining" => g[k] = Faults(f)[k]
  PROVE  FaultsSettled(g)
<1>1. PICK r : r = Faults(f)
  OBVIOUS
<1>2. /\ DOMAIN r = {"mode", "remaining"} \cup (IF HasErrno(f) THEN {"errno"} ELSE {})
                                          \cup (IF HasReply(f) THEN {"reply_data"} ELSE {})
      /\ r.mode = Get(f, "mode", "none")
      /\ HasErrno(f) => r.errno = Number(Errno(f))
      /\ HasReply(f) => r.reply_data = Bytes(Get(f, "reply_data", Hex("")))
  <2>1. FaultsAre(r, f)
    BY <1>1, FaultsParts
  <2> QED BY <2>1, Zenon DEF FaultsAre
<1>3. g.mode = r.mode /\ g.remaining = Plain(n) /\ {"mode", "remaining"} \subseteq DOMAIN g
  BY <1>1, <1>2
<1>4. Get(g, "mode", "none") = r.mode /\ Get(g, "remaining", Plain(0)) = Plain(n)
  BY <1>3 DEF Get
<1>5. HasErrno(g) <=> HasErrno(f)
  <2>1. DOMAIN g = DOMAIN r /\ ("errno" \in DOMAIN r <=> HasErrno(f))
    BY <1>1, <1>2
  <2>2. Get(f, "mode", "none") = "errno" => HasErrno(f)
    BY DEF HasErrno
  <2> QED BY <1>2, <1>4, <2>1, <2>2 DEF HasErrno
<1>6. HasReply(g) <=> HasReply(f)
  <2>1. DOMAIN g = DOMAIN r /\ ("reply_data" \in DOMAIN r <=> HasReply(f))
    BY <1>1, <1>2
  <2>2. Get(f, "mode", "none") = "short-reply" => HasReply(f)
    BY DEF HasReply
  <2> QED BY <1>2, <1>4, <2>1, <2>2 DEF HasReply
<1>7. HasErrno(f) => g.errno = Number(Errno(f)) /\ Errno(g) = g.errno
  BY <1>1, <1>2 DEF Errno, Get
<1>8. HasReply(f) => /\ g.reply_data = Bytes(Get(f, "reply_data", Hex("")))
                     /\ Get(g, "reply_data", Hex("")) = g.reply_data
  BY <1>1, <1>2 DEF Get
<1>9. HasErrno(g) => NumberOK(Errno(g), 1, MaxErrno)
  <2> SUFFICES ASSUME HasErrno(f) PROVE NumberOK(Number(Errno(f)), 1, MaxErrno)
    BY <1>5, <1>7
  <2>1. NumberOK(Errno(f), 1, MaxErrno)
    BY Zenon DEF FaultsOK
  <2> QED BY <2>1, NumberStays
<1>10. HasReply(f) => BytesOK(g.reply_data) /\ Bytes(g.reply_data) = g.reply_data
  BY <1>8, BytesStay
<1>11. NumberOK(Plain(n), 0, Null) /\ Number(Plain(n)) = Plain(n)
  BY DEF NumberOK, Number, Plain
<1>12. FaultsOK(g)
  <2>1. Get(f, "mode", "none") \in FaultModes
    BY Zenon DEF FaultsOK
  <2>2. Get(g, "mode", "none") \in FaultModes
    BY <1>2, <1>4, <2>1
  <2>3. NumberOK(Get(g, "remaining", Plain(0)), 0, Null)
    BY <1>4, <1>11
  <2>4. HasReply(g) => BytesOK(Get(g, "reply_data", Hex("")))
    BY <1>6, <1>8, <1>10, Zenon
  <2> QED BY <1>9, <2>2, <2>3, <2>4, Zenon DEF FaultsOK
<1>13. Faults(g) = g
  <2>1. PICK h : h = Faults(g)
    OBVIOUS
  <2>2. /\ h = [k \in DOMAIN h |-> h[k]]
        /\ DOMAIN h = {"mode", "remaining"} \cup (IF HasErrno(g) THEN {"errno"} ELSE {})
                                            \cup (IF HasReply(g) THEN {"reply_data"} ELSE {})
        /\ h.mode = Get(g, "mode", "none") /\ h.remaining = Number(Get(g, "remaining", Plain(0)))
        /\ HasErrno(g) => h.errno = Number(Errno(g))
        /\ HasReply(g) => h.reply_data = Bytes(Get(g, "reply_data", Hex("")))
    <3>1. FaultsAre(h, g)
      BY <2>1, FaultsParts
    <3> QED BY <3>1, Zenon DEF FaultsAre
  <2>3. DOMAIN h = DOMAIN g
    BY <1>1, <1>2, <1>5, <1>6, <2>2
  <2>4. h.mode = g.mode /\ h.remaining = g.remaining
    BY <1>3, <1>4, <1>11, <2>2
  <2>5. HasErrno(f) => h.errno = g.errno
    <3> SUFFICES ASSUME HasErrno(f) PROVE h.errno = g.errno
      OBVIOUS
    <3>1. PICK x : x = Errno(f)
      OBVIOUS
    <3>2. g.errno = Number(x) /\ h.errno = Number(g.errno)
      BY <1>5, <1>7, <2>2, <3>1
    <3> QED BY <3>2, NumberTwice
  <2>6. HasReply(f) => h.reply_data = g.reply_data
    BY <1>6, <1>8, <1>10, <2>2, Zenon
  <2>7. \A k \in DOMAIN h : h[k] = g[k]
    BY <1>1, <1>2, <2>3, <2>4, <2>5, <2>6
  <2>8. h = g
    BY <2>2, <2>3, <2>7, SameMapping
  <2> QED BY <2>1, <2>8
<1> QED BY <1>12, <1>13 DEF FaultsSettled

LEMMA FaultsReturned ==
  ASSUME NEW f, FaultsOK(f)
  PROVE  FaultsSettled(Faults(f))
<1>1. PICK r : r = Faults(f)
  OBVIOUS
<1>2. r = [k \in DOMAIN r |-> r[k]] /\ "remaining" \in DOMAIN r
      /\ r.remaining = Number(Get(f, "remaining", Plain(0)))
  <2>1. FaultsAre(r, f)
    BY <1>1, FaultsParts
  <2> QED BY <2>1 DEF FaultsAre
<1>3. PICK n \in Nat : r.remaining = Plain(n)
  <2>1. PICK x : x = Get(f, "remaining", Plain(0))
    OBVIOUS
  <2>2. x.n \in Nat
    <3>1. NumberOK(x, 0, Null)
      BY <2>1, Zenon DEF FaultsOK
    <3> QED BY <3>1 DEF NumberOK
  <2> QED BY <1>2, <2>1, <2>2 DEF Number
<1>4. r = [r EXCEPT !.remaining = Plain(n)]
  BY <1>2, <1>3
<1> QED BY <1>1, <1>2, <1>4, FaultsStay

LEMMA FaultsCounted ==
  ASSUME NEW f, FaultsSettled(f), NEW n \in Nat, NEW g, g = [f EXCEPT !.remaining = Plain(n)]
  PROVE  FaultsSettled(g)
<1>1. Faults(f) = f /\ FaultsOK(f)
  BY DEF FaultsSettled
<1>2. f = [k \in DOMAIN f |-> f[k]] /\ "remaining" \in DOMAIN f
  <2>1. FaultsAre(f, f)
    BY <1>1, FaultsParts
  <2> QED BY <2>1 DEF FaultsAre
<1>3. g = [k \in DOMAIN f |-> IF k = "remaining" THEN Plain(n) ELSE f[k]]
  BY <1>2
<1>4. DOMAIN g = DOMAIN f /\ g = [k \in DOMAIN g |-> g[k]] /\ g["remaining"] = Plain(n)
      /\ \A k \in DOMAIN g : k # "remaining" => g[k] = f[k]
  BY <1>2, <1>3
<1>5. g = [g EXCEPT !.remaining = Plain(n)]
  BY <1>2, <1>4
<1> QED BY <1>1, <1>4, <1>5, FaultsStay

LEMMA UsedUpSettled ==
  ASSUME NEW f
  PROVE  FaultsSettled(UsedUp(f))
<1>1. PICK g : g = UsedUp(f)
  OBVIOUS
<1>2. DOMAIN g = {"mode", "remaining"} /\ g.mode = "none" /\ g.remaining = Plain(0)
      /\ g = [k \in DOMAIN g |-> g[k]]
  BY <1>1 DEF UsedUp, Fault
<1>3. ~HasErrno(g) /\ ~HasReply(g) /\ Get(g, "mode", "none") = "none" /\ Get(g, "remaining", Plain(0)) = Plain(0)
  BY <1>2 DEF HasErrno, HasReply, Get
<1>4. NumberOK(Plain(0), 0, Null) /\ Number(Plain(0)) = Plain(0)
  BY DEF NumberOK, Number, Plain
<1>5. FaultsOK(g)
  <2>1. "none" \in FaultModes
    BY DEF FaultModes
  <2> QED BY <1>3, <1>4, <2>1, Zenon DEF FaultsOK
<1>6. PICK h : h = Faults(g)
  OBVIOUS
<1>7. h = [k \in DOMAIN h |-> h[k]] /\ DOMAIN h = {"mode", "remaining"} /\ h.mode = "none" /\ h.remaining = Plain(0)
  <2>1. FaultsAre(h, g)
    BY <1>6, FaultsParts
  <2> QED BY <1>3, <1>4, <2>1 DEF FaultsAre
<1>8. h = g
  BY <1>2, <1>7
<1> QED BY <1>1, <1>5, <1>6, <1>8 DEF FaultsSettled

LEMMA SettingsReturned ==
  ASSUME NEW t \in Transports, NEW s, SettingsOK(t, s)
  PROVE  SettingsSettled(t, Settings(t, s))
<1>1. PICK r : r = Settings(t, s)
  OBVIOUS
<1>2. CASE t = "i2c"
  BY <1>2 DEF SettingsSettled, SettingsOK
<1>3. CASE t = "spi"
  <2>1. r = Fields(s, SpiFields) /\ FieldsOK(s, SpiFields)
    BY <1>1, <1>3 DEF Settings, SettingsOK
  <2>2. DOMAIN r = DOMAIN SpiFields
    BY <2>1 DEF Fields
  <2>3. FieldsOK(r, SpiFields)
    BY <2>1, <2>2, FieldsStay
  <2>4. "max_speed_hz" \in DOMAIN r
    BY <2>2 DEF SpiFields
  <2> QED BY <1>1, <1>3, <2>3, <2>4 DEF SettingsSettled, SettingsOK
<1>4. CASE t = "uart"
  <2>1. /\ \A k \in DOMAIN UartFields : k \in DOMAIN r /\ r[k] = Fields(s, UartFields)[k]
        /\ \A k \in DOMAIN UartFlags : k \in DOMAIN r /\ r[k] = Flags(s, UartFlags)[k]
        /\ "parity" \in DOMAIN r /\ r.parity = Get(s, "parity", "none")
    BY <1>1, <1>4, UartSettings
  <2>2. FieldsOK(s, UartFields) /\ FlagsOK(s, UartFlags) /\ Get(s, "parity", "none") \in ParityModes
    BY <1>4 DEF SettingsOK
  <2>3. FieldsOK(r, UartFields)
    <3>1. DOMAIN UartFields \subseteq DOMAIN r
      BY <2>1
    <3> QED BY <2>1, <2>2, <3>1, FieldsStay
  <2>4. FlagsOK(r, UartFlags)
    <3>1. DOMAIN UartFlags \subseteq DOMAIN r
      BY <2>1
    <3> QED BY <2>1, <2>2, <3>1, FlagsStay
  <2>5. Get(r, "parity", "none") \in ParityModes
    BY <2>1, <2>2 DEF Get
  <2>6. "baud_rate" \in DOMAIN r
    BY <2>1 DEF UartFields
  <2> QED BY <1>1, <1>4, <2>3, <2>4, <2>5, <2>6 DEF SettingsSettled, SettingsOK
<1> QED BY <1>2, <1>3, <1>4 DEF Transports

\* What a tty reports is in range.
LEMMA DerivedSettled ==
  ASSUME NEW d, SettingsSettled("uart", d.settings), NEW t \in Termios, NEW old
  PROVE  SettingsSettled("uart", Derived(d, t) ++ old)
<1>1. t \in [baud : Nat, bits : 5..8, stop : 1..2, parity : ParityModes, xon : BOOLEAN, rts : BOOLEAN]
  BY TermiosAssumption
<1>2. PICK s : s = Derived(d, t)
  OBVIOUS
<1>3. /\ DOMAIN s = {"baud_rate", "data_bits", "stop_bits", "parity", "xonxoff", "rtscts", "cflag"}
      /\ s.baud_rate = Baud(d, t) /\ s.data_bits = Plain(t.bits) /\ s.stop_bits = Plain(t.stop)
      /\ s.parity = t.parity /\ s.xonxoff = Bool(t.xon) /\ s.rtscts = Bool(t.rts)
  BY <1>2 DEF Derived
<1>4. PICK r : r = s ++ old
  OBVIOUS
<1>5. \A k \in DOMAIN s : \A v : Get(r, k, v) = s[k]
  BY <1>4, GetOver
<1>6. NumberOK(s.baud_rate, 1, Null)
  <2>1. CASE t.baud = 0
    <3>2. FieldsOK(d.settings, UartFields) /\ "baud_rate" \in DOMAIN d.settings
      BY DEF SettingsSettled, SettingsOK
    <3>1. s.baud_rate = d.settings.baud_rate
      BY <1>3, <2>1, <3>2 DEF Baud, Get
    <3>3. "baud_rate" \in DOMAIN UartFields /\ UartFields["baud_rate"].low = 1 /\ UartFields["baud_rate"].high = Null
      BY DEF UartFields, Field
    <3>4. NumberOK(d.settings["baud_rate"], 1, Null)
      BY <3>2, <3>3 DEF FieldsOK, Get
    <3> QED BY <3>1, <3>4
  <2>2. CASE t.baud # 0
    <3>1. s.baud_rate = Plain(t.baud)
      BY <1>3, <2>2 DEF Baud
    <3> QED BY <1>1, <2>2, <3>1 DEF NumberOK, Plain
  <2> QED BY <2>1, <2>2
<1>7. NumberOK(s.data_bits, 5, 8) /\ NumberOK(s.stop_bits, 1, 2)
  <2>1. t.bits \in 5..8 /\ t.stop \in 1..2
    BY <1>1
  <2> QED BY <1>3, <2>1 DEF NumberOK, Plain
<1>8. FieldsOK(r, UartFields)
  <2>1. DOMAIN UartFields = {"baud_rate", "data_bits", "stop_bits"}
        /\ UartFields["baud_rate"].low = 1 /\ UartFields["baud_rate"].high = Null
        /\ UartFields["data_bits"].low = 5 /\ UartFields["data_bits"].high = 8
        /\ UartFields["stop_bits"].low = 1 /\ UartFields["stop_bits"].high = 2
    BY DEF UartFields, Field
  <2>2. \A k \in DOMAIN UartFields : NumberOK(s[k], UartFields[k].low, UartFields[k].high)
    BY <1>6, <1>7, <2>1
  <2>3. \A k \in DOMAIN UartFields : Get(r, k, UartFields[k].default) = s[k]
    BY <1>3, <1>5, <2>1
  <2> QED BY <2>2, <2>3 DEF FieldsOK
<1>9. FlagsOK(r, UartFlags)
  <2>1. DOMAIN UartFlags = {"xonxoff", "rtscts"}
    BY DEF UartFlags
  <2>2. BoolOK(s.xonxoff) /\ BoolOK(s.rtscts)
    BY <1>3 DEF BoolOK, Bool
  <2>3. \A k \in DOMAIN UartFlags : Get(r, k, Bool(UartFlags[k])) = s[k]
    BY <1>3, <1>5, <2>1
  <2> QED BY <2>1, <2>2, <2>3 DEF FlagsOK
<1>10. Get(r, "parity", "none") \in ParityModes
  BY <1>1, <1>3, <1>5
<1>11. "baud_rate" \in DOMAIN r
  BY <1>3, <1>4 DEF ++
<1> QED BY <1>2, <1>4, <1>8, <1>9, <1>10, <1>11 DEF SettingsSettled, SettingsOK

\* A device that is no UART keeps its settings, with keys beside them that nobody reads.
LEMMA DerivedBeside ==
  ASSUME NEW d, NEW t, NEW tr \in Transports \ {"uart"}, NEW old, SettingsSettled(tr, old)
  PROVE  SettingsSettled(tr, Derived(d, t) ++ old)
<1>1. PICK s, r : s = Derived(d, t) /\ r = s ++ old
  OBVIOUS
<1>2. CASE tr = "i2c"
  BY <1>2 DEF SettingsSettled, SettingsOK
<1>3. CASE tr = "spi"
  <2>1. \A k \in DOMAIN SpiFields : k \notin DOMAIN s
    BY <1>1 DEF Derived, SpiFields
  <2>2. \A k \in DOMAIN SpiFields : \A v : Get(r, k, v) = Get(old, k, v)
    BY <1>1, <2>1, GetOver
  <2>3. FieldsOK(old, SpiFields) /\ "max_speed_hz" \in DOMAIN old
    BY <1>3 DEF SettingsSettled, SettingsOK
  <2>4. FieldsOK(r, SpiFields)
    BY <2>2, <2>3 DEF FieldsOK
  <2>5. "max_speed_hz" \in DOMAIN r
    BY <1>1, <2>3 DEF ++
  <2> QED BY <1>1, <1>3, <2>4, <2>5 DEF SettingsSettled, SettingsOK
<1> QED BY <1>2, <1>3 DEF Transports

-----------------------------------------------------------------------------
(* Inventories in normal form.                                             *)

NumberSettled(x, low, high) == NumberOK(x, low, high) /\ Number(x) = x
NameSettled(x) == NameOK(x) /\ Name(x) = x

BusSettled(b) == BusOK(b) /\ Name(b.id) = b.id /\ Name(b.name) = b.name

BusesSettled(bs) ==
  /\ IsArray(bs)
  /\ \A i \in DOMAIN bs : BusSettled(bs[i])
  /\ \A i, j \in DOMAIN bs : bs[i].id = bs[j].id => i = j
  /\ \A i, j \in DOMAIN bs : bs[i].transport = bs[j].transport /\ bs[i].name = bs[j].name => i = j

DeviceKeys == {"id", "bus", "transport", "backend", "metadata", "faults", "settings"}
PlaceKeys(t) ==
  CASE t = "i2c"  -> {"address"}
    [] t = "spi"  -> {"chip_select", "device_name"}
    [] t = "uart" -> {"port_name"}

PlaceSettled(d, bus) ==
  /\ bus.id = d.bus /\ bus.transport = d.transport
  /\ d.transport = "i2c"  => NumberSettled(d.address, 0, 127)
  /\ d.transport = "spi"  => NumberSettled(d.chip_select, 0, 255)
                               /\ d.device_name = SpiDevice(bus, d.chip_select.n)
  /\ d.transport = "uart" => PortNameOK(d.port_name) /\ Name(d.port_name) = d.port_name

ConfigSettled(d) ==
  /\ BackendSettled(d.transport, d.backend) /\ FaultsSettled(d.faults)
  /\ SettingsSettled(d.transport, d.settings)

DeviceSettled(d, bs) ==
  /\ d.transport \in Transports
  /\ DOMAIN d \ {"attached"} = DeviceKeys \cup PlaceKeys(d.transport)
  /\ NameSettled(d.id) /\ NameSettled(d.bus)
  /\ ConfigSettled(d)
  /\ \E i \in DOMAIN bs : PlaceSettled(d, bs[i])

DevicesSettled(bs, ds) ==
  /\ IsArray(ds)
  /\ \A i \in DOMAIN ds : DeviceSettled(ds[i], bs)
  /\ \A i, j \in DOMAIN ds : ds[i].id = ds[j].id => i = j
  /\ \A i, j \in DOMAIN ds : Location(ds[i]) = Location(ds[j]) => i = j

Settled(bs, ds) == BusesSettled(bs) /\ DevicesSettled(bs, ds)

LEMMA NameStays ==
  ASSUME NEW x, NameOK(x)
  PROVE  /\ NameSettled(Name(x))
         /\ Canonical(x) => Canonical(Name(x))
         /\ PortNameOK(x) => PortNameOK(Name(x))
         /\ \A t \in Transports : BusNameOK(t, x) => BusNameOK(t, Name(x))
<1>1. x \in Names
  BY DEF NameOK
<1>2. PICK y : y = Name(x)
  OBVIOUS
<1>3. y = [stem |-> x.stem, num |-> x.num, zero |-> x.zero, pad |-> FALSE, legal |-> x.legal, long |-> x.long]
  BY <1>1, <1>2 DEF Names, Name, Stripped
<1>4. y \in Names /\ y.stem = x.stem /\ y.num = x.num /\ y.zero = x.zero /\ y.legal = x.legal
  BY <1>1, <1>3 DEF Names
<1>5. NameOK(y)
  BY <1>4 DEF NameOK
<1>6. Name(y) = y
  <2>1. "pad" \in DOMAIN y /\ y["pad"] = FALSE /\ y = [k \in DOMAIN y |-> y[k]]
    BY <1>3
  <2>2. [y EXCEPT !["pad"] = FALSE] = y
    BY <2>1
  <2> QED BY <2>2 DEF Name, Stripped
<1>7. Canonical(x) => Canonical(y)
  BY <1>4, <1>5 DEF Canonical
<1>8. PortNameOK(x) => PortNameOK(y)
  BY <1>4, <1>7 DEF PortNameOK
<1>9. \A t \in Transports : BusNameOK(t, x) => BusNameOK(t, y)
  BY <1>4, <1>5, <1>7 DEF BusNameOK, Transports
<1> QED BY <1>2, <1>5, <1>6, <1>7, <1>8, <1>9 DEF NameSettled

LEMMA BusNamesAccepted ==
  ASSUME NEW b, BusOK(b)
  PROVE  NameOK(b.id) /\ NameOK(b.name) /\ b.transport \in Transports
<1>1. NameOK(b.id) /\ b.transport \in Transports /\ BusNameOK(b.transport, b.name)
  BY DEF BusOK
<1>2. NameOK(b.name)
  BY <1>1 DEF BusNameOK, Canonical, Transports
<1> QED BY <1>1, <1>2

LEMMA BusStays ==
  ASSUME NEW x, BusOK(x), NEW b, b.id = Name(x.id), b.name = Name(x.name), b.transport = x.transport
  PROVE  BusSettled(b)
<1>1. NameOK(x.id) /\ NameOK(x.name) /\ x.transport \in Transports
  BY BusNamesAccepted
<1>2. BusNameOK(x.transport, x.name)
  BY DEF BusOK
<1>3. NameSettled(b.id) /\ NameSettled(b.name) /\ BusNameOK(b.transport, b.name)
  BY <1>1, <1>2, NameStays
<1> QED BY <1>1, <1>3 DEF BusSettled, BusOK, NameSettled

LEMMA BusesStay ==
  ASSUME NEW raw, ModelOK(raw), IsArray(raw.buses), NEW bs, bs = Buses(raw)
  PROVE  BusesSettled(bs)
<1>1. DOMAIN bs = DOMAIN raw.buses /\ \A i \in DOMAIN bs : bs[i] = Bus(raw.buses[i])
  BY DEF Buses
<1>2. /\ \A i \in DOMAIN raw.buses : BusOK(raw.buses[i])
      /\ IsInjective([i \in DOMAIN bs |-> bs[i].id])
      /\ IsInjective([i \in DOMAIN bs |-> <<bs[i].transport, bs[i].name>>])
  BY DEF ModelOK
<1>3. \A i \in DOMAIN bs : BusSettled(bs[i])
  <2> SUFFICES ASSUME NEW i \in DOMAIN bs PROVE BusSettled(bs[i])
    OBVIOUS
  <2>1. PICK x, b : x = raw.buses[i] /\ b = bs[i]
    OBVIOUS
  <2>2. BusOK(x) /\ b = Bus(x)
    BY <1>1, <1>2, <2>1
  <2>3. b.id = Name(x.id) /\ b.name = Name(x.name) /\ b.transport = x.transport
    BY <2>2 DEF Bus
  <2> QED BY <2>1, <2>2, <2>3, BusStays
<1>4. \A i, j \in DOMAIN bs : bs[i].id = bs[j].id => i = j
  BY <1>2 DEF IsInjective
<1>5. \A i, j \in DOMAIN bs : bs[i].transport = bs[j].transport /\ bs[i].name = bs[j].name => i = j
  BY <1>2 DEF IsInjective
<1> QED BY <1>1, <1>3, <1>4, <1>5 DEF BusesSettled, IsArray

\* The bus of a device, by its index.
LEMMA BusFound ==
  ASSUME NEW bs, NEW id, \A i, j \in DOMAIN bs : bs[i].id = bs[j].id => i = j
  PROVE  /\ BusesNamed(bs, id) # {} <=> \E i \in DOMAIN bs : bs[i].id = id
         /\ \A i \in DOMAIN bs : bs[i].id = id => BusNamed(bs, id) = bs[i]
<1>1. PICK T : T = BusesNamed(bs, id)
  OBVIOUS
<1>2. \A b : b \in T <=> \E i \in DOMAIN bs : b = bs[i] /\ b.id = id
  BY <1>1 DEF BusesNamed, ToSet
<1>3. T # {} <=> \E i \in DOMAIN bs : bs[i].id = id
  BY <1>2
<1>4. ASSUME NEW i \in DOMAIN bs, bs[i].id = id
      PROVE  BusNamed(bs, id) = bs[i]
  <2>1. \A b \in T : b = bs[i]
    BY <1>2, <1>4
  <2>2. bs[i] \in T
    BY <1>2, <1>4
  <2>3. BusNamed(bs, id) = CHOOSE b \in T : TRUE
    BY <1>1 DEF BusNamed
  <2> QED BY <2>1, <2>2, <2>3, Zenon
<1> QED BY <1>1, <1>3, <1>4

\* What the normalisation makes of a device x.
DeviceParts(d, x, bs) ==
  /\ d.id = Name(x.id) /\ d.bus = Name(x.bus) /\ d.transport = x.transport
  /\ d.backend = Backend(x.transport, x.backend)
  /\ d.metadata = Get(x, "metadata", EmptyDict)
  /\ d.faults = Faults(Get(x, "faults", EmptyDict))
  /\ d.settings = Settings(x.transport, Get(x, "settings", EmptyDict))
  /\ x.transport = "i2c" => d.address = Number(x.address)
  /\ x.transport = "spi" =>
       /\ d.chip_select = Number(x.chip_select)
       /\ d.device_name = SpiDevice(BusNamed(bs, Name(x.bus)), x.chip_select.n)
  /\ x.transport = "uart" => d.port_name = Name(PortName(x))
  /\ d = [k \in DOMAIN d |-> d[k]]
  /\ DOMAIN d = {"id", "bus", "transport", "backend", "metadata", "faults", "settings"}
                  \cup DOMAIN Place(x, BusNamed(bs, Name(x.bus)))

LEMMA DevicePartsHold ==
  ASSUME NEW x, NEW bs, x.transport \in Transports
  PROVE  DeviceParts(Device(x, bs), x, bs)
<1>1. PICK d : d = Device(x, bs)
  OBVIOUS
<1>2. DeviceParts(d, x, bs)
  BY <1>1, DeviceHolds DEF DeviceParts
<1> QED BY <1>1, <1>2

LEMMA PlaceDomain ==
  ASSUME NEW x, NEW bus, x.transport \in Transports
  PROVE  DOMAIN Place(x, bus) = PlaceKeys(x.transport)
<1>1. CASE x.transport = "i2c"
  BY <1>1 DEF Place, PlaceKeys
<1>2. CASE x.transport = "spi"
  BY <1>2 DEF Place, PlaceKeys
<1>3. CASE x.transport = "uart"
  BY <1>3 DEF Place, PlaceKeys
<1> QED BY <1>1, <1>2, <1>3 DEF Transports

LEMMA PlaceStays ==
  ASSUME NEW x, NEW bus, PlaceOK(x, bus), x.transport \in Transports, NEW d,
         d.transport = x.transport, bus.id = d.bus, bus.transport = d.transport,
         x.transport = "i2c" => d.address = Number(x.address),
         x.transport = "spi" => /\ d.chip_select = Number(x.chip_select)
                                /\ d.device_name = SpiDevice(bus, x.chip_select.n),
         x.transport = "uart" => d.port_name = Name(PortName(x))
  PROVE  PlaceSettled(d, bus)
<1>1. CASE x.transport = "i2c"
  <2>1. NumberOK(x.address, 0, 127)
    <3>1. NumberOK(Get(x, "address", None), 0, 127)
      BY <1>1 DEF PlaceOK
    <3>2. ~NumberOK(None, 0, 127)
      BY DEF NumberOK, None
    <3> QED BY <3>1, <3>2 DEF Get
  <2>2. NumberSettled(d.address, 0, 127)
    BY <1>1, <2>1, NumberStays, NumberTwice DEF NumberSettled
  <2> QED BY <1>1, <2>2 DEF PlaceSettled
<1>2. CASE x.transport = "spi"
  <2>1. NumberOK(x.chip_select, 0, 255)
    <3>1. NumberOK(Get(x, "chip_select", None), 0, 255)
      BY <1>2 DEF PlaceOK
    <3>2. ~NumberOK(None, 0, 255)
      BY DEF NumberOK, None
    <3> QED BY <3>1, <3>2 DEF Get
  <2>2. NumberSettled(d.chip_select, 0, 255)
    BY <1>2, <2>1, NumberStays, NumberTwice DEF NumberSettled
  <2>3. d.chip_select.n = x.chip_select.n
    BY <1>2 DEF Number, Plain
  <2> QED BY <1>2, <2>2, <2>3 DEF PlaceSettled
<1>3. CASE x.transport = "uart"
  <2>1. PortNameOK(PortName(x))
    BY <1>3 DEF PlaceOK
  <2>2. NameOK(PortName(x))
    BY <2>1 DEF PortNameOK, Canonical
  <2>3. PortNameOK(d.port_name) /\ Name(d.port_name) = d.port_name
    BY <1>3, <2>1, <2>2, NameStays DEF NameSettled
  <2> QED BY <1>3, <2>3 DEF PlaceSettled
<1> QED BY <1>1, <1>2, <1>3 DEF Transports

LEMMA DeviceStays ==
  ASSUME NEW bs, \A i, j \in DOMAIN bs : bs[i].id = bs[j].id => i = j, NEW x, DeviceOK(x, bs),
         NEW d, d = Device(x, bs)
  PROVE  /\ DeviceSettled(d, bs) /\ "attached" \notin DOMAIN d
         /\ d = [k \in DOMAIN d |-> d[k]] /\ Settings(d.transport, d.settings) = d.settings
<1>1. /\ NameOK(x.id) /\ NameOK(x.bus) /\ BusesNamed(bs, Name(x.bus)) # {}
      /\ x.transport \in Transports /\ x.transport = BusNamed(bs, Name(x.bus)).transport
      /\ BackendOK(x.transport, x.backend) /\ FaultsOK(Get(x, "faults", EmptyDict))
      /\ PlaceOK(x, BusNamed(bs, Name(x.bus)))
      /\ SettingsOK(x.transport, Get(x, "settings", EmptyDict))
  BY Zenon DEF DeviceOK
<1>2. PICK i \in DOMAIN bs : bs[i].id = Name(x.bus) /\ BusNamed(bs, Name(x.bus)) = bs[i]
  BY <1>1, BusFound
<1>3. DeviceParts(d, x, bs)
  BY <1>1, DevicePartsHold
<1>4. /\ d.id = Name(x.id) /\ d.bus = Name(x.bus) /\ d.transport = x.transport
      /\ d.backend = Backend(x.transport, x.backend)
      /\ d.faults = Faults(Get(x, "faults", EmptyDict))
      /\ d.settings = Settings(x.transport, Get(x, "settings", EmptyDict))
  BY <1>3 DEF DeviceParts
<1>5. NameSettled(d.id) /\ NameSettled(d.bus)
  BY <1>1, <1>4, NameStays
<1>6. BackendSettled(d.transport, d.backend)
  BY <1>1, <1>4, BackendStays DEF BackendSettled
<1>7. FaultsSettled(d.faults)
  BY <1>1, <1>4, FaultsReturned
<1>8. SettingsSettled(d.transport, d.settings)
  BY <1>1, <1>4, SettingsReturned
<1>9. PlaceSettled(d, bs[i])
  <2>1. PICK b : b = bs[i]
    OBVIOUS
  <2>2. PlaceOK(x, b) /\ b.id = d.bus /\ b.transport = d.transport
    BY <1>1, <1>2, <1>4, <2>1
  <2>3. x.transport = "spi" => /\ d.chip_select = Number(x.chip_select)
                               /\ d.device_name = SpiDevice(b, x.chip_select.n)
    BY <1>2, <1>3, <2>1 DEF DeviceParts
  <2>4. (x.transport = "i2c" => d.address = Number(x.address))
        /\ (x.transport = "uart" => d.port_name = Name(PortName(x)))
    BY <1>3 DEF DeviceParts
  <2>5. PlaceSettled(d, b)
    BY <1>1, <1>4, <2>2, <2>3, <2>4, PlaceStays
  <2> QED BY <2>1, <2>5
<1>10. DOMAIN d = DeviceKeys \cup PlaceKeys(d.transport) /\ "attached" \notin DOMAIN d
  <2>1. DOMAIN d = DeviceKeys \cup PlaceKeys(d.transport)
    BY <1>1, <1>3, <1>4, PlaceDomain DEF DeviceParts, DeviceKeys
  <2> QED BY <1>1, <1>4, <2>1 DEF DeviceKeys, PlaceKeys, Transports
<1>11. Settings(d.transport, d.settings) = d.settings
  BY <1>1, <1>4, SettingsTwice
<1>12. DeviceSettled(d, bs)
  BY <1>1, <1>4, <1>5, <1>6, <1>7, <1>8, <1>9, <1>10 DEF DeviceSettled, ConfigSettled
<1>13. d = [k \in DOMAIN d |-> d[k]]
  BY <1>3 DEF DeviceParts
<1> QED BY <1>10, <1>11, <1>12, <1>13

\* An accepted model, in its normal form.
LEMMA ModelStays ==
  ASSUME NEW raw, ModelOK(raw), IsArray(raw.buses), IsArray(raw.devices),
         NEW bs, NEW ds, bs = Buses(raw), ds = Devices(raw)
  PROVE  /\ Settled(bs, ds) /\ DOMAIN ds = DOMAIN raw.devices
         /\ \A i \in DOMAIN ds : /\ "attached" \notin DOMAIN ds[i]
                                 /\ ds[i] = [k \in DOMAIN ds[i] |-> ds[i][k]]
                                 /\ Settings(ds[i].transport, ds[i].settings) = ds[i].settings
<1>1. BusesSettled(bs)
  BY BusesStay
<1>2. DOMAIN ds = DOMAIN raw.devices /\ \A i \in DOMAIN ds : ds[i] = Device(raw.devices[i], bs)
  BY DEF Devices
<1>3. /\ \A i \in DOMAIN raw.devices : DeviceOK(raw.devices[i], bs)
      /\ IsInjective([i \in DOMAIN ds |-> ds[i].id])
      /\ IsInjective([i \in DOMAIN ds |-> Location(ds[i])])
  BY DEF ModelOK
<1>4. ASSUME NEW i \in DOMAIN ds
      PROVE  /\ DeviceSettled(ds[i], bs) /\ "attached" \notin DOMAIN ds[i]
             /\ ds[i] = [k \in DOMAIN ds[i] |-> ds[i][k]]
             /\ Settings(ds[i].transport, ds[i].settings) = ds[i].settings
  <2>1. PICK x, d : x = raw.devices[i] /\ d = ds[i]
    OBVIOUS
  <2>2. d = Device(x, bs) /\ DeviceOK(x, bs)
    BY <1>2, <1>3, <2>1
  <2>3. \A k, j \in DOMAIN bs : bs[k].id = bs[j].id => k = j
    BY <1>1 DEF BusesSettled
  <2>4. /\ DeviceSettled(d, bs) /\ "attached" \notin DOMAIN d
        /\ d = [k \in DOMAIN d |-> d[k]] /\ Settings(d.transport, d.settings) = d.settings
    <3>1. DeviceSettled(d, bs) /\ "attached" \notin DOMAIN d
      BY <2>2, <2>3, DeviceStays, Zenon
    <3>2. d = [k \in DOMAIN d |-> d[k]]
      BY <2>2, <2>3, DeviceStays
    <3>3. Settings(d.transport, d.settings) = d.settings
      BY <2>2, <2>3, DeviceStays, Zenon
    <3> QED BY <3>1, <3>2, <3>3
  <2> QED BY <2>1, <2>4
<1>5. \A i, j \in DOMAIN ds : ds[i].id = ds[j].id => i = j
  BY <1>3 DEF IsInjective
<1>6. \A i, j \in DOMAIN ds : Location(ds[i]) = Location(ds[j]) => i = j
  BY <1>3 DEF IsInjective
<1>7. IsArray(ds)
  BY <1>2 DEF IsArray
<1>8. DevicesSettled(bs, ds)
  BY <1>4, <1>5, <1>6, <1>7 DEF DevicesSettled
<1> QED BY <1>1, <1>2, <1>4, <1>8 DEF Settled

-----------------------------------------------------------------------------
(* Such an inventory is saved and read back.                               *)

\* The same buses, but for their metadata.
SameBuses(c, bs) ==
  /\ DOMAIN c = DOMAIN bs
  /\ \A i \in DOMAIN bs : c[i].id = bs[i].id /\ c[i].transport = bs[i].transport /\ c[i].name = bs[i].name

LEMMA PlaceSaved ==
  ASSUME NEW d, NEW b, NEW bus, PlaceSettled(d, b), bus.id = b.id, bus.transport = b.transport,
         bus.name = b.name, d.transport \in Transports, NEW x,
         \A k \in PlaceKeys(d.transport) \cup {"transport"} : k \in DOMAIN x /\ x[k] = d[k]
  PROVE  /\ PlaceOK(x, bus)
         /\ \A k \in PlaceKeys(d.transport) : k \in DOMAIN Place(x, bus) /\ Place(x, bus)[k] = d[k]
<1>1. x.transport = d.transport
  OBVIOUS
<1>2. CASE d.transport = "i2c"
  <2>1. PlaceKeys(d.transport) = {"address"}
    BY <1>2 DEF PlaceKeys
  <2>2. x.address = d.address /\ Get(x, "address", None) = d.address
    BY <2>1 DEF Get
  <2>3. NumberOK(d.address, 0, 127) /\ Number(d.address) = d.address
    BY <1>2 DEF PlaceSettled, NumberSettled
  <2>4. PlaceOK(x, bus)
    BY <1>1, <1>2, <2>2, <2>3 DEF PlaceOK
  <2>5. Place(x, bus) = [address |-> d.address]
    BY <1>1, <1>2, <2>2, <2>3 DEF Place
  <2> QED BY <2>1, <2>4, <2>5
<1>3. CASE d.transport = "spi"
  <2>1. PlaceKeys(d.transport) = {"chip_select", "device_name"}
    BY <1>3 DEF PlaceKeys
  <2>2. PICK node, cs : node = d.device_name /\ cs = d.chip_select
    OBVIOUS
  <2>3. x.chip_select = cs /\ Get(x, "chip_select", None) = cs /\ \A v : Get(x, "device_name", v) = node
    BY <2>1, <2>2 DEF Get
  <2>4. NumberOK(cs, 0, 255) /\ Number(cs) = cs /\ node = SpiDevice(b, cs.n)
    BY <1>3, <2>2 DEF PlaceSettled, NumberSettled
  <2>5. node = SpiDevice(bus, cs.n)
    BY <2>4 DEF SpiDevice
  <2>6. Name(node) = node
    <3>1. "pad" \in DOMAIN node /\ node["pad"] = FALSE /\ node = [k \in DOMAIN node |-> node[k]]
      BY <2>5 DEF SpiDevice
    <3>2. [node EXCEPT !["pad"] = FALSE] = node
      BY <3>1
    <3> QED BY <3>2 DEF Name, Stripped
  <2>7. PlaceOK(x, bus)
    BY <1>1, <1>3, <2>3, <2>4, <2>5, <2>6 DEF PlaceOK
  <2>8. Place(x, bus) = [chip_select |-> cs, device_name |-> node]
    BY <1>1, <1>3, <2>3, <2>4, <2>5 DEF Place
  <2> QED BY <2>1, <2>2, <2>7, <2>8
<1>4. CASE d.transport = "uart"
  <2>1. PlaceKeys(d.transport) = {"port_name"}
    BY <1>4 DEF PlaceKeys
  <2>2. PortName(x) = d.port_name
    BY <2>1 DEF PortName, Get
  <2>3. PortNameOK(d.port_name) /\ Name(d.port_name) = d.port_name
    BY <1>4 DEF PlaceSettled
  <2>4. PlaceOK(x, bus)
    BY <1>1, <1>4, <2>2, <2>3 DEF PlaceOK
  <2>5. Place(x, bus) = [port_name |-> d.port_name]
    BY <1>1, <1>4, <2>2, <2>3 DEF Place
  <2> QED BY <2>1, <2>4, <2>5
<1> QED BY <1>2, <1>3, <1>4 DEF Transports

SavedModel(bs, ds) == [buses   |-> [i \in DOMAIN bs |-> BusSaved(bs[i])],
                       devices |-> [i \in DOMAIN ds |-> DeviceSaved(ds[i])]]

\* A device in normal form is accepted again and comes back as it is, less what Known drops.
LEMMA DeviceComesBack ==
  ASSUME NEW bs, NEW c, SameBuses(c, bs), \A i, j \in DOMAIN bs : bs[i].id = bs[j].id => i = j,
         NEW d, DeviceSettled(d, bs), NEW x, x = DeviceSaved(d)
  PROVE  DeviceOK(x, c) /\ Device(x, c) = Restored(d)
<1>1. PICK t : t = d.transport
  OBVIOUS
<1>2. /\ t \in Transports /\ DOMAIN d \ {"attached"} = DeviceKeys \cup PlaceKeys(t)
      /\ NameSettled(d.id) /\ NameSettled(d.bus) /\ ConfigSettled(d)
  BY <1>1 DEF DeviceSettled
<1>3. PICK i \in DOMAIN bs : PlaceSettled(d, bs[i])
  BY DEF DeviceSettled
<1>4. DOMAIN x = DeviceKeys \cup PlaceKeys(t) /\ \A k \in DOMAIN x : x[k] = d[k]
  BY <1>2 DEF DeviceSaved
<1>5. /\ x.id = d.id /\ x.bus = d.bus /\ x.transport = t /\ x.backend = d.backend
      /\ Get(x, "metadata", EmptyDict) = d.metadata /\ Get(x, "faults", EmptyDict) = d.faults
      /\ Get(x, "settings", EmptyDict) = d.settings
  BY <1>1, <1>4 DEF DeviceKeys, Get
<1>6. PICK b : b = c[i]
  OBVIOUS
<1>7. b.id = bs[i].id /\ b.transport = bs[i].transport /\ b.name = bs[i].name
  BY <1>6 DEF SameBuses
<1>8. bs[i].id = d.bus /\ bs[i].transport = t
  BY <1>1, <1>3 DEF PlaceSettled
<1>9. BusesNamed(c, d.bus) # {} /\ BusNamed(c, d.bus) = b
  <2>1. \A k, j \in DOMAIN c : c[k].id = c[j].id => k = j
    BY DEF SameBuses
  <2>2. i \in DOMAIN c /\ c[i].id = d.bus
    BY <1>6, <1>7, <1>8 DEF SameBuses
  <2> QED BY <1>6, <2>1, <2>2, BusFound
<1>10. /\ PlaceOK(x, b)
       /\ \A k \in PlaceKeys(t) : k \in DOMAIN Place(x, b) /\ Place(x, b)[k] = d[k]
  <2>1. \A k \in PlaceKeys(t) \cup {"transport"} : k \in DOMAIN x /\ x[k] = d[k]
    BY <1>4 DEF DeviceKeys
  <2>2. PICK a : a = bs[i] /\ PlaceSettled(d, a) /\ b.id = a.id /\ b.transport = a.transport /\ b.name = a.name
    BY <1>3, <1>7
  <2> QED BY <1>1, <1>2, <2>1, <2>2, PlaceSaved
<1>11. Name(d.id) = d.id /\ Name(d.bus) = d.bus /\ NameOK(d.id) /\ NameOK(d.bus)
  BY <1>2 DEF NameSettled
<1>12. /\ BackendOK(t, d.backend) /\ Backend(t, d.backend) = d.backend
       /\ FaultsOK(d.faults) /\ Faults(d.faults) = d.faults /\ SettingsOK(t, d.settings)
  BY <1>1, <1>2 DEF ConfigSettled, BackendSettled, FaultsSettled, SettingsSettled
<1>13. DeviceOK(x, c)
  <2>1. /\ NameOK(x.id) /\ NameOK(x.bus) /\ BusesNamed(c, Name(x.bus)) # {}
        /\ BusNamed(c, Name(x.bus)) = b
    BY <1>5, <1>9, <1>11
  <2>2. x.transport \in Transports /\ x.transport = BusNamed(c, Name(x.bus)).transport
    BY <1>2, <1>5, <1>7, <1>8, <2>1
  <2>3. BackendOK(x.transport, x.backend) /\ FaultsOK(Get(x, "faults", EmptyDict))
        /\ SettingsOK(x.transport, Get(x, "settings", EmptyDict))
    BY <1>5, <1>12
  <2>4. PlaceOK(x, BusNamed(c, Name(x.bus)))
    BY <1>10, <2>1
  <2> QED BY <2>1, <2>2, <2>3, <2>4, Zenon DEF DeviceOK
<1>14. PICK r, q : r = Device(x, c) /\ q = Restored(d)
  OBVIOUS
<1>15. DeviceParts(r, x, c)
  BY <1>2, <1>5, <1>14, DevicePartsHold
<1>16. /\ q = [k \in DOMAIN q |-> q[k]] /\ DOMAIN q = DeviceKeys \cup PlaceKeys(t)
       /\ \A k \in DOMAIN q : k # "settings" => q[k] = d[k]
       /\ q.settings = Settings(t, d.settings)
  BY <1>1, <1>2, <1>14 DEF Restored, Known, DeviceKeys
<1>17. r = [k \in DOMAIN r |-> r[k]] /\ DOMAIN r = DeviceKeys \cup PlaceKeys(t)
  <2>1. BusNamed(c, Name(x.bus)) = b
    BY <1>5, <1>9, <1>11
  <2>2. DOMAIN Place(x, b) = PlaceKeys(t)
    BY <1>2, <1>5, PlaceDomain
  <2>3. r = [k \in DOMAIN r |-> r[k]]
    BY <1>15 DEF DeviceParts
  <2>4. DOMAIN r = {"id", "bus", "transport", "backend", "metadata", "faults", "settings"} \cup DOMAIN Place(x, b)
    BY <1>15, <2>1 DEF DeviceParts
  <2> QED BY <2>2, <2>3, <2>4 DEF DeviceKeys
<1>18. \A k \in DeviceKeys : r[k] = q[k]
  <2>1. r.id = d.id /\ r.bus = d.bus /\ r.transport = d.transport /\ r.backend = d.backend
        /\ r.metadata = d.metadata /\ r.faults = d.faults /\ r.settings = Settings(t, d.settings)
    BY <1>1, <1>5, <1>11, <1>12, <1>15 DEF DeviceParts
  <2>2. q.id = d.id /\ q.bus = d.bus /\ q.transport = d.transport /\ q.backend = d.backend
        /\ q.metadata = d.metadata /\ q.faults = d.faults
    BY <1>16 DEF DeviceKeys
  <2> QED BY <1>16, <2>1, <2>2 DEF DeviceKeys
<1>19. \A k \in PlaceKeys(t) : r[k] = q[k]
  <2>1. \A k \in PlaceKeys(t) : k # "settings" /\ k \notin DeviceKeys
    BY <1>2 DEF PlaceKeys, DeviceKeys, Transports
  <2>2. \A k \in PlaceKeys(t) : q[k] = d[k]
    BY <1>16, <2>1
  <2>3. PICK e : e = Place(x, b)
    OBVIOUS
  <2>4. \A k \in PlaceKeys(t) : k \in DOMAIN e /\ e[k] = d[k]
    BY <1>10, <2>3
  <2>5. BusNamed(c, Name(x.bus)) = b
    BY <1>5, <1>9, <1>11
  <2>6. PICK h : r = h ++ e /\ DOMAIN h = DeviceKeys
    BY <1>14, <2>3, <2>5 DEF Device, DeviceKeys
  <2>7. \A k \in PlaceKeys(t) : r[k] = e[k]
    BY <2>1, <2>4, <2>6 DEF ++
  <2> QED BY <2>2, <2>4, <2>7
<1>20. r = q
  <2>1. DOMAIN r = DOMAIN q /\ \A k \in DOMAIN r : r[k] = q[k]
    BY <1>16, <1>17, <1>18, <1>19
  <2> QED BY <1>16, <1>17, <2>1, SameMapping
<1> QED BY <1>13, <1>14, <1>20

LEMMA BusesComeBack ==
  ASSUME NEW bs, BusesSettled(bs), NEW raw, raw.buses = [i \in DOMAIN bs |-> BusSaved(bs[i])],
         NEW c, c = Buses(raw)
  PROVE  /\ SameBuses(c, bs) /\ \A i \in DOMAIN raw.buses : BusOK(raw.buses[i])
         /\ IsInjective([i \in DOMAIN c |-> c[i].id])
         /\ IsInjective([i \in DOMAIN c |-> <<c[i].transport, c[i].name>>])
<1>1. DOMAIN raw.buses = DOMAIN bs /\ \A i \in DOMAIN bs : raw.buses[i] = BusSaved(bs[i])
  OBVIOUS
<1>2. DOMAIN c = DOMAIN bs /\ \A i \in DOMAIN bs : c[i] = Bus(raw.buses[i])
  BY <1>1 DEF Buses
<1>3. ASSUME NEW i \in DOMAIN bs
      PROVE  /\ BusOK(raw.buses[i])
             /\ c[i].id = bs[i].id /\ c[i].transport = bs[i].transport /\ c[i].name = bs[i].name
  <2>1. PICK b, x : b = bs[i] /\ x = raw.buses[i]
    OBVIOUS
  <2>2. x.id = b.id /\ x.transport = b.transport /\ x.name = b.name
    BY <1>1, <2>1 DEF BusSaved
  <2>3. BusSettled(b)
    BY <2>1 DEF BusesSettled
  <2>4. BusOK(x)
    BY <2>2, <2>3 DEF BusSettled, BusOK
  <2>5. Bus(x).id = b.id /\ Bus(x).transport = b.transport /\ Bus(x).name = b.name
    BY <2>2, <2>3 DEF BusSettled, Bus
  <2> QED BY <1>2, <2>1, <2>4, <2>5
<1>4. SameBuses(c, bs)
  BY <1>2, <1>3 DEF SameBuses
<1>5. IsInjective([i \in DOMAIN c |-> c[i].id])
  BY <1>2, <1>3 DEF IsInjective, BusesSettled
<1>6. IsInjective([i \in DOMAIN c |-> <<c[i].transport, c[i].name>>])
  BY <1>2, <1>3 DEF IsInjective, BusesSettled
<1> QED BY <1>1, <1>3, <1>4, <1>5, <1>6

LEMMA RestoredLocation ==
  ASSUME NEW d, NEW bs, DeviceSettled(d, bs), NEW r, r = Restored(d)
  PROVE  /\ r.id = d.id /\ r.transport = d.transport /\ Location(r) = Location(d)
         /\ \A k \in DeviceKeys \cup PlaceKeys(d.transport) : k # "settings" => r[k] = d[k]
<1>1. d.transport \in Transports /\ DOMAIN d \ {"attached"} = DeviceKeys \cup PlaceKeys(d.transport)
  BY DEF DeviceSettled
<1>2. \A k \in DeviceKeys \cup PlaceKeys(d.transport) : k # "settings" => r[k] = d[k]
  BY <1>1 DEF Restored
<1>3. r.id = d.id /\ r.transport = d.transport /\ r.bus = d.bus
  BY <1>2 DEF DeviceKeys
<1>4. CASE d.transport = "i2c"
  <2>1. r.address = d.address
    BY <1>2, <1>4 DEF PlaceKeys
  <2> QED BY <1>2, <1>3, <1>4, <2>1 DEF Location
<1>5. CASE d.transport = "spi"
  <2>1. r.chip_select = d.chip_select
    BY <1>2, <1>5 DEF PlaceKeys
  <2> QED BY <1>2, <1>3, <1>5, <2>1 DEF Location
<1>6. CASE d.transport = "uart"
  <2>1. r.port_name = d.port_name
    BY <1>2, <1>6 DEF PlaceKeys
  <2> QED BY <1>2, <1>3, <1>6, <2>1 DEF Location
<1> QED BY <1>1, <1>4, <1>5, <1>6 DEF Transports

\* A saved inventory is accepted, and its devices come back.
LEMMA SavedAccepted ==
  ASSUME NEW bs, NEW ds, Settled(bs, ds), NEW raw, raw = SavedModel(bs, ds)
  PROVE  /\ ModelOK(raw) /\ SameBuses(Buses(raw), bs)
         /\ Devices(raw) = [i \in DOMAIN ds |-> Restored(ds[i])]
         /\ DOMAIN raw.buses = DOMAIN bs /\ DOMAIN raw.devices = DOMAIN ds
         /\ \A i \in DOMAIN ds : raw.devices[i] = DeviceSaved(ds[i])
         /\ \A i \in DOMAIN bs : raw.buses[i] = BusSaved(bs[i])
<1>1. /\ raw.buses = [i \in DOMAIN bs |-> BusSaved(bs[i])]
      /\ raw.devices = [i \in DOMAIN ds |-> DeviceSaved(ds[i])]
  BY DEF SavedModel
<1>2. PICK c, e : c = Buses(raw) /\ e = Devices(raw)
  OBVIOUS
<1>3. BusesSettled(bs) /\ DevicesSettled(bs, ds)
  BY DEF Settled
<1>4. /\ SameBuses(c, bs) /\ \A i \in DOMAIN raw.buses : BusOK(raw.buses[i])
      /\ IsInjective([i \in DOMAIN c |-> c[i].id])
      /\ IsInjective([i \in DOMAIN c |-> <<c[i].transport, c[i].name>>])
  BY <1>1, <1>2, <1>3, BusesComeBack
<1>5. \A i, j \in DOMAIN bs : bs[i].id = bs[j].id => i = j
  BY <1>3 DEF BusesSettled
<1>6. DOMAIN raw.devices = DOMAIN ds /\ \A i \in DOMAIN ds : raw.devices[i] = DeviceSaved(ds[i])
  BY <1>1
<1>7. \A i \in DOMAIN ds : DeviceSettled(ds[i], bs)
  BY <1>3 DEF DevicesSettled
<1>8. ASSUME NEW i \in DOMAIN ds
      PROVE  DeviceOK(raw.devices[i], c) /\ Device(raw.devices[i], c) = Restored(ds[i])
  BY <1>4, <1>5, <1>6, <1>7, DeviceComesBack
<1>9. e = [i \in DOMAIN raw.devices |-> Device(raw.devices[i], c)]
  BY <1>2 DEF Devices
<1>10. DOMAIN e = DOMAIN ds /\ \A i \in DOMAIN ds : e[i] = Restored(ds[i])
  BY <1>6, <1>8, <1>9
<1>11. e = [i \in DOMAIN ds |-> Restored(ds[i])]
  BY <1>6, <1>8, <1>9
<1>12. \A i \in DOMAIN ds : e[i].id = ds[i].id /\ Location(e[i]) = Location(ds[i])
  BY <1>7, <1>10, RestoredLocation
<1>13. IsInjective([i \in DOMAIN e |-> e[i].id])
  BY <1>3, <1>10, <1>12 DEF IsInjective, DevicesSettled
<1>14. IsInjective([i \in DOMAIN e |-> Location(e[i])])
  BY <1>3, <1>10, <1>12 DEF IsInjective, DevicesSettled
<1>15. \A i \in DOMAIN raw.devices : DeviceOK(raw.devices[i], c)
  BY <1>6, <1>8
<1>16. ModelOK(raw)
  BY <1>2, <1>4, <1>13, <1>14, <1>15, Zenon DEF ModelOK
<1> QED BY <1>1, <1>2, <1>4, <1>6, <1>11, <1>16

LEMMA ListOf ==
  ASSUME NEW s, IsArray(s), s = [i \in DOMAIN s |-> s[i]]
  PROVE  IsList(s)
<1>1. PICK n \in Nat : DOMAIN s = 1..n
  BY DEF IsArray
<1>2. PICK S : S = {s[i] : i \in 1..n}
  OBVIOUS
<1>3. s \in [1..n -> S]
  BY <1>1, <1>2
<1>4. Len(s) = n
  BY <1>3
<1> QED BY <1>1, <1>4 DEF IsList

\* Node names, spots and rates are saved as they are.
LEMMA PacksAsSaved ==
  ASSUME NEW d, NEW bs, DeviceSettled(d, bs), NEW x, x = DeviceSaved(d), NEW r, r = Restored(d)
  PROVE  (Packs(x) <=> Packs(r)) /\ x.transport = r.transport
         /\ (r.transport = "uart" => x.port_name = r.port_name)
<1>1. PICK t : t = d.transport
  OBVIOUS
<1>2. t \in Transports /\ DOMAIN d \ {"attached"} = DeviceKeys \cup PlaceKeys(t)
      /\ SettingsSettled(t, d.settings)
  BY <1>1 DEF DeviceSettled, ConfigSettled
<1>3. DOMAIN x = DeviceKeys \cup PlaceKeys(t) /\ \A k \in DOMAIN x : x[k] = d[k]
  BY <1>2 DEF DeviceSaved
<1>4. r.id = d.id /\ r.transport = t
      /\ \A k \in DeviceKeys \cup PlaceKeys(t) : k # "settings" => r[k] = d[k]
  BY <1>1, RestoredLocation
<1>5. r.settings = Settings(t, d.settings)
  BY <1>1, <1>2 DEF Restored, Known, DeviceKeys
<1>6. x.id = r.id /\ x.transport = t /\ x.settings = d.settings
  BY <1>1, <1>3, <1>4 DEF DeviceKeys
<1>7. CASE t = "i2c"
  <2>1. x.address = r.address
    BY <1>3, <1>4, <1>7 DEF PlaceKeys, DeviceKeys
  <2>2. Node(x) = Node(r) /\ Spot(x) = Spot(r)
    BY <1>4, <1>6, <1>7, <2>1 DEF Node, Spot
  <2> QED BY <1>4, <1>6, <1>7, <2>2 DEF Packs
<1>8. CASE t = "spi"
  <2>1. x.chip_select = r.chip_select /\ x.device_name = r.device_name
    BY <1>3, <1>4, <1>8 DEF PlaceKeys, DeviceKeys
  <2>2. Node(x) = Node(r) /\ Spot(x) = Spot(r)
    BY <1>4, <1>6, <1>8, <2>1 DEF Node, Spot
  <2>3. r.settings.max_speed_hz.n = x.settings.max_speed_hz.n
    <3>1. PICK s, z : s = d.settings /\ z = r.settings
      OBVIOUS
    <3>2. z = Fields(s, SpiFields) /\ "max_speed_hz" \in DOMAIN s
      BY <1>2, <1>5, <1>8, <3>1 DEF Settings, SettingsSettled
    <3>3. "max_speed_hz" \in DOMAIN SpiFields
      BY DEF SpiFields
    <3>4. z["max_speed_hz"] = Number(s["max_speed_hz"])
      BY <3>2, <3>3 DEF Fields, Get
    <3>5. z.max_speed_hz.n = s.max_speed_hz.n
      BY <3>4 DEF Number, Plain
    <3> QED BY <1>6, <3>1, <3>5
  <2> QED BY <1>4, <1>6, <1>8, <2>2, <2>3 DEF Packs
<1>9. CASE t = "uart"
  <2>1. x.port_name = r.port_name
    BY <1>3, <1>4, <1>9 DEF PlaceKeys, DeviceKeys
  <2>2. Node(x) = Node(r) /\ Spot(x) = Spot(r)
    BY <1>4, <1>6, <1>9, <2>1 DEF Node, Spot
  <2> QED BY <1>4, <1>6, <1>9, <2>1, <2>2 DEF Packs
<1> QED BY <1>2, <1>7, <1>8, <1>9 DEF Transports

\* A saved inventory can be installed again, but for a value that is too large.
LEMMA SavedInstalls ==
  ASSUME NEW bs, NEW ds, Settled(bs, ds), NEW raw, raw = SavedModel(bs, ds)
  PROVE  Installs(Model(raw)) \/ TooLarge(raw)
<1>1. /\ ModelOK(raw) /\ SameBuses(Buses(raw), bs)
      /\ Devices(raw) = [i \in DOMAIN ds |-> Restored(ds[i])]
      /\ DOMAIN raw.buses = DOMAIN bs /\ DOMAIN raw.devices = DOMAIN ds
      /\ \A i \in DOMAIN ds : raw.devices[i] = DeviceSaved(ds[i])
      /\ \A i \in DOMAIN bs : raw.buses[i] = BusSaved(bs[i])
  BY SavedAccepted
<1>2. IsArray(bs) /\ IsArray(ds) /\ \A i \in DOMAIN ds : DeviceSettled(ds[i], bs)
  BY DEF Settled, BusesSettled, DevicesSettled
<1>3. IsList(raw.buses) /\ IsList(raw.devices)
  <2>1. raw.buses = [i \in DOMAIN bs |-> BusSaved(bs[i])] /\ raw.devices = [i \in DOMAIN ds |-> DeviceSaved(ds[i])]
    BY DEF SavedModel
  <2>2. PICK p, q : p = raw.buses /\ q = raw.devices
    OBVIOUS
  <2>3. IsArray(p) /\ p = [i \in DOMAIN p |-> p[i]] /\ IsArray(q) /\ q = [i \in DOMAIN q |-> q[i]]
    BY <1>2, <2>1, <2>2 DEF IsArray
  <2>4. IsList(p) /\ IsList(q)
    BY <2>3, ListOf
  <2> QED BY <2>2, <2>4
<1>4. Installs(Model(raw)) \/ TooLarge(Model(raw))
  BY <1>1, <1>3, AcceptedModelInstalls
<1>5. ASSUME TooLarge(Model(raw))
      PROVE  TooLarge(raw)
  <2>1. PICK c, e, m : c = Buses(raw) /\ e = Devices(raw) /\ m = Model(raw)
    OBVIOUS
  <2>2. m.buses = c /\ m.devices = e
    BY <2>1 DEF Model
  <2>3. DOMAIN c = DOMAIN bs /\ DOMAIN e = DOMAIN ds
    BY <1>1, <2>1 DEF SameBuses
  <2>4. CASE \E b \in ToSet(c) : b.name.long \/ (b.transport # "uart" /\ b.name.num >= Half(b.transport))
    <3>1. PICK i \in DOMAIN bs :
            c[i].name.long \/ (c[i].transport # "uart" /\ c[i].name.num >= Half(c[i].transport))
      BY <2>3, <2>4 DEF ToSet
    <3>2. PICK y : y = raw.buses[i]
      OBVIOUS
    <3>3. y \in ToSet(raw.buses)
      BY <1>1, <3>2 DEF ToSet
    <3>4. y.name = c[i].name /\ y.transport = c[i].transport
      <4>1. y = BusSaved(bs[i]) /\ c[i].name = bs[i].name /\ c[i].transport = bs[i].transport
        BY <1>1, <2>1, <3>2 DEF SameBuses
      <4> QED BY <4>1 DEF BusSaved
    <3> QED BY <3>1, <3>3, <3>4 DEF TooLarge
  <2>5. CASE \E d \in ToSet(e) :
               \/ ~Packs(d)
               \/ d.transport = "uart" /\ (d.port_name.num >= PortLimit \/ d.port_name.stem \in WideStems)
    <3>1. PICK i \in DOMAIN ds :
            \/ ~Packs(e[i])
            \/ e[i].transport = "uart" /\ (e[i].port_name.num >= PortLimit \/ e[i].port_name.stem \in WideStems)
      BY <2>3, <2>5 DEF ToSet
    <3>2. PICK r, x : r = e[i] /\ x = raw.devices[i]
      OBVIOUS
    <3>3. r = Restored(ds[i]) /\ x = DeviceSaved(ds[i]) /\ DeviceSettled(ds[i], bs)
      BY <1>1, <1>2, <2>1, <3>2
    <3>4. (Packs(x) <=> Packs(r)) /\ x.transport = r.transport
          /\ (r.transport = "uart" => x.port_name = r.port_name)
      BY <3>3, PacksAsSaved
    <3>5. x \in ToSet(raw.devices)
      BY <1>1, <3>2 DEF ToSet
    <3> QED BY <3>1, <3>2, <3>4, <3>5 DEF TooLarge
  <2> QED BY <1>5, <2>1, <2>2, <2>4, <2>5 DEF TooLarge
<1> QED BY <1>4, <1>5

-----------------------------------------------------------------------------
(* What keeps an inventory in normal form.                                 *)

LEMMA PrefixSettled ==
  ASSUME NEW bs, NEW ds, Settled(bs, ds), NEW es, IsArray(es), DOMAIN es \subseteq DOMAIN ds,
         \A i \in DOMAIN es : es[i] = ds[i]
  PROVE  Settled(bs, es)
<1>1. BusesSettled(bs) /\ DevicesSettled(bs, ds)
  BY DEF Settled
<1>2. \A i \in DOMAIN es : i \in DOMAIN ds
  OBVIOUS
<1>3. \A i \in DOMAIN es : DeviceSettled(es[i], bs)
  BY <1>1, <1>2 DEF DevicesSettled
<1>4. /\ \A i, j \in DOMAIN es : es[i].id = es[j].id => i = j
      /\ \A i, j \in DOMAIN es : Location(es[i]) = Location(es[j]) => i = j
  BY <1>1, <1>2 DEF DevicesSettled
<1> QED BY <1>1, <1>3, <1>4 DEF Settled, DevicesSettled

LEMMA EmptySettled ==
  ASSUME NEW bs, NEW ds, bs = <<>>, ds = <<>>
  PROVE  Settled(bs, ds)
<1>1. DOMAIN bs = {} /\ DOMAIN ds = {}
  OBVIOUS
<1>2. IsArray(bs) /\ IsArray(ds)
  <2>1. 0 \in Nat /\ 1..0 = {}
    OBVIOUS
  <2> QED BY <1>1, <2>1 DEF IsArray
<1> QED BY <1>1, <1>2 DEF Settled, BusesSettled, DevicesSettled

\* Devices that differ in their configuration and attachment only.
SameDevice(d, e) ==
  /\ DOMAIN e \ {"attached"} = DOMAIN d \ {"attached"}
  /\ \A k \in DOMAIN e \ {"attached", "backend", "metadata", "faults", "settings"} : e[k] = d[k]

LEMMA ConfigChanged ==
  ASSUME NEW bs, NEW d, DeviceSettled(d, bs), NEW e, SameDevice(d, e), ConfigSettled(e)
  PROVE  DeviceSettled(e, bs) /\ e.id = d.id /\ Location(e) = Location(d)
<1>1. PICK t : t = d.transport
  OBVIOUS
<1>2. /\ t \in Transports /\ DOMAIN d \ {"attached"} = DeviceKeys \cup PlaceKeys(t)
      /\ NameSettled(d.id) /\ NameSettled(d.bus)
  BY <1>1 DEF DeviceSettled
<1>3. PICK i \in DOMAIN bs : PlaceSettled(d, bs[i])
  BY DEF DeviceSettled
<1>4. /\ DOMAIN e \ {"attached"} = DeviceKeys \cup PlaceKeys(t)
      /\ e.id = d.id /\ e.bus = d.bus /\ e.transport = t
  <2>1. DOMAIN e \ {"attached"} = DeviceKeys \cup PlaceKeys(t)
    BY <1>2 DEF SameDevice
  <2>2. {"id", "bus", "transport"} \subseteq DOMAIN e \ {"attached", "backend", "metadata", "faults", "settings"}
    BY <2>1 DEF DeviceKeys
  <2> QED BY <1>1, <2>1, <2>2 DEF SameDevice
<1>5. CASE t = "i2c"
  <2>1. "address" \in DOMAIN e \ {"attached", "backend", "metadata", "faults", "settings"}
    BY <1>4, <1>5 DEF PlaceKeys
  <2>2. e.address = d.address
    BY <2>1 DEF SameDevice
  <2>3. PlaceSettled(e, bs[i]) /\ Location(e) = Location(d)
    BY <1>1, <1>3, <1>4, <1>5, <2>2 DEF PlaceSettled, Location
  <2> QED BY <1>2, <1>4, <2>3 DEF DeviceSettled
<1>6. CASE t = "spi"
  <2>1. {"chip_select", "device_name"} \subseteq DOMAIN e \ {"attached", "backend", "metadata", "faults", "settings"}
    BY <1>4, <1>6 DEF PlaceKeys
  <2>2. e.chip_select = d.chip_select /\ e.device_name = d.device_name
    BY <2>1 DEF SameDevice
  <2>3. PlaceSettled(e, bs[i]) /\ Location(e) = Location(d)
    BY <1>1, <1>3, <1>4, <1>6, <2>2 DEF PlaceSettled, Location
  <2> QED BY <1>2, <1>4, <2>3 DEF DeviceSettled
<1>7. CASE t = "uart"
  <2>1. "port_name" \in DOMAIN e \ {"attached", "backend", "metadata", "faults", "settings"}
    BY <1>4, <1>7 DEF PlaceKeys
  <2>2. e.port_name = d.port_name
    BY <2>1 DEF SameDevice
  <2>3. PlaceSettled(e, bs[i]) /\ Location(e) = Location(d)
    BY <1>1, <1>3, <1>4, <1>7, <2>2 DEF PlaceSettled, Location
  <2> QED BY <1>2, <1>4, <2>3 DEF DeviceSettled
<1> QED BY <1>2, <1>5, <1>6, <1>7 DEF Transports

LEMMA ConfigsChanged ==
  ASSUME NEW bs, NEW ds, Settled(bs, ds), NEW es, DOMAIN es = DOMAIN ds,
         \A i \in DOMAIN ds : SameDevice(ds[i], es[i]) /\ ConfigSettled(es[i])
  PROVE  Settled(bs, es)
<1>1. BusesSettled(bs) /\ DevicesSettled(bs, ds)
  BY DEF Settled
<1>2. \A i \in DOMAIN ds : DeviceSettled(ds[i], bs)
  BY <1>1 DEF DevicesSettled
<1>3. \A i \in DOMAIN ds : DeviceSettled(es[i], bs) /\ es[i].id = ds[i].id /\ Location(es[i]) = Location(ds[i])
  BY <1>2, ConfigChanged
<1>4. IsArray(es)
  BY <1>1 DEF DevicesSettled, IsArray
<1>5. /\ \A i, j \in DOMAIN es : es[i].id = es[j].id => i = j
      /\ \A i, j \in DOMAIN es : Location(es[i]) = Location(es[j]) => i = j
  BY <1>1, <1>3 DEF DevicesSettled
<1> QED BY <1>1, <1>3, <1>4, <1>5 DEF Settled, DevicesSettled

\* One device is changed.
LEMMA OneChanged ==
  ASSUME NEW bs, NEW ds, Settled(bs, ds), NEW i \in DOMAIN ds, NEW e, SameDevice(ds[i], e), ConfigSettled(e),
         NEW es, es = [ds EXCEPT ![i] = e]
  PROVE  Settled(bs, es)
<1>1. \A j \in DOMAIN ds : DeviceSettled(ds[j], bs)
  BY DEF Settled, DevicesSettled
<1>2. DOMAIN es = DOMAIN ds /\ es[i] = e /\ \A j \in DOMAIN ds : j # i => es[j] = ds[j]
  OBVIOUS
<1>3. \A j \in DOMAIN ds : ConfigSettled(ds[j])
  BY <1>1 DEF DeviceSettled
<1>4. \A d : SameDevice(d, d)
  BY DEF SameDevice
<1>5. \A j \in DOMAIN ds : SameDevice(ds[j], es[j]) /\ ConfigSettled(es[j])
  BY <1>2, <1>3, <1>4
<1> QED BY <1>2, <1>5, ConfigsChanged

\* A device is installed with its attachment.
LEMMA AttachmentAdded ==
  ASSUME NEW d, NEW bs, DeviceSettled(d, bs), "attached" \notin DOMAIN d, NEW a, NEW e, e = d ++ [attached |-> a]
  PROVE  /\ SameDevice(d, e) /\ ConfigSettled(e) /\ e.attached = a
         /\ d = [k \in DOMAIN d |-> d[k]] /\ Settings(d.transport, d.settings) = d.settings => Restored(e) = d
<1>1. PICK c : c = [attached |-> a]
  OBVIOUS
<1>2. DOMAIN c = {"attached"} /\ c.attached = a
  BY <1>1
<1>3. e = [k \in DOMAIN d \cup DOMAIN c |-> IF k \in DOMAIN d THEN d[k] ELSE c[k]]
  BY <1>1 DEF ++
<1>4. DOMAIN e = DOMAIN d \cup {"attached"} /\ e.attached = a /\ \A k \in DOMAIN d : e[k] = d[k]
  BY <1>2, <1>3
<1>5. DOMAIN e \ {"attached"} = DOMAIN d
  BY <1>4
<1>6. SameDevice(d, e)
  BY <1>4, <1>5 DEF SameDevice
<1>7. {"transport", "backend", "faults", "settings"} \subseteq DOMAIN d
  BY DEF DeviceSettled, DeviceKeys
<1>8. e.transport = d.transport /\ e.backend = d.backend /\ e.faults = d.faults /\ e.settings = d.settings
  BY <1>4, <1>7
<1>9. ConfigSettled(e)
  BY <1>8 DEF DeviceSettled, ConfigSettled
<1>10. ASSUME d = [k \in DOMAIN d |-> d[k]], Settings(d.transport, d.settings) = d.settings
       PROVE  Restored(e) = d
  <2>1. PICK r : r = Restored(e)
    OBVIOUS
  <2>2. Known(e) = d.settings
    BY <1>8, <1>10 DEF Known
  <2>3. r = [k \in DOMAIN d |-> IF k = "settings" THEN d.settings ELSE e[k]]
    BY <1>5, <2>1, <2>2 DEF Restored
  <2>4. \A k \in DOMAIN d : r[k] = d[k]
    BY <1>4, <2>3
  <2>5. r = [k \in DOMAIN d |-> d[k]]
    BY <2>3, <2>4
  <2> QED BY <1>10, <2>1, <2>5
<1> QED BY <1>4, <1>6, <1>9, <1>10

LEMMA InstalledSettled ==
  ASSUME NEW bs, NEW ds, Settled(bs, ds), \A i \in DOMAIN ds : "attached" \notin DOMAIN ds[i],
         NEW as, NEW es, es = [i \in DOMAIN ds |-> ds[i] ++ [attached |-> as[i]]]
  PROVE  Settled(bs, es)
<1>1. DOMAIN es = DOMAIN ds /\ \A i \in DOMAIN ds : es[i] = ds[i] ++ [attached |-> as[i]]
  OBVIOUS
<1>2. \A i \in DOMAIN ds : DeviceSettled(ds[i], bs)
  BY DEF Settled, DevicesSettled
<1>3. ASSUME NEW i \in DOMAIN ds
      PROVE  SameDevice(ds[i], es[i]) /\ ConfigSettled(es[i])
  BY <1>1, <1>2, AttachmentAdded
<1> QED BY <1>1, <1>3, ConfigsChanged

-----------------------------------------------------------------------------
(* The daemon's inventory, its update and its file stay in normal form.    *)

\* The update that holds the lock.
UpdateSettled(r, ds) ==
  r # Null => /\ BackendSettled(ds[r.dev].transport, r.new.backend) /\ FaultsSettled(r.new.faults)
              /\ SettingsSettled(ds[r.dev].transport, r.new.settings)

SnapshotOf(bs, ds) == [model |-> SavedModel(bs, ds), attached |-> [i \in DOMAIN ds |-> ds[i].attached]]

FileSettled(f) == \A s \in f : \E bs, ds : Settled(bs, ds) /\ s = SnapshotOf(bs, ds)

\* The file has the configuration of this inventory.
Kept(bs, ds, f) ==
  /\ bs # <<>> => f # {}
  /\ \A s \in f : bs # <<>> /\ AttachmentsOK(s) =>
       /\ Model(s.model).devices = [i \in DOMAIN ds |-> Restored(ds[i])]
       /\ s.attached = [i \in DOMAIN ds |-> ds[i].attached]

\* A worker is between its change and its save.
Saving(q) == \E w \in Workers : q[w].pc \in {"save", "savefault"}

SettledInv ==
  /\ Settled(buses, devices) /\ UpdateSettled(rpc, devices) /\ FileSettled(file)
  /\ unsaved \/ Saving(req) \/ Kept(buses, devices, file)

LEMMA SavedSettles ==
  ASSUME NEW bs, NEW ds, Settled(bs, ds), NEW f, f = FileOf(bs, ds, SnapshotOf(bs, ds))
  PROVE  FileSettled(f) /\ Kept(bs, ds, f)
<1>1. PICK s : s = SnapshotOf(bs, ds)
  OBVIOUS
<1>2. (f = {} /\ bs = <<>>) \/ f = {s}
  BY <1>1 DEF FileOf
<1>3. FileSettled(f)
  BY <1>1, <1>2 DEF FileSettled
<1>4. s.model = SavedModel(bs, ds) /\ s.attached = [i \in DOMAIN ds |-> ds[i].attached]
  BY <1>1 DEF SnapshotOf
<1>5. PICK raw : raw = s.model
  OBVIOUS
<1>6. Devices(raw) = [i \in DOMAIN ds |-> Restored(ds[i])]
  BY <1>4, <1>5, SavedAccepted
<1>7. Model(s.model).devices = [i \in DOMAIN ds |-> Restored(ds[i])]
  BY <1>5, <1>6 DEF Model
<1>8. Kept(bs, ds, f)
  BY <1>2, <1>4, <1>7 DEF Kept
<1> QED BY <1>3, <1>8

LEMMA SavedInvSettled ==
  ASSUME SettledInv, Settled(buses', devices'), UpdateSettled(rpc', devices'), Save
  PROVE  SettledInv'
<1>1. PICK bs, ds, f : bs = buses' /\ ds = devices' /\ f = file'
  OBVIOUS
<1>5. CASE file' = file /\ unsaved'
  <2>1. FileSettled(f)
    BY <1>1, <1>5 DEF SettledInv
  <2> QED BY <1>1, <1>5, <2>1 DEF SettledInv
<1>6. (file' = file /\ unsaved') \/ file' = FileOf(buses', devices', Snapshot')
  BY DEF Save
<1> SUFFICES ASSUME file' = FileOf(buses', devices', Snapshot') PROVE SettledInv'
  BY <1>5, <1>6
<1>2. f = FileOf(bs, ds, SnapshotOf(bs, ds))
  BY <1>1 DEF Snapshot, Export, Attachments, SnapshotOf, SavedModel
<1>3. Settled(bs, ds)
  BY <1>1
<1>4. FileSettled(f) /\ Kept(bs, ds, f)
  BY <1>2, <1>3, SavedSettles
<1> QED BY <1>1, <1>4 DEF SettledInv

LEMMA InstallSettled ==
  ASSUME NEW m, NEW as, Installed(m, as), Settled(m.buses, m.devices),
         \A i \in DOMAIN m.devices : "attached" \notin DOMAIN m.devices[i]
  PROVE  Settled(buses', devices')
<1>1. PICK bs, ds, es : bs = m.buses /\ ds = m.devices /\ es = devices'
  OBVIOUS
<1>2. es = [i \in DOMAIN ds |-> ds[i] ++ [attached |-> as[i]]] /\ buses' = bs
  BY <1>1 DEF Installed
<1>3. Settled(bs, ds) /\ \A i \in DOMAIN ds : "attached" \notin DOMAIN ds[i]
  BY <1>1
<1>4. Settled(bs, es)
  BY <1>2, <1>3, InstalledSettled
<1> QED BY <1>1, <1>2, <1>4

LEMMA EmptiedSettled ==
  ASSUME Emptied
  PROVE  Settled(buses', devices') /\ buses' = <<>>
<1>1. PICK m : m = [buses |-> <<>>, devices |-> <<>>]
  OBVIOUS
<1>2. Installed(m, <<>>) /\ m.buses = <<>> /\ m.devices = <<>> /\ DOMAIN m.devices = {}
  BY <1>1 DEF Emptied
<1>3. Settled(m.buses, m.devices)
  BY <1>2, EmptySettled
<1>4. Settled(buses', devices')
  BY <1>2, <1>3, InstallSettled
<1> QED BY <1>2, <1>4 DEF Installed

LEMMA ReinstallSettled ==
  ASSUME IInv, Settled(buses, devices), Restorable(Snapshot), Reinstalled(Snapshot)
  PROVE  Settled(buses', devices')
<1>1. PICK s, raw, m : s = Snapshot /\ raw = s.model /\ m = Model(raw)
  OBVIOUS
<1>2. raw = SavedModel(buses, devices)
  BY <1>1 DEF Snapshot, Export, SavedModel
<1>3. ModelOK(raw) /\ DOMAIN raw.buses = DOMAIN buses /\ DOMAIN raw.devices = DOMAIN devices
  BY <1>2, SavedAccepted
<1>4. IsArray(raw.buses) /\ IsArray(raw.devices)
  BY <1>3 DEF Settled, BusesSettled, DevicesSettled, IsArray
<1>5. PICK bs, ds : bs = Buses(raw) /\ ds = Devices(raw)
  OBVIOUS
<1>6. m = [buses |-> bs, devices |-> ds] /\ m.buses = bs /\ m.devices = ds
  BY <1>1, <1>5 DEF Model
<1>7. /\ Settled(bs, ds) /\ DOMAIN ds = DOMAIN raw.devices
      /\ \A i \in DOMAIN ds : "attached" \notin DOMAIN ds[i]
  BY <1>3, <1>4, <1>5, ModelStays
<1>8. IF Installs(m) THEN Installed(m, s.attached)
      ELSE Installed(Partial(m), Nobody(Partial(m).devices))
  BY <1>1 DEF Reinstalled
<1>9. CASE Installs(m)
  BY <1>6, <1>7, <1>8, <1>9, InstallSettled
<1>10. CASE ~Installs(m)
  <2>1. PICK p, none : p = Partial(m) /\ none = Nobody(Partial(m).devices)
    OBVIOUS
  <2>2. Normal(m)
    BY <1>1, <1>3, <1>4, ModelNormal
  <2>3. BusesFit(bs)
    BY <1>1, <1>3, <1>5, SnapshotBuses DEF IInv, StateInv
  <2>4. PICK n \in Nat : DOMAIN ds = 1..n
    BY <1>4, <1>7 DEF IsArray
  <2>5. ds = [i \in 1..n |-> ds[i]]
    <3>1. ds = [i \in DOMAIN ds |-> ds[i]]
      BY <1>5 DEF Devices
    <3> QED BY <2>4, <3>1
  <2>6. Normal(p) /\ PrefixOf(p, bs, ds)
    BY <1>6, <1>10, <2>1, <2>2, <2>3, <2>5, PartialNormal
  <2>7. PICK es : es = p.devices
    OBVIOUS
  <2>8. /\ IsArray(es) /\ p.buses = bs /\ DOMAIN es \subseteq DOMAIN ds /\ \A i \in DOMAIN es : es[i] = ds[i]
    BY <2>6, <2>7 DEF Normal, PrefixOf
  <2>9. Settled(bs, es)
    BY <1>7, <2>8, PrefixSettled
  <2>10. \A i \in DOMAIN es : "attached" \notin DOMAIN es[i]
    BY <1>7, <2>8
  <2>11. Installed(p, none)
    BY <1>8, <1>10, <2>1
  <2> QED BY <2>7, <2>8, <2>9, <2>10, <2>11, InstallSettled
<1> QED BY <1>9, <1>10

LEMMA AcceptedSettled ==
  ASSUME NEW m \in Accepted
  PROVE  Settled(m.buses, m.devices) /\ \A i \in DOMAIN m.devices : "attached" \notin DOMAIN m.devices[i]
<1>1. PICK raw \in RawModels : ModelOK(raw) /\ m = Model(raw)
  BY DEF Accepted
<1>2. IsArray(raw.devices) /\ IsArray(raw.buses)
  BY RawAssumption DEF IsList, IsArray
<1>3. PICK bs, ds : bs = Buses(raw) /\ ds = Devices(raw)
  OBVIOUS
<1>4. m.buses = bs /\ m.devices = ds
  BY <1>1, <1>3 DEF Model
<1>5. Settled(bs, ds) /\ \A i \in DOMAIN ds : "attached" \notin DOMAIN ds[i]
  BY <1>1, <1>2, <1>3, ModelStays
<1> QED BY <1>4, <1>5

LEMMA ApplySettled ==
  ASSUME IInv, SettledInv, NEW m \in Accepted, Apply(m)
  PROVE  SettledInv'
<1>1. rpc' = Null /\ Save
  BY DEF Apply, CallAllowed
<1>2. CASE Installs(m)
  <2>1. Installed(m, Nobody(m.devices))
    BY <1>2 DEF Apply
  <2>2. Settled(buses', devices')
    BY <2>1, AcceptedSettled, InstallSettled
  <2> QED BY <1>1, <2>2, SavedInvSettled DEF UpdateSettled
<1>3. CASE Emptied
  <2>1. Settled(buses', devices')
    BY <1>3, EmptiedSettled
  <2> QED BY <1>1, <2>1, SavedInvSettled DEF UpdateSettled
<1>4. CASE Restorable(Snapshot) /\ Reinstalled(Snapshot)
  <2>1. Settled(buses', devices')
    BY <1>4, ReinstallSettled DEF SettledInv
  <2> QED BY <1>1, <2>1, SavedInvSettled DEF UpdateSettled
<1> QED BY <1>2, <1>3, <1>4 DEF Apply

LEMMA ResyncSettled ==
  ASSUME IInv, SettledInv, Resync
  PROVE  SettledInv'
<1>1. rpc' = Null /\ Save /\ Restorable(Snapshot) /\ Reinstalled(Snapshot)
  BY DEF Resync
<1>2. Settled(buses', devices')
  BY <1>1, ReinstallSettled DEF SettledInv
<1> QED BY <1>1, <1>2, SavedInvSettled DEF UpdateSettled

\* A step that changes neither the inventory nor the file.
LEMMA SettledFrame ==
  ASSUME SettledInv, UNCHANGED <<buses, devices, file, unsaved>>, UpdateSettled(rpc', devices'),
         Saving(req) => Saving(req')
  PROVE  SettledInv'
<1>1. PICK bs, ds, f, u : bs = buses /\ ds = devices /\ f = file /\ u = unsaved
  OBVIOUS
<1>2. bs = buses' /\ ds = devices' /\ f = file' /\ u = unsaved'
  BY <1>1
<1>3. Settled(bs, ds) /\ FileSettled(f) /\ (u \/ Saving(req) \/ Kept(bs, ds, f))
  BY <1>1 DEF SettledInv
<1>4. u \/ Saving(req') \/ Kept(bs, ds, f)
  BY <1>3
<1> QED BY <1>2, <1>3, <1>4 DEF SettledInv

\* Worker w takes a step that is not its save.
LEMMA StillSaving ==
  ASSUME NEW w \in Workers, req[w].pc \notin {"save", "savefault"},
         \A v \in Workers : v # w => req'[v] = req[v]
  PROVE  Saving(req) => Saving(req')
<1> SUFFICES ASSUME Saving(req) PROVE Saving(req')
  OBVIOUS
<1>1. PICK v \in Workers : req[v].pc \in {"save", "savefault"}
  BY DEF Saving
<1>2. req'[v] = req[v]
  BY <1>1
<1> QED BY <1>1, <1>2 DEF Saving

LEMMA WorkerSettled ==
  ASSUME IInv, SettledInv, NEW w \in Workers, req[w].pc \notin {"save", "savefault"},
         \A v \in Workers : v # w => req'[v] = req[v],
         UNCHANGED <<buses, devices, file, rpc, unsaved>>
  PROVE  SettledInv'
<1>1. Saving(req) => Saving(req')
  BY StillSaving
<1>2. UpdateSettled(rpc', devices')
  <2>1. UpdateSettled(rpc, devices)
    BY DEF SettledInv
  <2> QED BY <2>1
<1> QED BY <1>1, <1>2, SettledFrame

LEMMA TakeSettled ==
  ASSUME IInv, SettledInv, NEW w \in Workers, NEW i \in DOMAIN devices, NEW k, Take(w, i, k)
  PROVE  SettledInv'
<1>1. DOMAIN req = Workers
  BY DEF IInv, WorkerInv
<1>2. req[w].pc = "idle" /\ \A v \in Workers : v # w => req'[v] = req[v]
  BY <1>1 DEF Take
<1>3. UNCHANGED <<buses, devices, file, rpc, unsaved>>
  BY DEF Take
<1> QED BY <1>2, <1>3, WorkerSettled

LEMMA AcquireSettled ==
  ASSUME IInv, SettledInv, NEW w \in Workers, Acquire(w)
  PROVE  SettledInv'
<1>1. DOMAIN req = Workers
  BY DEF IInv, WorkerInv
<1>2. req[w].pc = "lock"
  BY DEF Acquire
<1>3. \A v \in Workers : v # w => req'[v] = req[v]
  BY <1>1 DEF Acquire, Goto
<1>4. UNCHANGED <<buses, devices, file, rpc, unsaved>>
  BY DEF Acquire, Config
<1> QED BY <1>2, <1>3, <1>4, WorkerSettled

LEMMA MeetFaultSettled ==
  ASSUME IInv, SettledInv, NEW w \in Workers, MeetFault(w)
  PROVE  SettledInv'
<1>1. DOMAIN req = Workers
  BY DEF IInv, WorkerInv
<1>2. req[w].pc = "fault" /\ (req' = [req EXCEPT ![w] = Idle] \/ Goto(w, "consume"))
  BY DEF MeetFault
<1>3. \A v \in Workers : v # w => req'[v] = req[v]
  BY <1>1, <1>2 DEF Goto
<1>4. UNCHANGED <<buses, devices, file, rpc, unsaved>>
  BY DEF MeetFault
<1> QED BY <1>2, <1>3, <1>4, WorkerSettled

LEMMA ReadFaultSettled ==
  ASSUME IInv, SettledInv, NEW w \in Workers, ReadFault(w)
  PROVE  SettledInv'
<1>1. DOMAIN req = Workers
  BY DEF IInv, WorkerInv
<1>2. req[w].pc = "consume"
  BY DEF ReadFault
<1>3. \A v \in Workers : v # w => req'[v] = req[v]
  BY <1>1 DEF ReadFault
<1>4. UNCHANGED <<buses, devices, file, rpc, unsaved>>
  BY DEF ReadFault, Config
<1> QED BY <1>2, <1>3, <1>4, WorkerSettled

LEMMA WorkerSavesSettled ==
  ASSUME SettledInv, NEW w \in Workers, WorkerSaves(w)
  PROVE  SettledInv'
<1>1. Save /\ UNCHANGED <<buses, devices, rpc>>
  BY DEF WorkerSaves
<1>2. PICK bs, ds, r : bs = buses /\ ds = devices /\ r = rpc
  OBVIOUS
<1>3. Settled(bs, ds) /\ UpdateSettled(r, ds)
  BY <1>2 DEF SettledInv
<1>4. Settled(buses', devices') /\ UpdateSettled(rpc', devices')
  BY <1>1, <1>2, <1>3
<1> QED BY <1>1, <1>4, SavedInvSettled

\* A worker has changed a device and goes on to its save.
LEMMA ChangedSettled ==
  ASSUME IInv, SettledInv, NEW w \in Workers, req'[w].pc \in {"save", "savefault"},
         UNCHANGED <<buses, file, rpc>>, NEW i \in DOMAIN devices, NEW e, devices' = [devices EXCEPT ![i] = e],
         SameDevice(devices[i], e), ConfigSettled(e)
  PROVE  SettledInv'
<1>1. PICK bs, ds, es, f, r : bs = buses /\ ds = devices /\ es = devices' /\ f = file /\ r = rpc
  OBVIOUS
<1>2. Settled(bs, ds) /\ UpdateSettled(r, ds) /\ FileSettled(f)
  BY <1>1 DEF SettledInv
<1>3. i \in DOMAIN ds /\ es = [ds EXCEPT ![i] = e] /\ SameDevice(ds[i], e)
  BY <1>1
<1>4. Settled(bs, es)
  BY <1>2, <1>3, OneChanged
<1>5. DeviceSettled(ds[i], bs)
  BY <1>2, <1>3 DEF Settled, DevicesSettled
<1>6. e.transport = ds[i].transport
  <2>1. "transport" \in DOMAIN ds[i] \ {"attached"}
    BY <1>5 DEF DeviceSettled, DeviceKeys
  <2> QED BY <1>3, <2>1 DEF SameDevice
<1>7. r # Null => r.dev \in DOMAIN ds
  BY <1>1 DEF IInv, RpcInv
<1>8. r # Null => es[r.dev].transport = ds[r.dev].transport
  BY <1>3, <1>6, <1>7
<1>9. UpdateSettled(r, es)
  BY <1>2, <1>8 DEF UpdateSettled
<1>10. Saving(req')
  BY DEF Saving
<1> QED BY <1>1, <1>2, <1>4, <1>9, <1>10 DEF SettledInv

\* A worker goes on to its save, and the device it has changed is gone.
LEMMA GoneSettled ==
  ASSUME SettledInv, NEW w \in Workers, req'[w].pc \in {"save", "savefault"},
         UNCHANGED <<buses, file, rpc, devices>>
  PROVE  SettledInv'
<1>1. PICK bs, ds, f, r : bs = buses /\ ds = devices /\ f = file /\ r = rpc
  OBVIOUS
<1>2. Settled(bs, ds) /\ UpdateSettled(r, ds) /\ FileSettled(f)
  BY <1>1 DEF SettledInv
<1>3. Saving(req')
  BY DEF Saving
<1> QED BY <1>1, <1>2, <1>3 DEF SettledInv

LEMMA ConfigureSettled ==
  ASSUME IInv, SettledInv, NEW w \in Workers, NEW t \in Termios, Configure(w, t)
  PROVE  SettledInv'
<1>1. req[w].pc = "config" /\ Goto(w, "save") /\ UNCHANGED <<buses, file, rpc>>
  BY DEF Configure
<1>2. RequestShape(req[w], devices) /\ DOMAIN req = Workers
  BY DEF IInv, WorkerInv
<1>3. req'[w].pc = "save"
  BY <1>1, <1>2 DEF Goto, RequestShape
<1>4. PICK i : i = req[w].dev
  OBVIOUS
<1>5. CASE i = Null
  <2>1. devices' = devices
    BY <1>4, <1>5 DEF Configure
  <2> QED BY <1>1, <1>3, <2>1, GoneSettled
<1>6. CASE i # Null
  <2>1. i \in DOMAIN devices
    BY <1>1, <1>2, <1>4, <1>6 DEF RequestShape
  <2>2. PICK d, s, e : d = devices[i] /\ s = Derived(d, t) ++ d.settings /\ e = [d EXCEPT !.settings = s]
    OBVIOUS
  <2>3. devices' = [devices EXCEPT ![i] = e]
    BY <1>4, <1>6, <2>1, <2>2 DEF Configure
  <2>4. DeviceSettled(d, buses)
    BY <2>1, <2>2 DEF SettledInv, Settled, DevicesSettled
  <2>5. {"transport", "backend", "faults", "settings"} \subseteq DOMAIN d
    BY <2>4 DEF DeviceSettled, DeviceKeys
  <2>6. /\ DOMAIN e = DOMAIN d /\ e.settings = s /\ \A k \in DOMAIN d : k # "settings" => e[k] = d[k]
    BY <2>2, <2>5
  <2>7. SameDevice(d, e)
    BY <2>6 DEF SameDevice
  <2>8. e.transport = d.transport /\ e.backend = d.backend /\ e.faults = d.faults
    BY <2>5, <2>6
  <2>9. ConfigSettled(d)
    BY <2>4 DEF DeviceSettled
  <2>10. SettingsSettled(d.transport, s)
    <3>1. PICK tr, old : tr = d.transport /\ old = d.settings
      OBVIOUS
    <3>2. SettingsSettled(tr, old) /\ tr \in Transports
      BY <2>4, <2>9, <3>1 DEF ConfigSettled, DeviceSettled
    <3>3. CASE tr = "uart"
      BY <2>2, <3>1, <3>2, <3>3, DerivedSettled
    <3>4. CASE tr # "uart"
      <4>1. SettingsSettled(tr, Derived(d, t) ++ old)
        BY <3>2, <3>4, DerivedBeside
      <4> QED BY <2>2, <3>1, <4>1
    <3> QED BY <3>3, <3>4
  <2>11. ConfigSettled(e)
    BY <2>6, <2>8, <2>9, <2>10 DEF ConfigSettled
  <2> QED BY <1>1, <1>3, <2>1, <2>2, <2>3, <2>7, <2>11, ChangedSettled
<1> QED BY <1>5, <1>6

LEMMA CountFaultSettled ==
  ASSUME IInv, SettledInv, NEW w \in Workers, CountFault(w)
  PROVE  SettledInv'
<1>1. req[w].pc = "count" /\ Goto(w, "savefault") /\ UNCHANGED <<buses, file, rpc>>
  BY DEF CountFault
<1>2. RequestShape(req[w], devices) /\ DOMAIN req = Workers
  BY DEF IInv, WorkerInv
<1>3. req'[w].pc = "savefault"
  BY <1>1, <1>2 DEF Goto, RequestShape
<1>4. PICK i, left : i = req[w].dev /\ left = req[w].fault.remaining.n - 1
  OBVIOUS
<1>5. left \in Nat /\ i \in DOMAIN devices \cup {Null}
  BY <1>1, <1>2, <1>4 DEF RequestShape
<1>6. devices' = IF i = Null THEN devices
                 ELSE IF left = 0 THEN [devices EXCEPT ![i].faults = UsedUp(@)]
                 ELSE IF req[w].current THEN [devices EXCEPT ![i].faults.remaining = Plain(left)]
                 ELSE devices
  BY <1>4 DEF CountFault
<1>7. CASE devices' = devices
  BY <1>1, <1>3, <1>7, GoneSettled
<1>8. CASE i # Null /\ (left = 0 \/ req[w].current)
  <2>1. i \in DOMAIN devices
    BY <1>5, <1>8
  <2>2. PICK d, f, g, e : /\ d = devices[i] /\ f = d.faults
                          /\ g = IF left = 0 THEN UsedUp(f) ELSE [f EXCEPT !.remaining = Plain(left)]
                          /\ e = [d EXCEPT !.faults = g]
    OBVIOUS
  <2>3. devices' = [devices EXCEPT ![i] = e]
    BY <1>6, <1>8, <2>1, <2>2
  <2>4. DeviceSettled(d, buses)
    BY <2>1, <2>2 DEF SettledInv, Settled, DevicesSettled
  <2>5. {"transport", "backend", "faults", "settings"} \subseteq DOMAIN d
    BY <2>4 DEF DeviceSettled, DeviceKeys
  <2>6. /\ DOMAIN e = DOMAIN d /\ e.faults = g /\ \A k \in DOMAIN d : k # "faults" => e[k] = d[k]
    BY <2>2, <2>5
  <2>7. SameDevice(d, e)
    BY <2>6 DEF SameDevice
  <2>8. e.transport = d.transport /\ e.backend = d.backend /\ e.settings = d.settings
    BY <2>5, <2>6
  <2>9. ConfigSettled(d) /\ FaultsSettled(f)
    BY <2>2, <2>4 DEF DeviceSettled, ConfigSettled
  <2>10. FaultsSettled(g)
    <3>1. CASE left = 0
      BY <2>2, <3>1, UsedUpSettled
    <3>2. CASE left # 0
      BY <1>5, <2>2, <2>9, <3>2, FaultsCounted
    <3> QED BY <3>1, <3>2
  <2>11. ConfigSettled(e)
    BY <2>6, <2>8, <2>9, <2>10 DEF ConfigSettled
  <2> QED BY <1>1, <1>3, <2>1, <2>2, <2>3, <2>7, <2>11, ChangedSettled
<1> QED BY <1>6, <1>7, <1>8

LEMMA UpdateBeginSettled ==
  ASSUME IInv, SettledInv, NEW i \in DOMAIN devices, NEW patch \in Patches, UpdateBegin(i, patch)
  PROVE  SettledInv'
<1>1. PICK bs, d, c, e, new : /\ bs = buses /\ d = devices[i] /\ c = Merge(DeviceSaved(devices[i]), patch)
                              /\ e = Device(c, bs) /\ new = [dev |-> i, patch |-> patch, new |-> e]
  OBVIOUS
<1>2. DeviceOK(c, bs) /\ SamePlace(e, d) /\ rpc' = new
  BY <1>1 DEF UpdateBegin
<1>3. UNCHANGED <<buses, devices, file, req, unsaved>>
  BY DEF UpdateBegin
<1>4. \A j, k \in DOMAIN bs : bs[j].id = bs[k].id => j = k
  BY <1>1 DEF SettledInv, Settled, BusesSettled
<1>5. DeviceSettled(e, bs)
  BY <1>1, <1>2, <1>4, DeviceStays
<1>6. ConfigSettled(e) /\ e.transport = d.transport
  BY <1>2, <1>5 DEF DeviceSettled, SamePlace
<1>7. new.dev = i /\ new.new = e
  BY <1>1
<1>8. devices'[new.dev].transport = e.transport
  BY <1>1, <1>3, <1>6, <1>7
<1>9. UpdateSettled(rpc', devices')
  BY <1>2, <1>6, <1>7, <1>8 DEF UpdateSettled, ConfigSettled
<1>10. Saving(req) => Saving(req')
  BY <1>3
<1> QED BY <1>3, <1>9, <1>10, SettledFrame

LEMMA UpdateEndSettled ==
  ASSUME IInv, SettledInv, UpdateEnd
  PROVE  SettledInv'
<1>1. PICK i, new : i = rpc.dev /\ new = rpc.new
  OBVIOUS
<1>2. rpc # Null /\ rpc' = Null /\ buses' = buses /\ devices' = Assigned(i, new)
  BY <1>1 DEF UpdateEnd
<1>3. Save \/ (unsaved' = TRUE /\ file' = file)
  BY DEF UpdateEnd
<1>4. i \in DOMAIN devices
  BY <1>1, <1>2 DEF IInv, RpcInv
<1>5. PICK bs, ds, es, d, e : bs = buses /\ ds = devices /\ es = devices' /\ d = devices[i] /\ e = devices'[i]
  OBVIOUS
<1>6. Settled(bs, ds) /\ UpdateSettled(rpc, ds) /\ DeviceSettled(d, bs)
  BY <1>4, <1>5 DEF SettledInv, Settled, DevicesSettled
<1>7. e = [d EXCEPT !.metadata = new.metadata, !.faults = new.faults, !.settings = new.settings,
                    !.backend = new.backend]
      /\ es = [ds EXCEPT ![i] = e]
  BY <1>2, <1>4, <1>5 DEF Assigned
<1>8. {"transport", "backend", "metadata", "faults", "settings"} \subseteq DOMAIN d
  BY <1>6 DEF DeviceSettled, DeviceKeys
<1>9. /\ DOMAIN e = DOMAIN d /\ e.faults = new.faults /\ e.settings = new.settings /\ e.backend = new.backend
      /\ e.transport = d.transport
      /\ \A k \in DOMAIN d \ {"backend", "metadata", "faults", "settings"} : e[k] = d[k]
  BY <1>7, <1>8
<1>10. SameDevice(d, e)
  BY <1>9 DEF SameDevice
<1>11. ConfigSettled(e)
  BY <1>1, <1>2, <1>5, <1>6, <1>9 DEF UpdateSettled, ConfigSettled
<1>12. Settled(bs, es)
  <2>1. i \in DOMAIN ds /\ SameDevice(ds[i], e)
    BY <1>4, <1>5, <1>10
  <2> QED BY <1>6, <1>7, <1>11, <2>1, OneChanged
<1>13. Settled(buses', devices') /\ UpdateSettled(rpc', devices')
  BY <1>2, <1>5, <1>12 DEF UpdateSettled
<1>14. CASE Save
  BY <1>13, <1>14, SavedInvSettled
<1>15. CASE unsaved' = TRUE /\ file' = file
  BY <1>13, <1>15 DEF SettledInv
<1> QED BY <1>3, <1>14, <1>15

LEMMA SetAttachedSettled ==
  ASSUME SettledInv, rpc = Null, NEW i \in DOMAIN devices, NEW b, SetAttached(i, b)
  PROVE  SettledInv'
<1>1. devices' = [devices EXCEPT ![i].attached = b] /\ Save /\ buses' = buses /\ rpc' = Null
  BY DEF SetAttached
<1>2. PICK bs, ds, es, d, e : bs = buses /\ ds = devices /\ es = devices' /\ d = devices[i] /\ e = [d EXCEPT !.attached = b]
  OBVIOUS
<1>3. Settled(bs, ds) /\ DeviceSettled(d, bs) /\ es = [ds EXCEPT ![i] = e]
  BY <1>1, <1>2 DEF SettledInv, Settled, DevicesSettled
<1>4. {"transport", "backend", "faults", "settings"} \subseteq DOMAIN d
  BY <1>3 DEF DeviceSettled, DeviceKeys
<1>5. DOMAIN e = DOMAIN d /\ \A k \in DOMAIN d : k # "attached" => e[k] = d[k]
  BY <1>2
<1>6. SameDevice(d, e)
  BY <1>5 DEF SameDevice
<1>7. e.transport = d.transport /\ e.backend = d.backend /\ e.faults = d.faults /\ e.settings = d.settings
  BY <1>4, <1>5
<1>8. ConfigSettled(e)
  BY <1>3, <1>7 DEF DeviceSettled, ConfigSettled
<1>9. Settled(bs, es)
  BY <1>2, <1>3, <1>6, <1>8, OneChanged
<1>10. Settled(buses', devices') /\ UpdateSettled(rpc', devices')
  BY <1>1, <1>2, <1>9 DEF UpdateSettled
<1> QED BY <1>1, <1>10, SavedInvSettled

LEMMA BridgeFailsSettled ==
  ASSUME SettledInv, BridgeFails
  PROVE  SettledInv'
<1>1. UNCHANGED <<buses, devices, file, rpc, req, unsaved>>
  BY DEF BridgeFails
<1>2. UpdateSettled(rpc', devices')
  BY <1>1 DEF SettledInv
<1> QED BY <1>1, <1>2, SettledFrame

LEMMA StutterSettled ==
  ASSUME SettledInv, UNCHANGED vars
  PROVE  SettledInv'
<1>1. UNCHANGED <<buses, devices, file, rpc, req, unsaved>>
  BY Zenon DEF vars
<1>2. UpdateSettled(rpc', devices')
  BY <1>1 DEF SettledInv
<1> QED BY <1>1, <1>2, SettledFrame

\* What a restart installs is what the file holds.
LEMMA RestartSettled ==
  ASSUME IInv, SettledInv, Restart
  PROVE  SettledInv'
<1>1. rpc' = Null /\ file' = {s \in file : Restorable(s) => Installs(Model(s.model))}
  BY Zenon DEF Restart
<1>2. FileSettled(file) /\ FileInv
  BY DEF IInv, SettledInv
<1>3. FileSettled(file') /\ UpdateSettled(rpc', devices')
  BY <1>1, <1>2 DEF FileSettled, UpdateSettled
<1>4. ASSUME Emptied PROVE SettledInv'
  <2>1. Settled(buses', devices') /\ buses' = <<>>
    BY <1>4, EmptiedSettled
  <2>2. Kept(buses', devices', file')
    BY <2>1 DEF Kept
  <2> QED BY <1>3, <2>1, <2>2 DEF SettledInv
<1>5. ASSUME NEW s \in file, Restorable(s), Installs(Model(s.model)), Installed(Model(s.model), s.attached)
      PROVE  SettledInv'
  <2>1. PICK raw, m, bs, ds, as : raw = s.model /\ m = Model(raw) /\ bs = Buses(raw) /\ ds = Devices(raw) /\ as = s.attached
    OBVIOUS
  <2>2. /\ ModelOK(raw) /\ IsArray(raw.buses) /\ IsArray(raw.devices) /\ DOMAIN as = DOMAIN raw.devices
    BY <1>2, <1>5, <2>1 DEF FileInv, Restorable
  <2>3. Settled(bs, ds) /\ DOMAIN ds = DOMAIN raw.devices
    BY <2>1, <2>2, ModelStays
  <2>4. \A i \in DOMAIN ds : /\ "attached" \notin DOMAIN ds[i] /\ ds[i] = [k \in DOMAIN ds[i] |-> ds[i][k]]
                             /\ Settings(ds[i].transport, ds[i].settings) = ds[i].settings
    BY <2>1, <2>2, ModelStays
  <2>5. m.buses = bs /\ m.devices = ds /\ Installed(m, as)
    BY <1>5, <2>1 DEF Model
  <2>6. Settled(buses', devices')
    BY <2>3, <2>4, <2>5, InstallSettled
  <2>7. \A r \in file' : r = s
    BY <1>1, <1>2, <1>5 DEF FileInv
  <2>8. s \in file'
    BY <1>1, <1>5
  <2>9. PICK es : es = devices'
    OBVIOUS
  <2>10. DOMAIN es = DOMAIN ds /\ \A i \in DOMAIN ds : es[i] = ds[i] ++ [attached |-> as[i]]
    BY <2>5, <2>9 DEF Installed
  <2>11. \A i \in DOMAIN ds : DeviceSettled(ds[i], bs)
    BY <2>3 DEF Settled, DevicesSettled
  <2>12. \A i \in DOMAIN ds : es[i].attached = as[i] /\ Restored(es[i]) = ds[i]
    <3> SUFFICES ASSUME NEW i \in DOMAIN ds
                 PROVE  es[i].attached = as[i] /\ Restored(es[i]) = ds[i]
      OBVIOUS
    <3>1. PICK d, e, a : d = ds[i] /\ e = es[i] /\ a = as[i]
      OBVIOUS
    <3>2. /\ DeviceSettled(d, bs) /\ "attached" \notin DOMAIN d /\ e = d ++ [attached |-> a]
          /\ d = [k \in DOMAIN d |-> d[k]] /\ Settings(d.transport, d.settings) = d.settings
      BY <2>4, <2>10, <2>11, <3>1
    <3>3. e.attached = a /\ Restored(e) = d
      BY <3>2, AttachmentAdded
    <3> QED BY <3>1, <3>3
  <2>13. ds = [i \in DOMAIN es |-> Restored(es[i])]
    <3>1. ds = [i \in DOMAIN ds |-> ds[i]]
      BY <2>1 DEF Devices
    <3> QED BY <2>10, <2>12, <3>1
  <2>14. as = [i \in DOMAIN es |-> es[i].attached]
    <3>1. as = [i \in DOMAIN as |-> as[i]]
      BY <1>2, <1>5, <2>1 DEF FileSettled, SnapshotOf
    <3> QED BY <2>2, <2>3, <2>10, <2>12, <3>1
  <2>15. Kept(buses', es, file')
    BY <2>1, <2>5, <2>7, <2>8, <2>13, <2>14 DEF Kept
  <2> QED BY <1>3, <2>6, <2>9, <2>15 DEF SettledInv
<1> QED BY <1>4, <1>5, Zenon DEF Restart

-----------------------------------------------------------------------------
(* Both invariants together.                                               *)

LEMMA InitSettled == Init => SettledInv
<1> SUFFICES ASSUME Init PROVE SettledInv
  OBVIOUS
<1>1. buses = <<>> /\ devices = <<>> /\ file = {} /\ rpc = Null
  BY DEF Init
<1>2. Settled(buses, devices)
  BY <1>1, EmptySettled
<1>3. UpdateSettled(rpc, devices) /\ FileSettled(file) /\ Kept(buses, devices, file)
  BY <1>1 DEF UpdateSettled, FileSettled, Kept
<1> QED BY <1>2, <1>3 DEF SettledInv

LEMMA NextSettled == IInv /\ SettledInv /\ [Next]_vars => SettledInv'
<1> SUFFICES ASSUME IInv, SettledInv, [Next]_vars PROVE SettledInv'
  OBVIOUS
<1>1. ASSUME NEW i \in DOMAIN devices, NEW b \in Backends, Attach(i, b) PROVE SettledInv'
  BY <1>1, SetAttachedSettled DEF Attach, CallAllowed
<1>2. ASSUME NEW i \in DOMAIN devices, Detach(i) PROVE SettledInv'
  BY <1>2, SetAttachedSettled DEF Detach, CallAllowed
<1>3. ASSUME NEW w \in Workers,
             \/ Acquire(w) \/ WorkerSaves(w) \/ MeetFault(w) \/ ReadFault(w) \/ CountFault(w)
             \/ \E t \in Termios : Configure(w, t)
      PROVE  SettledInv'
  BY <1>3, AcquireSettled, WorkerSavesSettled, MeetFaultSettled, ReadFaultSettled, CountFaultSettled,
     ConfigureSettled, Zenon
<1>4. ASSUME Next PROVE SettledInv'
  BY <1>1, <1>2, <1>3, <1>4, ApplySettled, ResyncSettled, UpdateBeginSettled, UpdateEndSettled, TakeSettled,
     BridgeFailsSettled, RestartSettled, Zenon DEF Next
<1> QED BY <1>4, StutterSettled

LEMMA SettledInductive == Spec => [](IInv /\ SettledInv)
<1>1. Init => IInv /\ SettledInv
  BY InitInv, InitSettled
<1>2. IInv /\ SettledInv /\ [Next]_vars => IInv' /\ SettledInv'
  BY NextInv, NextSettled
<1> QED BY <1>1, <1>2, PTL DEF Spec

-----------------------------------------------------------------------------
(* Snapshots: the theorems.                                                *)

LEMMA SnapshotReinstalls ==
  ASSUME NEW bs, NEW ds, Settled(bs, ds), NEW s, s = SnapshotOf(bs, ds)
  PROVE  ModelOK(s.model) /\ (Installs(Model(s.model)) \/ TooLarge(s.model))
<1>1. PICK raw : raw = s.model
  OBVIOUS
<1>2. raw = SavedModel(bs, ds)
  BY <1>1 DEF SnapshotOf
<1> QED BY <1>1, <1>2, SavedAccepted, SavedInstalls

\* runtime.resync, the rollback of runtime.apply and restore_snapshot_if_available: what the
\* daemon serves and what it has saved is accepted and installed again, but for a number too
\* large for DEVICE_ADD or the kernel and for the attachments of a device that an update has
\* made a template or a managed device.
THEOREM AlwaysReinstallable == Spec => []Reinstallable
<1>1. ASSUME IInv, SettledInv PROVE Reinstallable
  <2>1. PICK bs, ds : bs = buses /\ ds = devices
    OBVIOUS
  <2>2. Settled(bs, ds) /\ FileSettled(file) /\ ServedInv /\ SavedInv /\ DeviceInv
    BY <1>1, <2>1 DEF IInv, SettledInv
  <2>3. PICK s : s = Snapshot
    OBVIOUS
  <2>4. s = SnapshotOf(bs, ds)
    BY <2>1, <2>3 DEF Snapshot, Export, Attachments, SnapshotOf, SavedModel
  <2>5. ModelOK(s.model) /\ (Installs(Model(s.model)) \/ TooLarge(s.model))
    BY <2>2, <2>4, SnapshotReinstalls
  <2>6. AttachmentsOK(s) \/ switched
    <3> SUFFICES ASSUME ~switched, NEW i \in DOMAIN s.attached, s.attached[i] # Null
                 PROVE  External(s.model.devices[i].backend)
      BY DEF AttachmentsOK
    <3>1. DOMAIN s.attached = DOMAIN devices /\ s.attached[i] = devices[i].attached
      BY <2>3 DEF Snapshot, Attachments
    <3>2. s.model.devices[i] = DeviceSaved(devices[i])
      BY <2>3, <3>1 DEF Snapshot, Export
    <3>3. DeviceShape(devices[i])
      BY <2>2, <3>1 DEF DeviceInv
    <3>4. s.model.devices[i].backend = devices[i].backend
      BY <3>2, <3>3 DEF DeviceSaved, DeviceShape
    <3> QED BY <2>2, <3>1, <3>4 DEF ServedInv
  <2>7. ASSUME NEW r \in file
        PROVE  /\ ModelOK(r.model) /\ (Installs(Model(r.model)) \/ TooLarge(r.model))
               /\ AttachmentsOK(r) \/ switched
    <3>1. PICK cs, es : Settled(cs, es) /\ r = SnapshotOf(cs, es)
      BY <2>2 DEF FileSettled
    <3>2. ModelOK(r.model) /\ (Installs(Model(r.model)) \/ TooLarge(r.model))
      BY <3>1, SnapshotReinstalls
    <3> QED BY <2>2, <3>2 DEF SavedInv
  <2> QED BY <2>3, <2>5, <2>6, <2>7 DEF Reinstallable
<1> QED BY <1>1, SettledInductive, PTL

\* restore_snapshot_if_available gives back the configuration the daemon serves, unless the
\* last write of the file failed, an update is half-way or raised half-way, or a worker is
\* between its change and its save.  Of a file whose attachments are refused nothing is said;
\* one that cannot be installed holds the configuration, and restores nothing.
THEOREM RestartRestores == Spec => []RestartKeepsConfig
<1>1. ASSUME SettledInv PROVE RestartKeepsConfig
  <2>1. unsaved \/ Saving(req) \/ Kept(buses, devices, file)
    BY <1>1 DEF SettledInv
  <2>2. Saving(req) => RestartKeepsConfig
    BY DEF Saving, RestartKeepsConfig
  <2>3. Kept(buses, devices, file) => RestartKeepsConfig
    BY DEF Kept, RestartKeepsConfig, Attachments
  <2>4. unsaved => RestartKeepsConfig
    BY DEF RestartKeepsConfig
  <2> QED BY <2>1, <2>2, <2>3, <2>4
<1> QED BY <1>1, SettledInductive, PTL

=============================================================================

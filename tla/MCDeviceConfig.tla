--------------------------- MODULE MCDeviceConfig ---------------------------
(* Small instances of DeviceConfig for TLC. *)
EXTENDS DeviceConfig

CONSTANTS w1, w2, b1

Named(stem, num) ==
  [stem |-> stem, num |-> num, zero |-> FALSE, pad |-> FALSE, legal |-> TRUE, long |-> FALSE]
WideStem == "ttyUpperRackMeasurementBenchPort"
Padded(x) == [x EXCEPT !.pad = TRUE]
Text(n) == [n |-> n, how |-> "text"]

UartBus == [id |-> Named("u", -1), transport |-> "uart", name |-> Named("u", -1)]
SpiBus(n) == [id |-> Named("s", n), transport |-> "spi", name |-> Named("spi", n)]
I2cBus(n) == [id |-> Named("i", n), transport |-> "i2c", name |-> Named("i2c-", n)]
Zeroed(bus) == [bus EXCEPT !.id.stem = "z", !.name.zero = TRUE]

Port(id, n) ==
  [id |-> Named(id, -1), bus |-> Padded(Named("u", -1)), transport |-> "uart",
   port_name |-> Named("ttyS", n), faults |-> [mode |-> "short-reply", remaining |-> Text(2)],
   backend |-> [kind |-> "template", template |-> "uart-script",
                control_defaults |-> <<<<"cts", Bool(TRUE)>>>>]]
Chip(id, cs) ==
  [id |-> Named(id, -1), bus |-> Named("s", 0), transport |-> "spi", chip_select |-> Text(cs),
   backend |-> [kind |-> "controller"]]
Memory(id, address) ==
  [id |-> Named(id, -1), bus |-> Named("i", 1), transport |-> "i2c", address |-> address,
   backend |-> [kind |-> "template", template |-> "i2c-register-bank", size |-> Plain(16),
                registers |-> <<<<Plain(1), Text(7)>>, <<Text(1), Plain(8)>>>>,
                clear_on_read |-> <<Text(2), Plain(2), Plain(1)>>,
                write_effects |-> <<<<Text(3), <<<<Plain(4), Plain(0)>>>>>>>>]]
Model1(bs, ds) == [buses |-> bs, devices |-> ds]

\* The model whose life is explored, and single deviations from models like it.
Main == Model1(<<UartBus, SpiBus(0)>>, <<Port("p", 0), Chip("c", 0) ++ [faults |-> [mode |-> "timeout"]]>>)
MCRawModels ==
  {Main,
   Model1(<<SpiBus(0)>>, <<Chip("c", 0), Chip("d", 0)>>),
   Model1(<<SpiBus(0)>>, <<Chip("c", 0), [Chip("d", 1) EXCEPT !.id = Padded(Named("c", -1))]>>),
   Model1(<<UartBus>>, <<Port("p", 0), [Port("q", 0) EXCEPT !.port_name = Padded(@)]>>),
   Model1(<<UartBus>>, <<Port("p", 9)>>),
   Model1(<<UartBus>>, <<[Port("p", 0) EXCEPT !.port_name.stem = WideStem]>>),
   Model1(<<SpiBus(0), SpiBus(2 * ShortLimit)>>, <<Chip("c", 0)>>),
   Model1(<<SpiBus(ShortLimit), SpiBus(0)>>, <<Chip("c", 0)>>),
   Model1(<<I2cBus(WordLimit \div 2)>>, <<>>),
   Model1(<<I2cBus(1), Zeroed(I2cBus(1))>>, <<Memory("m", Plain(5))>>),
   Model1(<<I2cBus(1)>>, <<Memory("m", Plain(5)), Memory("n", Text(5))>>),
   Model1(<<I2cBus(1)>>, <<Memory("m", Bool(TRUE))>>),
   Model1(<<I2cBus(1)>>, <<[Memory("m", Plain(6)) EXCEPT !.backend.registers = <<<<Plain(16), Plain(0)>>>>]>>),
   Model1(<<I2cBus(1)>>, <<Memory("m", Text(5))>>),
   Model1(<<SpiBus(0)>>, <<Chip("c", 0) ++ [settings |-> [max_speed_hz |-> Plain(WordLimit)]]>>),
   Model1(<<SpiBus(0)>>, <<Chip("c", 0), [Chip("d", 1) EXCEPT !.backend.kind = "worker"]>>)}

MCPatches ==
  {[faults   |-> [mode |-> "errno", remaining |-> Plain(1)],
    settings |-> [max_speed_hz |-> Plain(WordLimit), baud_rate |-> Text(9600)]],
   [settings |-> None,
    backend |-> [kind |-> "controller", worker |-> [command |-> <<"run">>]]],
   [backend |-> [kind |-> "template", template |-> "spi-script", registers |-> <<<<Text(1), Plain(9)>>>>,
                 write_effects |-> <<<<Text(3), <<<<Text(5), Plain(1)>>>>>>>>,
                 flash_jedec_id |-> [bytes |-> "ef", how |-> "text"],
                 responses |-> <<<<[bytes |-> "9f", how |-> "text"], Hex("01")>>, <<Hex("9f"), Hex("02")>>>>]]}

MCWideStems == {WideStem}
MCSymmetry == Permutations(Workers)

MCTermios ==
  {[baud |-> 0, bits |-> 7, stop |-> 2, parity |-> "even", xon |-> TRUE, rts |-> FALSE]}

=============================================================================

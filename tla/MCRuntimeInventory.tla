------------------------- MODULE MCRuntimeInventory -------------------------
(* Small instances of RuntimeInventory for TLC. *)
EXTENDS RuntimeInventory

Bus(m, h) == [model |-> m, handle |-> h, bus |-> 0]
Device(m, h, b) == [model |-> m, handle |-> h, bus |-> b]

\* "small": one bus with one device.  "wide": two buses, a device on the second.
MCModels == {"small", "wide"}

MCPlan ==
  [m \in MCModels |->
     IF m = "small" THEN <<Bus(m, 1), Device(m, 1024, 1)>>
     ELSE <<Bus(m, 1), Bus(m, 2), Device(m, 1024, 2)>>]

=============================================================================

---------------------------- MODULE MCTraceWriter ----------------------------
(* Small instances of TraceWriter for TLC. *)
EXTENDS TraceWriter

CONSTANTS p1, p2

\* Short and long records.
MCSize == [r \in 1..MaxRecords |-> IF r % 3 = 0 THEN 2 ELSE 1]

=============================================================================

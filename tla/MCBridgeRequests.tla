-------------------------- MODULE MCBridgeRequests --------------------------
(* Small instances of BridgeRequests for TLC. *)
EXTENDS BridgeRequests

\* The bounds are used up and the daemon is gone: nothing is left to do.
Exhausted ==
  /\ link = "closed" /\ session = MaxSessions
  /\ \A o \in Objects : pc[o] = "free"
  /\ nextId = MaxRequests
  /\ UNCHANGED vars

\* RESET and a call wait for each other: the daemon is stuck in its ioctl.
Stuck == Wedged /\ UNCHANGED vars

MCSpec == Init /\ [][Next \/ Exhausted \/ Stuck]_vars

MCFairSpec == MCSpec /\ Fairness

=============================================================================

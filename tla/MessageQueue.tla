----------------------------- MODULE MessageQueue -----------------------------
(***************************************************************************)
(* What one direction of the shared-memory bridge promises: a bounded      *)
(* queue of messages, delivered once each, in order and unchanged.  When a *)
(* message is refused is left open here.                                   *)
(***************************************************************************)
EXTENDS Naturals, Sequences

CONSTANTS Message, Capacity

VARIABLES
  queue,  \* messages accepted and not yet taken
  taken   \* the last message the reader took; <<>> at first

Init ==
  /\ queue = <<>>
  /\ taken = <<>>

Put(m) ==
  /\ Len(queue) < Capacity
  /\ queue' = Append(queue, m)
  /\ UNCHANGED taken

Take ==
  /\ queue # <<>>
  /\ taken' = Head(queue)
  /\ queue' = Tail(queue)

Next == Take \/ \E m \in Message : Put(m)

Spec == Init /\ [][Next]_<<queue, taken>>

===============================================================================

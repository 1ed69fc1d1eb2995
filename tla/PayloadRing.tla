----------------------------- MODULE PayloadRing -----------------------------
(***************************************************************************)
(* One ring of the bridge's shared region with its zone of the payload     *)
(* arena: descriptors in a ring indexed by free-running 32-bit counters,   *)
(* payload bytes in a zone addressed by free-running 32-bit offsets, never *)
(* split across the end of the zone.                                       *)
(*                                                                         *)
(* writer = "kernel" is the transport ring: the kernel writes under        *)
(* runtime->lock, the daemon reads (_drain_transport_ring).                *)
(* writer = "daemon" is the control or reply ring: the daemon writes and   *)
(* its submit ioctl makes the kernel read the entry before the next write. *)
(*                                                                         *)
(* A payload is len copies of one value: enough to see a byte overwritten  *)
(* by another message.                                                     *)
(***************************************************************************)
EXTENDS Integers, Sequences

CONSTANTS
  Writers,    \* the writers to consider: a subset of {"kernel", "daemon"}
  Entries,    \* ring entries
  Zone,       \* zone_size, in bytes
  W,          \* 2^32: the counters are u32
  MaxPayload, \* SENSORIUM_RUNTIME_MAX_PAYLOAD
  Values      \* byte values

\* The entries and the zone of the defaults divide 2^32 (128 entries, zones of
\* 2 and 4 MiB), and are far below it, as payloads are (4 MiB).
ASSUME RingAssumption ==
  /\ Writers \subseteq {"kernel", "daemon"}
  /\ Entries \in Nat \ {0} /\ Zone \in Nat \ {0} /\ W \in Nat \ {0}
  /\ W % Entries = 0 /\ W % Zone = 0 /\ Entries < W
  /\ MaxPayload \in Nat /\ MaxPayload + 2 * Zone < W

VARIABLES
  writer,       \* which side writes this ring; never changes
  ring,         \* descriptor slots
  arena,        \* bytes of the zone
  ringHead, ringTail,
  payloadHead, payloadTail,
  heldDesc,     \* descriptor whose payload the reader has not released yet
  got           \* the last message the reader copied out

ringVars == <<writer, ring, arena, ringHead, ringTail, payloadHead, payloadTail, heldDesc, got>>

NoByte == "no byte"
NoDesc == [off |-> 0, len |-> -1]

-----------------------------------------------------------------------------
(* sensorium_runtime_reserve_payload and _reserve_payload.                 *)

\* Mutant: a payload may straddle the end of the zone.
StraddlingStart(len) == payloadTail

\* A payload that would cross the end of the zone starts at the next one.
RoundedStart(len) ==
  IF (payloadTail % Zone) + len > Zone
  THEN payloadTail + (Zone - (payloadTail % Zone))
  ELSE payloadTail

\* The kernel adds in u32, the daemon in unbounded integers.
PayloadStart(len) ==
  IF writer = "kernel" THEN RoundedStart(len) % W ELSE RoundedStart(len)

\* The kernel subtracts in u64, where a negative result is huge; the daemon's
\* result may be negative, and its descriptor field only takes a u32 (struct
\* raises an error for more).
Fits(len) ==
  LET end == PayloadStart(len) + len IN
  \/ len = 0
  \/ /\ writer = "kernel"
     /\ end >= payloadHead /\ end - payloadHead <= Zone
  \/ /\ writer = "daemon"
     /\ end - payloadHead <= Zone
     /\ PayloadStart(len) < W

RingFull ==
  IF writer = "kernel" THEN (ringTail - ringHead) % W >= Entries
  ELSE ringTail - ringHead >= Entries

CanPut(len) == ~RingFull /\ Fits(len)

\* queue_transport_locked and _submit_ring_entry: copy the payload, publish the
\* descriptor, advance both tails.
Put(len, v) ==
  /\ writer = "daemon" => ringHead = ringTail /\ heldDesc = NoDesc
  /\ CanPut(len)
  /\ LET off == IF len = 0 THEN payloadTail ELSE PayloadStart(len) IN
     /\ arena' = [b \in 0..Zone-1 |->
                    IF off % Zone <= b /\ b < (off % Zone) + len THEN v ELSE arena[b]]
     /\ ring' = [ring EXCEPT ![ringTail % Entries] = [off |-> off, len |-> len]]
     /\ payloadTail' = (off + len) % W
  /\ ringTail' = (ringTail + 1) % W
  /\ UNCHANGED <<writer, ringHead, payloadHead, heldDesc, got>>

\* The bytes a descriptor stands for.
Payload(d) ==
  LET first == d.off % Zone IN
  [i \in 1..d.len |-> IF first + i <= Zone THEN arena[first + i - 1] ELSE NoByte]

\* The reader copies the payload out and advances the ring head ...
Take ==
  /\ heldDesc = NoDesc
  /\ ringHead # ringTail
  /\ LET d == ring[ringHead % Entries] IN
     /\ got' = Payload(d)
     /\ heldDesc' = d
  /\ ringHead' = (ringHead + 1) % W
  /\ UNCHANGED <<writer, ring, arena, ringTail, payloadHead, payloadTail>>

\* Mutant: frees everything written so far.
FreeAllPayload ==
  /\ heldDesc # NoDesc
  /\ payloadHead' = payloadTail
  /\ heldDesc' = NoDesc
  /\ UNCHANGED <<writer, ring, arena, ringHead, ringTail, payloadTail, got>>

\* Mutant: forgets the bytes skipped at the end of the zone.
FreeLength ==
  /\ heldDesc # NoDesc
  /\ payloadHead' = (payloadHead + heldDesc.len) % W
  /\ heldDesc' = NoDesc
  /\ UNCHANGED <<writer, ring, arena, ringHead, ringTail, payloadTail, got>>

\* ... and then the payload head.
FreePayload ==
  /\ heldDesc # NoDesc
  /\ payloadHead' = (heldDesc.off + heldDesc.len) % W
  /\ heldDesc' = NoDesc
  /\ UNCHANGED <<writer, ring, arena, ringHead, ringTail, payloadTail, got>>

RingInit ==
  /\ writer \in Writers
  /\ ring = [s \in 0..Entries-1 |-> NoDesc]
  /\ arena = [b \in 0..Zone-1 |-> NoByte]
  /\ ringHead = 0 /\ ringTail = 0
  /\ payloadHead = 0 /\ payloadTail = 0
  /\ heldDesc = NoDesc
  /\ got = <<>>

RingNext ==
  \/ \E len \in 0..MaxPayload, v \in Values : Put(len, v)
  \/ Take
  \/ FreePayload

RingSpec == RingInit /\ [][RingNext]_ringVars

-----------------------------------------------------------------------------
\* Entries not yet read.
Depth == (ringTail - ringHead) % W

Descriptors == [off : 0..W-1, len : -1..Zone]

RingTypeOK ==
  /\ writer \in {"kernel", "daemon"}
  /\ ring \in [0..Entries-1 -> Descriptors] /\ heldDesc \in Descriptors
  /\ arena \in [0..Zone-1 -> Values \cup {NoByte}]
  /\ ringHead \in 0..W-1 /\ ringTail \in 0..W-1
  /\ payloadHead \in 0..W-1 /\ payloadTail \in 0..W-1
  /\ Depth <= Entries

\* The ring is never overfull, and a queued payload lies inside its zone: neither
\* side ever touches the bytes of the neighbouring zone, although offsets run freely.
InsideZone ==
  /\ RingTypeOK
  /\ \A i \in 0..Depth-1 :
       LET d == ring[(ringHead + i) % Entries] IN (d.off % Zone) + d.len <= Zone

\* The messages in flight, decoded from the shared memory.
Queued == [i \in 1..Depth |-> Payload(ring[(ringHead + i - 1) % Entries])]

Message == {[i \in 1..n |-> v] : n \in 0..MaxPayload, v \in Values}

Fifo == INSTANCE MessageQueue WITH queue <- Queued, taken <- got,
                                   Capacity <- Entries

\* The ring implements the queue: no payload is overwritten before it is read,
\* none is lost, repeated or reordered, whatever wraps.
RingIsFifo == Fifo!Spec

\* Nothing is in flight and nothing is held.
Idle == ringHead = ringTail /\ heldDesc = NoDesc

\* The next payload may have to start at offset 2^32.
LastZone == payloadTail + Zone > W

\* An idle ring takes every payload up to half its zone, whatever was skipped at
\* the ends of zones before: -EBUSY from reserve_payload then means that a message
\* is in flight.  Only the last zone before the offsets wrap is excepted.
IdleAcceptsHalf == Idle /\ ~LastZone => \A len \in 0..(Zone \div 2) : CanPut(len)

-----------------------------------------------------------------------------
(* A strengthening that makes the properties inductive.                    *)

Entry(i) == ring[(ringHead + i) % Entries]

\* How far an offset is ahead of the payload head, and where a descriptor's payload ends.
Ahead(off) == (off - payloadHead) % W
End(d) == Ahead(d.off) + d.len

InFlight(d) == d.len >= 0 /\ (d.off % Zone) + d.len <= Zone /\ End(d) <= Ahead(payloadTail)

\* From the payload head to the payload tail, no more than a zone apart, lie the payloads
\* of the descriptor that is held and of the ring's entries, one after the other and each
\* inside a zone; the last ends at the payload tail.
FlightInv ==
  /\ Ahead(payloadTail) <= Zone
  /\ \A i \in 0..Depth-1 : InFlight(Entry(i))
  /\ \A i, j \in 0..Depth-1 : i < j => End(Entry(i)) <= Ahead(Entry(j).off)
  /\ heldDesc # NoDesc =>
       InFlight(heldDesc) /\ \A i \in 0..Depth-1 : End(heldDesc) <= Ahead(Entry(i).off)
  /\ Depth > 0 => End(Entry(Depth - 1)) = Ahead(payloadTail)
  /\ Depth = 0 /\ heldDesc # NoDesc => End(heldDesc) = Ahead(payloadTail)
  /\ Depth = 0 /\ heldDesc = NoDesc => payloadHead = payloadTail

=============================================================================

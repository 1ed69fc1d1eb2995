SPECIFICATION RingSpec
CONSTANTS
  Writers = {"kernel", "daemon"}
  Entries = 2
  Zone = 4
  W = 16
  MaxPayload = 4
  Values = {a, b}
INVARIANTS
  InsideZone
  IdleAcceptsHalf
PROPERTY
  RingIsFifo

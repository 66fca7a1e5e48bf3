\* Three unsent and two remembered packets: the ring wraps at five slots.
SPECIFICATION Spec
CONSTANTS
  HeadLength = 3
  TailLength = 2
  Packet     = {p0, p1, p2}
  ZeroedSlot = p0
INVARIANT  Inv
PROPERTY   ImplementsHistory

\* Packets of two bytes, a ring of three and a queue of two.
SPECIFICATION FairSpec
CONSTANTS
  Capacity    = 3
  PacketSize  = 2
  QueueLength = 2
  Modulus     = 9
  Byte        = {0, 1, 2, 3, 4, 5, 6, 7, 8}
  ZeroByte    = 0
  SleepLimit  = 1
  PollLimit   = 1
  PauseLimit  = 2
INVARIANTS
  TypeOK
  BytesInSequence
  GracefulMeansDrained
PROPERTIES
  ClosingReturns
  PollingEnds
  ImplementsStream

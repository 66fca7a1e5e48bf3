\* Two devices and four slots.  Sequence numbers (modulo 5) and times
\* (modulo 5, two per packet) start near their wrap and wrap at different
\* packets.
SPECIFICATION FairSpec
CONSTANTS
  HeadLength     = 2
  TailLength     = 2
  Device         = {d1, d2}
  SecureDevice   = {d1}
  Audio          = {a1}
  NoAudio        = NoAudio
  SeqModulus     = 5
  TimeModulus    = 5
  FrameCount     = 2
  StartingSeqNum = {4}
  StartingTime   = {2}
  MaxResets      = 3
  MaxTorn        = 2
  Packet         <- MCPacket
  ZeroedSlot     <- MCZeroed
INVARIANTS
  TypeOK
  CountersInStep
  BacklogInSequence
  MemoryInSequence
  SenderRunsWhenNeeded
  OpenDevicesAttached
  ResendFaithful
PROPERTIES
  ImplementsHistory
  WaitingIsSent

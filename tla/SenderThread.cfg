SPECIFICATION FairSpec
CONSTANTS
  Device = {d1, d2}
  Sender = {t1, t2, t3}
  None   = None
INVARIANTS Inv NoStall
PROPERTY PlayerReturns

SPECIFICATION MCSpec
CONSTANTS
  Device = {d1, d2}
  Manual = {d1}
  Level = {10, 20}
  MaxEvents = 3
  Unset = Unset
  None = None
INVARIANTS
  Inv
  StreamsKept
  OpenIsActivated
  ActivatedIsOpened
  DialogTruthful
  VolumeInStep
PROPERTIES
  CallsReturn

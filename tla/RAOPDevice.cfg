SPECIFICATION FairSpec
CONSTANTS
  Modulus = 5
  MaxTimeouts = 2
  None = None
INVARIANTS
  Inv
  AnswersInStep
  SessionKnown
PROPERTIES
  CallsReturn

SPECIFICATION Spec
CONSTANTS
  Modulus = 5
  MaxTimeouts = 2
  None = None
INVARIANT FlushFindsClient

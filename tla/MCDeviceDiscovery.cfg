SPECIFICATION MCSpec
CONSTANTS
  Ref = {r1, r2, r3}
  a = a
  b = b
  x = x
  Service = {a, b}
  Name = {x}
  DeviceName <- Names
  Supported = {a}
  Resolve = Resolve
  Host = Host
  Browse = Browse
  None = None
  MaxFaults = 1
  MaxChanges = 3
  Nameless = Nameless
  Listener = {options, menu}
  Dialog = {options}
INVARIANTS
  Inv
  OperationsOwned
  
  
  
  ListenersInformed
PROPERTIES
  
  CallsReturn
  

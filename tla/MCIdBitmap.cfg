SPECIFICATION Spec
CONSTANTS
  WordBits = 4
  DefaultId = 4
  TotalPorts = 12
INVARIANTS
  TypeOK
PROPERTIES
  ImplementsPool

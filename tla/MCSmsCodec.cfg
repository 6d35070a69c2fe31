SPECIFICATION Spec
CONSTANTS
  Octets = 10
  MaxParts = 4
  Bodies <- MCBodies
  Phones <- MCPhones
INVARIANTS ArrivesAsWritten PartsFit
CHECK_DEADLOCK FALSE

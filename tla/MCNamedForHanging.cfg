SPECIFICATION Spec
CONSTANTS
  x = x
  y = y
  z = z
  Inputs <- MCInputs
  MaxQueue = 3
CHECK_DEADLOCK FALSE
INVARIANTS
  NamedForHanging

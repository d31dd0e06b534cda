SPECIFICATION FairSpec
CONSTANTS
  x = x
  y = y
  z = z
  Inputs <- MCInputs
  MaxQueue = 3
CHECK_DEADLOCK FALSE
INVARIANTS
  TypeOK
  CapturedWaits
  HangsAreVerified
PROPERTIES
  CapturedIsVerified

SPECIFICATION Spec
CONSTANTS
  Op <- MCOp
  VarType <- MCVarType
  Context <- MCContext
  Global = "Global"
  Signature <- MCSignature
  BeginOf <- MCBeginOf
  EnteredContext <- MCEnteredContext
  NopOp <- MCNopOp
  ArgLimit <- MCArgLimit
  NumConnections = 1
  Testcases <- MCLateTestcases
  NumRecentBlocks = 10
INVARIANTS
  InsertionSucceeds
CHECK_DEADLOCK FALSE

SPECIFICATION Spec
CONSTANTS
  Op <- MCOp
  VarType <- MCVarType
  Context <- MCContext
  Global = "Global"
  Signature <- MCSignature
  BeginOf <- MCBeginOf
  EnteredContext <- MCEnteredContext
  NopOp <- MCNopOp
  ArgLimit <- MCArgLimit
  InputVectors <- MCInputVectors
  Arguments <- MCArguments
  MaxVariable = 5
  MaxInstructions = 5
INVARIANTS
  TypeOK
  ScopesAgree
  NoPanic
  LookupAgrees
PROPERTIES
  ImplementsWellScoped
CHECK_DEADLOCK FALSE

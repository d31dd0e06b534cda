SPECIFICATION Spec
CONSTANTS
  Op <- MCOp
  VarType <- MCVarType
  Context <- MCContext
  Global = "Global"
  Signature <- MCSignature
  BeginOf <- MCBeginOf
  EnteredContext <- MCEnteredContext
  NopOp <- MCNopOp
  ArgLimit <- MCArgLimit
  NumConnections = 1
  Testcases <- MCTestcases
  NumRecentBlocks = 10
INVARIANTS
  TypeOK
  RequestsNameTheirTrigger
  RecentHeadersAreDefined
  AnswersWhatWasAsked
CHECK_DEADLOCK FALSE

SPECIFICATION FairSpec
CONSTANTS
  Op <- MCOp
  VarType <- MCVarType
  Context <- MCContext
  Global = "Global"
  Signature <- MCSignature
  BeginOf <- MCBeginOf
  EnteredContext <- MCEnteredContext
  NopOp <- MCNopOp
  ArgLimit <- MCArgLimit
  Noppable <- MCNoppable
  NoppedOp <- MCNoppedOp
  InitialCorpus <- MCCorpus
  MaxConsecutiveFailures = 2
INVARIANTS
  TypeOK
  CorpusStaysValid
  MinimizedIsWhatRan
  MinimizerAgreesWithStage
PROPERTIES
  OnlyShrinks
  Terminates

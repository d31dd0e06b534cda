SPECIFICATION Spec
CONSTANTS
  Op <- MCOp
  VarType <- MCVarType
  Context <- MCContext
  Global = "Global"
  Signature <- MCSignature
  BeginOf <- MCBeginOf
  EnteredContext <- MCEnteredContext
  NopOp <- MCNopOp
  ArgLimit <- MCArgLimit
  InputMutable <- MCInputMutable
  OperationMutable <- MCOperationMutable
  OpsInstead <- MCOpsInstead
  OpsWithIndex <- MCOpsWithIndex
  Corpus <- MCCorpus
  Minimized <- MCMinimized
  MaxLength = 9
  NumConnections = 2
INVARIANTS
  TypeOK
  ProgramsStayValid
  SplicingKeepsDataflow
  GeneratingKeepsDataflow
PROPERTIES
  MetadataIsFresh

SPECIFICATION Spec
CONSTANTS
  Op <- MCOp
  VarType <- MCVarType
  Context <- MCContext
  Global = "Global"
  Signature <- MCSignature
  BeginOf <- MCBeginOf
  EnteredContext <- MCEnteredContext
  NopOp <- MCNopOp
  ArgLimit <- MCArgLimit
  InputMutable <- MCInputMutable
  SnapshotTxos <- MCSnapshotTxos
  SnapshotHeights <- MCSnapshotHeights
  Outputs <- MCOutputs
  BlockOutputs <- MCBlockOutputs
  InitialPrograms <- MCInitialPrograms
  ChainLength = 2
  NumRecentBlocks = 2
  MaxSteps = 2
  MaxLength = 40
CHECK_DEADLOCK FALSE
INVARIANTS
  TypeOK
  GeneratorsNeverPanic
  TxosExist
  NoInflation
  EveryOutputSpendable
  BlocksInOrder
  NonStandardBlockConnects
PROPERTIES
  ReorgOvertakesTip

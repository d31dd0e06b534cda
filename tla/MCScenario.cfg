SPECIFICATION FairSpec
CONSTANTS
  MaxConnections = 3
  SetupConnections <- MCSetupConnections
  NumBlocks = 1
  MaxActions = 2
  RawNonces = {3}
CHECK_DEADLOCK FALSE
INVARIANTS
  TypeOK
  AllProcessed
  AnswersInTheirCall
PROPERTIES
  EveryRunEnds

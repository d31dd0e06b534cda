---------------------------- MODULE MCAddresses ----------------------------
(***************************************************************************)
(* Mutation on one testcase that gossips addresses of both kinds: an addr  *)
(* list with a v1 record and an addrv2 list with a v2 record.  The         *)
(* operations that generators append are in the table and find no inputs.  *)
(***************************************************************************)
EXTENDS Mutation

Table == INSTANCE Operations

MCOp == { "LoadConnection", "LoadAddr", "BeginBuildAddrList", "AddAddr", "EndBuildAddrList",
          "SendAddr", "BeginBuildAddrListV2", "AddAddrV2", "EndBuildAddrListV2", "SendAddrV2",
          "LoadBytes", "AddWitness", "SendGetData", "Nop_1_0" }

MCSignature == Table!Restriction(Table!Signatures, MCOp)
MCBeginOf == Table!Restriction(Table!MatchingBegin, MCOp)
MCEnteredContext == Table!Restriction(Table!ContextInside, MCOp)
MCNopOp == Table!NopOps \cap MCOp
MCVarType == UNION { UNION { Range(types) : types \in { MCSignature[op].in, MCSignature[op].out,
                                                       MCSignature[op].inner } } : op \in MCOp }
MCContext == {"Global"} \cup Range(MCEnteredContext)
MCArgLimit == [ op \in MCOp |-> IF op = "LoadAddr" THEN 3 ELSE 1 ]
MCInputMutable == [ op \in MCOp |-> Table!IsInputMutable(op) ]
MCOperationMutable == [ op \in MCOp |-> Table!IsOperationMutable(op) ]
MCOpsInstead == [ op \in MCOp |-> Table!OperationsInstead(op) ]
MCOpsWithIndex == {"LoadConnection"}

I(op, inputs) == [op |-> op, inputs |-> inputs, arg |-> 0]

MCCorpus == <<
  << I("LoadConnection", <<>>), I("LoadAddr", <<>>),
     [op |-> "LoadAddr", inputs |-> <<>>, arg |-> 1],
     I("BeginBuildAddrList", <<>>), I("AddAddr", <<4, 2>>), I("EndBuildAddrList", <<4>>),
     I("SendAddr", <<1, 5>>),
     I("BeginBuildAddrListV2", <<>>), I("AddAddrV2", <<6, 3>>), I("EndBuildAddrListV2", <<6>>),
     I("SendAddrV2", <<1, 7>>) >> >>

MCMinimized == {1}
=============================================================================

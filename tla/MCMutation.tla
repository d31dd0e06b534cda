----------------------------- MODULE MCMutation -----------------------------
(***************************************************************************)
(* Mutation on four testcases: a witness stack whose bytes have a choice,  *)
(* an inventory that is sent on one of two connections, two nested stacks  *)
(* (whose ends may exchange the stacks they close), and a script that may  *)
(* become another script for the same key.                                 *)
(***************************************************************************)
EXTENDS Mutation

Table == INSTANCE Operations

MCOp == { "LoadBytes", "LoadConnection", "BeginWitnessStack", "AddWitness", "EndWitnessStack",
          "BeginBuildInventory", "EndBuildInventory", "SendGetData",
          "LoadPrivateKey", "LoadSigHashFlags", "BuildPayToPubKey", "BuildPayToPubKeyHash",
          "BuildPayToWitnessPubKeyHash", "Nop_1_0" }

MCSignature == Table!Restriction(Table!Signatures, MCOp)
MCBeginOf == Table!Restriction(Table!MatchingBegin, MCOp)
MCEnteredContext == Table!Restriction(Table!ContextInside, MCOp)
MCNopOp == Table!NopOps \cap MCOp
MCVarType == UNION { UNION { Range(types) : types \in { MCSignature[op].in, MCSignature[op].out,
                                                       MCSignature[op].inner } } : op \in MCOp }
MCContext == {"Global"} \cup Range(MCEnteredContext)
MCArgLimit == [ op \in MCOp |-> IF op = "LoadConnection" THEN 2 ELSE 1 ]
MCInputMutable == [ op \in MCOp |-> Table!IsInputMutable(op) ]
MCOperationMutable == [ op \in MCOp |-> Table!IsOperationMutable(op) ]
MCOpsInstead == [ op \in MCOp |-> Table!OperationsInstead(op) ]
MCOpsWithIndex == {"LoadConnection"}

I(op, inputs) == [op |-> op, inputs |-> inputs, arg |-> 0]

MCCorpus == <<
  << I("LoadBytes", <<>>), I("BeginWitnessStack", <<>>), I("AddWitness", <<2, 1>>),
     I("EndWitnessStack", <<2>>) >>,
  << I("LoadConnection", <<>>), I("BeginBuildInventory", <<>>), I("EndBuildInventory", <<2>>),
     I("SendGetData", <<1, 3>>) >>,
  << I("BeginWitnessStack", <<>>), I("BeginWitnessStack", <<>>), I("EndWitnessStack", <<2>>),
     I("EndWitnessStack", <<1>>) >>,
  << I("LoadPrivateKey", <<>>), I("LoadSigHashFlags", <<>>), I("BuildPayToPubKey", <<1, 2>>) >> >>

MCMinimized == {1, 2}
=============================================================================

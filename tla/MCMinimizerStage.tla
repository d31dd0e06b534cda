-------------------------- MODULE MCMinimizerStage --------------------------
(***************************************************************************)
(* The minimizer stages on two testcases: a witness stack with an element, *)
(* used by a script, and the prefill block, whose begin and end are        *)
(* offered one by one.                                                     *)
(***************************************************************************)
EXTENDS MinimizerStage

Table == INSTANCE Operations

MCOp == { "LoadBytes", "BeginWitnessStack", "AddWitness", "EndWitnessStack",
          "BuildPayToWitnessScriptHash", "BeginPrefillTransactions", "EndPrefillTransactions",
          "Nop_0_0", "Nop_1_0", "Nop_0_1" }

MCSignature == Table!Restriction(Table!Signatures, MCOp)
MCBeginOf == Table!Restriction(Table!MatchingBegin, MCOp)
MCEnteredContext == Table!Restriction(Table!ContextInside, MCOp)
MCNopOp == Table!NopOps \cap MCOp
MCVarType == UNION { UNION { Range(types) : types \in { MCSignature[op].in, MCSignature[op].out,
                                                       MCSignature[op].inner } } : op \in MCOp }
MCContext == {"Global"} \cup Range(MCEnteredContext)
MCArgLimit == [ op \in MCOp |-> 1 ]
MCNoppable == [ op \in MCOp |-> Table!IsNoppable(op) ]
MCNoppedOp == [ op \in MCOp |-> Table!Nopped(op) ]

I(op, inputs) == [op |-> op, inputs |-> inputs, arg |-> 0]

MCCorpus == <<
  << I("LoadBytes", <<>>), I("BeginWitnessStack", <<>>), I("AddWitness", <<2, 1>>),
     I("EndWitnessStack", <<2>>), I("LoadBytes", <<>>),
     I("BuildPayToWitnessScriptHash", <<4, 3>>) >>,
  << I("LoadBytes", <<>>), I("BeginPrefillTransactions", <<>>),
     I("EndPrefillTransactions", <<2>>) >> >>
=============================================================================

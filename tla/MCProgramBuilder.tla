-------------------------- MODULE MCProgramBuilder --------------------------
(***************************************************************************)
(* ProgramBuilder on a part of the operation table: a load with valid and  *)
(* invalid arguments, blocks that can nest in themselves and in each       *)
(* other, two ends that take a variable of one type (MutTxOutputs), and    *)
(* Nops in place of an output and of a block begin.                        *)
(***************************************************************************)
EXTENDS ProgramBuilder, TLC

CONSTANT MaxVariable

Table == INSTANCE Operations

MCOp == { "LoadConnection", "BeginBuildTxInputs", "EndBuildTxInputs", "BeginBuildTxOutputs",
          "EndBuildTxOutputs", "BeginBuildCoinbaseTxOutputs", "EndBuildCoinbaseTxOutputs",
          "LoadBytes",
          "BeginWitnessStack", "AddWitness", "EndWitnessStack", "Nop_1_0", "Nop_0_1" }

MCSignature == Table!Restriction(Table!Signatures, MCOp)
MCBeginOf == Table!Restriction(Table!MatchingBegin, MCOp)
MCEnteredContext == Table!Restriction(Table!ContextInside, MCOp)
MCNopOp == Table!NopOps \cap MCOp
MCVarType == UNION { UNION { { types[k] : k \in 1..Len(types) } :
                             types \in { MCSignature[op].in, MCSignature[op].out,
                                         MCSignature[op].inner } } : op \in MCOp }
MCContext == {"Global"} \cup { MCEnteredContext[b] : b \in DOMAIN MCEnteredContext }

(* One connection in the program context.                                  *)
MCArgLimit == [ op \in MCOp |-> 1 ]
MCArguments == [ op \in MCOp |-> IF op = "LoadConnection" THEN {0, 1} ELSE {0} ]

(* Every vector of the right length, and one that is too long.             *)
MCInputVectors ==
  [ op \in MCOp |-> [1..Len(MCSignature[op].in) -> 1..MaxVariable]
                    \cup { [k \in 1..(Len(MCSignature[op].in) + 1) |-> 1] } ]

=============================================================================

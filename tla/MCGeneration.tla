---------------------------- MODULE MCGeneration ----------------------------
(***************************************************************************)
(* The generators on four programs: one that has only loaded what a        *)
(* transaction and a block need, one that has built and sent a transaction,*)
(* one that has also mined it, and one that was minimized and ends with    *)
(* the block.  The snapshot has two coinbase outputs and two headers to    *)
(* fork from.                                                              *)
(***************************************************************************)
EXTENDS Generation

Table == INSTANCE Operations

MCOp ==
  Scripting \cup
  { "LoadConnection", "LoadTime", "LoadHeader", "LoadTxo", "LoadBytes", "LoadSize",
    "LoadPrivateKey", "LoadSigHashFlags", "LoadAmount", "LoadTxVersion", "LoadLockTime",
    "LoadSequence", "LoadDuration", "LoadBlockVersion", "LoadTaprootAnnex", "BuildTaprootTree",
    "TaprootTxoUseAnnex", "TaprootScriptsUseAnnex", "BeginWitnessStack", "EndWitnessStack",
    "BeginBuildTx", "BeginBuildTxInputs", "AddTxInput", "EndBuildTxInputs", "BeginBuildTxOutputs",
    "AddTxOutput", "EndBuildTxOutputs", "EndBuildTx", "TakeTxo", "TakeCoinbaseTxo",
    "BeginBuildCoinbaseTx", "BuildCoinbaseTxInput", "BeginBuildCoinbaseTxOutputs",
    "AddCoinbaseTxOutput", "EndBuildCoinbaseTxOutputs", "EndBuildCoinbaseTx",
    "BeginBlockTransactions", "AddTx", "EndBlockTransactions", "BuildBlock", "AdvanceTime",
    "BeginBuildInventory", "AddWtxidInv", "EndBuildInventory", "SendInv", "SendTx", "SendHeader",
    "SendBlock", "SendBlockNoWit", "Nop_1_0" }

MCSignature == Table!Restriction(Table!Signatures, MCOp)
MCBeginOf == Table!Restriction(Table!MatchingBegin, MCOp)
MCEnteredContext == Table!Restriction(Table!ContextInside, MCOp)
MCNopOp == Table!NopOps \cap MCOp
MCVarType == UNION { UNION { Range(types) : types \in { MCSignature[op].in, MCSignature[op].out,
                                                       MCSignature[op].inner } } : op \in MCOp }
MCContext == {"Global"} \cup Range(MCEnteredContext)
MCInputMutable == [ op \in MCOp |-> Table!IsInputMutable(op) ]

MCSnapshotTxos == <<500000, 500000>>
MCSnapshotHeights == {199, 200}
MCArgLimit == [ op \in MCOp |-> IF op = "LoadTxo" THEN Len(MCSnapshotTxos) + 1 ELSE 1000000 ]

MCOutputs == { << Paid("BuildPayToAnchor", 2), [Paid("BuildPayToTaproot", 20000) EXCEPT !.annex = TRUE] >> }
MCBlockOutputs == { << Paid("BuildRawScripts", 20), Paid("BuildRawScripts", 600000) >> }

Loaded == << Load("LoadConnection", 0), Load("LoadTime", 1), Load("LoadHeader", 200), Load("LoadTxo", 1) >>

OneTx == BuildTx([Write(NewDraft(0, 0, 1), Loaded) EXCEPT !.header = 3], <<4>>, << Paid("BuildPayToAnchor", 2) >>)
Sent == Write(OneTx, << Instruction("SendTx", <<1, OneTx.txs[1]>>) >>)
Mined(outputs) == Block(Sent, 2, Sent.txs, outputs).code

(* Without the three instructions that follow the block.                   *)
Minimized(p) == SubSeq(p, 1, Len(p) - 3)

MCInitialPrograms ==
  { Loaded, Sent.code, Mined(<< Paid("BuildPayToPubKey", 2) >>),
    Minimized(Mined(<< Paid("BuildPayToPubKey", 2), Paid("BuildPayToAnchor", 2) >>)) }
=============================================================================

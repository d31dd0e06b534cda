----------------------------- MODULE MCProbing -----------------------------
(***************************************************************************)
(* Probing of a program that sends one compact block of three transactions *)
(* (one of them prefilled) on the first connection and on one that is made *)
(* with a handshake, a raw message on one made without, and builds a block *)
(* on the first.  Late loads the first connection only after the           *)
(* compact block was sent.                                                 *)
(***************************************************************************)
EXTENDS Probing

Table == INSTANCE Operations

I(op, inputs) == [op |-> op, inputs |-> inputs, arg |-> 0]

(* A transaction in variable n + 6.                                        *)
Tx(n) ==
  << I("BeginBuildTx", <<1, 2>>), I("BeginBuildTxInputs", <<>>), I("EndBuildTxInputs", <<n + 2>>),
     I("BeginBuildTxOutputs", <<n + 3>>), I("EndBuildTxOutputs", <<n + 4>>),
     I("EndBuildTx", <<n + 1, n + 3, n + 5>>) >>

(* Transactions in 8, 14 and 20, the first block in 35 (header), 36 and    *)
(* 37, its compact block in 40.                                            *)
Block == << I("LoadTxVersion", <<>>), I("LoadLockTime", <<>>) >>
  \o Tx(2) \o Tx(8) \o Tx(14) \o <<
  I("LoadSequence", <<>>), I("BuildCoinbaseTxInput", <<21>>),
  I("BeginBuildCoinbaseTx", <<1, 2>>), I("BeginBuildCoinbaseTxOutputs", <<22>>),
  I("EndBuildCoinbaseTxOutputs", <<24>>), I("EndBuildCoinbaseTx", <<23, 22, 25>>),
  I("LoadHeader", <<>>), I("LoadTime", <<>>), I("LoadBlockVersion", <<>>),
  I("BeginBlockTransactions", <<>>), I("AddTx", <<30, 8>>), I("AddTx", <<30, 14>>),
  I("AddTx", <<30, 20>>), I("EndBlockTransactions", <<30>>),
  I("LoadNonce", <<>>), I("LoadNode", <<>>), I("LoadConnectionType", <<>>),
  I("BuildBlock", <<26, 27, 28, 29, 31>>),
  I("BeginPrefillTransactions", <<>>), I("AddPrefillTx", <<38, 36, 14>>),
  I("EndPrefillTransactions", <<38>>), I("BuildCompactBlock", <<36, 32, 39>>) >>

(* A connection in variable 41, one without handshake in 42, one with in   *)
(* 44, and a block on the first one twice, in 45 to 47 and 48 to 50.       *)
First == Block \o <<
  I("LoadConnection", <<>>), I("SendCompactBlock", <<41, 40>>),
  I("AddConnection", <<33, 34>>), I("LoadHandshakeOpts", <<>>),
  I("AddConnectionWithHandshake", <<33, 34, 43, 28>>), I("SetTime", <<28>>),
  I("SendCompactBlock", <<44, 40>>),
  I("BuildBlock", <<26, 35, 28, 29, 31>>), I("BuildBlock", <<26, 35, 28, 29, 31>>),
  I("LoadMsgType", <<>>), I("LoadBytes", <<>>), I("SendRawMessage", <<42, 51, 52>>) >>

(* The connection with handshake in variable 42, the first one in 43.      *)
Late == Block \o <<
  I("LoadHandshakeOpts", <<>>), I("AddConnectionWithHandshake", <<33, 34, 41, 28>>),
  I("SendCompactBlock", <<42, 40>>), I("LoadConnection", <<>>),
  I("LoadMsgType", <<>>), I("LoadBytes", <<>>), I("SendRawMessage", <<43, 44, 45>>) >>

MCTestcases == {First}
MCLateTestcases == {Late}

MCOp == { First[k].op : k \in DOMAIN First } \cup
        {"Probe", "BeginBuildBlockTxn", "AddTxToBlockTxn", "EndBuildBlockTxn", "SendBlockTxn",
         "Nop_1_0"}

MCSignature == Table!Restriction(Table!Signatures, MCOp)
MCBeginOf == Table!Restriction(Table!MatchingBegin, MCOp)
MCEnteredContext == Table!Restriction(Table!ContextInside, MCOp)
MCNopOp == Table!NopOps \cap MCOp
MCVarType == UNION { UNION { Range(types) : types \in { MCSignature[op].in, MCSignature[op].out,
                                                       MCSignature[op].inner } } : op \in MCOp }
MCContext == {"Global"} \cup Range(MCEnteredContext)
MCArgLimit == [ op \in MCOp |-> 1 ]
=============================================================================

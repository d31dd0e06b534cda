----------------------------- MODULE Operations -----------------------------
(***************************************************************************)
(* The operation table of Fuzzamoto's intermediate representation: for     *)
(* every operation the types of its inputs, of its outputs and of the      *)
(* variables that exist only inside the block it opens, together with the  *)
(* block structure (which End closes which Begin) and the classification   *)
(* the mutators and minimizers go by.  The payload of an operation (the    *)
(* bytes of a LoadBytes, the time of a LoadTime) is abstracted away, except *)
(* for the bounded index `arg' of the Load operations the builder          *)
(* validates (see IR).                                                     *)
(***************************************************************************)
EXTENDS Naturals, Sequences, TLC, Functions

LOCAL Sig(i, o, n) == [in |-> i, out |-> o, inner |-> n]

(* The blocks: what a Begin takes, the Mut variable it opens its block     *)
(* with, the End that closes it with that variable and `extra', the        *)
(* variable the End leaves behind and the context inside the block.        *)
LOCAL Block(i, m, e, x, c, ctx) ==
  [in |-> i, mut |-> m, end |-> e, extra |-> x, const |-> c, context |-> ctx]

Blocks == [
  BeginBuildTx |-> Block(<<"TxVersion", "LockTime">>, "MutTx", "EndBuildTx",
      <<"ConstTxInputs", "ConstTxOutputs">>, "ConstTx", "BuildTx"),
  BeginBuildTxInputs |-> Block(<<>>, "MutTxInputs", "EndBuildTxInputs", <<>>,
      "ConstTxInputs", "BuildTxInputs"),
  BeginBuildTxOutputs |-> Block(<<"ConstTxInputs">>, "MutTxOutputs", "EndBuildTxOutputs", <<>>,
      "ConstTxOutputs", "BuildTxOutputs"),
  BeginBuildCoinbaseTx |-> Block(<<"TxVersion", "LockTime">>, "MutTx", "EndBuildCoinbaseTx",
      <<"CoinbaseInput", "ConstTxOutputs">>, "CoinbaseTx", "BuildCoinbaseTx"),
  BeginBuildCoinbaseTxOutputs |-> Block(<<"CoinbaseInput">>, "MutTxOutputs",
      "EndBuildCoinbaseTxOutputs", <<>>, "ConstTxOutputs", "BuildCoinbaseTxOutputs"),
  BeginWitnessStack |-> Block(<<>>, "MutWitnessStack", "EndWitnessStack", <<>>,
      "ConstWitnessStack", "WitnessStack"),
  BeginBuildInventory |-> Block(<<>>, "MutInventory", "EndBuildInventory", <<>>,
      "ConstInventory", "Inventory"),
  BeginBuildAddrList |-> Block(<<>>, "MutAddrList", "EndBuildAddrList", <<>>,
      "ConstAddrList", "AddrList"),
  BeginBuildAddrListV2 |-> Block(<<>>, "MutAddrListV2", "EndBuildAddrListV2", <<>>,
      "ConstAddrListV2", "AddrListV2"),
  BeginBlockTransactions |-> Block(<<>>, "MutBlockTransactions", "EndBlockTransactions", <<>>,
      "ConstBlockTransactions", "BlockTransactions"),
  BeginBuildBlockTxn |-> Block(<<"Block">>, "MutBlockTxn", "EndBuildBlockTxn", <<>>,
      "ConstBlockTxn", "BuildBlockTxn"),
  BeginBuildFilterLoad |-> Block(<<"ConstFilterLoad">>, "MutFilterLoad", "EndBuildFilterLoad",
      <<>>, "ConstFilterLoad", "BuildFilter"),
  BeginPrefillTransactions |-> Block(<<>>, "MutPrefillTransactions", "EndPrefillTransactions",
      <<>>, "ConstPrefillTransactions", "BuildPrefill") ]

(* Operations without inputs that produce one variable. *)
Sources == [
  LoadBytes |-> "Bytes", LoadMsgType |-> "MsgType", LoadNode |-> "Node",
  LoadConnection |-> "Connection", LoadConnectionType |-> "ConnectionType",
  LoadDuration |-> "Duration", LoadAddr |-> "AddrRecord", LoadBlockHeight |-> "BlockHeight",
  LoadCompactFilterType |-> "CompactFilterType", LoadTime |-> "Time",
  LoadHandshakeOpts |-> "HandshakeParams", LoadTxo |-> "Txo",
  LoadTaprootAnnex |-> "TaprootAnnex", LoadAmount |-> "ConstAmount",
  LoadTxVersion |-> "TxVersion", LoadBlockVersion |-> "BlockVersion",
  LoadLockTime |-> "LockTime", LoadSequence |-> "Sequence", LoadSize |-> "Size",
  LoadHeader |-> "Header", LoadFilterLoad |-> "ConstFilterLoad", LoadFilterAdd |-> "FilterAdd",
  LoadPrivateKey |-> "PrivateKey", LoadSigHashFlags |-> "SigHashFlags", LoadNonce |-> "Nonce",
  BuildTaprootTree |-> "TaprootSpendInfo", BuildPayToAnchor |-> "Scripts" ]

(* Operations on the variable of an open block: <<Mut type, operands>>. *)
Additions == [
  AddTxInput |-> <<"MutTxInputs", "Txo", "Sequence">>,
  AddTxOutput |-> <<"MutTxOutputs", "Scripts", "ConstAmount">>,
  AddCoinbaseTxOutput |-> <<"MutTxOutputs", "Scripts", "ConstAmount">>,
  AddWitness |-> <<"MutWitnessStack", "Bytes">>,
  AddTxidInv |-> <<"MutInventory", "ConstTx">>,
  AddTxidWithWitnessInv |-> <<"MutInventory", "ConstTx">>,
  AddWtxidInv |-> <<"MutInventory", "ConstTx">>,
  AddCompactBlockInv |-> <<"MutInventory", "Block">>,
  AddBlockInv |-> <<"MutInventory", "Block">>,
  AddBlockWithWitnessInv |-> <<"MutInventory", "Block">>,
  AddFilteredBlockInv |-> <<"MutInventory", "Block">>,
  AddAddr |-> <<"MutAddrList", "AddrRecord">>,
  AddAddrV2 |-> <<"MutAddrListV2", "AddrRecord">>,
  AddTx |-> <<"MutBlockTransactions", "ConstTx">>,
  AddTxToBlockTxn |-> <<"MutBlockTxn", "ConstTx">>,
  AddTxToFilter |-> <<"MutFilterLoad", "ConstTx">>,
  AddTxoToFilter |-> <<"MutFilterLoad", "Txo">>,
  AddPrefillTx |-> <<"MutPrefillTransactions", "Block", "ConstTx">> ]

(* Operations that send on a connection: what they send besides it. *)
Sends == [
  SendRawMessage |-> <<"MsgType", "Bytes">>, SendTx |-> <<"ConstTx">>,
  SendTxNoWit |-> <<"ConstTx">>, SendGetData |-> <<"ConstInventory">>,
  SendInv |-> <<"ConstInventory">>, SendGetAddr |-> <<>>, SendAddr |-> <<"ConstAddrList">>,
  SendAddrV2 |-> <<"ConstAddrListV2">>, SendHeader |-> <<"Header">>, SendBlock |-> <<"Block">>,
  SendBlockNoWit |-> <<"Block">>,
  SendGetCFilters |-> <<"CompactFilterType", "BlockHeight", "Header">>,
  SendGetCFHeaders |-> <<"CompactFilterType", "BlockHeight", "Header">>,
  SendGetCFCheckpt |-> <<"CompactFilterType", "Header">>,
  SendFilterLoad |-> <<"ConstFilterLoad">>, SendFilterAdd |-> <<"FilterAdd">>,
  SendFilterClear |-> <<>>, SendCompactBlock |-> <<"CompactBlock">>,
  SendBlockTxn |-> <<"ConstBlockTxn">> ]

(* The remaining operations, inputs to outputs. *)
Builds == [
  BuildPayToWitnessScriptHash |-> Sig(<<"Bytes", "ConstWitnessStack">>, <<"Scripts">>, <<>>),
  BuildPayToScriptHash |-> Sig(<<"Bytes", "ConstWitnessStack">>, <<"Scripts">>, <<>>),
  BuildRawScripts |-> Sig(<<"Bytes", "Bytes", "ConstWitnessStack">>, <<"Scripts">>, <<>>),
  BuildOpReturnScripts |-> Sig(<<"Size">>, <<"Scripts">>, <<>>),
  BuildPayToTaproot |-> Sig(<<"TaprootSpendInfo">>, <<"Scripts">>, <<>>),
  BuildPayToPubKey |-> Sig(<<"PrivateKey", "SigHashFlags">>, <<"Scripts">>, <<>>),
  BuildPayToPubKeyHash |-> Sig(<<"PrivateKey", "SigHashFlags">>, <<"Scripts">>, <<>>),
  BuildPayToWitnessPubKeyHash |-> Sig(<<"PrivateKey", "SigHashFlags">>, <<"Scripts">>, <<>>),
  BuildPayToBareMulti |-> Sig(<<"SigHashFlags">>, <<"Scripts">>, <<>>),
  BuildPayToBareMultiEncoded |-> Sig(<<"SigHashFlags">>, <<"Scripts">>, <<>>),
  TaprootScriptsUseAnnex |-> Sig(<<"Scripts", "TaprootAnnex">>, <<"Scripts">>, <<>>),
  TaprootTxoUseAnnex |-> Sig(<<"Txo", "TaprootAnnex">>, <<"Txo">>, <<>>),
  TakeTxo |-> Sig(<<"ConstTx">>, <<"Txo">>, <<>>),
  TakeCoinbaseTxo |-> Sig(<<"ConstCoinbaseTx">>, <<"Txo">>, <<>>),
  BuildCoinbaseTxInput |-> Sig(<<"Sequence">>, <<"CoinbaseInput">>, <<>>),
  BuildFilterAddFromTx |-> Sig(<<"ConstTx">>, <<"FilterAdd">>, <<>>),
  BuildFilterAddFromTxo |-> Sig(<<"Txo">>, <<"FilterAdd">>, <<>>),
  BuildCompactBlock |-> Sig(<<"Block", "Nonce", "ConstPrefillTransactions">>, <<"CompactBlock">>, <<>>),
  BuildBlock |-> Sig(<<"CoinbaseTx", "Header", "Time", "BlockVersion", "ConstBlockTransactions">>,
                     <<"Header", "Block", "ConstCoinbaseTx">>, <<>>),
  AdvanceTime |-> Sig(<<"Time", "Duration">>, <<"Time">>, <<>>),
  SetTime |-> Sig(<<"Time">>, <<>>, <<>>),
  AddConnection |-> Sig(<<"Node", "ConnectionType">>, <<"Connection">>, <<>>),
  AddConnectionWithHandshake |->
      Sig(<<"Node", "ConnectionType", "HandshakeParams", "Time">>, <<"Connection">>, <<>>),
  Probe |-> Sig(<<>>, <<>>, <<>>) ]

(* Operation::Nop { outputs, inner_outputs }: the replacement of an        *)
(* operation keeps the number of the variables it produced.                *)
Nops == [
  Nop_0_0 |-> Sig(<<>>, <<>>, <<>>),
  Nop_1_0 |-> Sig(<<>>, <<"Nop">>, <<>>),
  Nop_3_0 |-> Sig(<<>>, <<"Nop", "Nop", "Nop">>, <<>>),
  Nop_0_1 |-> Sig(<<>>, <<>>, <<"Nop">>) ]

-----------------------------------------------------------------------------

(* is_block_begin, is_matching_block_begin (as the Begin of each End) and  *)
(* the context a Begin enters.                                             *)
LOCAL EndsOf(blocks) == { blocks[b].end : b \in DOMAIN blocks }
LOCAL BeginFor(blocks, e) == CHOOSE b \in DOMAIN blocks : blocks[b].end = e

LOCAL Matching(blocks) == [ e \in EndsOf(blocks) |-> BeginFor(blocks, e) ]
LOCAL Entered(blocks) == [ b \in DOMAIN blocks |-> blocks[b].context ]

MatchingBegin == Matching(Blocks)
ContextInside == Entered(Blocks)

(* get_input_variables, get_output_variables, get_inner_output_variables. *)
LOCAL EndSig(b) == Sig(<<b.mut>> \o b.extra, <<b.const>>, <<>>)

LOCAL OfBlocks(blocks) ==
  [ b \in DOMAIN blocks |-> Sig(blocks[b].in, <<>>, <<blocks[b].mut>>) ]
  @@ [ e \in EndsOf(blocks) |-> EndSig(blocks[BeginFor(blocks, e)]) ]

LOCAL OfSources(sources) == [ o \in DOMAIN sources |-> Sig(<<>>, <<sources[o]>>, <<>>) ]
LOCAL OfAdditions(additions) == [ o \in DOMAIN additions |-> Sig(additions[o], <<>>, <<>>) ]
LOCAL OfSends(sends) == [ o \in DOMAIN sends |-> Sig(<<"Connection">> \o sends[o], <<>>, <<>>) ]

Signatures ==
  OfBlocks(Blocks) @@ OfSources(Sources) @@ OfAdditions(Additions) @@ OfSends(Sends)
  @@ Builds @@ Nops

NopOps == DOMAIN Nops

(* Instruction::is_noppable: of the block operations only the pair that    *)
(* builds the prefill list.                                                *)
IsNoppable(op) ==
  /\ op \notin NopOps \cup {"Probe"}
  /\ op \in DOMAIN ContextInside \cup DOMAIN MatchingBegin =>
       op \in {"BeginPrefillTransactions", "EndPrefillTransactions"}

(* Instruction::is_input_mutable. *)
IsInputMutable(op) ==
  /\ Signatures[op].in # <<>>
  /\ op \notin { "EndBuildTx", "BeginBuildTxInputs", "BeginBuildTxOutputs", "EndBuildTxInputs",
                 "EndBuildTxOutputs", "BeginBuildInventory", "EndBuildInventory",
                 "EndBuildAddrList", "EndBuildAddrListV2", "BeginBlockTransactions",
                 "EndBlockTransactions", "TakeTxo", "TakeCoinbaseTxo", "BeginBuildCoinbaseTx",
                 "EndBuildCoinbaseTx", "BeginBuildCoinbaseTxOutputs",
                 "EndBuildCoinbaseTxOutputs" }

(* Instruction::is_operation_mutable. *)
IsOperationMutable(op) ==
  op \in { "LoadAmount", "LoadTxVersion", "LoadSequence", "LoadLockTime", "LoadBlockVersion", "LoadNode",
           "LoadConnection", "LoadConnectionType", "LoadDuration", "LoadAddr", "LoadTime", "LoadSize",
           "LoadPrivateKey", "LoadSigHashFlags", "BuildPayToPubKey", "BuildPayToPubKeyHash",
           "BuildPayToWitnessPubKeyHash", "LoadBlockHeight", "AddTxidWithWitnessInv", "AddTxidInv",
           "AddWtxidInv", "AddCompactBlockInv", "AddBlockInv", "AddBlockWithWitnessInv",
           "AddFilteredBlockInv", "SendTxNoWit", "SendTx", "AddAddrV2", "LoadBytes", "LoadTaprootAnnex",
           "BuildPayToTaproot", "TaprootScriptsUseAnnex", "TaprootTxoUseAnnex", "BuildPayToBareMulti",
           "BuildPayToBareMultiEncoded" }

(* The OperationMutator: what an operation is replaced with.  The others   *)
(* only get another payload.                                               *)
LOCAL Interchangeable == {
  {"SendTx", "SendTxNoWit"},
  {"BuildPayToScriptHash", "BuildPayToWitnessScriptHash"},
  {"AddTxidWithWitnessInv", "AddTxidInv", "AddWtxidInv"},
  {"AddFilteredBlockInv", "AddBlockInv", "AddBlockWithWitnessInv", "AddCompactBlockInv"},
  {"BuildPayToPubKey", "BuildPayToPubKeyHash", "BuildPayToWitnessPubKeyHash"} }

OperationsInstead(op) ==
  IF \E class \in Interchangeable : op \in class
  THEN UNION { class \in Interchangeable : op \in class } \ {op}
  ELSE {op}

(* Instruction::nop. *)
Nopped(op) ==
  CHOOSE n \in NopOps : /\ Len(Nops[n].out) = Len(Signatures[op].out)
                        /\ Len(Nops[n].inner) = Len(Signatures[op].inner)

Restriction(f, S) == [ x \in DOMAIN f \cap S |-> f[x] ]
=============================================================================

------------------------------ MODULE Compiler ------------------------------
(***************************************************************************)
(* The compiler: from a program to the actions a scenario performs, and    *)
(* the metadata that leads from what happened at run time back to the      *)
(* program's instructions and variables.  Of the values of the variables   *)
(* only what the metadata and the answers of a node depend on is kept: the *)
(* id of a connection, the version of an address record, and of a block    *)
(* its hash and its transactions.  A transaction is identified by the      *)
(* variable that holds it, and a block by what it was built from.          *)
(***************************************************************************)
EXTENDS Programs

CONSTANT NumConnections      \* ProgramContext::num_connections

Opaque == [kind |-> "opaque"]

(* AddrRecord::V1, AddrRecord::V2, and a V2 record that BIP-155 forbids to *)
(* gossip (TorV2, a payload of the wrong length).                          *)
AddrRecord(arg) == [kind |-> "AddrRecord", version |-> <<"V1", "V2", "V2Invalid">>[arg + 1]]

Sending == { "SendRawMessage", "SendTx", "SendTxNoWit", "SendGetData", "SendInv", "SendGetAddr",
             "SendAddr", "SendAddrV2", "SendHeader", "SendBlock", "SendBlockNoWit",
             "SendGetCFilters", "SendGetCFHeaders", "SendGetCFCheckpt", "SendFilterLoad",
             "SendFilterAdd", "SendFilterClear", "SendCompactBlock", "SendBlockTxn" }

Connecting == {"AddConnection", "AddConnectionWithHandshake"}

(* An operation that ends a block leaves a copy of what was built in it.   *)
Copying == { "EndBlockTransactions", "EndPrefillTransactions", "EndBuildBlockTxn" }

(* The operations that create one variable, with a value that matters.     *)
Valued == Connecting \cup Copying \cup
          { "LoadConnection", "LoadAddr", "BeginBlockTransactions", "BeginPrefillTransactions",
            "BuildCompactBlock", "BeginBuildBlockTxn" }

(* The operations that change the value of their first input.              *)
Modifying == {"AddTx", "AddTxToBlockTxn", "AddPrefillTx"}

(* What the handlers unwrap, as the operation table says it (operation.rs, *)
(* get_input_variables, get_output_variables): BuildBlock takes five       *)
(* inputs and begins or ends nothing, and an addition never goes to a      *)
(* block or a compact block that is built.                                 *)
ASSUME CompilerAssumption ==
  /\ NumConnections \in Nat
  /\ \A op \in Op \cap Valued : Len(Signature[op].out \o Signature[op].inner) = 1
  /\ \A op \in Op \cap Modifying : /\ Signature[op].in # <<>>
                                   /\ Signature[op].in[1] \notin {"Block", "CompactBlock"}
  /\ "BuildBlock" \in Op =>
       /\ "BuildBlock" \notin Begins \cup Ends /\ Len(Signature["BuildBlock"].in) = 5
       /\ Signature["BuildBlock"].out \o Signature["BuildBlock"].inner
            = <<"Header", "Block", "ConstCoinbaseTx">>
  /\ "SendCompactBlock" \in Op => Signature["SendCompactBlock"].in = <<"Connection", "CompactBlock">>

-----------------------------------------------------------------------------
(* One instruction, by what it does to the compiler c.                     *)

Input(c, i, k) == c.variables[i.inputs[k]]

(* The error a handler returns.                                            *)
Failure(c, i) ==
  IF \/ i.op = "AddAddr" /\ Input(c, i, 2).version # "V1"
     \/ i.op = "AddAddrV2" /\ Input(c, i, 2).version # "V2"
  THEN "MiscError" ELSE "None"

(* Block 0 is the coinbase transaction, so the transactions of a block     *)
(* have the positions that BIP-152 gives them.                             *)
BuiltBlock(c, i) ==
  LET txs == Input(c, i, 5).txs
  IN  [ kind |-> "block", txs |-> txs, hash |-> <<SubSeq(i.inputs, 1, 4), txs>> ]

(* The values of the variables it creates.                                 *)
Produced(c, i) ==
  CASE i.op = "LoadConnection" -> << [kind |-> "connection", id |-> i.arg] >>
    [] i.op \in Connecting -> << [kind |-> "connection", id |-> c.connection_counter] >>
    [] i.op = "LoadAddr" -> << AddrRecord(i.arg) >>
    [] i.op = "BeginBlockTransactions" -> << [kind |-> "transactions", txs |-> <<>>] >>
    [] i.op = "BuildBlock" -> << Opaque, BuiltBlock(c, i), Opaque >>
    [] i.op = "BeginPrefillTransactions" -> << [kind |-> "prefill", positions |-> {}] >>
    [] i.op = "BuildCompactBlock" ->
         << [ kind |-> "compact block", hash |-> Input(c, i, 1).hash, txs |-> Input(c, i, 1).txs,
              prefilled |-> { k \in Input(c, i, 3).positions : k <= Len(Input(c, i, 1).txs) } ] >>
    [] i.op = "BeginBuildBlockTxn" ->
         << [kind |-> "blocktxn", hash |-> Input(c, i, 1).hash, txs |-> <<>>] >>
    [] i.op \in Copying -> << Input(c, i, 1) >>
    [] OTHER -> [ k \in Indices(Created(i)) |-> Opaque ]

(* AddPrefillTx: the first position of the transaction in the block, if    *)
(* the block has it and the prefill list is shorter than the block.        *)
Prefilled(positions, block, tx) ==
  LET at == { k \in Indices(block.txs) : block.txs[k] = tx }
  IN  IF Cardinality(positions) >= Len(block.txs) \/ at = {} THEN positions
      ELSE positions \cup {Min(at)}

(* The value of its first input, which is what an addition adds to.        *)
Modified(c, i) ==
  CASE i.op \in {"AddTx", "AddTxToBlockTxn"} ->
         [Input(c, i, 1) EXCEPT !.txs = Append(@, i.inputs[2])]
    [] i.op = "AddPrefillTx" ->
         [Input(c, i, 1) EXCEPT !.positions = Prefilled(@, Input(c, i, 2), i.inputs[3])]

(* The actions it emits: at most one.                                      *)
Emitted(c, i) ==
  IF i.op \in Sending
  THEN << [ kind |-> "SendRawMessage", from |-> Input(c, i, 1).id, command |-> i.op,
            payload |-> IF i.op \in {"SendCompactBlock", "SendBlockTxn"}
                        THEN Input(c, i, 2) ELSE Opaque ] >>
  ELSE IF i.op = "AddConnection" THEN << [kind |-> "Connect"] >>
  ELSE IF i.op = "AddConnectionWithHandshake" THEN << [kind |-> "ConnectAndHandshake"] >>
  ELSE IF i.op = "SetTime" THEN << [kind |-> "SetTime"] >>
  ELSE IF i.op = "Probe" THEN << [kind |-> "Probe"] >>
  ELSE <<>>

-----------------------------------------------------------------------------
(* HashMap::entry(key).or_insert(value).                                   *)
OrInsert(m, key, value) ==
  [ k \in DOMAIN m \cup {key} |-> IF k \in DOMAIN m THEN m[k] ELSE value ]

NewCompiler ==
  [ variables |-> <<>>, actions |-> <<>>, connection_counter |-> NumConnections,
    block_tx_var_map |-> <<>>, connection_map |-> <<>>,
    action_indices |-> <<>>, variable_indices |-> <<>>, instructions |-> 0, error |-> "None" ]

(* The loop of compile: the handler of the instruction, then the indices   *)
(* of its action; Probe is not counted as an instruction.                  *)
CompileInstruction(c, i) ==
  LET probe == i.op = "Probe"
      here  == c.instructions + 1
      new   == Len(c.variables)
      out   == Produced(c, i)
      held  == IF i.op \in Modifying
               THEN [c.variables EXCEPT ![i.inputs[1]] = Modified(c, i)] ELSE c.variables
      block == [ header_var |-> new + 1, block_var |-> new + 2,
                 block_transactions_var |-> i.inputs[5] ]
  IN  IF c.error # "None" THEN c
      ELSE IF Failure(c, i) # "None" THEN [c EXCEPT !.error = Failure(c, i)]
      ELSE [ c EXCEPT
        !.variables = held \o out,
        !.variable_indices = @ \o [ k \in Indices(out) |-> here ],
        !.actions = @ \o Emitted(c, i),
        !.action_indices = IF probe THEN @ ELSE @ \o [ k \in Indices(Emitted(c, i)) |-> here ],
        !.connection_counter = IF i.op \in Connecting THEN @ + 1 ELSE @,
        !.connection_map = IF i.op = "LoadConnection" THEN OrInsert(@, i.arg, new + 1) ELSE @,
        !.block_tx_var_map = IF i.op = "BuildBlock" THEN OrInsert(@, out[2].hash, block) ELSE @,
        !.instructions = IF probe THEN @ ELSE here ]

Compile(p) == Folded(CompileInstruction, NewCompiler, p)
=============================================================================

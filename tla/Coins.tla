-------------------------------- MODULE Coins --------------------------------
(***************************************************************************)
(* The compiler again, for the values that Compiler leaves opaque: the     *)
(* outputs, transactions, headers and blocks that a program builds.  What  *)
(* the code identifies by a hash is identified here by the position of     *)
(* what is hashed in a table of everything hashed so far, so that equal    *)
(* contents have equal ids and changed contents another one.  Scripts are  *)
(* known by the operation that builds them; amounts are in units of 5000   *)
(* satoshi, the least that a generated output may have.                    *)
(***************************************************************************)
EXTENDS Programs

CONSTANT SnapshotTxos        \* the values of the outputs a LoadTxo may load

ASSUME CoinsAssumption == SnapshotTxos \in Seq(Nat)

BlockReward == 500000        \* Amount::from_int_btc(25)

Scripting ==
  { "BuildPayToWitnessScriptHash", "BuildPayToScriptHash", "BuildRawScripts",
    "BuildOpReturnScripts", "BuildPayToAnchor", "BuildPayToTaproot", "BuildPayToPubKey",
    "BuildPayToPubKeyHash", "BuildPayToWitnessPubKeyHash", "BuildPayToBareMulti",
    "BuildPayToBareMultiEncoded" }

Plain == [kind |-> "opaque"]

NewCoins == [variables |-> <<>>, hashed |-> <<>>, blocks |-> <<>>, error |-> "None"]

-----------------------------------------------------------------------------
(* Hashing: the table with a content in it, and the id of a content.       *)
With(hashed, content) ==
  IF content \in Range(hashed) THEN hashed ELSE Append(hashed, content)

IdOf(hashed, content) == CHOOSE id \in Indices(hashed) : hashed[id] = content

Given(c, i, k) == c.variables[i.inputs[k]]

(* What a handler returns: the values of the variables it creates, and     *)
(* what it hashed on the way.                                              *)
Values(c, values) == [c EXCEPT !.variables = @ \o values]

(* What a handler changes besides: the value of its first input.           *)
Changing(c, i, value) == [c EXCEPT !.variables[i.inputs[1]] = value]

-----------------------------------------------------------------------------
(* Transactions.                                                           *)

TxoOf(output, id, index) ==
  [outpoint |-> <<id, index>>, scripts |-> output.scripts, value |-> output.value]

(* Txo::new: the value that TakeTxo leaves where there is nothing to take. *)
NoTxo == [outpoint |-> <<0, 0>>, scripts |-> "none", value |-> 0]

(* add_tx_input.                                                           *)
AddTxInput(c, i) ==
  LET inputs == Given(c, i, 1)
      txo    == Given(c, i, 2)
  IN  Changing(c, i, [ inputs |-> Append(inputs.inputs, txo.outpoint),
                       total_value |-> inputs.total_value + txo.value ])

(* Mutant of AddTxOutput: the output is not paid from the inputs.          *)
AddTxOutputForFree(c, i) ==
  LET outputs == Given(c, i, 1)
      amount  == Min({Given(c, i, 3), outputs.fees})
  IN  Changing(c, i, [ outputs |-> Append(outputs.outputs, [scripts |-> Given(c, i, 2), value |-> amount]),
                       fees |-> outputs.fees ])

(* AddTxOutput, AddCoinbaseTxOutput: no more than what is left.            *)
AddTxOutput(c, i) ==
  LET outputs == Given(c, i, 1)
      amount  == Min({Given(c, i, 3), outputs.fees})
  IN  Changing(c, i, [ outputs |-> Append(outputs.outputs, [scripts |-> Given(c, i, 2), value |-> amount]),
                       fees |-> outputs.fees - amount ])

TxContent(inputs, outputs) == [spent |-> inputs, paid |-> outputs]

(* Mutant of FinalizeTx: the id is that of the transaction before its      *)
(* outputs are filled in.                                                  *)
FinalizeTxEarly(c, i) ==
  LET inputs  == Given(c, i, 2).inputs
      outputs == Given(c, i, 3).outputs
      early   == TxContent(inputs, <<>>)
      hashed  == With(c.hashed, early)
      id      == IdOf(hashed, early)
  IN  Values([c EXCEPT !.hashed = hashed],
             << [ inputs |-> inputs, outputs |-> outputs, id |-> id, output_selector |-> 0,
                  txos |-> [ k \in Indices(outputs) |-> TxoOf(outputs[k], id, k) ] ] >>)

(* finalize_tx: one Txo for every output, under the id of the whole.       *)
FinalizeTx(c, i) ==
  LET inputs  == Given(c, i, 2).inputs
      outputs == Given(c, i, 3).outputs
      content == TxContent(inputs, outputs)
      hashed  == With(c.hashed, content)
      id      == IdOf(hashed, content)
  IN  Values([c EXCEPT !.hashed = hashed],
             << [ inputs |-> inputs, outputs |-> outputs, id |-> id, output_selector |-> 0,
                  txos |-> [ k \in Indices(outputs) |-> TxoOf(outputs[k], id, k) ] ] >>)

(* Mutant of TakeTxo: the selector stays where it is.                      *)
TakeFirstTxo(c, i) ==
  LET tx == Given(c, i, 1)
  IN  Values(c, << IF tx.txos = <<>> THEN NoTxo ELSE tx.txos[1] >>)

(* TakeTxo, TakeCoinbaseTxo: the outputs in turn.                          *)
TakeTxo(c, i) ==
  LET tx   == Given(c, i, 1)
      next == (tx.output_selector % Len(tx.txos)) + 1
  IN  IF tx.txos = <<>> THEN Values(c, <<NoTxo>>)
      ELSE Values(Changing(c, i, [tx EXCEPT !.output_selector = @ + 1]), <<tx.txos[next]>>)

(* handle_taproot_conversions: an annex needs a taproot script.            *)
UseAnnex(c, scripts, value) ==
  IF scripts = "BuildPayToTaproot" THEN Values(c, <<value>>) ELSE [c EXCEPT !.error = "MiscError"]

-----------------------------------------------------------------------------
(* Blocks.                                                                 *)

(* The coinbase transaction of a block at a height, with the commitment to *)
(* the other transactions of the block in its last output.  create_witness *)
(* _commitment_output of no transactions is also the placeholder that      *)
(* EndBuildCoinbaseTx leaves there.                                        *)
CoinbaseContent(coinbase, height, commitment) ==
  [height |-> height, outputs |-> coinbase.outputs, commitment |-> commitment]

TxIds(txs) == [ k \in Indices(txs) |-> txs[k].id ]

(* build_block.  fixup_commitments replaces the commitment in the copy of  *)
(* the coinbase transaction that is in the block, while the id of the      *)
(* coinbase variable is computed from the transaction with the placeholder.*)
(* A block that is built twice keeps the variables of the first one.       *)
HeaderContent(parent, txs, time) == [prev |-> parent.hash, txs |-> txs, time |-> time]

Recorded(blocks, block) ==
  IF \E b \in Range(blocks) : b.hash = block.hash THEN blocks ELSE Append(blocks, block)

BlockFrom(c, coinbase, parent, time, list, placeholder, mined) ==
  LET hashed0 == With(With(c.hashed, placeholder), mined)
      txs     == <<IdOf(hashed0, mined)>> \o TxIds(list)
      header  == HeaderContent(parent, txs, time)
      hashed  == With(hashed0, header)
      hash    == IdOf(hashed, header)
      id      == IdOf(hashed, placeholder)
      height  == parent.height + 1
  IN  [ Values(c, << [height |-> height, hash |-> hash], [hash |-> hash],
                     [ inputs |-> <<>>, outputs |-> coinbase.outputs, id |-> id, output_selector |-> 0,
                       txos |-> [ k \in Indices(coinbase.outputs) |->
                                    TxoOf(coinbase.outputs[k], id, k) ] ] >>)
        EXCEPT !.hashed = hashed,
               !.blocks = Recorded(@, [ hash |-> hash, prev |-> parent.hash, height |-> height,
                                        txs |-> txs, list |-> list,
                                        header_var |-> Len(c.variables) + 1 ]) ]

BuildBlock(c, i) ==
  LET parent == Given(c, i, 2)
      list   == Given(c, i, 5)
      Mined(commitment) == CoinbaseContent(Given(c, i, 1), parent.height + 1, commitment)
  IN  BlockFrom(c, Given(c, i, 1), parent, Given(c, i, 3), list, Mined(<<>>), Mined(TxIds(list)))

(* LoadHeader of the snapshot's block at a height.                         *)
LoadHeader(c, height) ==
  LET hashed == With(c.hashed, [snapshot |-> height])
  IN  Values([c EXCEPT !.hashed = hashed],
             << [height |-> height, hash |-> IdOf(hashed, [snapshot |-> height])] >>)

-----------------------------------------------------------------------------
Handled(c, i) ==
  CASE i.op = "LoadTxo" ->
         Values(c, << [outpoint |-> <<0, i.arg>>, scripts |-> "none", value |-> SnapshotTxos[i.arg]] >>)
    [] i.op = "LoadHeader" -> LoadHeader(c, i.arg)
    [] i.op \in {"LoadAmount", "LoadTime", "LoadDuration"} -> Values(c, <<i.arg>>)
    [] i.op = "AdvanceTime" -> Values(c, << Given(c, i, 1) + Given(c, i, 2) >>)
    [] i.op \in Scripting -> Values(c, <<i.op>>)
    [] i.op = "TaprootScriptsUseAnnex" -> UseAnnex(c, Given(c, i, 1), Given(c, i, 1))
    [] i.op = "TaprootTxoUseAnnex" -> UseAnnex(c, Given(c, i, 1).scripts, Given(c, i, 1))
    [] i.op = "BeginBuildTxInputs" -> Values(c, << [inputs |-> <<>>, total_value |-> 0] >>)
    [] i.op = "AddTxInput" -> AddTxInput(c, i)
    [] i.op = "BuildCoinbaseTxInput" -> Values(c, << [inputs |-> <<>>, total_value |-> BlockReward] >>)
    [] i.op \in {"BeginBuildTxOutputs", "BeginBuildCoinbaseTxOutputs"} ->
         Values(c, << [outputs |-> <<>>, fees |-> Given(c, i, 1).total_value] >>)
    [] i.op \in {"AddTxOutput", "AddCoinbaseTxOutput"} -> AddTxOutput(c, i)
    [] i.op \in {"EndBuildTxInputs", "EndBuildTxOutputs", "EndBuildCoinbaseTxOutputs",
                 "EndBlockTransactions"} -> Values(c, << Given(c, i, 1) >>)
    [] i.op = "EndBuildTx" -> FinalizeTx(c, i)
    [] i.op = "EndBuildCoinbaseTx" -> Values(c, << [outputs |-> Given(c, i, 3).outputs] >>)
    [] i.op \in {"TakeTxo", "TakeCoinbaseTxo"} -> TakeTxo(c, i)
    [] i.op = "BeginBlockTransactions" -> Values(c, << <<>> >>)
    [] i.op = "AddTx" -> Changing(c, i, Append(Given(c, i, 1), Given(c, i, 2)))
    [] i.op = "BuildBlock" -> BuildBlock(c, i)
    [] OTHER -> Values(c, [ k \in Indices(Created(i)) |-> Plain ])

CompileCoin(c, i) == IF c.error # "None" THEN c ELSE Handled(c, i)

Coins(p) == Folded(CompileCoin, NewCoins, p)

=============================================================================

------------------------------ MODULE Generation ------------------------------
(***************************************************************************)
(* The transaction and block generators at work on one program: each       *)
(* inserts its instructions at a place of its choice, possibly led by what *)
(* a probe found out about the program, and the input mutator rewires what *)
(* is there.  A generator's instructions are written down for a builder    *)
(* that holds n variables, so that the next ones are n + 1, n + 2 and so   *)
(* on.  Scripts, keys, and the announcement of transactions to the target  *)
(* are as in the code but without their contents.                          *)
(***************************************************************************)
EXTENDS Coins

CONSTANTS
  InputMutable,      \* Op -> Instruction::is_input_mutable
  InitialPrograms,   \* the programs to start from
  SnapshotHeights,   \* the heights of the headers of the snapshot
  Outputs,           \* the lists of outputs that a generated transaction may have
  BlockOutputs,      \* those with scripts that only blocks may carry
  ChainLength,       \* transactions in a long chain (25)
  NumRecentBlocks,   \* NUM_RECENT_BLOCKS
  MaxSteps,          \* bound: mutations of one program ...
  MaxLength          \* ... none of which starts from more instructions

ASSUME GenerationAssumption ==
  /\ InputMutable \in [Op -> BOOLEAN]
  /\ \A p \in InitialPrograms : IsStaticallyValid(p)
  /\ SnapshotHeights \subseteq Nat /\ SnapshotHeights # {}
  /\ ChainLength \in Nat \ {0} /\ NumRecentBlocks \in Nat \ {0}
  /\ MaxSteps \in Nat /\ MaxLength \in Nat

VARIABLES
  program,
  metadata,       \* what the generators know of the program: recent blocks, or nothing
  result,         \* of the last mutation: "Ok", "Skipped", "Panic"
  last,           \* auxiliary: the last generator and the instructions it inserted
  steps

vars == <<program, metadata, result, last, steps>>

Unknown == [known |-> FALSE, tip |-> Max(SnapshotHeights), recent_blocks |-> <<>>]
Nobody == [by |-> "nobody", from |-> 1, to |-> 0]

Init ==
  /\ program \in InitialPrograms
  /\ metadata = Unknown
  /\ result = "Ok"
  /\ last = Nobody
  /\ steps = 0

-----------------------------------------------------------------------------
(* Pieces of programs.  A draft holds the instructions that a generator has *)
(* appended so far, the number of variables the builder has by then, and   *)
(* the variables that the generator keeps: the transactions it built, the  *)
(* outputs of the last one, and the header, coinbase transaction and       *)
(* connection in use (0 where it has none yet).                            *)

Load(op, arg) == [op |-> op, inputs |-> <<>>, arg |-> arg]

NumVars(code) == Folded(LAMBDA n, i : n + Len(Created(i)), 0, code)

NewDraft(n, coinbase, connection) ==
  [ code |-> <<>>, n |-> n, txs |-> <<>>, txos |-> <<>>, header |-> 0, coinbase |-> coinbase,
    connection |-> connection ]

Write(d, code) == [d EXCEPT !.code = @ \o code, !.n = @ + NumVars(code)]

(* build_outputs: the scripts of one output; its variable is the last.     *)
Paying(type, n) ==
  CASE type \in {"BuildPayToWitnessScriptHash", "BuildPayToScriptHash"} ->
         << Load("LoadBytes", 0), Load("BeginWitnessStack", 0),
            Instruction("EndWitnessStack", <<n + 2>>), Instruction(type, <<n + 1, n + 3>>) >>
    [] type = "BuildPayToAnchor" -> << Load(type, 0) >>
    [] type = "BuildOpReturnScripts" -> << Load("LoadSize", 0), Instruction(type, <<n + 1>>) >>
    [] type \in {"BuildPayToPubKey", "BuildPayToPubKeyHash", "BuildPayToWitnessPubKeyHash"} ->
         << Load("LoadPrivateKey", 0), Load("LoadSigHashFlags", 0), Instruction(type, <<n + 1, n + 2>>) >>
    [] type = "BuildPayToTaproot" -> << Load("BuildTaprootTree", 0), Instruction(type, <<n + 1>>) >>
    [] type \in {"BuildPayToBareMulti", "BuildPayToBareMultiEncoded"} ->
         << Load("LoadSigHashFlags", 0), Instruction(type, <<n + 1>>) >>
    [] type = "BuildRawScripts" ->
         << Load("LoadBytes", 0), Load("LoadBytes", 0), Load("BeginWitnessStack", 0),
            Instruction("EndWitnessStack", <<n + 3>>), Instruction(type, <<n + 1, n + 2, n + 4>>) >>

PayScripts(d, mut, op, amount) ==
  Write(d, << Load("LoadAmount", amount), Instruction(op, <<mut, d.n, d.n + 1>>) >>)

BuildOutputs(d, mut, op, outputs) ==
  Folded(LAMBDA e, output : PayScripts(Write(e, Paying(output.scripts, e.n)), mut, op, output.amount),
         d, outputs)

(* build_tx.  With f inputs, that they are complete is variable n + 5 + f  *)
(* and the outputs are added to variable n + 6 + f.                        *)
TxInputs(n, funding) ==
  << Load("LoadTxVersion", 0), Load("LoadLockTime", 0), Instruction("BeginBuildTx", <<n + 1, n + 2>>),
     Load("BeginBuildTxInputs", 0) >>
  \o FlattenSeq([ k \in Indices(funding) |->
       << Load("LoadSequence", 0), Instruction("AddTxInput", <<n + 4, funding[k], n + 4 + k>>) >> ])
  \o << Instruction("EndBuildTxInputs", <<n + 4>>),
        Instruction("BeginBuildTxOutputs", <<n + 5 + Len(funding)>>) >>

EndTx(d, n, inputs) ==
  Write([d EXCEPT !.txs = Append(@, d.n + 2), !.txos = <<>>],
        << Instruction("EndBuildTxOutputs", <<inputs + 1>>),
           Instruction("EndBuildTx", <<n + 3, inputs, d.n + 1>>) >>)

(* The Txo of one output, with an annex where the generator wants one.     *)
TakeOutput(d, output) ==
  IF output.annex
  THEN Write([d EXCEPT !.txos = Append(@, d.n + 3)],
             << Instruction("TakeTxo", <<Last(d.txs)>>), Load("LoadTaprootAnnex", 0),
                Instruction("TaprootTxoUseAnnex", <<d.n + 1, d.n + 2>>) >>)
  ELSE Write([d EXCEPT !.txos = Append(@, d.n + 1)], << Instruction("TakeTxo", <<Last(d.txs)>>) >>)

BuildTx(d, funding, outputs) ==
  Folded(TakeOutput,
         EndTx(BuildOutputs(Write(d, TxInputs(d.n, funding)), d.n + 6 + Len(funding), "AddTxOutput",
                            outputs),
               d.n, d.n + 5 + Len(funding)),
         outputs)

(* CoinbaseTxGenerator.                                                    *)
CoinbaseInputs(n) ==
  << Load("LoadTxVersion", 0), Load("LoadLockTime", 0),
     Instruction("BeginBuildCoinbaseTx", <<n + 1, n + 2>>), Load("LoadSequence", 0),
     Instruction("BuildCoinbaseTxInput", <<n + 4>>),
     Instruction("BeginBuildCoinbaseTxOutputs", <<n + 5>>) >>

EndCoinbaseTx(d, n) ==
  Write([d EXCEPT !.coinbase = d.n + 2],
        << Instruction("EndBuildCoinbaseTxOutputs", <<n + 6>>),
           Instruction("EndBuildCoinbaseTx", <<n + 3, n + 5, d.n + 1>>) >>)

BuildCoinbaseTx(d, outputs) ==
  EndCoinbaseTx(BuildOutputs(Write(d, CoinbaseInputs(d.n)), d.n + 6, "AddCoinbaseTxOutput", outputs), d.n)

(* get_or_create_random_connection: the choices, and what it appends.      *)
Connections(b) ==
  LET seen == VisibleOf(b, "Connection")
  IN  IF seen = {} THEN {0} ELSE seen

Connect(d) ==
  IF d.connection # 0 THEN d
  ELSE Write([d EXCEPT !.connection = d.n + 1], << Load("LoadConnection", 0) >>)

(* The announcement of a transaction on a connection.                      *)
Announce(d, tx) ==
  Write(d, << Load("BeginBuildInventory", 0), Instruction("AddWtxidInv", <<d.n + 1, tx>>),
              Instruction("EndBuildInventory", <<d.n + 1>>), Instruction("SendInv", <<d.connection, d.n + 2>>),
              Instruction("SendTx", <<d.connection, tx>>) >>)

AnnounceAll(d, txs) == Folded(Announce, Connect(d), txs)

-----------------------------------------------------------------------------
(* The transaction generators, as the sets of drafts that each may append  *)
(* to the builder b; empty where it misses a variable.                     *)

(* get_random_utxos: the outputs that were taken or loaded and are not an  *)
(* input of a transaction yet.                                             *)
Unspent(b) ==
  LET origin == Origins(b.instructions)
      Spent  == { b.instructions[k].inputs[2] :
                    k \in { j \in Indices(b.instructions) : b.instructions[j].op = "AddTxInput" } }
  IN  { v \in VisibleOf(b, "Txo") :
          /\ b.instructions[origin[v][1]].op \in {"TakeTxo", "LoadTxo"}
          /\ v \notin Spent }

Sorted(S) ==
  [ k \in 1..Cardinality(S) |-> CHOOSE v \in S : Cardinality({ w \in S : w <= v }) = k ]

Fundings(b) == { Sorted(S) : S \in SUBSET Unspent(b) \ {{}} }

Drafts(b) == { NewDraft(Len(b.variables), 0, connection) : connection \in Connections(b) }

TxoGenerator(b) ==
  { Write(NewDraft(Len(b.variables), 0, 0), << Load("LoadTxo", k) >>) : k \in Indices(SnapshotTxos) }

SingleTx(d, announced) == IF announced THEN AnnounceAll(d, d.txs) ELSE d

SingleTxGenerator(b) ==
  { SingleTx(BuildTx(d, funding, outputs), announced) :
      d \in Drafts(b), funding \in Fundings(b), outputs \in Outputs, announced \in BOOLEAN }

Paid(scripts, amount) == [scripts |-> scripts, amount |-> amount, annex |-> FALSE]

(* The child spends the last output of the parent and is sent first.       *)
Parent(d, funding) ==
  BuildTx(d, funding, << Paid("BuildPayToWitnessScriptHash", 20000), Paid("BuildPayToAnchor", 2) >>)

Child(d) == BuildTx(d, << Last(d.txos) >>, << Paid("BuildPayToWitnessScriptHash", 10000) >>)

Package(d) == AnnounceAll(d, Reverse(d.txs))

OneParentOneChildGenerator(b) ==
  { Package(Child(Parent(d, funding))) : d \in Drafts(b), funding \in Fundings(b) }

(* Mutant of LongChain: the amounts fall to nothing.                       *)
LongChainToNothing(d) ==
  Folded(LAMBDA e, k :
           BuildTx(e, e.txos, << Paid("BuildPayToWitnessScriptHash", 20000 - 20000 * k) >>),
         d, [ k \in 1..ChainLength |-> k ])

(* Every transaction spends the output of the one before it.               *)
LongChain(d) ==
  Folded(LAMBDA e, k :
           BuildTx(e, e.txos, << Paid("BuildPayToWitnessScriptHash", 20000 - 20 * (k - 1)) >>),
         d, [ k \in 1..ChainLength |-> k ])

SendingChain(d) == AnnounceAll(d, d.txs)

LongChainGenerator(b) ==
  { SendingChain(LongChain([d EXCEPT !.txos = funding])) : d \in Drafts(b), funding \in Fundings(b) }

(* One large transaction for every output, each sent as it is built.       *)
AnnounceLast(d) == Announce(d, Last(d.txs))

LargeTxs(d, utxos) ==
  Folded(LAMBDA e, utxo : AnnounceLast(BuildTx(e, <<utxo>>, << Paid("BuildOpReturnScripts", 2) >>)),
         d, utxos)

LargeTxGenerator(b) ==
  { LargeTxs(Connect(d), utxos) : d \in Drafts(b), utxos \in Fundings(b) }

CoinbaseTxGenerator(b) ==
  { BuildCoinbaseTx(NewDraft(Len(b.variables), 0, 0), outputs) : outputs \in Outputs }

-----------------------------------------------------------------------------
(* The block generators.                                                   *)

(* Mutant of TxLists: the last transaction first.                          *)
TxListsLastFirst(b) ==
  LET txs == VisibleOf(b, "ConstTx")
  IN  IF txs = {} THEN { <<>> } ELSE { Reverse(Sorted(S)) : S \in SUBSET txs \ {{}} }

(* Some of the transactions there are, parents before their children.      *)
TxLists(b) ==
  LET txs == VisibleOf(b, "ConstTx")
  IN  IF txs = {} THEN { <<>> } ELSE { Sorted(S) : S \in SUBSET txs \ {{}} }

(* build_block_with_txs on the header in use: where there is no coinbase   *)
(* transaction or no connection yet the block brings its own, and its      *)
(* header is the one in use from then on.                                  *)
Listing(n, txs) ==
  << Load("BeginBlockTransactions", 0) >>
  \o [ k \in Indices(txs) |-> Instruction("AddTx", <<n + 1, txs[k]>>) ]
  \o << Instruction("EndBlockTransactions", <<n + 1>>), Load("LoadBlockVersion", 0) >>

Mine(d, outputs) == IF d.coinbase # 0 THEN d ELSE BuildCoinbaseTx(d, outputs)

BuildBlockOf(d, time, list) ==
  Write([d EXCEPT !.header = d.n + 1],
        << Instruction("BuildBlock", <<d.coinbase, d.header, time, list + 1, list>>) >>)

SendBlockOf(d) ==
  Write(d, << Instruction("SendHeader", <<d.connection, d.header>>),
              Instruction("SendBlock", <<d.connection, d.header + 1>>),
              Instruction("TakeCoinbaseTxo", <<d.header + 2>>) >>)

Block(d, time, txs, outputs) ==
  SendBlockOf(Connect(BuildBlockOf(Mine(Write(d, Listing(d.n, txs)), outputs), time, d.n + 2)))

(* What all of them choose among: a time, the transactions, a coinbase     *)
(* transaction (or its outputs) and a connection.                          *)
Coinbases(b) ==
  LET seen == VisibleOf(b, "CoinbaseTx")
  IN  IF seen = {} THEN {0} ELSE seen

BlockDrafts(b) ==
  { NewDraft(Len(b.variables), coinbase, connection) :
      coinbase \in Coinbases(b), connection \in Connections(b) }

(* A random header, or the nearest one that was sent.                      *)
BlockGenerator(b) ==
  { Block([d EXCEPT !.header = header], time, txs, outputs) :
      d \in BlockDrafts(b), header \in VisibleOf(b, "Header"), time \in VisibleOf(b, "Time"),
      txs \in TxLists(b), outputs \in Outputs }

(* The header of the tip: that of the highest recent block, or else of the *)
(* snapshot's tip, which is loaded.                                        *)
Highest(recent) == CHOOSE r \in Range(recent) : \A s \in Range(recent) : s.height <= r.height

LoadHeaderAt(d, height) == Write([d EXCEPT !.header = d.n + 1], << Load("LoadHeader", height) >>)

OnTip(d, recent) ==
  IF recent = <<>> THEN LoadHeaderAt(d, Max(SnapshotHeights))
  ELSE [d EXCEPT !.header = Highest(recent).variable]

(* Without metadata it appends nothing.                                    *)
Nothing(b) == { NewDraft(Len(b.variables), 0, 0) }

TipBlockGenerator(b) ==
  IF ~ metadata.known THEN Nothing(b)
  ELSE { Block(OnTip(d, metadata.recent_blocks), time, txs, outputs) :
           d \in BlockDrafts(b), time \in VisibleOf(b, "Time"), txs \in TxLists(b),
           outputs \in Outputs }

(* Mutant of ForkLength: as many blocks as the chain lost.                 *)
ForkLengthLevel(tip, height) == tip - height

ForkLength(tip, height) == tip - height + 1

(* grafting_header: where to fork off, and how many blocks overtake the    *)
(* tip from there.                                                         *)
Grafts(d, recent) ==
  IF recent = <<>>
  THEN { [draft |-> LoadHeaderAt(d, h), length |-> ForkLength(Max(SnapshotHeights), h)] : h \in SnapshotHeights }
  ELSE { [draft |-> [d EXCEPT !.header = r.variable],
          length |-> ForkLength(Highest(recent).height, r.height)] : r \in Range(recent) }

(* build_block_from_header chooses anew for every block of the fork; what  *)
(* there was none of is brought along by the first block.                  *)
BlockChoices(b) ==
  [ time : VisibleOf(b, "Time"), txs : TxLists(b), coinbase : Coinbases(b), connection : Connections(b) ]

Using(d, choice) ==
  [d EXCEPT !.coinbase = IF choice.coinbase = 0 THEN @ ELSE choice.coinbase,
            !.connection = IF choice.connection = 0 THEN @ ELSE choice.connection]

Fork(graft, choices, outputs) ==
  Folded(LAMBDA d, choice : Block(Using(d, choice), choice.time, choice.txs, outputs), graft.draft, choices)

ReorgBlockGenerator(b) ==
  IF ~ metadata.known THEN Nothing(b)
  ELSE UNION { { Fork(graft, choices, outputs) :
                   choices \in [1..graft.length -> BlockChoices(b)], outputs \in Outputs } :
                 graft \in UNION { Grafts(d, metadata.recent_blocks) : d \in Nothing(b) } }

(* Mutant of Unloaded: any output of the snapshot.                         *)
AnySnapshotTxo(b) == Indices(SnapshotTxos)

(* The outputs of the snapshot that the builder has not loaded.            *)
Unloaded(b) ==
  Indices(SnapshotTxos) \
    { b.instructions[k].arg : k \in { j \in Indices(b.instructions) : b.instructions[j].op = "LoadTxo" } }

(* NonStandardSpendGenerator: a block on the tip with a transaction whose  *)
(* outputs the mempool would refuse and one that spends them all, at a     *)
(* time after the nearest one.                                             *)
Funding(d, txo, outputs) == BuildTx(Write(d, << Load("LoadTxo", txo) >>), <<d.n + 1>>, outputs)

Spending(d) == BuildTx(d, d.txos, << Paid("BuildPayToAnchor", 1) >>)

(* get_nearest_variable, 0 where there is none.                            *)
NearestTime(b) == Max({0} \cup VisibleOf(b, "Time"))

Advance(d, time) == Write(d, << Load("LoadDuration", 1), Instruction("AdvanceTime", <<time, d.n + 1>>) >>)

Later(d, time) ==
  IF time = 0 THEN Advance(Write(d, << Load("LoadTime", 0) >>), d.n + 1) ELSE Advance(d, time)

SpendInBlock(d, outputs) == Block(d, d.n, d.txs, outputs)

NonStandardSpendGenerator(b) ==
  { SpendInBlock(Later(OnTip(Spending(Funding(d, txo, paid)), metadata.recent_blocks), NearestTime(b)),
                 outputs) :
      d \in BlockDrafts(b), txo \in Unloaded(b), paid \in BlockOutputs, outputs \in Outputs }

HeaderGenerator(b) == { LoadHeaderAt(d, height) : d \in Nothing(b), height \in SnapshotHeights }

SendTo(d, op, block) == Write(d, << Instruction(op, <<d.connection, block>>) >>)

SendBlockGenerator(b) ==
  { SendTo(Connect(d), op, block) :
      d \in Drafts(b), op \in {"SendBlock", "SendBlockNoWit"}, block \in VisibleOf(b, "Block") }

(* Further transactions for the block that is being listed.                *)
AddTxs(d, list, txs) ==
  Write(d, [ k \in Indices(txs) |-> Instruction("AddTx", <<list, txs[k]>>) ])

AddTxToBlockGenerator(b) ==
  LET lists == VisibleOf(b, "MutBlockTransactions")
  IN  IF lists = {} THEN {}
      ELSE { AddTxs(d, Max(lists), txs) : d \in Nothing(b), txs \in TxLists(b) }

-----------------------------------------------------------------------------
(* IrGenerator::mutate around each of them.                                *)

Generators == { "TxoGenerator", "SingleTxGenerator", "OneParentOneChildGenerator",
                "LongChainGenerator", "LargeTxGenerator", "CoinbaseTxGenerator", "BlockGenerator",
                "TipBlockGenerator", "ReorgBlockGenerator", "NonStandardSpendGenerator",
                "HeaderGenerator", "SendBlockGenerator", "AddTxToBlockGenerator" }

Generated(generator, b) ==
  CASE generator = "TxoGenerator" -> TxoGenerator(b)
    [] generator = "SingleTxGenerator" -> SingleTxGenerator(b)
    [] generator = "OneParentOneChildGenerator" -> OneParentOneChildGenerator(b)
    [] generator = "LongChainGenerator" -> LongChainGenerator(b)
    [] generator = "LargeTxGenerator" -> LargeTxGenerator(b)
    [] generator = "CoinbaseTxGenerator" -> CoinbaseTxGenerator(b)
    [] generator = "BlockGenerator" -> BlockGenerator(b)
    [] generator = "TipBlockGenerator" -> TipBlockGenerator(b)
    [] generator = "ReorgBlockGenerator" -> ReorgBlockGenerator(b)
    [] generator = "NonStandardSpendGenerator" -> NonStandardSpendGenerator(b)
    [] generator = "HeaderGenerator" -> HeaderGenerator(b)
    [] generator = "SendBlockGenerator" -> SendBlockGenerator(b)
    [] generator = "AddTxToBlockGenerator" -> AddTxToBlockGenerator(b)

(* Mutant of First: wherever the context is right.                         *)
FirstAnywhere(generator, recent) == 0

(* choose_index: the first place after the definition of the highest       *)
(* recent block, or of all of them.                                        *)
First(generator, recent) ==
  IF recent = <<>> THEN 0
  ELSE IF generator \in {"TipBlockGenerator", "NonStandardSpendGenerator"}
       THEN Highest(recent).instruction
  ELSE IF generator = "ReorgBlockGenerator" THEN Max({ r.instruction : r \in Range(recent) })
  ELSE 0

RequestedContext(generator) ==
  IF generator = "AddTxToBlockGenerator" THEN "BlockTransactions" ELSE Global

Places(generator) ==
  { k \in InsertionIndices(program, RequestedContext(generator)) : k >= First(generator, metadata.recent_blocks) }

(* An instruction the builder refuses makes force_append panic; a rest of  *)
(* the program it refuses is given up.                                     *)
Concludes(r, generator, k, code) ==
  IF r.result = "middle" THEN result' = "Panic" /\ UNCHANGED <<program, last>>
  ELSE IF r.result # "Ok" THEN result' = "Skipped" /\ last' = Nobody /\ UNCHANGED program
  ELSE /\ result' = "Ok" /\ program' = r.program
       /\ last' = [by |-> generator, from |-> k + 1, to |-> k + Len(code)]

Skips == result' = "Skipped" /\ last' = Nobody /\ UNCHANGED program

GenerateOneOf(drafts, before, generator, k) ==
  \/ drafts = {} /\ Skips
  \/ \E d \in drafts : Concludes(InsertAfter(before, program, k, d.code, 0), generator, k, d.code)

GenerateAfter(before, generator, k) ==
  GenerateOneOf(Generated(generator, before.builder), before, generator, k)

(* The client panics on a program that does not compile.                   *)
Mutable ==
  /\ steps < MaxSteps /\ Len(program) <= MaxLength
  /\ result # "Panic" /\ Coins(program).error = "None"

Generate(generator) ==
  /\ Mutable
  /\ \/ Places(generator) = {} /\ Skips
     \/ \E k \in Places(generator) :
          GenerateAfter(AppendAll(NewBuilder, SubSeq(program, 1, k)), generator, k)
  /\ metadata' = Unknown
  /\ steps' = steps + 1

(* InputMutator::mutate of one input.                                      *)
MutateInput ==
  /\ Mutable
  /\ \E k \in { j \in Indices(program) : InputMutable[program[j].op] } :
       \E s \in Indices(program[k].inputs) : \E v \in InputReplacements(program, k, s) :
         program' = [program EXCEPT ![k].inputs[s] = v]
  /\ result' = "Ok" /\ last' = Nobody
  /\ metadata' = Unknown
  /\ steps' = steps + 1

(* The probe of the program: the target's chain ends in the snapshot's tip *)
(* or in a higher block of the program that was sent; its last blocks are  *)
(* reported by the variable and the instruction of the header.             *)
Ancestry(blocks, hash) ==
  FoldRight(LAMBDA block, chain :
              IF block.hash = (IF chain = <<>> THEN hash ELSE Head(chain).prev)
              THEN <<block>> \o chain ELSE chain,
            blocks, <<>>)

Recent(chain) ==
  LET origin == Origins(program)
      seen   == SubSeq(chain, Max({1, Len(chain) - NumRecentBlocks + 1}), Len(chain))
  IN  [ k \in Indices(seen) |-> [ height |-> seen[k].height, variable |-> seen[k].header_var,
                                  instruction |-> origin[seen[k].header_var][1] ] ]

ProbedAt(blocks) ==
  \/ metadata' = [Unknown EXCEPT !.known = TRUE]
  \/ \E k \in Indices(blocks) :
       /\ blocks[k].height > Max(SnapshotHeights)
       /\ metadata' = [ known |-> TRUE, tip |-> blocks[k].height,
                        recent_blocks |-> Recent(Ancestry(blocks, blocks[k].hash)) ]

Probe ==
  /\ Mutable /\ ~ metadata.known
  /\ ProbedAt(Coins(program).blocks)
  /\ UNCHANGED <<program, result, last, steps>>

Next == (\E g \in Generators : Generate(g)) \/ MutateInput \/ Probe

Spec == Init /\ [][Next]_vars

-----------------------------------------------------------------------------
TypeOK ==
  /\ program \in Seq(Instr)
  /\ metadata.known \in BOOLEAN /\ metadata.tip \in Nat
  /\ metadata.recent_blocks \in Seq([height : Nat, variable : Nat, instruction : Nat])
  /\ result \in {"Ok", "Skipped", "Panic"}
  /\ last.by \in Generators \cup {"nobody"}
  /\ steps \in 0..MaxSteps

(* No force_append of a generator is refused: what a generator refers to   *)
(* is in scope wherever it may be inserted, the headers that the probe     *)
(* reported included (builder.rs:406-416, block.rs:243-277).               *)
GeneratorsNeverPanic == result # "Panic"

(* The coins that the program refers to.                                   *)
CreatedBy(ops, p) ==
  LET origin == Origins(p) IN { v \in Indices(origin) : p[origin[v][1]].op \in ops }

TxoVars(p) == CreatedBy({"TakeTxo", "TakeCoinbaseTxo"}, p)
Txs(p) == CreatedBy({"EndBuildTx"}, p)

IsCoinbase(c, id) == "commitment" \in DOMAIN c.hashed[id]

PaysTxo(c, t, txo) ==
  /\ c.hashed[txo.outpoint[1]] = TxContent(c.variables[t].inputs, c.variables[t].outputs)
  /\ txo.outpoint[2] \in Indices(c.variables[t].outputs)
  /\ c.variables[t].outputs[txo.outpoint[2]].value = txo.value

TxosExistIn(c, p, txs) ==
  c.error = "None" =>
    \A v \in TxoVars(p) :
      \/ IsCoinbase(c, c.variables[v].outpoint[1])
      \/ \E t \in txs : t < v /\ PaysTxo(c, t, c.variables[v])

(* Every output that is taken from a transaction is an output of a         *)
(* transaction built before it, under the id of the finished transaction   *)
(* and with the value it was given (compiler.rs:2190-2451).                *)
TxosExist == TxosExistIn(Coins(program), program, Txs(program))

Total(values) == Folded(LAMBDA s, v : s + v, 0, values)

NoInflationIn(c, p) ==
  c.error = "None" =>
    \A k \in Indices(p) : p[k].op = "EndBuildTx" =>
      Total([ n \in Indices(c.variables[p[k].inputs[3]].outputs) |->
              c.variables[p[k].inputs[3]].outputs[n].value ])
        <= c.variables[p[k].inputs[2]].total_value

(* No transaction pays more than it spends, whatever its inputs and the    *)
(* amounts of its outputs are rewired to (compiler.rs:1313-1339).          *)
NoInflation == NoInflationIn(Coins(program), program)

VariablesOf(p, l) ==
  LET origin == Origins(p) IN { v \in Indices(origin) : origin[v][1] \in l.from..l.to }

SpendableIn(c, p, l) ==
  c.error = "None" =>
    LET taken == TxoVars(p)
        fresh == VariablesOf(p, l)
    IN  \A t \in Txs(p) \cap fresh : \A n \in Indices(c.variables[t].outputs) :
          \E v \in taken : c.variables[v].outpoint = <<c.variables[t].id, n>>

(* "Make every output of the transaction spendable" (tx.rs:194): there is  *)
(* a variable for every output of every generated transaction.             *)
EveryOutputSpendable == SpendableIn(Coins(program), program, last)

BlocksInserted(p, l) == { k \in l.from..l.to : k \in Indices(p) /\ p[k].op = "BuildBlock" }

HashBuilt(c, p, k) ==
  LET origin == Origins(p)
  IN  c.variables[CHOOSE v \in Indices(origin) : origin[v] = <<k, 1>>].hash

BlockOf(c, p, k) == CHOOSE b \in Range(c.blocks) : b.hash = HashBuilt(c, p, k)

Spends(tx, other) == \E n \in Indices(tx.inputs) : tx.inputs[n][1] = other.id

InOrder(list) == \A j, k \in Indices(list) : Spends(list[j], list[k]) => k < j

Distinct(c, txs) == \A t, u \in txs : c.variables[t].id = c.variables[u].id => t = u

BlocksInOrderIn(c, p) ==
  c.error = "None" /\ Distinct(c, Txs(p)) => \A k \in BlocksInserted(p, last) : InOrder(BlockOf(c, p, k).list)

(* In a generated block a transaction comes after the transactions whose   *)
(* outputs it spends (block.rs:112), unless the program builds the same    *)
(* transaction twice.                                                      *)
BlocksInOrder == BlocksInOrderIn(Coins(program), program)

OvertakesIn(c, p, l, tip) ==
  c.error = "None" =>
    LET built == { BlockOf(c, p, k) : k \in BlocksInserted(p, l) }
    IN  /\ \E b \in built : b.height = tip + 1
        /\ \A b \in built : b.height <= tip => \E d \in built : d.prev = b.hash

(* A reorganization that was generated from a probe ends one block above   *)
(* the tip that the probe saw: its blocks build on each other and the last *)
(* of them makes the new chain the longest (block.rs:20-63, 437-455).      *)
ReorgOvertakesTip ==
  [][ last'.by = "ReorgBlockGenerator" /\ last' # last /\ metadata.known =>
        OvertakesIn(Coins(program'), program', last', metadata.tip) ]_vars

SpentIn(b) == UNION { Range(b.list[k].inputs) : k \in Indices(b.list) }

ConnectsIn(c, p, l) ==
  c.error = "None" =>
    \A k \in BlocksInserted(p, l) :
      LET block == BlockOf(c, p, k)
          chain == Ancestry(c.blocks, block.prev)
      IN  /\ \A n \in Indices(chain) : SpentIn(block) \cap SpentIn(chain[n]) = {}
          /\ \A n \in Indices(block.list) :
               Cardinality(Range(block.list[n].inputs)) = Len(block.list[n].inputs)

(* "Skip outpoints the program already loads, as an earlier block may have *)
(* spent them and a double spend would reject the block" (block.rs:320):   *)
(* no block that the generated block builds on spends what it spends.      *)
NonStandardBlockConnects ==
  last.by = "NonStandardSpendGenerator" => ConnectsIn(Coins(program), program, last)

CoinbaseTxosExistIn(c, p) ==
  c.error = "None" =>
    \A v \in TxoVars(p) :
      IsCoinbase(c, c.variables[v].outpoint[1]) =>
        \E b \in Range(c.blocks) : Head(b.txs) = c.variables[v].outpoint[1]

(* "Create a Txo for every output except the witness commitment output"    *)
(* (compiler.rs:2126): the output taken from a coinbase transaction is an  *)
(* output of the coinbase transaction of a block.                          *)
CoinbaseTxosExist == CoinbaseTxosExistIn(Coins(program), program)
=============================================================================

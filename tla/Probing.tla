------------------------------- MODULE Probing -------------------------------
(***************************************************************************)
(* One probing execution: the probing stage of a fuzzer client prepends    *)
(* Probe to the program of a testcase and has the scenario process the     *)
(* compiled actions on its connections to the target.  What the target     *)
(* asks for and the blocks on its chain are reported, by variable and      *)
(* instruction of the program, and kept as the metadata of the testcase,   *)
(* which leads the generators to the place of their insertion.  The target *)
(* and the network to it are external: a connection may fail, a message    *)
(* may be lost with its connection, and a compact block may be answered    *)
(* with a request for transactions it does not have.                       *)
(***************************************************************************)
EXTENDS Compiler

CONSTANTS
  Testcases,          \* the programs that may be probed
  NumRecentBlocks     \* NUM_RECENT_BLOCKS

(* A testcase is a valid program.  Probe is only put before it for the     *)
(* time of a probing (compiler.rs:342-352 asserts that it comes first),    *)
(* and a block is built outside of every other block, because its          *)
(* generators ask for the global context (generators/mod.rs:58) and        *)
(* programs are only spliced together there (mutators/combine.rs:32).      *)
ASSUME ProbingAssumption ==
  /\ NumRecentBlocks \in Nat \ {0}
  /\ "Probe" \in Op /\ Signature["Probe"].out \o Signature["Probe"].inner = <<>>
  /\ \A b \in Begins : EnteredContext[b] # Global
  /\ \A p \in Testcases :
       /\ p \in Seq(Instr) /\ IsStaticallyValid(p)
       /\ \A k \in Indices(p) : /\ p[k].op # "Probe"
                                /\ p[k].op = "BuildBlock" => Last(ContextStacks(p)[k]) = Global

(* The stage's new program: the instructions of the testcase after Probe.  *)
Probed(p) == << [op |-> "Probe", inputs |-> <<>>, arg |-> 0] >> \o p

VARIABLES
  program,                          \* the testcase that is probed
  compiled,                         \* what the scenario was given
  processed,                        \* how many of its actions are processed
  non_probe_action_count,
  connections,                      \* handshake_complete of each of the scenario's connections
  recording_received_messages,
  probe_results,                    \* the reports of this execution
  phase,                            \* "acting", "reported", then "probed"
  metadata,                         \* PerTestcaseMetadata of the testcase
  asked                             \* auxiliary: the getblocktxn messages, as they came in

vars == <<program, compiled, processed, non_probe_action_count, connections, recording_received_messages,
          probe_results, phase, metadata, asked>>

Init ==
  /\ program \in Testcases
  /\ compiled = Compile(Probed(program))
  /\ processed = 0 /\ non_probe_action_count = 0
  /\ connections = [ k \in 1..NumConnections |-> TRUE ]
  /\ recording_received_messages = FALSE
  /\ probe_results = <<>>
  /\ phase = "acting"
  /\ metadata = [block_txn_request |-> <<>>, recent_blocks |-> <<>>]
  /\ asked = <<>>

-----------------------------------------------------------------------------
(* The target.  It may ask for the transactions of a compact block that    *)
(* were not prefilled, and for those of a block that a raw message named.  *)
UnknownBlock == << <<>>, <<>> >>     \* a hash that no block of the program has

Ascending(S) ==
  { s \in UNION { [1..n -> S] : n \in 1..Cardinality(S) } :
      \A n, m \in Indices(s) : n < m => s[n] < s[m] }

Requests(action) ==
  IF action.command = "SendCompactBlock"
  THEN LET missing == Indices(action.payload.txs) \ action.payload.prefilled
       IN  { [block_hash |-> action.payload.hash, indexes |-> wanted] : wanted \in Ascending(missing) }
  ELSE IF action.command = "SendRawMessage"
  THEN { [block_hash |-> UnknownBlock, indexes |-> <<1>>] }
  ELSE {}

(* The part of its best chain that the program built: every block on the   *)
(* header of the block before it.                                          *)
OnHeaderOf(hash) == hash[1][2]

Extends(child, parent) == OnHeaderOf(child) = compiled.block_tx_var_map[parent].header_var

Chains ==
  LET Hashes == DOMAIN compiled.block_tx_var_map
  IN  { chain \in UNION { [1..n -> Hashes] : n \in 0..Cardinality(Hashes) } :
          /\ \A n \in 2..Len(chain) : Extends(chain[n], chain[n - 1])
          /\ chain # <<>> => \A h \in Hashes : ~ Extends(chain[1], h) }

-----------------------------------------------------------------------------
(* The scenario.  Connections are numbered from 0 where they are reported. *)

(* probe_result_mapper.                                                    *)
Mapped(request, dst, count) ==
  IF request.block_hash \notin DOMAIN compiled.block_tx_var_map
  THEN [kind |-> "Failure", reason |-> "block hash is not registered in the metadata"]
  ELSE IF dst \notin DOMAIN compiled.connection_map
  THEN [kind |-> "Failure", reason |-> "couldn't find matching connection var"]
  ELSE [ kind |-> "GetBlockTxn",
         connection_index |-> compiled.connection_map[dst],
         triggering_instruction_index |-> compiled.action_indices[count + 1],
         block_variable |-> compiled.block_tx_var_map[request.block_hash].block_var,
         tx_indices_variables |-> request.indexes ]

Acting(kind) ==
  /\ phase = "acting" /\ processed < Len(compiled.actions)
  /\ compiled.actions[processed + 1].kind = kind
  /\ processed' = processed + 1

(* Mutant of Counted: a failed connection is not counted as an action.     *)
CountedIfConnected ==
  non_probe_action_count' =
    IF /\ compiled.actions[processed + 1].kind \in {"Connect", "ConnectAndHandshake"}
       /\ connections' = connections
    THEN non_probe_action_count ELSE non_probe_action_count + 1

Counted == non_probe_action_count' = non_probe_action_count + 1

Reports == <<recording_received_messages, probe_results, asked>>

(* Mutant of Probe: it is counted as well.                                 *)
ProbeCounted ==
  /\ Acting("Probe")
  /\ recording_received_messages' = TRUE
  /\ Counted
  /\ UNCHANGED <<program, compiled, connections, probe_results, phase, metadata, asked>>

Probe ==
  /\ Acting("Probe")
  /\ recording_received_messages' = TRUE
  /\ UNCHANGED <<program, compiled, non_probe_action_count, connections, probe_results, phase, metadata,
                 asked>>

SetTime ==
  /\ Acting("SetTime")
  /\ Counted
  /\ UNCHANGED <<program, compiled, connections, phase, metadata, Reports>>

(* The scenario keeps a new connection if it could connect, and, where the *)
(* program asks for it, if the version handshake succeeded.                *)
Connect ==
  /\ \/ Acting("Connect") /\ connections' \in {connections, Append(connections, FALSE)}
     \/ Acting("ConnectAndHandshake")
        /\ connections' \in {connections, Append(connections, TRUE)}
  /\ Counted
  /\ UNCHANGED <<program, compiled, phase, metadata, Reports>>

(* A message goes to the connection that the id wraps to.  After the       *)
(* handshake the scenario waits for the answer to two pings and records    *)
(* what came before it, unless the transport fails.                        *)
SendRawMessage ==
  /\ Acting("SendRawMessage")
  /\ connections # <<>>
  /\ LET action == compiled.actions[processed + 1]
         dst    == action.from % Len(connections)
     IN  \/ UNCHANGED <<probe_results, asked>>
         \/ /\ connections[dst + 1] /\ recording_received_messages
            /\ \E request \in Requests(action) :
                 /\ probe_results' = Append(probe_results,
                                            Mapped(request, dst, non_probe_action_count))
                 /\ asked' = Append(asked, [ request |-> request, dst |-> dst,
                                             action |-> processed + 1,
                                             num_connections |-> Len(connections) ])
  /\ Counted
  /\ UNCHANGED <<program, compiled, connections, recording_received_messages, phase, metadata>>

(* process_actions returns at a message that no connection can take.       *)
Returns ==
  \/ processed = Len(compiled.actions)
  \/ connections = <<>> /\ compiled.actions[processed + 1].kind = "SendRawMessage"

(* Mutant of RecentBlocks: the variable of the block for that of its       *)
(* header.                                                                 *)
RecentBlocksByBlock(chain) ==
  [ back \in 1..Min({Len(chain), NumRecentBlocks}) |->
      LET height == Len(chain) - back + 1
          block  == compiled.block_tx_var_map[chain[height]].block_var
      IN  [height |-> height, variable |-> block, instruction |-> compiled.variable_indices[block]] ]

(* probe_recent_block_hashes: of the last blocks of the chain, from the    *)
(* tip downwards, those the program built.                                 *)
RecentBlocks(chain) ==
  [ back \in 1..Min({Len(chain), NumRecentBlocks}) |->
      LET height == Len(chain) - back + 1
          header == compiled.block_tx_var_map[chain[height]].header_var
      IN  [height |-> height, variable |-> header, instruction |-> compiled.variable_indices[header]] ]

(* The end of run: the recent blocks are reported unless the target cannot *)
(* be asked for them.                                                      *)
Report ==
  /\ phase = "acting" /\ Returns
  /\ phase' = "reported"
  /\ \/ UNCHANGED probe_results
     \/ /\ recording_received_messages
        /\ \E chain \in Chains :
             probe_results' = Append(probe_results,
                                     [kind |-> "RecentBlocks", result |-> RecentBlocks(chain)])
  /\ UNCHANGED <<program, compiled, processed, non_probe_action_count, connections,
                 recording_received_messages, metadata, asked>>

-----------------------------------------------------------------------------
(* The fuzzer client again: process_probe_results.                         *)

(* add_recent_blocks sorts them: no two of them have the same height.      *)
ByHeight(blocks) ==
  CHOOSE s \in [Indices(blocks) -> ToSet(blocks)] :
    /\ ToSet(s) = ToSet(blocks)
    /\ \A n, m \in Indices(s) : n < m => s[n].height <= s[m].height

Learned(m, result) ==
  CASE result.kind = "GetBlockTxn" -> [m EXCEPT !.block_txn_request = Append(@, result)]
    [] result.kind = "RecentBlocks" ->
         [m EXCEPT !.recent_blocks = ByHeight(result.result)]
    [] result.kind = "Failure" -> m

Learn ==
  /\ phase = "reported"
  /\ phase' = "probed"
  /\ metadata' = Folded(Learned, metadata, probe_results)
  /\ UNCHANGED <<program, compiled, processed, non_probe_action_count, connections,
                 recording_received_messages, probe_results, asked>>

Next == Probe \/ SetTime \/ Connect \/ SendRawMessage \/ Report \/ Learn

Spec == Init /\ [][Next]_vars

-----------------------------------------------------------------------------
(* BlockTxnGenerator with the metadata of the testcase.                    *)

(* ProgramBuilder::get_block_vars: the transactions added to the list that *)
(* the block was built from.                                               *)
GetBlockVars(p, block_var) ==
  LET origin == Origins(p)
      by     == origin[block_var][1]
      list   == p[origin[p[by].inputs[5]][1]].inputs[1]
      added  == SelectSeq(p, LAMBDA i : i.op = "AddTx" /\ i.inputs[1] = list)
  IN  [ k \in Indices(added) |-> added[k].inputs[2] ]

(* Mutant of Picked: block positions taken for positions among the         *)
(* transactions after the coinbase.                                        *)
PickedFromCoinbase(tx_vars, positions) ==
  LET known == SelectSeq(positions, LAMBDA n : n + 1 \in Indices(tx_vars))
  IN  [ k \in Indices(known) |-> tx_vars[known[k] + 1] ]

(* The variables of the requested transactions; position 0 is the coinbase *)
(* transaction, which has none.                                            *)
Picked(tx_vars, positions) ==
  LET known == SelectSeq(positions, LAMBDA n : n \in Indices(tx_vars))
  IN  [ k \in Indices(known) |-> tx_vars[known[k]] ]

(* What the generator appends after the first k instructions, for the      *)
(* first request they triggered.                                           *)
SendingBlockTxn(r, n, txs) ==
  << Instruction("BeginBuildBlockTxn", <<r.block_variable>>) >>
  \o [ t \in Indices(txs) |-> Instruction("AddTxToBlockTxn", <<n + 1, txs[t]>>) ]
  \o << Instruction("EndBuildBlockTxn", <<n + 1>>),
        Instruction("SendBlockTxn", <<r.connection_index, n + 2>>) >>

AnswerTo(r, prefix) ==
  SendingBlockTxn(r, Len(Origins(prefix)),
                  Picked(GetBlockVars(prefix, r.block_variable), r.tx_indices_variables))

FirstTriggeredBy(k, requests) ==
  requests[Min({ n \in Indices(requests) : requests[n].triggering_instruction_index = k })]

BlockTxnFor(p, k) == AnswerTo(FirstTriggeredBy(k, metadata.block_txn_request), SubSeq(p, 1, k))

Answered(p, k) == Insert(p, k, BlockTxnFor(p, k))

-----------------------------------------------------------------------------
TypeOK ==
  /\ program \in Testcases
  /\ processed \in 0..Len(compiled.actions)
  /\ non_probe_action_count \in 0..Len(compiled.action_indices)
  /\ connections \in Seq(BOOLEAN)
  /\ recording_received_messages \in BOOLEAN
  /\ phase \in {"acting", "reported", "probed"}
  /\ metadata.block_txn_request \in
       Seq([ kind : {"GetBlockTxn"}, connection_index : Nat, triggering_instruction_index : Nat,
             block_variable : Nat, tx_indices_variables : Seq(Nat) ])
  /\ metadata.recent_blocks \in Seq([height : Nat, variable : Nat, instruction : Nat])
  /\ Len(asked) = Cardinality({ k \in Indices(probe_results) : probe_results[k].kind # "RecentBlocks" })

(* Whatever connections failed and whichever connection a message really   *)
(* went to, a request is kept with the instruction that sent the compact   *)
(* block it asks about (BlockTxnGenerator asserts that it is a             *)
(* SendCompactBlock), and with a variable that loads the id of the         *)
(* connection it came from (ir.rs:82-129, compiler.rs:512-541).            *)
RequestsNameTheirTrigger ==
  \A n \in Indices(probe_results) :
    LET r == probe_results[n]
        a == asked[n]
    IN  r.kind = "GetBlockTxn" =>
          LET trigger == program[r.triggering_instruction_index]
              loading == program[Origins(program)[r.connection_index][1]]
          IN  /\ trigger.op = "SendCompactBlock"
              /\ compiled.variables[trigger.inputs[2]].hash = a.request.block_hash
              /\ compiled.variables[r.block_variable].hash = a.request.block_hash
              /\ loading.op = "LoadConnection" /\ loading.arg = a.dst

(* A generator that builds on a recent block finds the header of that      *)
(* block at every place after its definition that it may choose ("from     *)
(* here, any header that metadata has is defined", block.rs:471).          *)
RecentHeadersAreDefined ==
  \A n \in Indices(metadata.recent_blocks) :
    LET recent == metadata.recent_blocks[n]
    IN  \A k \in InsertionIndices(program, Global) :
          k >= recent.instruction =>
            LET seen == Visible(Lookup(SubSeq(program, 1, k)))
            IN  recent.variable \in DOMAIN seen /\ seen[recent.variable] = "Header"

(* The generator can answer every request that was kept: the program with  *)
(* the answer sends, right after the compact block, the transactions that  *)
(* were asked for, of the block that was asked for, in the order of the    *)
(* request, and on the connection that asked (block_txn.rs:19-83).         *)
Answers(answer, a, block) ==
  /\ answer.command = "SendBlockTxn"
  /\ answer.from % a.num_connections = a.dst
  /\ answer.payload.hash = a.request.block_hash
  /\ answer.payload.txs = [ k \in Indices(a.request.indexes) |-> block.txs[a.request.indexes[k]] ]

AnsweredBy(again, a, block) ==
  /\ SubSeq(again.actions, 1, a.action) = SubSeq(compiled.actions, 1, a.action)
  /\ Answers(again.actions[a.action + 1], a, block)

AnsweredIn(r, a, block) == r.result = "Ok" /\ AnsweredBy(Compile(Probed(r.program)), a, block)

AnswersWhatWasAsked ==
  phase = "probed" =>
    \A n \in Indices(asked) :
      probe_results[n].kind = "GetBlockTxn" =>
        AnsweredIn(Answered(program, probe_results[n].triggering_instruction_index), asked[n],
                   compiled.variables[probe_results[n].block_variable])

(* "Inserting SendBlockTxn should always succeed" (block_txn.rs:83): what  *)
(* the generator appends after the trigger is accepted by the builder.     *)
InsertionSucceeds ==
  \A n \in Indices(metadata.block_txn_request) :
    LET k == metadata.block_txn_request[n].triggering_instruction_index
    IN  AppendAll(AppendAll(NewBuilder, SubSeq(program, 1, k)).builder,
                  BlockTxnFor(program, k)).result = "Ok"
=============================================================================

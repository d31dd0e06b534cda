# A TLA+ verification project for Fuzzamoto

Fuzzamoto fuzzes Bitcoin full nodes from virtual machine snapshots.  A test case is a *program* in
an intermediate representation (IR): a list of instructions over typed, scoped variables that
builds transactions, blocks and messages and sends them to the node.  A LibAFL client mutates,
minimizes and probes programs; a compiler turns a program into actions; a scenario inside the
virtual machine executes the actions and reports what the node asked for.

The modules here model that path.  Most of what can go wrong on it is bookkeeping over indices:
variables, instructions, scopes, connections and block positions are all referred to by number, and
every step of the path inserts, deletes or renumbers something.  An index that is off by one still
names *something*, so a test seldom notices.

## 1. Inventory

| Component | Source | State | Operations | Correct when |
|---|---|---|---|---|
| Operation table | `fuzzamoto-ir/src/operation.rs`, `instruction.rs`, `variable.rs` | none | inputs, outputs, inner outputs, begins and ends, contexts, `nop` | every end closes one kind of begin; a Nop declares what it replaces |
| Program builder | `fuzzamoto-ir/src/builder.rs` | scope stack, set of active scopes, scope counter, variables, contexts, instructions | `append`, `append_all`, `append_program`, `finalize`, lookups | never panics; accepts exactly the well-scoped programs |
| Variable lookup | `builder.rs` (`VariableLookup`) | the same without checks | `from_instructions`, `get_variable` | agrees with the builder on every accepted program |
| Programs and IR mutators | `fuzzamoto-ir/src/lib.rs`, `mutators/` | a program | input and operation mutation, combine, concat, `remove_nops`, insertion points | programs stay valid; surviving instructions keep their data |
| Fuzzing mutators | `fuzzamoto-libafl/src/mutators.rs` | current input, metadata per test case, mutation index | `IrMutator`, `IrSpliceMutator`, `IrGenerator` | metadata is only used on the program it describes |
| Generators | `fuzzamoto-ir/src/generators/` | none (they extend a builder) | one `generate` each, `choose_index` | find what they need where they are placed |
| Transaction and block generators | `generators/tx.rs`, `block.rs`, `txo.rs` | headers and outputs of the snapshot | `generate` of thirteen generators, `choose_index` by probed headers | never refused by the builder; outputs are spendable, blocks are in order and on the right parent |
| Compiler | `fuzzamoto-ir/src/compiler.rs` | variables, connection map, block map, actions, instruction indices | one handler per family of operations | never fails on a program the fuzzer holds; its maps point back to the program; what it calls an output exists with that value |
| Minimizers and their stage | `fuzzamoto-ir/src/minimizers/`, `fuzzamoto-libafl/src/stages/mod.rs`, `instance.rs` | candidate program, position, failures, rounds | `next`, `success`, `failure`; `perform` | what is written to the corpus is what was executed, and smaller; ends |
| IR scenario | `fuzzamoto-scenarios/bin/ir.rs` | connections, probe results, action counter, mock time | one arm per compiled action, result mapping, oracles | a reply is mapped to the instruction that caused it |
| Probing stage | `fuzzamoto-libafl/src/stages/probe.rs`, `fuzzamoto-ir/src/metadata.rs` | probed test cases, metadata | `perform`, `process_probe_results` | every test case is probed once, and answered with what was asked |
| Timeout verification | `stages/verify_timeouts.rs`, `feedbacks/mod.rs` | queue of inputs, capture switch, last verdict | capture, verify, name solutions | a reported hang was reproduced; no captured input is lost |
| Stability check | `stages/stability_check.rs` | seen test cases, unstable entries; the history and its count, shared with the map feedback | `perform` | only flaky entries are disabled (or those that a cut-off run missed); the count agrees with the history; the ratio it sends is sound |
| Connections | `fuzzamoto/src/connections.rs` | type, ping counter, handshake flag; the sockets | `version_handshake`, `send`, `ping`, `send_and_recv` | a send returns after the node has processed it, with the answers to it; no wait hangs |
| Generic scenario | `fuzzamoto/src/scenarios/generic.rs` | connections, target, time | `from_target`, `run` | the snapshot is taken of an idle node; every test case ends |
| Oracles, targets, runners | `fuzzamoto/src/oracles.rs`, `targets/`, `runners.rs` | node processes | RPC | external to this project |
| Nyx agent, crash handler | `fuzzamoto-nyx-sys/src/` | shared trace buffer, payload | hypercalls | external |
| CLI, other scenarios, CI | `fuzzamoto-cli/`, the other binaries in `fuzzamoto-scenarios/bin/`, `ci/` | none kept | one command per process | not modelled |

**Interaction.**  A client schedules a test case and runs stages over it: minimizing (cutting,
blocks, nopping, repeated while one of them succeeds), the stability check, probing, mutation,
timeout verification (`instance.rs:452-500`).  A mutation takes the current input through one to
seven stacked mutators that share the metadata of the corpus entry.  An execution compiles the
program and hands the actions to the scenario, which restarts from the snapshot.  Probing executes
the program once with a `Probe` in front; the scenario then records what the node asks for and
sends it back through the hypervisor as text.

**What is hard.**  The client is sequential and the snapshot isolates executions.  Concurrency is
between the scenario's one thread and the node: messages cross on sockets, the node answers when it
likes and may drop a peer in the middle of a call.  Elsewhere the hard parts are long sequences of legal edits, knowledge that
outlives the program it was gathered on (metadata, insertion indices, minimizer positions),
results that have to be traced back through the compiler to an instruction, steps that fail half
way (a connection, an execution, an append), and flags and counters that survive from one test case
to the next.  The `hazards` of `PROJECT.json` list each of these at its line.

## 2. Modules

    Operations           the operation table (data)
    IR                   instructions, the builder and the lookup, for any operation table
      ProgramBuilder     the builder as a state machine      --implements-->  WellScoped
        ProgramBuilderProofs
      Programs           edits of whole programs
        ProgramLemmas    induction, what folds compute, and how two runs of the builder mirror each other
        Compiler         programs to actions and maps
        Coins            programs to transactions, outputs and blocks
          Generation     the generators of both            (composes Coins and Programs)
        Mutation         the mutational stage on a corpus     (uses Programs)
          MutationProofs
        Minimizers       the three minimizers
          MinimizerStage the stages that run them on a corpus
            MinimizerStageProofs
        Probing          stage, scenario, metadata, answer    (composes Compiler and Programs)
          ProbingProofs
    Timeouts             feedback, objective and stage for hangs
      TimeoutsProofs
    StabilityCheck       the stage, the map feedback and the history they share
      StabilityCheckProofs
    Connections          the calls of a connection and the node at its other end
      Scenario           setup and test case on all connections  (extends Connections)
        ScenarioProofs
    MC*                  instances for TLC

`IR` and everything above it take the operation table as constants (`Op`, `Signature`, `BeginOf`,
`EnteredContext`, `NopOp`, `ArgLimit`), with the properties they rely on in `IRAssumption`.
`Operations` is the real table, one line per operation, and the MC modules pick the rows they need
from it (`Restriction`), so TLC checks the assumption on real operations.  Indices start at 1 (0 in
the code), so that 0 can be "no instruction" and "no scope".

| Module | Correspondence with the code |
|---|---|
| `IR` | the record `Builder` has the fields of `ProgramBuilder`; `Outcome`, `Appended`, `Refused` are the checks and the effects of `append` in their order; a refused block end has popped its scope already, as in the code |
| `ProgramBuilder` | actions `AppendOk`, `AppendFails`, `Finalize`; a refusal ends the behaviour, because every caller drops the builder with the error, but what the refused append leaves of the builder is in the state and has to be consistent |
| `WellScoped` | what the builder promises, without stack, set or counter: a program is well scoped when blocks nest and every input is declared before it in an open block |
| `Programs` | `append_program` with its offset and threshold, `remove_nops`, insertion indices, combine, concat, input replacement |
| `Mutation` | one action per mutator and `NextInput` for a new scheduled input; `MutateOperation` exchanges operations of one class and the indices of nodes and connections, and leaves other payloads alone; every action contains `post_exec`'s update of the mutation index |
| `Compiler` | a fold of `CompileInstruction`; scripts, signatures and encodings are opaque, all index bookkeeping is kept (variables, `connection_map`, `block_tx_var_map`, `variable_indices`, `action_indices`) |
| `Coins` | a second fold over a program for the values `Compiler` leaves opaque: `AddTxInput`, `AddTxOutput`, `FinalizeTx`, `TakeTxo`, `BuildBlock` are the handlers; an id is the position of the hashed content in a table, so ids are equal when contents are |
| `Generation` | one operator per generator, which yields the drafts of instructions it may append; `Generate` is `IrGenerator::mutate` with `choose_index`, `Probe` what a probe reports of the chain the program built, `MutateInput` the rewiring between the two |
| `Minimizers` | one record per minimizer with the code's fields; `next`, `success`, `failure` |
| `MinimizerStage` | one action per way through `IrMinimizerStage::perform`'s loop, and the closures and the `WhileStage` around it; the auxiliary `retained` records what was executed with success |
| `Probing` | `Probe`, `SetTime`, `Connect`, `SendRawMessage` are the arms of `process_actions`; `Report` and `Learn` the way of the results into the metadata; `Answered` what `BlockTxnGenerator` makes of them |
| `Timeouts` | `Evaluate` is one execution judged by the objective (`AsksCapture` is `is_interesting`, `NamePrefix` is `append_metadata`); `Verify`, `VerifyNext`, `Verified`, `Fail` are the ways through `VerifyTimeoutsStage::perform`; `Respawn` is the new process after `fuzz_loop_for` |
| `StabilityCheck` | `Check`, `RunAgain`, `Checked`, `Fail` are the ways through `perform` with its locals in `run`; `Disable` is the body of its inner loop; `Evaluate` is the map feedback, which writes the same `history_map` and `num_covered_map_indexes` |
| `Connections` | `call` is the frame of the method the thread is in, with the message it waits for; `Receive` is one turn of any of its three loops (`Awaited`, `Recorded`), `ReceiveFails` the `?` on a closed socket; `ProcessMessages`, `SendMessages`, `Disconnect` are the node |
| `Scenario` | `phase` and `pos` are the place in `from_target` (its loops in order) or in `run`; `SetupCall` and `SetupReturned`, `SendRawMessage` and `ActionReturned`, `Join` and `Joined`, `PingConnections` and `PingReturned` are the two halves of each statement that waits |

## 3. Runs

| Run | Question | Bounds, and why they are enough |
|---|---|---|
| `program_builder` | Does the builder accept exactly the well-scoped programs, keep its two records of the scopes equal, never panic, and agree with the lookup? | 13 operations of the table, up to 5 instructions over 5 variables: two nested blocks of the same and of different kinds, a mismatched end, a refused append after any of these, Nops for outputs and for begins all fit |
| `mutation` | Do stacked mutations keep programs valid and their data flow, and is metadata only used when fresh? | four test cases, programs up to 9 instructions: a splice of two of them and a generator on the result; one has scripts and indices for the operation mutator |
| `minimizer_stage` | Is the minimized program the one that was executed, valid and smaller, does the minimizer agree with the stage, and does minimizing end? | two test cases of 6 and 3 instructions; 2 consecutive failures (200 in the code), so that giving up interleaves with every position |
| `compilation` | Does every mutated program compile? (violated) | address lists of both versions |
| `probing` | Is each request mapped to the instruction that caused it, are recent blocks defined where they are used, and is the answer what was asked? | a program with a block of three transactions, a compact block on two connections, a third without handshake, and any of the connections may fail |
| `late_connection` | Can an answer always be inserted? (violated) | the program loads its first connection after the first send |
| `generation` | Are generators never refused, do taken outputs exist with their value, does no transaction create money, are blocks ordered, connected and high enough? | two steps (generators or input mutations, with probes anywhere between) on four programs, so that a probe or a mutation comes between two generators or a generator follows another; a snapshot of two outputs and two headers, chains of two transactions (25 in the code), a window of two recent blocks (10), so that a reorganization replaces more than it sees |
| `coinbase_txos` | Do the outputs taken from a coinbase exist? (violated) | as above |
| `timeouts` | Are only reproduced hangs reported, is no captured input forgotten, is each verified? | three inputs, three places in the queue: several hangs wait at once, or one input twice |
| `named_for_hanging` | Is a solution that is filed as a timeout one? (violated) | as above |
| `stability_check` | Does the count agree with the history, are only entries disabled that are flaky or that a cut-off run missed, is the reported ratio sound? | two test cases over three entries and counts up to 3, each test case flaky in one entry that the other counts stably; three runs per check (`CAL_STAGE_MAX` equals the number of runs, as 8 does in `instance.rs`, so that a check is never prolonged); every run may time out, crash or fail, and a check may be repeated after a restart |
| `scenario` | Do sends end after the node has processed them and record only their own answers, and does every test case end? | two connections of the setup, one of each type, and a third of the test case; one block (200 in the code), two actions and a raw ping with the nonce 3, the one that the first call of a test case will use, so that an answer can be forged |

The passing runs together fire every action.  Deadlock checking is off where the system stops by
itself (a finalized program, an answered probe, a stopped client, a bound that is reached).

**The four disagreements** between code and its own comments that the violated runs show:

* `compilation`: an `AddAddr` may get a v2 record from the input mutator and then fails to compile
  (`compiler.rs:653`), although `input.rs:52` expects that compilation never fails.
* `late_connection`: after a failed connection a reply is mapped to a connection variable that is
  defined later, and `block_txn.rs:83` panics on an append that "should always succeed".
* `coinbase_txos`: the outputs of a coinbase are taken under the id it has before the witness
  commitment is fixed up (`compiler.rs:2117`, `mining.rs:42`), which no block contains, although
  `compiler.rs:2126` creates them "for every output" of it.
* `named_for_hanging`: after a verified hang `triggered` stays set, a crash skips
  `is_interesting`, which would reset it (`feedbacks/mod.rs:80`), and is filed as a timeout.

**Two exceptions** are stated in the properties, because the code does what they except.  Taking them
out of the property makes TLC refute it:

* the second disjunct of `OnlyFlakyDisabled`: the stability check should "disable flaky entry"
  (`stability_check.rs:81`), but it also compares runs that crashed (`:174` skips time-outs only) and
  a first run that ended in either way (`:142`), and disables what every complete run counts alike;
* the last disjunct of `AllProcessed`: "all sent messages are processed" at the end of a test case
  (`generic.rs:61`), but without `force_send_and_ping` a ping of the test case with the nonce of the
  final one brings the awaited pong too early (`connections.rs:332`).

**Fairness.**  Three liveness properties are checked.  For `Terminates` of `minimizer_stage`,
`FairSpec` says that the client keeps running the stages of a scheduled test case (it is a
sequential loop) and that an execution error is not repeated forever.  The second part is an
assumption about the executor: the cutting minimizer offers the same program again after an error,
without a limit of its own.  For `CapturedIsVerified` of `timeouts`, `FairSpec` says that the
verification stage gets its turn and makes progress: the stages of a test case run one after the
other and the mutational stage before it makes finitely many executions.  An execution error may
stop the client at any time (`Fail` is not fair and not excluded).  For `EveryRunEnds` of `scenario`,
`FairSpec` says that the scenario's thread goes on when it can, and that the node's message handler
serves every peer that has sent something or is owed something: it is a loop over all peers.
`Disconnect` is not fair, and not excluded.

## 4. Proofs

`ProgramBuilderProofs` proves for *every* operation table that satisfies `IRAssumption`, every set
of candidate instructions and every length:

* `BuilderTypes`: `TypeOK` is an invariant of `ProgramBuilder`;
* `ScopeAccounting`: the stack and the set of active scopes agree after every append, also in the
  builder that a refused one leaves behind (`ScopesAgree`);
* `BuilderNeverPanics`: no `assert!` or `unwrap` of `append`, `exit_scope`, `current_scope` and
  `finalize` can fail (`NoPanic`).

The inductive invariant `IInv` has to say more than the three.  That `exit_scope` never pops the
global scope needs that the end's input is in scope; an end takes a variable only a begin declares
(the last conjunct of `IRAssumption`), such a variable lives in a scope other than the global one,
and a variable of an active scope keeps that scope on the stack.  So `IInv` says of the scopes that
ids are distinct, positive, bounded by the counter, in the set exactly when on the stack, that only
the bottom one has no begin, and of the variables that those of a block type carry scope id 0 (a
Nop's) or greater than 1.  `AppendDoesNotPanic`, `AppendedOK`, `RefusedOK`
and their companions prove this operator by operator; `NextIInv` combines them, one step per
action.

Its second part proves, from the same assumptions, `BuilderImplementsWellScoped`: every
behaviour of the builder is one of `WellScoped` (`ImplementsWellScoped`).  The builder decides with a
stack, a set and a counter what `WellScoped` decides by counting begins and ends, so the invariant
`RInv` relates the two: the k-th scope was begun at depth k - 1, and the program has not been less
deep since (`Blocks`); a variable's scope id is on the stack exactly as long as the block its
instruction left it in is open, and is 0 exactly for a Nop (`Placed`).  `AppendedFields` says what
`append` makes of every field, `DepthStep`, `OpenStep` and `StackStep` what one more instruction makes
of the depths and of the stack, `NestingStep` combines them; `AdmissibleIsOk` is the heart: `append`
returns `Ok` exactly for what is admissible, where `UsableIsInScope` and `TopIsInnermost` turn ids into
blocks.  It needs that a begin has no outputs around its block (a conjunct of `IRAssumption`).

The same module proves `LookupSeesWhatTheBuilderSees`: the lookup over the instructions of an
accepted program equals the builder's own bookkeeping (`LookupAgrees`).  The invariant `LInv` says that
the recursion over the instructions so far has exactly one solution, and that it ends in the ids and
variables of the builder; `DefinesStep` extends the solution by one instruction,
`LookupStepIsAppended` shows that one step of the lookup is one append.

**Induction.**  The library's induction principles take an operator as a parameter, which the provers
cannot instantiate.  `ProgramLemmas` states induction with a *set* of numbers instead (`Induction`,
`InductionUpTo`), proves it from the library's well-founded orders, and derives what the proofs
use: every fold goes through something (`FoldSteps`), and what a filter keeps is found at the count of
the kept elements (`CountUpTo`, `KeptPositions`).  All models of loops over programs are folds
(`Folded` in `Programs`), so facts about them hold for programs of every length.

Its other lemmas are facts about whole programs: what `append_all` returns after each
instruction (`AppendAllRuns`, `AllAccepted`), the variables that a program creates and where they are
defined (`TypesOfVariables`, `OriginsOfVariables`), and a simulation between two runs of the builder
(`Mirrors`): if the scopes of one builder are at the top of the stack of another, their variables
renumbered by `mu` and their scope ids by `sig`, then an instruction that one of them accepts is
accepted by the other when its inputs are renumbered (`MirrorsStep`).  `RemoveNopsValid` uses it for
`remove_nops`: a Nop moves neither the stack nor, by its renumbering, what is in scope
(`AlikeNopStep`), and all else is a step of the simulation (`AlikeRealStep`).
`OriginsWithoutNops` follows the variables to the instructions that define them.  For edits that keep
all instructions there is a plainer simulation (`InStep`, `InStepRun`): two builders whose variables
correspond refuse and accept the same instructions, and stay in step.

`MutationProofs` proves for every corpus of valid programs, every operation table that satisfies the
assumptions below, every limit of the length, and however mutators, splices and generators are stacked:

* `MutationTypeCorrect`: `TypeOK` is an invariant of `Mutation`;
* `MutatedProgramsStayValid`: a mutated program is one that the builder accepts, and no `expect` of a
  mutator fails (`ProgramsStayValid`);
* `SplicingAlwaysKeepsDataflow`: a combine or a concat with any testcase succeeds, and the instructions
  of both programs take what they took before (`SplicingKeepsDataflow`);
* `GeneratingAlwaysKeepsDataflow`: the same for what a generator adds (`GeneratingKeepsDataflow`);
* `MetadataAlwaysFresh`: metadata is only used on the program it describes (`MetadataIsFresh`).

Validity and the range of the mutation counter are not enough for the last one: `MutationInvariant` adds
that while the counter is 0 the program is still the testcase, which a splice that is not counted keeps.
The other four need one lemma per edit.  `ReplacingInput` and `ReplacingOperation` show that the run of
the builder over the changed program is in step with the one over the old, so what the InputMutator and
the OperationMutator do not validate is valid.  A splice is one run up to the insertion point, a second
program whose variables follow those of the prefix (`SplicedRun`), and the rest of the first, renumbered
(`RunGrows`, `RunInStepWith`): the second program closes every block it opens, so the stack is back
where the rest expects it (`ScopesBelowStay`).  `FlowsEmbeds` follows the data, `JoinedHoldsBoth` combines
this for `CombineHolds` and `ConcatHolds`.  `InsertHolds` does it for generated instructions, which
`GeneratedFits` shows to be accepted where they are appended.

`MinimizerStageProofs` proves for every corpus of valid programs, every limit of failures and whatever
the target answers:

* `TypeCorrect`: `TypeOK` is an invariant of `MinimizerStage`;
* `CorpusAlwaysValid`: every program of the corpus is valid (`CorpusStaysValid`);
* `WritesWhatRan`: of every testcase the corpus holds the program that was last executed and retained
  all novelties, or that program without its Nops on the same data, and never one whose execution
  failed (`MinimizedIsWhatRan`);
* `StageAgrees`: the minimizer and the stage agree on the smallest program (`MinimizerAgreesWithStage`);
* `CorpusOnlyShrinks`: only the scheduled program changes, once, and becomes shorter (`OnlyShrinks`).

The inductive invariant `StageInv` says of each minimizer what it has done to the program of the
testcase (`MinimizerOf`): the programs it holds only `Reduces` it (a prefix, or instructions replaced
by their Nops), the nopping minimizer has not touched what is before `current_nop`, and what the stage
keeps is what the minimizer would go back to.  It also says that the testcase was not minimized before
and that a program that was kept is `Smaller`: cut, or with at least one Nop, without which it would not
become shorter when it is written.  That the stage agrees with the minimizer is not inductive for the
nopping minimizer after an execution error, which is why the property excepts it.  A second part,
`RetainedInv`, relates the corpus to what was executed: a stage that kept a program keeps the one that
was retained last, also after an execution error, when the minimizer has another (`NextRetainedInv`);
`WrittenIsWhatRan` removes the Nops.  Every minimizer `Progresses` as long as it is not done (`CuttingSteps`, `BlocksSteps`, `NoppingSteps`).

`ProbingProofs` proves for every set of valid testcases, every operation table that satisfies the
assumptions below, every number of connections and of recent blocks, whichever connections fail and
whatever the target asks or reports of its chain:

* `ProbingTypeCorrect`: `TypeOK` is an invariant of `Probing`, with the counts that tie the actions,
  the requests and their reports to one another;
* `RequestsAlwaysNameTheirTrigger`: a request is kept with the instruction that caused it, and with
  variables of its block and of its connection (`RequestsNameTheirTrigger`);
* `RecentHeadersAlwaysDefined`: the header of a recent block is visible wherever a generator may build
  on it (`RecentHeadersAreDefined`).

The argument follows a reply from the wire back to the program, in four parts.  The first is about the
compiler: `Kept` says of every prefix of a valid program what the compiler's tables hold
(`VariablesKept`, `ActionsKept`, `ConnectionsKept`, `BlocksKept`): one value and one index for each of the
builder's variables, for each action the instruction that emitted it, and in the maps of connections
and blocks only variables that an instruction loaded or built.  A block or compact block never changes
once it is built (`ValuesStay`).  `KeptStep` shows it for one more instruction, `CompiledKept`
for the whole program, with `Probe` in front.  The second is about scopes: the contexts that
the choice of an insertion point looks at follow the scopes of the builder (`Follows`), so a block
is built in the global context and its header stays in scope ever after (`BuiltGlobally`,
`HeaderStays`).  The third matches one request with one report (`Told`, `MappedTells`,
`RecentBlocksKnown`), and sorts the recent blocks (`ByHeightSorts`).  The last is the inductive
invariant `ProbingInvariant`: the reports are those of the requests, in their order, before that of the
recent blocks (`Paired`), and exactly one action, the `Probe`, is executed and not counted
(`FirstOfAll`).  TLC checked it on both testcases before it was proved.

`TimeoutsProofs` proves for every set of inputs and every length of the queue:

* `TimeoutsTypes`: `TypeOK` is an invariant of `Timeouts`;
* `NothingCapturedIsLost`: a captured hang stays in the queue or in the stage's copy until it was
  run with the multiple of the timeout (`CapturedWaits`);
* `OnlyVerifiedHangs`: a hang is reported only after it was reproduced (`HangsAreVerified`).

Neither is inductive alone.  The invariant `TInv` adds that the stage, the executor's timeout and
the capture switch change together (`InStep`); `EvaluateConfigured` and `EvaluateMultiple` say what
one execution does on either side of the switch.

`StabilityCheckProofs` proves for every set of test cases and entries, every map, every number of
runs and every limit `CAL_STAGE_MAX`, so for prolonged checks as well:

* `StabilityTypes`: `TypeOK` is an invariant of `StabilityCheck`;
* `CountInSync`: the count equals the number of covered entries (`CoveredInSync`);
* `OnlyFlaky`: an entry is disabled only if it is flaky in some test case of the corpus, or if one
  covers it and two runs were compared of which one was cut off (`OnlyFlakyDisabled`);
* `StabilityIsSound`: the asserted count is not zero, and the ratio that was sent promises no more
  stable entries than the history has (`ReportedIsSound`).

The last is not inductive: the invariant `SInv` adds that every test case of the corpus covers
something (`CorpusCovers`), that what is disabled is in the merged set or in that of the running
check (`DisabledAreCounted`), that the count read at the start of a check is at most the present one
(`RunInStep`, which also says what the first run of the check may have counted), and that the last
ratio was sound when it was sent and the history has only grown since (`RatioIsSound`).  One lemma per action shows that it keeps `SInv`.

`ScenarioProofs` proves for every number of connections, blocks and actions, whatever the program
sends and whenever the node answers or drops a peer:

* `TypeCorrect`: `TypeOK` is an invariant of `Scenario`;
* `RoundtripsProcess`: after a roundtrip that succeeded nothing is unprocessed (`AllProcessed`);
* `AnswersStayInTheirCall`: what a call recorded belongs to it, and nothing that was asked about it
  comes later (`AnswersInTheirCall`).

A connection is a pipe through two queues and the node between them.  The invariant `SInv` says of the
pong that the running call waits for that it comes last (`PongIsLast`): once it is on its way back, the
node holds nothing of the call any more, and behind it in its queue, as behind its ping in the other,
there are only pings and pongs.  This fails only if the program has sent a ping of its own with the
nonce of the call (`Forged`), which `AllProcessed` excepts.  Between calls a connection is quiet if
every send waits (`QuietBetweenCalls`), so what is asked during a call is asked about its message
(`AsksAboutItsMessage`).  The rest of `SInv` follows the place in the setup and in the test case
(`Where`, `Doing`, `HandshakesDone`, `Announced`, `Pinged`).

**Assumptions.**  Each is named and evaluated by TLC on the real operation table: `IRAssumption`;
`ProgramsAssumption` (the variables of Nops, and only those, are of type Nop); `MinimizersAssumption`
(a Nop declares as many variables as what it replaces, and is replaced by itself); `StageAssumption`
and `CorpusAssumption` (the corpus starts with valid programs, for `Mutation` within the limit of
the length, on which only its `TypeOK` depends; what the OperationMutator exchanges has
the same signature, is no block instruction and no Nop, and allows at least the same arguments);
`GeneratorsAssumption` (the signatures of the four operations that the generators of `Mutation` append);
`CompilerAssumption` (the signatures whose inputs and outputs the handlers of the compiler unwrap: one
variable for an operation with one value, five inputs and three outputs for `BuildBlock`, which begins
and ends no block, no addition to a block that is built); `ProbingAssumption` (testcases are valid, have no `Probe` of their
own, which `compiler.rs:342` asserts, and build their blocks in the global context, the only one that
the generators of blocks ask for and that programs are spliced at).

**Only model-checked, and why.**  `Terminates`, `CapturedIsVerified` and `EveryRunEnds` are liveness
properties.
`AnswersWhatWasAsked` is not proved, because it does not hold for every testcase: an answer can only
be inserted if the connection is loaded before the instruction that triggered the request, which is
what `late_connection` refutes in general and the testcase of `probing` grants.  The safety properties of
`Generation` speak of the ids and values that the second fold (`Coins`) computes for some
fifty operations, by way of a table of hashed contents; the case distinction over them, together with
the generators', is larger than all proofs above and was not attempted.

## 5. Abstractions and assumptions

* Payloads are abstracted: bytes, amounts, scripts and times of Load operations are not in the
  state, except the bounded argument that the builder itself checks.  A transaction is identified by
  its variable, a block by what it was built from.
* The node is external.  It may ask for transactions of a compact block only after that block was
  sent and before the pong that ends the send; any connection attempt may fail; a raw message may
  yield a request for a block the program does not know.
* Probing is modelled with the feature `force_send_and_ping`, under which every send collects the
  replies.
* In `Coins` amounts count units of 5000 satoshi, the least amount of a generated output, and
  versions, lock times and sequences are not part of an id.  The 64-bit sum of the inputs is not
  wrapped: 2^64 is beyond TLC's integers, and a wrapped sum is smaller than the true one, so that
  `NoInflation` would hold of it as well; the panic of a debug build is not modelled.
  Scripts are known by the operation that builds them; only whether an output can be given an annex
  depends on it.
* `Generation` chooses the time, transactions, coinbase and connection of every block of a
  reorganization anew, and the header of a block among all visible ones, of which the nearest is one.
  The result of a generator is not rejected for its length there (`Mutation` has that).  A program
  that does not compile ends the client, as in the code.  Its four initial programs are what a
  corpus holds: after loading, after a transaction, after a block, and minimized.
* `Timeouts` leaves open whether an execution covers something new, and relies on LibAFL's
  combinators: a short-circuiting `or` asks its right operand only if the left is not interesting,
  an `and` asks both, and `append_metadata` of all of them is called for a solution.
* `StabilityCheck` has the history of the feedback from the start and at its full length (the code
  resizes it and unwraps it).  What a test case covers is fixed but for its flaky entries; a run that
  is cut off, by the timeout or by a crash, has counted no more.  An execution that fails stops the
  client.
* In `Connections` a socket keeps order and loses nothing until the node closes it; what the node had
  sent may then still be read or not, and a write may fail or be lost.  Buffers are unbounded: with
  finite ones a scenario that sends without reading and a node that waits for it to read could
  block each other.  The messages that negotiate features are left out, and so are the messages a
  node sends unasked except block announcements.  A node answers the program's messages at once, with
  its next `SendMessages`, or not at all.
* `Scenario` does not bound what a message is, only how many actions there are; `AllProcessed` leaves
  out the one case in which the program forges the answer to the final ping
  (section 3).  `SetTime` is an RPC call and is not modelled there.
* The operation mutator's payloads (amounts, times, keys, bytes) are opaque, so its arithmetic is not
  checked; the classes of operations it exchanges and the bounds of its indices are.
* The client is modelled with a mutable corpus (`static_corpus` off), `scheduled_count` grows after
  the stages ran, and restarts of the client process are external, except in `Timeouts` and
  `StabilityCheck`.
* `MaxInstructions`, `MaxVariable`, `MaxLength`, `MaxSteps`, `MaxQueue`, `MaxConnections`,
  `MaxActions` and `MaxConsecutiveFailures` (a limit of the code) are the only bounds on
  otherwise unbounded quantities, each a named constant in a guard.

## 6. Plan

1. (done) `Operations`, `IR`, `ProgramBuilder`, `WellScoped`, first proofs.
2. (done) `Programs`, `Mutation`, `Compiler`, `Minimizers`, `MinimizerStage`, `Probing`.
3. (done) `Coins` and `Generation`: generators and compiler agree on coins and chains.
4. (done) `Timeouts`, and the proofs of its safety properties.
5. (done) `Connections` and `Scenario`: handshake and ping against a node that talks at any time.
6. (done) `StabilityCheck` against the coverage history it shares with the map feedback, and its
   proofs.
7. (done) The operation mutator.  Left: the remaining generators, payload values.
8. (done) `ImplementsWellScoped` and `LookupAgrees` as theorems, the invariants of the minimizer
   stages, of the scenario's connections, of the mutational stage and of probing.  Left: the
   properties of `Generation`.

**Not modelled, and why.**  The oracles poll external processes in real time; targets, runners, the
Nyx agent and the command line tool are I/O with no state of their own between two calls; the other
scenarios decode bytes into calls of one interface of the node; scheduler, monitor and options
delegate to LibAFL.  The remaining generators append instructions with fresh inputs and have no
precondition that could fail.

------------------------------ MODULE Mutation ------------------------------
(***************************************************************************)
(* One fuzzer client mutating a testcase of its corpus: a stack of         *)
(* mutators and generators is applied to a clone of the testcase, then the *)
(* result is executed and the next clone is taken.  The corpus does not    *)
(* change here.  The metadata that probing recorded for a testcase         *)
(* describes the program of the testcase, not that of a mutated clone.     *)
(***************************************************************************)
EXTENDS Compiler

CONSTANTS
  Corpus,             \* testcase ids -> their programs
  Minimized,          \* the testcases that have been scheduled before
  MaxLength,          \* MAX_INSTRUCTIONS
  InputMutable,       \* Op -> Instruction::is_input_mutable
  OperationMutable,   \* Op -> Instruction::is_operation_mutable
  OpsInstead,         \* Op -> what the OperationMutator puts in its place
  OpsWithIndex        \* the operations whose argument it chooses again

(* What the OperationMutator exchanges takes and makes the same, and is no *)
(* block instruction (mutators/operation.rs:64-134).                       *)
ASSUME CorpusAssumption ==
  /\ Corpus \in [DOMAIN Corpus -> Seq(Instr)] /\ MaxLength \in Nat
  /\ \A t \in DOMAIN Corpus : IsStaticallyValid(Corpus[t]) /\ Len(Corpus[t]) <= MaxLength
  /\ Minimized \subseteq DOMAIN Corpus
  /\ \A op \in Op : OpsInstead[op] \subseteq Op
  /\ \A op \in Op : OperationMutable[op] =>
       /\ op \notin Begins \cup Ends \cup NopOp
       /\ \A instead \in OpsInstead[op] :
            /\ instead \notin Begins \cup Ends \cup NopOp
            /\ Signature[instead] = Signature[op] /\ ArgLimit[op] <= ArgLimit[instead]
  /\ OpsWithIndex \subseteq Op

(* The operations that the two generators append (operation.rs).           *)
Takes(op, in, out) ==
  /\ op \in Op \ (Begins \cup Ends \cup NopOp) /\ ArgLimit[op] > 0
  /\ Signature[op].in = in /\ Signature[op].out = out

ASSUME GeneratorsAssumption ==
  /\ Takes("LoadBytes", <<>>, <<"Bytes">>)
  /\ Takes("AddWitness", <<"MutWitnessStack", "Bytes">>, <<>>)
  /\ Takes("LoadConnection", <<>>, <<"Connection">>)
  /\ Takes("SendGetData", <<"Connection", "ConstInventory">>, <<>>)

VARIABLES
  testcase,       \* the current testcase
  program,        \* its clone, mutated so far
  mutation_idx,   \* RuntimeMetadata::mutation_idx, counted up to 2
  mutated,        \* some mutator of this stack returned Mutated
  metadata,       \* the last mutator was given the metadata of the testcase
  result          \* what the last mutator returned

vars == <<testcase, program, mutation_idx, mutated, metadata, result>>

Results == {"None", "Mutated", "Skipped", "Panic"}

(* Mutant of Incremented: the counter wraps.                               *)
IncrementedModulo(n) == (n + 1) % 2

Incremented(n) == IF n < 2 THEN n + 1 ELSE 2

Init ==
  /\ testcase \in DOMAIN Corpus
  /\ program = Corpus[testcase]
  /\ mutation_idx = 0
  /\ mutated = FALSE /\ metadata = FALSE
  /\ result = "None"

Skips == result' = "Skipped" /\ UNCHANGED <<program, mutated>>

Mutates(p) == result' = "Mutated" /\ program' = p /\ mutated' = TRUE

(* Mutant of Adopts: without the limit.                                    *)
AdoptsAnyLength(r) == IF r.result = "Ok" THEN Mutates(r.program) ELSE Skips

(* The result of a splice or an insertion replaces the program unless it   *)
(* is invalid or too long.                                                 *)
Adopts(r) ==
  IF r.result = "Ok" /\ Len(r.program) <= MaxLength THEN Mutates(r.program) ELSE Skips

-----------------------------------------------------------------------------
(* Two generators, as the instructions they append to a builder: one that  *)
(* adds to an open block, and one that sends and loads the connection it   *)
(* needs if there is none.                                                 *)
RequestedContext == [ WitnessGenerator |-> "WitnessStack", GetDataGenerator |-> Global ]

WitnessGenerator(b) ==
  LET stacks == VisibleOf(b, "MutWitnessStack")
      bytes  == Len(b.variables) + 1
  IN  IF stacks = {} THEN {}
      ELSE { << Instruction("LoadBytes", <<>>),
                Instruction("AddWitness", <<Max(stacks), bytes>>) >> }

GetDataGenerator(b) ==
  LET connections == VisibleOf(b, "Connection")
      SendOn(c, inv) == Instruction("SendGetData", <<c, inv>>)
  IN  IF connections # {}
      THEN { <<SendOn(c, inv)>> : c \in connections, inv \in VisibleOf(b, "ConstInventory") }
      ELSE { << Instruction("LoadConnection", <<>>), SendOn(Len(b.variables) + 1, inv) >> :
             inv \in VisibleOf(b, "ConstInventory") }

Generated(generator, b) ==
  IF generator = "WitnessGenerator" THEN WitnessGenerator(b) ELSE GetDataGenerator(b)

-----------------------------------------------------------------------------
(* IrMutator around the InputMutator: one input of one mutable instruction *)
(* becomes another variable of the same type.  The mutated program is not  *)
(* validated again.  The slot is chosen among the inputs, the replacement  *)
(* among all visible variables, the old one included.                      *)
MutateInput ==
  /\ metadata' = (mutation_idx = 0)
  /\ mutation_idx' = Incremented(mutation_idx)
  /\ LET Mutable == { k \in Indices(program) : InputMutable[program[k].op] }
         Seen(k) == DOMAIN Visible(Lookup(SubSeq(program, 1, k - 1)))
     IN  \/ Mutable = {} /\ Skips
         \/ \E k \in Mutable : \E s \in Indices(program[k].inputs) :
              IF program[k].inputs[s] \notin Seen(k)
              THEN result' = "Panic" /\ UNCHANGED <<program, mutated>>
              ELSE \/ Skips
                   \/ \E v \in InputReplacements(program, k, s) :
                        Mutates([program EXCEPT ![k].inputs[s] = v])
  /\ UNCHANGED testcase

(* IrMutator around the OperationMutator: one instruction gets another     *)
(* operation that takes and makes the same, or another payload; of the     *)
(* payload only an index into the context of the program is seen here.     *)
ArgsInstead(op, arg) == IF op \in OpsWithIndex THEN 0..(ArgLimit[op] - 1) ELSE {arg}

MutateOperation ==
  /\ metadata' = (mutation_idx = 0)
  /\ mutation_idx' = Incremented(mutation_idx)
  /\ LET Mutable == { k \in Indices(program) : OperationMutable[program[k].op] }
     IN  \/ Mutable = {} /\ Skips
         \/ \E k \in Mutable :
              \E op \in OpsInstead[program[k].op], arg \in ArgsInstead(program[k].op, program[k].arg) :
                Mutates([program EXCEPT ![k].op = op, ![k].arg = arg])
  /\ UNCHANGED testcase

(* IrSpliceMutator around the CombineMutator or the ConcatMutator.  It     *)
(* does not splice with the current testcase (and then does not count as a *)
(* mutation), nor with one that was not minimized yet.                     *)
SpliceWith(t, spliced) ==
  IF t = testcase THEN Skips /\ UNCHANGED mutation_idx
  ELSE /\ mutation_idx' = Incremented(mutation_idx)
       /\ IF t \notin Minimized THEN Skips ELSE Adopts(spliced)

Splice ==
  /\ \E t \in DOMAIN Corpus :
       \/ \E k \in InsertionIndices(program, Global) :
            SpliceWith(t, Combine(program, k, Corpus[t]))
       \/ SpliceWith(t, Concat(program, Corpus[t]))
  /\ metadata' = FALSE
  /\ UNCHANGED testcase

(* IrGenerator::mutate around one generator: the instructions it appends   *)
(* to the builder of the first k instructions, or none if it misses a      *)
(* variable.                                                               *)
GenerateAfter(prefix, generator, k) ==
  IF prefix.result # "Ok" THEN result' = "Panic" /\ UNCHANGED <<program, mutated>>
  ELSE \/ Generated(generator, prefix.builder) = {} /\ Skips
       \/ \E g \in Generated(generator, prefix.builder) : Adopts(Insert(program, k, g))

Generate(generator) ==
  /\ metadata' = (mutation_idx = 0)
  /\ mutation_idx' = Incremented(mutation_idx)
  /\ \E k \in InsertionIndices(program, RequestedContext[generator]) :
       GenerateAfter(AppendAll(NewBuilder, SubSeq(program, 1, k)), generator, k)
  /\ UNCHANGED testcase

(* The mutated clone is executed, which resets the mutation counter, and a *)
(* clone of the same or of another testcase is taken; a stack in which     *)
(* every mutator skipped is not executed.                                  *)
NextInput ==
  /\ result # "None"
  /\ mutation_idx' = IF mutated THEN 0 ELSE mutation_idx
  /\ testcase' \in DOMAIN Corpus
  /\ program' = Corpus[testcase']
  /\ mutated' = FALSE /\ metadata' = FALSE
  /\ result' = "None"

Next ==
  \/ MutateInput \/ MutateOperation \/ Splice
  \/ (\E g \in DOMAIN RequestedContext : Generate(g))
  \/ NextInput

Spec == Init /\ [][Next]_vars

-----------------------------------------------------------------------------
TypeOK ==
  /\ testcase \in DOMAIN Corpus
  /\ program \in Seq(Instr) /\ Len(program) <= MaxLength
  /\ mutation_idx \in 0..2
  /\ mutated \in BOOLEAN /\ metadata \in BOOLEAN
  /\ result \in Results

(* A mutator never leaves a program behind that the builder would refuse,  *)
(* although the InputMutator does not validate what it made, and none of   *)
(* the expects ("Partial append should always succeed if full append       *)
(* succeeded", "Candidate variable has to exist") can fail.                *)
ProgramsStayValid == IsStaticallyValid(program) /\ result # "Panic"

(* The part of program r that sits where Position moved the instructions   *)
(* of p does what p does: the same operations on the same data.            *)
SameFlow(p, flow, r, flow2, Position(_)) ==
  \A k \in Indices(p) :
    LET m == Position(k)
    IN  /\ r[m].op = p[k].op
        /\ flow2[m] = [ s \in Indices(flow[k]) |-> <<Position(flow[k][s][1]), flow[k][s][2]>> ]

Embeds(p, r, Position(_)) == SameFlow(p, Dataflow(p), r, Dataflow(r), Position)

(* r is p with q after its first k instructions.                           *)
HoldsBoth(r, p, k, q) ==
  /\ r.result = "Ok"
  /\ Embeds(p, r.program, LAMBDA j : IF j <= k THEN j ELSE j + Len(q))
  /\ Embeds(q, r.program, LAMBDA j : j + k)

(* Splicing never fails and keeps the dataflow of both programs: after a   *)
(* combine at any place it chooses from, and after a concat, every         *)
(* instruction takes the variables it took in the program it came from     *)
(* (combine.rs:36-66, concat.rs:30-43).                                    *)
SplicingKeepsDataflow ==
  \A t \in DOMAIN Corpus :
    /\ \A k \in InsertionIndices(program, Global) :
         HoldsBoth(Combine(program, k, Corpus[t]), program, k, Corpus[t])
    /\ HoldsBoth(Concat(program, Corpus[t]), program, Len(program), Corpus[t])

(* Generated code does not disturb the code around it either.              *)
HoldsWith(r, p, k, g) ==
  /\ r.result = "Ok"
  /\ Embeds(p, r.program, LAMBDA j : IF j <= k THEN j ELSE j + Len(g))

GeneratingKeepsDataflow ==
  \A generator \in DOMAIN RequestedContext :
    \A k \in InsertionIndices(program, RequestedContext[generator]) :
      \A g \in Generated(generator, AppendAll(NewBuilder, SubSeq(program, 1, k)).builder) :
        HoldsWith(Insert(program, k, g), program, k, g)

(* The metadata of a testcase holds indices into its program, so a mutator *)
(* may only be given it while the clone is unchanged (mutators.rs:64-75,   *)
(* 214-225).                                                               *)
MetadataIsFresh == [][metadata' => program = Corpus[testcase]]_vars

(* "Compilation should never fail" (input.rs:52): whatever the mutators    *)
(* made of a testcase can be compiled when it is executed.                 *)
CompilationNeverFails == Compile(program).error = "None"
=============================================================================

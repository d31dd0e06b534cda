------------------------------ MODULE Programs ------------------------------
(***************************************************************************)
(* Whole programs: static validity, the appending of one program to        *)
(* another with its variables renumbered, the removal of Nops, and the     *)
(* places where the mutators and generators may insert.                    *)
(***************************************************************************)
EXTENDS IR, SequencesExt

(* The variables of the Nops, and only those, are of type Nop              *)
(* (operation.rs, get_output_variables and get_inner_output_variables).    *)
ASSUME ProgramsAssumption ==
  \A op \in Op : \A t \in ToSet(Signature[op].out \o Signature[op].inner) :
    (t = "Nop") <=> (op \in NopOp)

Indices(s) == 1..Len(s)

(* FoldLeft, in time linear in the length: programs are long for the one   *)
(* of SequencesExt, which looks for the last index at every step.          *)
Folded(Step(_, _), base, s) ==
  LET f[n \in 0..Len(s)] == IF n = 0 THEN base ELSE Step(f[n - 1], s[n])
  IN  f[Len(s)]

(* SelectSeq, as a fold.                                                   *)
Filtered(s, Test(_)) ==
  Folded(LAMBDA kept, x : IF Test(x) THEN Append(kept, x) ELSE kept, <<>>, s)

Instruction(op, inputs) == [op |-> op, inputs |-> inputs, arg |-> 0]

(* What get_nearest_variable and get_random_variable choose from.          *)
VisibleOf(b, type) == { v \in Indices(b.variables) : InScope(b, v) /\ b.variables[v].var = type }

(* ProgramBuilder::append_all: stops at the first error.                   *)
AppendReturning(outcome, b, i) ==
  [result |-> outcome, builder |-> IF outcome = "Ok" THEN Appended(b, i) ELSE Refused(b, i)]

AppendAll(b, instructions) ==
  Folded(LAMBDA r, i : IF r.result # "Ok" THEN r
                       ELSE AppendReturning(Outcome(r.builder, i), r.builder, i),
         [result |-> "Ok", builder |-> b], instructions)

(* Mutant of Renumbered: the threshold itself moves as well.               *)
RenumberedFromThreshold(p, threshold, offset) ==
  [ k \in Indices(p) |->
      [p[k] EXCEPT !.inputs = [ s \in Indices(@) |->
                                  IF @[s] >= threshold THEN @[s] + offset ELSE @[s] ]] ]

(* The renumbering of append_program: the inputs from the threshold on     *)
(* (variables are numbered from 1 here, so above it) move by the offset.   *)
Renumbered(p, threshold, offset) ==
  [ k \in Indices(p) |->
      [p[k] EXCEPT !.inputs = [ s \in Indices(@) |->
                                  IF @[s] > threshold THEN @[s] + offset ELSE @[s] ]] ]

AppendProgram(b, p, threshold, offset) == AppendAll(b, Renumbered(p, threshold, offset))

(* Program::is_statically_valid.                                           *)
IsComplete(r) == r.result = "Ok" /\ FinalizeOutcome(r.builder) = "Ok"

IsStaticallyValid(p) == IsComplete(AppendAll(NewBuilder, p))

(* The variables a program creates: their types, and for each the          *)
(* instruction and the position among its outputs.                         *)
Created(i) == Signature[i.op].out \o Signature[i.op].inner

Origins(p) ==
  Folded(LAMBDA o, k : o \o [ m \in Indices(Created(p[k])) |-> <<k, m>> ],
         <<>>, [ k \in Indices(p) |-> k ])

(* Where the inputs of the instructions come from: for each input slot the *)
(* instruction that defines the variable, and which of its variables.      *)
Dataflow(p) ==
  LET origin == Origins(p)
  IN  [ k \in Indices(p) |-> [ s \in Indices(p[k].inputs) |-> origin[p[k].inputs[s]] ] ]

(* Mutant of RemoveNops: the inputs are not mapped.                        *)
RemoveNopsUnmapped(p) == Filtered(p, LAMBDA i : i.op \notin NopOp)

(* Program::remove_nops: the inputs go through a map from the variables    *)
(* with Nops to the variables without (to the next kept one, for the       *)
(* variable of a Nop), then the Nops are dropped.                          *)
RemoveNops(p) ==
  LET types == Folded(LAMBDA t, i : t \o Created(i), <<>>, p)
      mapped == [ v \in Indices(types) |->
                    Cardinality({ w \in 1..(v - 1) : types[w] # "Nop" }) + 1 ]
      moved == [ k \in Indices(p) |->
                   [p[k] EXCEPT !.inputs = [ s \in Indices(@) |-> mapped[@[s]] ]] ]
  IN  Filtered(moved, LAMBDA i : i.op \notin NopOp)

(* The contexts in which the instructions of a program are executed, by    *)
(* the stack of contexts kept in get_random_instruction_index_from.        *)
ContextStacks(p) ==
  Folded(LAMBDA stacks, i :
             LET top  == Last(stacks)
                 left == IF i.op \in Ends THEN Front(top) ELSE top
             IN  Append(stacks, IF i.op \in Begins THEN Append(left, EnteredContext[i.op])
                                                   ELSE left),
           << <<Global>> >>, p)

(* Program::get_random_instruction_index: the candidates it chooses from.  *)
(* An index k means that k instructions go before the insertion.  Index 0  *)
(* is always among them, and the end of the program never is.              *)
InsertionIndices(p, context) ==
  {0} \cup { k \in 0..(Len(p) - 1) : Last(ContextStacks(p)[k + 1]) = context }

(* The result of an insertion in three appends, each where the last one   *)
(* left the builder.                                                       *)
Inserted(p, before, middle, after) ==
  IF before.result # "Ok" THEN [result |-> "before", program |-> p]
  ELSE IF middle.result # "Ok" THEN [result |-> "middle", program |-> p]
  ELSE IF after.result # "Ok" THEN [result |-> "after", program |-> p]
  ELSE IF ~ IsComplete(after) THEN [result |-> "finalize", program |-> p]
  ELSE [result |-> "Ok", program |-> after.builder.instructions]

(* Mutant of Continued: the rest of the program is renumbered as if there  *)
(* were no variables before the insertion.                                 *)
ContinuedMisplaced(p, k, before, middle) ==
  LET n == Len(before.builder.variables)
  IN  Inserted(p, before, middle, AppendProgram(middle.builder, SubSeq(p, k + 1, Len(p)), 0,
                                                Len(middle.builder.variables) - n))

(* The rest of the program follows what was inserted: its references to    *)
(* the variables before the insertion stay, the others move.               *)
Continued(p, k, before, middle) ==
  LET n == Len(before.builder.variables)
  IN  Inserted(p, before, middle, AppendProgram(middle.builder, SubSeq(p, k + 1, Len(p)), n,
                                                Len(middle.builder.variables) - n))

(* IrGenerator::mutate, with the generated instructions already numbered   *)
(* for their place, and CombineMutator::splice, which moves them to the    *)
(* variables after those of the first k instructions.                      *)
InsertAfter(before, p, k, inserted, offset) ==
  Continued(p, k, before, AppendProgram(before.builder, inserted, 0, offset))

Insert(p, k, inserted) ==
  InsertAfter(AppendAll(NewBuilder, SubSeq(p, 1, k)), p, k, inserted, 0)

CombineAfter(before, p, k, q) == InsertAfter(before, p, k, q, Len(before.builder.variables))

Combine(p, k, q) == CombineAfter(AppendAll(NewBuilder, SubSeq(p, 1, k)), p, k, q)

(* ConcatMutator::splice.                                                  *)
Concatenated(p, r) ==
  IF IsComplete(r) THEN [result |-> "Ok", program |-> r.builder.instructions]
  ELSE [result |-> "CreatedInvalidProgram", program |-> p]

ConcatAfter(first, p, q) ==
  IF first.result # "Ok" THEN Concatenated(p, first)
  ELSE Concatenated(p, AppendProgram(first.builder, q, 0, Len(first.builder.variables)))

Concat(p, q) == ConcatAfter(AppendProgram(NewBuilder, p, 0, 0), p, q)

(* Mutant of InputReplacements: any visible variable.                      *)
InputReplacementsUntyped(p, k, s) == DOMAIN Visible(Lookup(SubSeq(p, 1, k - 1)))

(* InputMutator::mutate of one input slot: every program it can make.      *)
(* The lookup is built from the instructions before the one mutated.       *)
InputReplacements(p, k, s) ==
  LET seen == Visible(Lookup(SubSeq(p, 1, k - 1)))
      old  == p[k].inputs[s]
  IN  { v \in DOMAIN seen : seen[v] = seen[old] /\ v # old }
=============================================================================

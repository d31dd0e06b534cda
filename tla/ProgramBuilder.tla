--------------------------- MODULE ProgramBuilder ---------------------------
(***************************************************************************)
(* The life of a ProgramBuilder: instructions are appended until one is    *)
(* refused or the program is finalized.  Every caller in the repository    *)
(* propagates the error of an append (or unwraps it) and drops the builder *)
(* with it, so a refusal ends the behaviour, and so does finalize.         *)
(***************************************************************************)
EXTENDS IR

CONSTANTS
  InputVectors,      \* for each operation, the input vectors that are tried
  Arguments,         \* for each operation, the arguments that are tried
  MaxInstructions    \* bound on the length of the programs

ASSUME BuilderAssumption ==
  /\ InputVectors \in [Op -> SUBSET Seq(Nat)]
  /\ Arguments \in [Op -> SUBSET Nat]
  /\ MaxInstructions \in Nat

VARIABLES
  builder,     \* the ProgramBuilder
  result,      \* "open", or what the call that ended building returned
  definedBy    \* auxiliary: for each variable the instruction that defined it

vars == <<builder, result, definedBy>>

Refusals == { "InvalidNumberOfInputs", "VariableNotDefined", "InvalidVariableType",
              "InvalidArgument", "InvalidBlockEnd" }
Results == Refusals \cup { "open", "Ok", "ScopeStillOpen", "Panic" }

Candidates ==
  UNION { [op : {op}, inputs : InputVectors[op], arg : Arguments[op]] : op \in Op }

Init ==
  /\ builder = NewBuilder
  /\ result = "open"
  /\ definedBy = <<>>

(* ProgramBuilder::append returning Ok.                                    *)
AppendOk(i) ==
  /\ result = "open"
  /\ Len(builder.instructions) < MaxInstructions
  /\ Outcome(builder, i) = "Ok"
  /\ builder' = Appended(builder, i)
  /\ definedBy' = definedBy \o
       [k \in 1..Len(Signature[i.op].out \o Signature[i.op].inner) |->
          Len(builder.instructions) + 1]
  /\ UNCHANGED result

(* ProgramBuilder::append returning an error, or panicking.                *)
AppendFails(i) ==
  /\ result = "open"
  /\ Outcome(builder, i) # "Ok"
  /\ builder' = Refused(builder, i)
  /\ result' = Outcome(builder, i)
  /\ UNCHANGED definedBy

(* ProgramBuilder::finalize.                                               *)
Finalize ==
  /\ result = "open"
  /\ result' = FinalizeOutcome(builder)
  /\ UNCHANGED <<builder, definedBy>>

Next ==
  \/ \E i \in Candidates : AppendOk(i) \/ AppendFails(i)
  \/ Finalize

Spec == Init /\ [][Next]_vars

-----------------------------------------------------------------------------
(* The builder, its result and the origin of its variables are of the      *)
(* types their fields are declared with (struct ProgramBuilder).           *)
TypeOK ==
  /\ builder \in Builder
  /\ result \in Results
  /\ definedBy \in Seq(Nat)

(* The stack of scopes and the set of scope ids the lookups go by agree,   *)
(* whatever was appended (the counter never hands an id out twice,         *)
(* builder.rs:199-218), also in the builder that a refused append leaves   *)
(* behind: an end that does not match has left its block in both           *)
(* (builder.rs:283-297).                                                   *)
ScopesAgree == ScopesOK(builder)

(* None of the builder's own assertions and unwraps can fail: an end is    *)
(* never appended with only the global scope open, because the variable it *)
(* takes is in scope only inside a block; and finalize never meets the     *)
(* "Internal program scope accounting bug" (builder.rs:209-224, 299-303,   *)
(* 431-435).                                                               *)
NoPanic == result # "Panic"

(* The lookup that the generators and mutators build from a prefix of a    *)
(* program without any check (VariableLookup) sees the very variables the  *)
(* builder sees that accepted the prefix.                                  *)
LookupAgrees ==
  result = "open" => Visible(Lookup(builder.instructions)) = Visible(builder)

(* The builder implements the declarative notion of a well-scoped program: *)
(* it accepts an instruction exactly when the blocks nest and every input  *)
(* is a variable of the right type from a block still open, and finalizes  *)
(* exactly the programs whose blocks are all closed ("Checks static single *)
(* assignment form and instruction input type correctness", builder.rs).   *)
Abstract == INSTANCE WellScoped WITH
  program <- builder.instructions,
  defs    <- [v \in 1..Len(definedBy) |->
                [type |-> builder.variables[v].var, by |-> definedBy[v]]],
  verdict <- IF result = "open" THEN "open"
             ELSE IF result = "Ok" THEN "complete"
             ELSE IF result = "ScopeStillOpen" THEN "incomplete"
             ELSE IF result \in Refusals THEN "rejected"
             ELSE "panicked"

ImplementsWellScoped == Abstract!Spec
=============================================================================

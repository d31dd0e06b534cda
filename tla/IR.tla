--------------------------------- MODULE IR ---------------------------------
(***************************************************************************)
(* Instructions and the program builder of fuzzamoto-ir, as operators on   *)
(* a record that holds the builder's fields.  A program is a sequence of   *)
(* instructions; instructions and variables are numbered from 1 here (from *)
(* 0 in the code), so that 0 can stand for "no begin instruction" and for  *)
(* the scope no scope ever has.  The operation table is a parameter:       *)
(* everything below holds for any table that satisfies IRAssumption.       *)
(***************************************************************************)
EXTENDS Naturals, Sequences, FiniteSets

CONSTANTS
  Op,               \* the operations, Nops included
  VarType,          \* the variable types
  Context,          \* the instruction contexts ...
  Global,           \* ... and the one outside every block
  Signature,        \* Op -> types of the inputs, outputs and inner outputs
  BeginOf,          \* the block ends, each with the begin it matches
  EnteredContext,   \* the block begins, each with the context it enters
  NopOp,            \* the Nops
  ArgLimit          \* Op -> the bound on the argument of the operation

Ends   == DOMAIN BeginOf
Begins == DOMAIN EnteredContext

(* The types of the variables that exist only inside a block.              *)
BlockType ==
  VarType \ UNION { { Signature[op].out[k] : k \in 1..Len(Signature[op].out) } : op \in Op \ NopOp }

(* Only block begins and Nops have inner outputs (builder.rs:319), a begin *)
(* has no others, and the end of a block takes a variable that no          *)
(* operation creates but a begin.                                          *)
ASSUME IRAssumption ==
  /\ Signature \in [Op -> [in : Seq(VarType), out : Seq(VarType), inner : Seq(VarType)]]
  /\ Begins \subseteq Op
  /\ Ends \subseteq Op
  /\ NopOp \subseteq Op
  /\ Begins \cap Ends = {} /\ Begins \cap NopOp = {} /\ Ends \cap NopOp = {}
  /\ BeginOf \in [Ends -> Begins]
  /\ EnteredContext \in [Begins -> Context]
  /\ Global \in Context
  /\ ArgLimit \in [Op -> Nat]
  /\ \A op \in Op \ (Begins \cup NopOp) : Signature[op].inner = <<>>
  /\ \A op \in Begins : Signature[op].out = <<>>
  /\ \A e \in Ends : \E k \in 1..Len(Signature[e].in) : Signature[e].in[k] \in BlockType

Instr == [op : Op, inputs : Seq(Nat), arg : Nat]

-----------------------------------------------------------------------------
(* The builder.  `begin' is the instruction that opened the scope, 0 for   *)
(* the global scope (None).                                                *)

Scope == [begin : Nat, id : Nat, context : Context]
ScopedVariable == [var : VarType, scope_id : Nat]

Builder == [ active_scopes     : Seq(Scope),
             active_scopes_set : SUBSET Nat,
             scope_counter     : Nat,
             variables         : Seq(ScopedVariable),
             instructions      : Seq(Instr),
             contexts          : Seq(Context) ]

CurrentScope(b) == b.active_scopes[Len(b.active_scopes)]

(* Mutant of InScope: a variable stays visible after its block.            *)
InScopeForever(b, v) == v \in 1..Len(b.variables) /\ b.variables[v].scope_id # 0

InScope(b, v) ==
  /\ v \in 1..Len(b.variables)
  /\ b.variables[v].scope_id \in b.active_scopes_set

EnterScope(b, begin, context) ==
  LET id == b.scope_counter + 1
  IN  [b EXCEPT !.active_scopes = Append(@, [begin |-> begin, id |-> id, context |-> context]),
                !.active_scopes_set = @ \cup {id},
                !.scope_counter = id]

ExitScope(b) ==
  [b EXCEPT !.active_scopes = SubSeq(@, 1, Len(@) - 1),
            !.active_scopes_set = @ \ {CurrentScope(b).id}]

(* Mutant of Declare: scope ids one too small.                             *)
DeclareOutside(b, types, scope_id) ==
  [b EXCEPT !.variables =
     @ \o [k \in 1..Len(types) |-> [var |-> types[k], scope_id |-> scope_id - 1]]]

(* Extend the builder's variables by variables of the given types.         *)
Declare(b, types, scope_id) ==
  [b EXCEPT !.variables =
     @ \o [k \in 1..Len(types) |-> [var |-> types[k], scope_id |-> scope_id]]]

NewBuilder ==
  EnterScope([ active_scopes |-> <<>>, active_scopes_set |-> {}, scope_counter |-> 0,
               variables |-> <<>>, instructions |-> <<>>, contexts |-> <<>> ],
             0, Global)

(* The instruction context before a block begins or ends is the context of *)
(* the block instruction.                                                  *)
NoteContext(b) == [b EXCEPT !.contexts = Append(@, CurrentScope(b).context)]

(* The asserts and unwraps of append: an empty scope stack (current_scope, *)
(* before and after the exit), a scope id missing from the set (the assert *)
(* in exit_scope), a scope without begin instruction (unwrap).             *)
Panics(b, i) ==
  \/ b.active_scopes = <<>>
  \/ /\ i.op \in Ends
     /\ \/ Len(b.active_scopes) = 1
        \/ CurrentScope(b).id \notin b.active_scopes_set
        \/ CurrentScope(b).begin \notin 1..Len(b.instructions)

(* What append returns, the checks in the order of the code.               *)
Outcome(b, i) ==
  LET types == Signature[i.op].in
      Taken == 1..Len(i.inputs)
  IN  IF Len(i.inputs) # Len(types) THEN "InvalidNumberOfInputs"
      ELSE IF \E k \in Taken : ~ InScope(b, i.inputs[k]) THEN "VariableNotDefined"
      ELSE IF \E k \in Taken : b.variables[i.inputs[k]].var # types[k] THEN "InvalidVariableType"
      ELSE IF i.arg >= ArgLimit[i.op] THEN "InvalidArgument"
      ELSE IF Panics(b, i) THEN "Panic"
      ELSE IF i.op \in Ends /\ b.instructions[CurrentScope(b).begin].op # BeginOf[i.op]
           THEN "InvalidBlockEnd"
      ELSE "Ok"

(* Mutant of Appended: the inner outputs are declared before the scope of  *)
(* the block is entered.                                                   *)
AppendedInnerFirst(b, i) ==
  LET noted  == NoteContext(b)
      exited == IF i.op \in Ends THEN ExitScope(noted) ELSE noted
      outer  == Declare(exited, Signature[i.op].out \o Signature[i.op].inner,
                        IF i.op \in NopOp THEN 0 ELSE CurrentScope(exited).id)
  IN  [ IF i.op \in Begins
        THEN EnterScope(outer, Len(outer.instructions) + 1, EnteredContext[i.op])
        ELSE outer EXCEPT !.instructions = Append(@, i) ]

(* The builder after an append that returned Ok.  The outputs belong to    *)
(* the scope around the instruction, the inner outputs to the scope it     *)
(* opens, and the variables of a Nop to no scope.                          *)
Appended(b, i) ==
  LET nop     == i.op \in NopOp
      noted   == NoteContext(b)
      exited  == IF i.op \in Ends THEN ExitScope(noted) ELSE noted
      outer   == Declare(exited, Signature[i.op].out, IF nop THEN 0 ELSE CurrentScope(exited).id)
      entered == IF i.op \in Begins
                 THEN EnterScope(outer, Len(outer.instructions) + 1, EnteredContext[i.op])
                 ELSE outer
      inner   == Declare(entered, Signature[i.op].inner, IF nop THEN 0 ELSE entered.scope_counter)
  IN  [inner EXCEPT !.instructions = Append(@, i)]

(* Mutant of Refused: the end that does not match puts its scope back on   *)
(* the stack, but not into the set.                                        *)
RefusedHalfUndone(b, i) ==
  IF Outcome(b, i) = "InvalidBlockEnd"
  THEN [ExitScope(NoteContext(b)) EXCEPT !.active_scopes = b.active_scopes]
  ELSE b

(* The builder after an append that failed: an end that does not match has *)
(* popped the scope before it is refused, every other error changes        *)
(* nothing.                                                                *)
Refused(b, i) == IF Outcome(b, i) = "InvalidBlockEnd" THEN ExitScope(NoteContext(b)) ELSE b

FinalizeOutcome(b) ==
  IF Len(b.active_scopes) # Cardinality(b.active_scopes_set) THEN "Panic"
  ELSE IF Len(b.active_scopes) # 1 THEN "ScopeStillOpen"
  ELSE "Ok"

(* The scope bookkeeping: the bottom of the stack is the global scope, id  *)
(* 1, every other scope was opened by an instruction that begins a block,  *)
(* ids grow along the stack, and the set is the ids of the stack.          *)
ScopeStack(scopes, ids, counter, instructions) ==
  /\ scopes # <<>>
  /\ \A k \in 1..Len(scopes) :
       /\ scopes[k].id \in 1..counter
       /\ k = 1 => scopes[k].begin = 0 /\ scopes[k].id = 1
       /\ k > 1 => /\ scopes[k].begin \in 1..Len(instructions)
                  /\ instructions[scopes[k].begin].op \in Begins
       /\ \A m \in 1..(k - 1) : scopes[m].id < scopes[k].id
  /\ ids = { scopes[k].id : k \in 1..Len(scopes) }

ScopesOK(b) ==
  ScopeStack(b.active_scopes, b.active_scopes_set, b.scope_counter, b.instructions)

(* VariableLookup::from_instructions, one instruction at a time: the same  *)
(* bookkeeping without any check, and the scopes only by their ids.        *)
NewLookup == [ variables |-> <<>>, active_scopes |-> <<1>>, active_scopes_set |-> {1},
               scope_counter |-> 1 ]

(* Mutant of LookupStep: a Nop that stands for a block begin opens a       *)
(* scope, and a block end closes none.                                     *)
LookupStepFlat(l, i) ==
  LET outer == Declare(l, Signature[i.op].out, IF i.op \in NopOp THEN 0 ELSE 1)
  IN  Declare(outer, Signature[i.op].inner, IF i.op \in NopOp THEN 0 ELSE 1)

LookupStep(l, i) ==
  LET nop    == i.op \in NopOp
      n      == Len(l.active_scopes)
      exits  == i.op \in Ends /\ n > 0
      scopes == IF exits THEN SubSeq(l.active_scopes, 1, n - 1) ELSE l.active_scopes
      active == IF exits THEN l.active_scopes_set \ {l.active_scopes[n]}
                         ELSE l.active_scopes_set
      here   == IF scopes = <<>> THEN 1 ELSE scopes[Len(scopes)]
      id     == l.scope_counter + 1
      opened == i.op \in Begins
      outer  == Declare(l, Signature[i.op].out, IF nop THEN 0 ELSE here)
      inner  == Declare(outer, Signature[i.op].inner,
                        IF nop THEN 0 ELSE IF opened THEN id ELSE l.scope_counter)
  IN  [ variables         |-> inner.variables,
        active_scopes     |-> IF opened THEN Append(scopes, id) ELSE scopes,
        active_scopes_set |-> IF opened THEN active \cup {id} ELSE active,
        scope_counter     |-> IF opened THEN id ELSE l.scope_counter ]

(* The lookup of the instructions, as a function of how many of them.      *)
Lookup(p) ==
  LET l[n \in 0..Len(p)] == IF n = 0 THEN NewLookup ELSE LookupStep(l[n - 1], p[n])
  IN  l[Len(p)]

(* What VariableLookup::get_variable and ProgramBuilder::get_variable      *)
(* return: the type of a variable in scope, for every index.               *)
Visible(b) == [ v \in { w \in 1..Len(b.variables) : InScope(b, w) } |-> b.variables[v].var ]
=============================================================================

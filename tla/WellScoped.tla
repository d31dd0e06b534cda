----------------------------- MODULE WellScoped -----------------------------
(***************************************************************************)
(* What the program builder promises, without scopes, stacks or counters:  *)
(* the operations of a program nest like brackets, and an instruction may  *)
(* use exactly the variables that were defined before it in a block that   *)
(* is still open around it.  ProgramBuilder is shown to implement this.    *)
(***************************************************************************)
EXTENDS Integers, Sequences, FiniteSets

CONSTANTS Op, Signature, Begins, Ends, BeginOf, NopOp, ArgLimit, InputVectors, Arguments,
          MaxInstructions

VARIABLES
  program,   \* the instructions accepted so far
  defs,      \* the variables: the type of each, and the instruction that defined it
  verdict    \* "open" while building, then why building ended

vars == <<program, defs, verdict>>

(* How many blocks are open after the first i instructions.                *)
Depth(p, i) == Cardinality({ j \in 1..i : p[j].op \in Begins })
               - Cardinality({ j \in 1..i : p[j].op \in Ends })

(* The block that instruction j leaves its variables in is still open.     *)
OpenSince(p, j) == \A k \in j..Len(p) : Depth(p, k) >= Depth(p, j)

OpenBegins(p) == { j \in 1..Len(p) : p[j].op \in Begins /\ OpenSince(p, j) }

Innermost(p) == CHOOSE j \in OpenBegins(p) : \A k \in OpenBegins(p) : k <= j

Usable(v) ==
  /\ v \in 1..Len(defs)
  /\ program[defs[v].by].op \notin NopOp
  /\ OpenSince(program, defs[v].by)

Admissible(i) ==
  /\ Len(i.inputs) = Len(Signature[i.op].in)
  /\ \A k \in 1..Len(i.inputs) :
        Usable(i.inputs[k]) /\ defs[i.inputs[k]].type = Signature[i.op].in[k]
  /\ i.arg < ArgLimit[i.op]
  /\ i.op \in Ends => /\ OpenBegins(program) # {}
                      /\ program[Innermost(program)].op = BeginOf[i.op]

Init == program = <<>> /\ defs = <<>> /\ verdict = "open"

Extend(i) ==
  /\ verdict = "open" /\ Admissible(i)
  /\ Len(program) < MaxInstructions
  /\ LET types == Signature[i.op].out \o Signature[i.op].inner
     IN  defs' = defs \o [k \in 1..Len(types) |-> [type |-> types[k], by |-> Len(program) + 1]]
  /\ program' = Append(program, i)
  /\ UNCHANGED verdict

Reject(i) ==
  /\ verdict = "open" /\ ~ Admissible(i)
  /\ verdict' = "rejected"
  /\ UNCHANGED <<program, defs>>

Close ==
  /\ verdict = "open"
  /\ verdict' = IF OpenBegins(program) = {} THEN "complete" ELSE "incomplete"
  /\ UNCHANGED <<program, defs>>

Next ==
  \/ \E op \in Op : \E v \in InputVectors[op], a \in Arguments[op] :
        LET i == [op |-> op, inputs |-> v, arg |-> a] IN Extend(i) \/ Reject(i)
  \/ Close

Spec == Init /\ [][Next]_vars
=============================================================================

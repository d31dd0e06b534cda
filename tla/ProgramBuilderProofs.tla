------------------------ MODULE ProgramBuilderProofs ------------------------
(***************************************************************************)
(* The builder's bookkeeping is sound for every operation table that       *)
(* satisfies IRAssumption and programs of every length, and the builder    *)
(* implements WellScoped.                                                  *)
(***************************************************************************)
EXTENDS ProgramBuilder, ProgramLemmas

IInv ==
  /\ TypeOK
  /\ ScopesOK(builder) /\ VariablesOK(builder.variables)
  /\ NoPanic

-----------------------------------------------------------------------------
(* The instructions that are tried are instructions.                       *)
LEMMA CandidateType == \A i \in Candidates : i \in Instr /\ i.op \in Op
BY BuilderAssumption DEF Candidates, Instr

-----------------------------------------------------------------------------
(* The inductive invariant holds of a new builder.                         *)
LEMMA InitIInv == Init => IInv
BY NewBuilderOK DEF Init, IInv, TypeOK, Results, NoPanic

(* Every append, accepted, refused or panicking, and finalize preserve     *)
(* it.                                                                     *)
LEMMA NextIInv == IInv /\ [Next]_vars => IInv'
<1> SUFFICES ASSUME IInv, [Next]_vars
             PROVE  IInv'
  OBVIOUS
<1>1. builder \in Builder /\ result \in Results /\ definedBy \in Seq(Nat) /\ NoPanic
  BY DEF IInv, TypeOK
<1>2. ASSUME NEW i \in Candidates, AppendOk(i)
      PROVE  IInv'
  <2>1. /\ i \in Instr /\ i.op \in Op /\ ScopesOK(builder) /\ VariablesOK(builder.variables)
        /\ Outcome(builder, i) = "Ok"
    BY <1>2, CandidateType DEF AppendOk, IInv
  <2>2. /\ builder' \in Builder /\ ScopesOK(builder') /\ VariablesOK(builder'.variables)
    BY <1>1, <1>2, <2>1, AppendedOK DEF AppendOk
  <2>3. definedBy' \in Seq(Nat)
    <3> DEFINE types == Signature[i.op].out \o Signature[i.op].inner
               new == [k \in 1..Len(types) |-> Len(builder.instructions) + 1]
    <3>1. types \in Seq(VarType) /\ Len(builder.instructions) \in Nat
      BY <1>1, <2>1, TableFacts, ConcatProperties DEF Builder
    <3> HIDE DEF types
    <3>2. new \in Seq(Nat)
      BY <3>1
    <3>3. definedBy' = definedBy \o new
      BY <1>2 DEF AppendOk, types
    <3> HIDE DEF new
    <3>4. QED
      BY <1>1, <3>2, <3>3, ConcatProperties
  <2>4. QED
    BY <1>1, <1>2, <2>2, <2>3 DEF AppendOk, IInv, TypeOK, NoPanic
<1>3. ASSUME NEW i \in Candidates, AppendFails(i)
      PROVE  IInv'
  <2>1. i \in Instr /\ ScopesOK(builder) /\ VariablesOK(builder.variables)
    BY <1>3, CandidateType DEF AppendFails, IInv
  <2>2. builder' \in Builder /\ ScopesOK(builder') /\ VariablesOK(builder'.variables)
    BY <1>1, <1>3, <2>1, RefusedOK DEF AppendFails
  <2>3. result' \in Refusals /\ result' # "open" /\ result' # "Panic"
    BY <1>1, <1>3, <2>1, AppendDoesNotPanic DEF AppendFails, Outcome, Refusals
  <2>4. QED
    BY <1>1, <1>3, <2>2, <2>3 DEF AppendFails, IInv, TypeOK, NoPanic, Results
<1>4. ASSUME Finalize
      PROVE  IInv'
  <2>1. ScopesOK(builder)
    BY <1>4 DEF Finalize, IInv
  <2>2. result' \in {"Ok", "ScopeStillOpen"}
    BY <1>1, <1>4, <2>1, FinalizeDoesNotPanic DEF Finalize, FinalizeOutcome
  <2>3. QED
    BY <1>1, <1>4, <2>2 DEF Finalize, IInv, TypeOK, NoPanic, Results
<1>5. CASE UNCHANGED vars
  BY <1>5 DEF vars, IInv, TypeOK, NoPanic
<1>6. QED
  BY <1>2, <1>3, <1>4, <1>5 DEF Next

(* So it holds in every behaviour.                                         *)
LEMMA Invariance == Spec => []IInv
BY InitIInv, NextIInv, PTL DEF Spec

(* The fields of the builder always have their types.                      *)
THEOREM BuilderTypes == Spec => []TypeOK
BY Invariance, PTL DEF IInv

(* The stack of scopes and the set of scope ids agree after every append,  *)
(* accepted or refused (append and exit_scope, builder.rs:209-218, 283).   *)
THEOREM ScopeAccounting == Spec => []ScopesAgree
<1>1. IInv => ScopesAgree
  BY DEF IInv, ScopesAgree
<1>2. QED
  BY <1>1, Invariance, PTL

(* No assertion or unwrap of append, exit_scope, current_scope or finalize *)
(* ever fails, whatever instructions are appended.                         *)
THEOREM BuilderNeverPanics == Spec => []NoPanic
BY Invariance, PTL DEF IInv

-----------------------------------------------------------------------------
(* The inductive invariant, beside IInv: the recursion over the            *)
(* instructions so far is well defined, and ends in the bookkeeping of the *)
(* builder.                                                                *)
LInv == result = "open" => Defines(builder.instructions, Trace(builder))

-----------------------------------------------------------------------------
(* The lookup of the empty program is that of a new builder.               *)
LEMMA InitLInv == Init => LInv
<1>1. Trace(NewBuilder) = NewLookup
  BY NewTrace
<1>2. NewBuilder.instructions = <<>>
  BY DEF NewBuilder, EnterScope
<1>3. QED
  BY <1>1, <1>2, DefinesNothing DEF Init, LInv

(* Every append that returned Ok is one more step of the lookup.           *)
LEMMA NextLInv == IInv /\ LInv /\ [Next]_vars => LInv'
<1> SUFFICES ASSUME IInv, LInv, [Next]_vars
             PROVE  LInv'
  OBVIOUS
<1>1. ASSUME NEW i \in Candidates, AppendOk(i)
      PROVE  LInv'
  <2>1. /\ builder \in Builder /\ ScopesOK(builder) /\ VariablesOK(builder.variables)
        /\ i \in Instr /\ Outcome(builder, i) = "Ok" /\ builder' = Appended(builder, i)
        /\ Defines(builder.instructions, Trace(builder))
    BY <1>1, CandidateType DEF AppendOk, IInv, TypeOK, LInv
  <2>2. i.op \in Ends => Len(builder.active_scopes) > 1
    <3>1. /\ Len(i.inputs) = Len(Signature[i.op].in)
          /\ \A k \in 1..Len(i.inputs) : InScope(builder, i.inputs[k])
          /\ \A k \in 1..Len(i.inputs) :
               builder.variables[i.inputs[k]].var = Signature[i.op].in[k]
      BY <2>1 DEF Outcome
    <3>2. QED
      BY <2>1, <3>1, EndIsNested
  <2>3. LookupStep(Trace(builder), i) = Trace(builder')
    BY <2>1, <2>2, LookupStepIsAppended
  <2>4. builder'.instructions = Append(builder.instructions, i)
    BY <2>1, <2>2, AppendedFields
  <2>5. builder.instructions \in Seq(Instr)
    BY <2>1 DEF Builder
  <2>6. QED
    BY <2>1, <2>3, <2>4, <2>5, DefinesStep DEF LInv
<1>2. ASSUME NEW i \in Candidates, AppendFails(i)
      PROVE  LInv'
  BY <1>2 DEF AppendFails, Outcome, LInv
<1>3. CASE Finalize
  BY <1>3 DEF Finalize, FinalizeOutcome, LInv
<1>4. CASE UNCHANGED vars
  BY <1>4 DEF vars, LInv
<1>5. QED
  BY <1>1, <1>2, <1>3, <1>4 DEF Next

(* The lookup over the instructions of a program being built sees the very *)
(* variables, of the very types, that the builder sees, for every          *)
(* operation table and programs of every length (VariableLookup, used by   *)
(* the generators and mutators on the prefix before the insertion point).  *)
THEOREM LookupSeesWhatTheBuilderSees == Spec => []LookupAgrees
<1>1. LInv => LookupAgrees
  <2> SUFFICES ASSUME LInv, result = "open"
               PROVE  Visible(Lookup(builder.instructions)) = Visible(builder)
    BY DEF LookupAgrees
  <2>1. Lookup(builder.instructions) = Trace(builder)
    BY DefinesLookup DEF LInv
  <2>2. /\ Trace(builder).variables = builder.variables
        /\ Trace(builder).active_scopes_set = builder.active_scopes_set
    BY DEF Trace
  <2>3. \A v : InScope(Trace(builder), v) <=> InScope(builder, v)
    BY <2>2 DEF InScope
  <2>4. Visible(Trace(builder)) = Visible(builder)
    BY <2>2, <2>3 DEF Visible
  <2>5. QED
    BY <2>1, <2>4
<1>2. Spec => []LInv
  BY InitLInv, NextLInv, Invariance, PTL DEF Spec
<1>3. QED
  BY <1>1, <1>2, PTL

-----------------------------------------------------------------------------
(* The builder implements WellScoped.  The invariant that carries the      *)
(* proof relates the stack of scopes, which append pushes and pops, to the *)
(* depths that WellScoped counts from the instructions alone: a scope id   *)
(* on the stack stands for a block that has been open ever since.          *)

(* A variable v left by instruction j is in the scope whose position in    *)
(* the stack is the depth the program has after j, and in none as soon as  *)
(* the block it was left in ends; a variable of a Nop is in none.          *)
Placed(p, scopes, counter, v, j) ==
  /\ j \in 1..Len(p)
  /\ v.scope_id \in 0..counter
  /\ v.scope_id = 0 <=> p[j].op \in NopOp
  /\ v.scope_id # 0 =>
       (Abstract!OpenSince(p, j) <=> \E k \in 1..Len(scopes) : scopes[k].id = v.scope_id)
  /\ \A k \in 1..Len(scopes) : scopes[k].id = v.scope_id => Abstract!Depth(p, j) = k - 1

(* The scopes above the global one are the open blocks, by their depth.    *)
Blocks(p, scopes) ==
  /\ Abstract!Depth(p, Len(p)) = Len(scopes) - 1
  /\ \A k \in 2..Len(scopes) : /\ Abstract!Depth(p, scopes[k].begin) = k - 1
                              /\ Abstract!OpenSince(p, scopes[k].begin)
  /\ \A j \in 1..Len(p) : p[j].op \in Begins /\ Abstract!OpenSince(p, j) =>
       \E k \in 2..Len(scopes) : scopes[k].begin = j

(* The stack of scopes is the nesting of the program.                      *)
Nesting(b, by) ==
  /\ Blocks(b.instructions, b.active_scopes)
  /\ Len(by) = Len(b.variables)
  /\ \A v \in 1..Len(by) :
       Placed(b.instructions, b.active_scopes, b.scope_counter, b.variables[v], by[v])

(* The inductive invariant of the refinement, beside IInv.                 *)
RInv == result = "open" => Nesting(builder, definedBy)

-----------------------------------------------------------------------------
(* How many of the first n instructions are of a set of operations.        *)
Upto(S, q, n) == { j \in 1..n : q[j].op \in S }
Count(S, q, n) == Cardinality(Upto(S, q, n))

(* One more instruction is counted if it is of the set.                    *)
LEMMA CountStep ==
  ASSUME NEW S, NEW q, NEW n \in Nat
  PROVE  /\ Count(S, q, n) \in Nat
         /\ q[n + 1].op \in S => Count(S, q, n + 1) = Count(S, q, n) + 1
         /\ q[n + 1].op \notin S => Count(S, q, n + 1) = Count(S, q, n)
<1>1. IsFiniteSet(Upto(S, q, n))
  <2>1. IsFiniteSet(1..n)
    BY FS_Interval, 1 \in Int
  <2>2. Upto(S, q, n) \subseteq 1..n
    BY DEF Upto
  <2>3. QED
    BY <2>1, <2>2, FS_Subset
<1>2. Count(S, q, n) \in Nat
  BY <1>1, FS_CardinalityType DEF Count
<1>3. CASE q[n + 1].op \in S
  <2>1. Upto(S, q, n + 1) = Upto(S, q, n) \cup {n + 1} /\ n + 1 \notin Upto(S, q, n)
    BY <1>3 DEF Upto
  <2>2. QED
    BY <1>1, <1>2, <1>3, <2>1, FS_AddElement DEF Count
<1>4. CASE q[n + 1].op \notin S
  <2>1. Upto(S, q, n + 1) = Upto(S, q, n)
    BY <1>4 DEF Upto
  <2>2. QED
    BY <1>2, <1>4, <2>1 DEF Count
<1>5. QED
  BY <1>3, <1>4

(* The depth of WellScoped is the begins less the ends.                    *)
LEMMA DepthIsCount ==
  ASSUME NEW q, NEW n
  PROVE  Abstract!Depth(q, n) = Count(Begins, q, n) - Count(Ends, q, n)
<1>1. Abstract!Cardinality(Upto(Begins, q, n)) = Cardinality(Upto(Begins, q, n))
  BY DEF Abstract!Cardinality, Cardinality
<1>2. Abstract!Cardinality(Upto(Ends, q, n)) = Cardinality(Upto(Ends, q, n))
  BY DEF Abstract!Cardinality, Cardinality
<1>3. QED
  BY <1>1, <1>2 DEF Abstract!Depth, Count, Upto

(* The depth of a program is an integer.                                   *)
LEMMA DepthType ==
  ASSUME NEW p, NEW n \in Nat
  PROVE  Abstract!Depth(p, n) \in Int
BY CountStep, DepthIsCount

(* The depth of q, which is p and the instruction i.                       *)
Deepened(p, i, q, n) ==
  /\ \A m \in 0..n : Abstract!Depth(q, m) = Abstract!Depth(p, m)
  /\ i.op \in Begins => Abstract!Depth(q, n + 1) = Abstract!Depth(p, n) + 1
  /\ i.op \in Ends => Abstract!Depth(q, n + 1) = Abstract!Depth(p, n) - 1
  /\ i.op \notin Begins \cup Ends => Abstract!Depth(q, n + 1) = Abstract!Depth(p, n)

(* An append changes the depth only after the instruction it appends.      *)
LEMMA DepthStep ==
  ASSUME NEW p \in Seq(Instr), NEW i \in Instr
  PROVE  Deepened(p, i, Append(p, i), Len(p))
<1> DEFINE q == Append(p, i)
           n == Len(p)
<1>1. n \in Nat /\ q[n + 1] = i /\ \A j \in 1..n : q[j] = p[j]
  OBVIOUS
<1> HIDE DEF q, n
<1>2. ASSUME NEW m \in 0..n
      PROVE  Count(Begins, q, m) = Count(Begins, p, m) /\ Count(Ends, q, m) = Count(Ends, p, m)
  <2>1. \A S : Upto(S, q, m) = Upto(S, p, m)
    BY <1>1 DEF Upto
  <2>2. QED
    BY <2>1 DEF Count
<1>3. \A m \in 0..n : Abstract!Depth(q, m) = Abstract!Depth(p, m)
  BY <1>2, DepthIsCount
<1>4. ~ (i.op \in Begins /\ i.op \in Ends)
  BY IRAssumption
<1>5. Abstract!Depth(q, n) = Abstract!Depth(p, n)
  BY <1>1, <1>3
<1>6. /\ Count(Begins, q, n) \in Nat /\ Count(Ends, q, n) \in Nat
      /\ i.op \in Begins => Count(Begins, q, n + 1) = Count(Begins, q, n) + 1
      /\ i.op \notin Begins => Count(Begins, q, n + 1) = Count(Begins, q, n)
      /\ i.op \in Ends => Count(Ends, q, n + 1) = Count(Ends, q, n) + 1
      /\ i.op \notin Ends => Count(Ends, q, n + 1) = Count(Ends, q, n)
  BY <1>1, CountStep
<1>7. /\ Abstract!Depth(q, n) = Count(Begins, q, n) - Count(Ends, q, n)
      /\ Abstract!Depth(q, n + 1) = Count(Begins, q, n + 1) - Count(Ends, q, n + 1)
  BY DepthIsCount
<1>8. Deepened(p, i, q, n)
  BY <1>3, <1>4, <1>5, <1>6, <1>7 DEF Deepened
<1>9. QED
  BY <1>8 DEF q, n

-----------------------------------------------------------------------------
-----------------------------------------------------------------------------
(* What is open in q, which has one more instruction than p.               *)
StaysOpen(p, q, n) ==
  /\ \A j \in 1..n : Abstract!OpenSince(q, j) <=>
       Abstract!OpenSince(p, j) /\ Abstract!Depth(q, n + 1) >= Abstract!Depth(p, j)
  /\ Abstract!OpenSince(q, n + 1)

(* A block that was open stays open unless the program falls below its     *)
(* depth.                                                                  *)
LEMMA OpenStep ==
  ASSUME NEW p \in Seq(Instr), NEW i \in Instr
  PROVE  StaysOpen(p, Append(p, i), Len(p))
<1> DEFINE q == Append(p, i)
           n == Len(p)
<1>0. n \in Nat /\ Len(q) = n + 1 /\ Deepened(p, i, q, n)
  BY DepthStep
<1> HIDE DEF q
<1>1. /\ n \in Nat /\ Len(q) = n + 1
      /\ \A m \in 0..n : Abstract!Depth(q, m) = Abstract!Depth(p, m)
      /\ \A m \in 0..n : Abstract!Depth(p, m) \in Int
      /\ Abstract!Depth(q, n + 1) \in Int
  BY <1>0, DepthType DEF Deepened
<1>2. ASSUME NEW j \in 1..n
      PROVE  Abstract!OpenSince(q, j) <=>
               Abstract!OpenSince(p, j) /\ Abstract!Depth(q, n + 1) >= Abstract!Depth(p, j)
  <2>1. Abstract!OpenSince(q, j) <=>
          \A k \in j..(n + 1) : Abstract!Depth(q, k) >= Abstract!Depth(q, j)
    BY <1>1 DEF Abstract!OpenSince
  <2>2. Abstract!OpenSince(p, j) <=> \A k \in j..n : Abstract!Depth(p, k) >= Abstract!Depth(p, j)
    BY <1>1 DEF Abstract!OpenSince
  <2>3. \A k \in j..(n + 1) : k \in j..n \/ k = n + 1
    BY <1>1
  <2>4. j..n \subseteq j..(n + 1) /\ j..n \subseteq 0..n /\ n + 1 \in j..(n + 1) /\ j \in 0..n
    BY <1>1
  <2>5. QED
    BY <1>1, <2>1, <2>2, <2>3, <2>4
<1>3. Abstract!OpenSince(q, n + 1)
  <2>1. \A k \in (n + 1)..Len(q) : k = n + 1
    BY <1>1
  <2>2. QED
    BY <1>1, <2>1 DEF Abstract!OpenSince
<1>4. QED
  BY <1>2, <1>3 DEF StaysOpen, q

(* Where the stack of scopes is after an append: as deep as the program,   *)
(* with the same scopes below.                                             *)
Restacked(q, n, i, scopes, counter, s, same) ==
  /\ same \in Nat \ {0} /\ same <= Len(scopes) /\ n \in Nat
  /\ i.op \in Begins => /\ same = Len(scopes) /\ Len(s) = same + 1
                        /\ s[same + 1].begin = n + 1 /\ s[same + 1].id = counter + 1
  /\ i.op \notin Begins => Len(s) = same
  /\ \A k \in 1..same : s[k] = scopes[k]
  /\ Abstract!Depth(q, n + 1) = Len(s) - 1

(* The stack after an append: the scopes up to Same are the old ones, and  *)
(* its length follows the depth.                                           *)
LEMMA StackStep ==
  ASSUME NEW p \in Seq(Instr), NEW i \in Instr,
         NEW scopes \in Seq(Scope), NEW counter \in Nat,
         scopes # <<>>, i.op \in Ends => Len(scopes) > 1,
         Abstract!Depth(p, Len(p)) = Len(scopes) - 1
  PROVE  Restacked(Append(p, i), Len(p), i, scopes, counter,
                   Entered(Left(scopes, i), counter, Len(p) + 1, i), Same(scopes, i))
<1> DEFINE q == Append(p, i)
           n == Len(p)
           same == Same(scopes, i)
           l == Left(scopes, i)
           s == Entered(l, counter, n + 1, i)
           g == [begin |-> n + 1, id |-> counter + 1, context |-> EnteredContext[i.op]]
<1>0. Deepened(p, i, q, n) /\ Abstract!Depth(p, n) = Len(scopes) - 1 /\ n \in Nat
  BY DepthStep
<1> HIDE DEF q, n
<1>1. n \in Nat /\ Len(scopes) \in Nat \ {0} /\ ~ (i.op \in Begins /\ i.op \in Ends)
  BY <1>0, IRAssumption
<1>2. same \in Nat \ {0} /\ same <= Len(scopes)
  <2>1. CASE i.op \in Ends
    <3>1. same = Len(scopes) - 1 /\ Len(scopes) > 1
      BY <2>1 DEF Same
    <3> HIDE DEF same
    <3>2. QED
      BY <1>1, <3>1
  <2>2. CASE i.op \notin Ends
    <3>1. same = Len(scopes)
      BY <2>2 DEF Same
    <3> HIDE DEF same
    <3>2. QED
      BY <1>1, <3>1
  <2>3. QED
    BY <2>1, <2>2
<1>3. l \in Seq(Scope) /\ Len(l) = same /\ \A k \in 1..same : l[k] = scopes[k]
  <2>1. \A k \in 1..Len(scopes) : scopes[k] \in Scope
    OBVIOUS
  <2>2. CASE i.op \in Ends
    <3>1. l = SubSeq(scopes, 1, same) /\ same \in Nat /\ same <= Len(scopes)
      BY <1>1, <1>2, <2>2 DEF Left, Same
    <3>2. \A k \in 1..same : scopes[k] \in Scope
      BY <1>2, <2>1
    <3> HIDE DEF same, l
    <3>3. QED
      BY <3>1, <3>2, SubSeqProperties
  <2>3. CASE i.op \notin Ends
    BY <2>3 DEF Left, Same
  <2>4. QED
    BY <2>2, <2>3
<1> HIDE DEF same, l, s
<1>4. CASE i.op \in Begins
  <2>1. g \in Scope /\ s = Append(l, g)
    BY <1>1, <1>4, TableFacts DEF Entered, Scope, s
  <2>2. g.begin = n + 1 /\ g.id = counter + 1
    OBVIOUS
  <2> HIDE DEF g
  <2>3. /\ Len(s) = same + 1 /\ s[same + 1] = g /\ \A k \in 1..same : s[k] = l[k]
    BY <1>2, <1>3, <2>1
  <2>4. same = Len(scopes)
    BY <1>1, <1>4 DEF same, Same
  <2>5. Abstract!Depth(q, n + 1) = Len(s) - 1
    BY <1>0, <1>1, <1>4, <2>3, <2>4 DEF Deepened
  <2>6. Restacked(q, n, i, scopes, counter, s, same)
    BY <1>1, <1>2, <1>3, <1>4, <2>2, <2>3, <2>4, <2>5 DEF Restacked
  <2>7. QED
    BY <2>6 DEF s, same, l, q, n
<1>5. CASE i.op \notin Begins
  <2>1. s = l
    BY <1>5 DEF Entered, s
  <2>2. Abstract!Depth(q, n + 1) = Len(s) - 1
    <3>1. CASE i.op \in Ends
      BY <1>0, <1>1, <1>3, <2>1, <3>1 DEF same, Same, Deepened
    <3>2. CASE i.op \notin Ends
      BY <1>0, <1>1, <1>3, <1>5, <2>1, <3>2 DEF same, Same, Deepened
    <3>3. QED
      BY <3>1, <3>2
  <2>3. Restacked(q, n, i, scopes, counter, s, same)
    BY <1>1, <1>2, <1>3, <1>5, <2>1, <2>2 DEF Restacked
  <2>4. QED
    BY <2>3 DEF s, same, l, q, n
<1>6. QED
  BY <1>4, <1>5

-----------------------------------------------------------------------------
(* q is p and one more instruction.                                        *)
Longer(p, q, n) == n = Len(p) /\ Len(q) = n + 1 /\ \A j \in 1..n : q[j] = p[j]

(* A variable stays in the scope it was declared in, until the block ends. *)
LEMMA PlacedStep ==
  ASSUME NEW p \in Seq(Instr), NEW i \in Instr, NEW scopes \in Seq(Scope), NEW counter \in Nat,
         NEW q, NEW n, NEW s, NEW same, NEW more \in Nat,
         Restacked(q, n, i, scopes, counter, s, same), StaysOpen(p, q, n),
         Deepened(p, i, q, n), Longer(p, q, n), more >= counter,
         NEW v, NEW j, Placed(p, scopes, counter, v, j)
  PROVE  Placed(q, s, more, v, j)
<1>1. /\ j \in 1..n /\ j \in 1..Len(q) /\ q[j] = p[j] /\ v.scope_id \in 0..more
      /\ j \in 0..n
  <2>1. n \in Nat /\ n = Len(p) /\ Len(q) = n + 1 /\ \A k \in 1..n : q[k] = p[k]
    BY DEF Longer
  <2>2. j \in 1..Len(p) /\ v.scope_id \in 0..counter
    BY DEF Placed
  <2>3. QED
    BY <2>1, <2>2
<1>2. /\ Abstract!Depth(q, j) = Abstract!Depth(p, j)
      /\ Abstract!OpenSince(q, j) <=>
           Abstract!OpenSince(p, j) /\ Len(s) - 1 >= Abstract!Depth(p, j)
  BY <1>1 DEF Deepened, StaysOpen, Restacked
<1>3. /\ same \in Nat \ {0} /\ same <= Len(scopes) /\ Len(s) \in Nat /\ Len(scopes) \in Nat
      /\ \A k \in 1..same : s[k] = scopes[k]
      /\ Len(s) = same \/ (Len(s) = same + 1 /\ same = Len(scopes) /\ s[same + 1].id = counter + 1)
  BY DEF Restacked
<1>4. v.scope_id # counter + 1
  BY DEF Placed
<1>5. ASSUME NEW k \in 1..Len(s), s[k].id = v.scope_id
      PROVE  /\ k \in 1..Len(scopes) /\ scopes[k].id = v.scope_id
             /\ Abstract!Depth(q, j) = k - 1 /\ Len(s) - 1 >= Abstract!Depth(p, j)
  <2>1. k \in 1..same
    BY <1>3, <1>4, <1>5
  <2>2. k \in 1..Len(scopes) /\ scopes[k].id = v.scope_id
    BY <1>3, <1>5, <2>1
  <2>3. Abstract!Depth(p, j) = k - 1
    BY <2>2 DEF Placed
  <2>4. QED
    BY <1>2, <1>3, <2>1, <2>2, <2>3
<1>6. ASSUME NEW k \in 1..Len(scopes), scopes[k].id = v.scope_id,
             Len(s) - 1 >= Abstract!Depth(p, j)
      PROVE  k \in 1..Len(s) /\ s[k].id = v.scope_id
  <2>1. Abstract!Depth(p, j) = k - 1
    BY <1>6 DEF Placed
  <2>2. k \in 1..same
    BY <1>3, <1>6, <2>1
  <2>3. QED
    BY <1>3, <1>6, <2>2
<1>7. v.scope_id # 0 =>
        (Abstract!OpenSince(p, j) <=> \E k \in 1..Len(scopes) : scopes[k].id = v.scope_id)
  BY DEF Placed
<1>8. v.scope_id # 0 =>
        (Abstract!OpenSince(q, j) <=> \E k \in 1..Len(s) : s[k].id = v.scope_id)
  BY <1>2, <1>5, <1>6, <1>7
<1>9. \A k \in 1..Len(s) : s[k].id = v.scope_id => Abstract!Depth(q, j) = k - 1
  BY <1>5
<1>10. v.scope_id = 0 <=> q[j].op \in NopOp
  BY <1>1 DEF Placed
<1>11. QED
  BY <1>1, <1>8, <1>9, <1>10 DEF Placed

(* A new variable is in the scope at the top of the stack.                 *)
LEMMA PlacedNew ==
  ASSUME NEW p \in Seq(Instr), NEW i \in Instr, NEW scopes \in Seq(Scope), NEW counter \in Nat,
         NEW q, NEW n, NEW s \in Seq(Scope), NEW same, NEW more \in Nat, NEW ids,
         NEW instructions,
         Restacked(q, n, i, scopes, counter, s, same), StaysOpen(p, q, n),
         n \in Nat, Len(q) = n + 1, q[n + 1] = i, ScopeStack(s, ids, more, instructions),
         NEW v, v.scope_id = IF i.op \in NopOp THEN 0 ELSE s[Len(s)].id
  PROVE  Placed(q, s, more, v, n + 1)
<1> DEFINE m == Len(s)
<1>1. m \in 1..Len(s) /\ m \in Nat /\ n + 1 \in 1..Len(q)
  BY DEF ScopeStack
<1>2. /\ Abstract!OpenSince(q, n + 1) /\ Abstract!Depth(q, n + 1) = m - 1
  BY DEF StaysOpen, Restacked
<1>3. /\ \A k \in 1..m : s[k].id \in 1..more
      /\ \A k \in 1..(m - 1) : s[k].id < s[m].id
  BY <1>1 DEF ScopeStack
<1>4. \A k \in 1..m : s[k].id = v.scope_id => k = m
  BY <1>1, <1>3
<1>5. v.scope_id \in 0..more /\ (v.scope_id = 0 <=> q[n + 1].op \in NopOp)
  BY <1>1, <1>3
<1>6. v.scope_id # 0 => \E k \in 1..Len(s) : s[k].id = v.scope_id
  BY <1>1
<1>7. QED
  BY <1>1, <1>2, <1>4, <1>5, <1>6 DEF Placed

(* The blocks after an append.                                             *)
LEMMA BlocksStep ==
  ASSUME NEW p \in Seq(Instr), NEW i \in Instr, NEW scopes \in Seq(Scope), NEW counter \in Nat,
         NEW q, NEW n, NEW s, NEW same, NEW ids,
         Restacked(q, n, i, scopes, counter, s, same), StaysOpen(p, q, n),
         Deepened(p, i, q, n), ScopeStack(scopes, ids, counter, p), Blocks(p, scopes),
         n = Len(p), Len(q) = n + 1, q[n + 1] = i, \A j \in 1..n : q[j] = p[j]
  PROVE  Blocks(q, s)
<1>1. /\ same \in Nat \ {0} /\ same <= Len(scopes) /\ Len(s) \in Nat /\ Len(scopes) \in Nat
      /\ \A k \in 1..same : s[k] = scopes[k]
      /\ \/ i.op \notin Begins /\ Len(s) = same
         \/ /\ i.op \in Begins /\ Len(s) = same + 1 /\ same = Len(scopes)
            /\ s[same + 1].begin = n + 1
      /\ Abstract!Depth(q, n + 1) = Len(s) - 1
      /\ n \in Nat
  BY DEF Restacked
<1>2. /\ \A j \in 1..n : Abstract!Depth(q, j) = Abstract!Depth(p, j)
      /\ \A j \in 1..n : Abstract!OpenSince(q, j) <=>
           Abstract!OpenSince(p, j) /\ Len(s) - 1 >= Abstract!Depth(p, j)
      /\ Abstract!OpenSince(q, n + 1)
  BY <1>1 DEF Deepened, StaysOpen
<1>3. ASSUME NEW k \in 2..Len(s)
      PROVE  /\ Abstract!Depth(q, s[k].begin) = k - 1
             /\ Abstract!OpenSince(q, s[k].begin)
  <2>1. CASE k = same + 1
    BY <1>1, <1>2, <2>1
  <2>2. CASE k # same + 1
    <3>1. k \in 2..Len(scopes) /\ k \in 1..Len(scopes) /\ k > 1 /\ s[k] = scopes[k]
      BY <1>1, <2>2
    <3>2. scopes[k].begin \in 1..n
      BY <3>1 DEF ScopeStack
    <3>3. /\ Abstract!Depth(p, scopes[k].begin) = k - 1
          /\ Abstract!OpenSince(p, scopes[k].begin)
      BY <3>1 DEF Blocks
    <3>4. QED
      BY <1>1, <1>2, <3>1, <3>2, <3>3
  <2>3. QED
    BY <2>1, <2>2
<1>4. ASSUME NEW j \in 1..Len(q), q[j].op \in Begins, Abstract!OpenSince(q, j)
      PROVE  \E k \in 2..Len(s) : s[k].begin = j
  <2>1. CASE j = n + 1
    BY <1>1, <1>4, <2>1
  <2>2. CASE j # n + 1
    <3>1. j \in 1..n /\ p[j].op \in Begins /\ Abstract!OpenSince(p, j)
          /\ Len(s) - 1 >= Abstract!Depth(p, j)
      BY <1>1, <1>2, <1>4, <2>2
    <3>2. PICK k \in 2..Len(scopes) : scopes[k].begin = j
      BY <3>1 DEF Blocks
    <3>3. Abstract!Depth(p, j) = k - 1
      BY <3>2 DEF Blocks
    <3>4. k \in 1..same /\ k \in 2..Len(s)
      BY <1>1, <3>1, <3>3
    <3>5. QED
      BY <1>1, <3>2, <3>4
  <2>3. QED
    BY <2>1, <2>2
<1>5. QED
  BY <1>1, <1>3, <1>4 DEF Blocks


(* The instruction that defined each variable, after an append.            *)
More(b, by, i) == by \o [k \in 1..Len(Created(i)) |-> Len(b.instructions) + 1]

(* The origins of the old variables stay, the new ones come from the       *)
(* instruction that is appended.                                           *)
LEMMA MoreFields ==
  ASSUME NEW b \in Builder, NEW by \in Seq(Nat), NEW i \in Instr
  PROVE  /\ Created(i) \in Seq(VarType) /\ Len(Created(i)) \in Nat /\ Len(by) \in Nat
         /\ More(b, by, i) \in Seq(Nat)
         /\ Len(More(b, by, i)) = Len(by) + Len(Created(i))
         /\ \A v \in 1..Len(by) : More(b, by, i)[v] = by[v]
         /\ \A k \in 1..Len(Created(i)) : More(b, by, i)[Len(by) + k] = Len(b.instructions) + 1
<1> DEFINE types == Created(i)
           n == Len(b.instructions) + 1
           new == [k \in 1..Len(types) |-> n]
<1>1. types \in Seq(VarType) /\ n \in Nat
  <2>1. i.op \in Op
    BY DEF Instr
  <2>2. QED
    BY <2>1, TableFacts, ConcatProperties DEF Created, Builder
<1>2. More(b, by, i) = by \o new
  BY DEF More
<1> HIDE DEF types, n
<1>3. new \in Seq(Nat) /\ Len(new) = Len(types) /\ \A k \in 1..Len(types) : new[k] = n
  BY <1>1
<1> HIDE DEF new
<1>4. Len(types) \in Nat /\ Len(by) \in Nat
  BY <1>1
<1>5. /\ by \o new \in Seq(Nat) /\ Len(by \o new) = Len(by) + Len(new)
      /\ \A v \in 1..(Len(by) + Len(new)) :
            (by \o new)[v] = IF v <= Len(by) THEN by[v] ELSE new[v - Len(by)]
  BY <1>3, ConcatProperties
<1>6. \A v \in 1..Len(by) : (by \o new)[v] = by[v]
  BY <1>3, <1>4, <1>5
<1>7. ASSUME NEW k \in 1..Len(types)
      PROVE  (by \o new)[Len(by) + k] = n
  <2>1. Len(by) + k \in 1..(Len(by) + Len(new)) /\ ~ (Len(by) + k <= Len(by))
        /\ (Len(by) + k) - Len(by) = k
    BY <1>3, <1>4
  <2>2. QED
    BY <1>3, <1>5, <2>1
<1>8. QED
  BY <1>1, <1>2, <1>3, <1>4, <1>5, <1>6, <1>7 DEF types, n

(* An append that returned Ok keeps the nesting.                           *)
LEMMA NestingStep ==
  ASSUME NEW b \in Builder, ScopesOK(b), NEW i \in Instr,
         i.op \in Ends => Len(b.active_scopes) > 1,
         Appended(b, i) \in Builder, ScopesOK(Appended(b, i)),
         NEW by \in Seq(Nat), Nesting(b, by)
  PROVE  Nesting(Appended(b, i), More(b, by, i))
<1> DEFINE a == Appended(b, i)
           p == b.instructions
           q == Append(p, i)
           n == Len(p)
           scopes == b.active_scopes
           counter == b.scope_counter
           s == Entered(Left(scopes, i), counter, n + 1, i)
           same == Same(scopes, i)
           m == More(b, by, i)
           id == IF i.op \in NopOp THEN 0 ELSE CurrentScope(a).id
<1>1. /\ a.instructions = q /\ a.active_scopes = s
      /\ a.scope_counter = counter + (IF i.op \in Begins THEN 1 ELSE 0)
      /\ HasMore(a, b, Created(i), id)
  BY AppendedFields
<1>2. /\ p \in Seq(Instr) /\ scopes \in Seq(Scope) /\ counter \in Nat
      /\ a.active_scopes \in Seq(Scope) /\ a.scope_counter \in Nat
  BY DEF Builder
<1>3. /\ ScopeStack(scopes, b.active_scopes_set, counter, p) /\ scopes # <<>>
      /\ ScopeStack(a.active_scopes, a.active_scopes_set, a.scope_counter, a.instructions)
      /\ Blocks(p, scopes) /\ Len(by) = Len(b.variables)
      /\ \A v \in 1..Len(by) : Placed(p, scopes, counter, b.variables[v], by[v])
      /\ Abstract!Depth(p, n) = Len(scopes) - 1
      /\ i.op \in Ends => Len(scopes) > 1
  BY DEF ScopesOK, ScopeStack, Nesting, Blocks
<1>4. /\ n \in Nat /\ Len(q) = n + 1 /\ q[n + 1] = i /\ \A j \in 1..n : q[j] = p[j]
      /\ a.scope_counter >= counter
  <2>1. n \in Nat /\ Len(q) = n + 1 /\ q[n + 1] = i /\ \A j \in 1..n : q[j] = p[j]
    BY <1>2
  <2>2. a.scope_counter >= counter
    BY <1>1, <1>2
  <2>3. QED
    BY <2>1, <2>2
<1>5. Deepened(p, i, q, n) /\ StaysOpen(p, q, n)
  BY <1>2, DepthStep, OpenStep
<1> HIDE DEF a, p, scopes, counter
<1>6. Restacked(q, n, i, scopes, counter, s, same)
  BY <1>2, <1>3, StackStep
<1>20. n = Len(p) /\ Longer(p, q, n)
  BY <1>4 DEF Longer
<1>21. m = More(b, by, i)
  OBVIOUS
<1>22. id = IF i.op \in NopOp THEN 0 ELSE s[Len(s)].id
  BY <1>1 DEF CurrentScope
<1> HIDE DEF q, n, s, same, m, id
<1>7. Blocks(q, s)
  BY <1>2, <1>3, <1>4, <1>5, <1>6, <1>20, BlocksStep
<1>8. /\ Len(m) = Len(by) + Len(Created(i)) /\ Len(Created(i)) \in Nat /\ Len(by) \in Nat
      /\ \A v \in 1..Len(by) : m[v] = by[v]
      /\ \A k \in 1..Len(Created(i)) : m[Len(by) + k] = n + 1
  BY <1>21, MoreFields DEF n, p
<1>9. /\ Len(a.variables) = Len(m)
      /\ \A v \in 1..Len(by) : a.variables[v] = b.variables[v]
      /\ \A k \in 1..Len(Created(i)) :
            a.variables[Len(by) + k] = [var |-> Created(i)[k], scope_id |-> id]
  BY <1>1, <1>3, <1>8 DEF HasMore
<1>10. ASSUME NEW v \in 1..Len(by)
       PROVE  Placed(q, s, a.scope_counter, a.variables[v], m[v])
  <2>1. Placed(p, scopes, counter, b.variables[v], by[v])
    BY <1>3
  <2>2. Placed(q, s, a.scope_counter, b.variables[v], by[v])
    BY <1>2, <1>4, <1>5, <1>6, <1>20, <2>1, PlacedStep
  <2>3. QED
    BY <1>8, <1>9, <2>2
<1>11. ASSUME NEW k \in 1..Len(Created(i))
       PROVE  Placed(q, s, a.scope_counter, a.variables[Len(by) + k], m[Len(by) + k])
  <2> DEFINE v == a.variables[Len(by) + k]
  <2>1. v.scope_id = IF i.op \in NopOp THEN 0 ELSE s[Len(s)].id
    <3>1. v = [var |-> Created(i)[k], scope_id |-> id]
      BY <1>9
    <3>2. v.scope_id = id
      BY <3>1
    <3> HIDE DEF v
    <3>3. QED
      BY <1>22, <3>2
  <2>2. s \in Seq(Scope) /\ ScopeStack(s, a.active_scopes_set, a.scope_counter, a.instructions)
    BY <1>1, <1>2, <1>3
  <2> HIDE DEF v
  <2>3. Placed(q, s, a.scope_counter, v, n + 1)
    BY <1>2, <1>4, <1>5, <1>6, <2>1, <2>2, PlacedNew
  <2>4. QED
    BY <1>8, <2>3 DEF v
<1>12. ASSUME NEW v \in 1..Len(m)
       PROVE  Placed(q, s, a.scope_counter, a.variables[v], m[v])
  <2>1. CASE v \in 1..Len(by)
    BY <1>10, <2>1
  <2>2. CASE v \notin 1..Len(by)
    <3>1. PICK k \in 1..Len(Created(i)) : v = Len(by) + k
      <4>1. v - Len(by) \in 1..Len(Created(i)) /\ v = Len(by) + (v - Len(by))
        BY <1>8, <2>2
      <4>2. QED
        BY <4>1
    <3>2. QED
      BY <1>11, <3>1
  <2>3. QED
    BY <2>1, <2>2
<1>13. Nesting(a, m)
  BY <1>1, <1>7, <1>9, <1>12 DEF Nesting
<1>14. QED
  BY <1>13 DEF a, m

-----------------------------------------------------------------------------
(* The variables in scope are those of the blocks that are still open.     *)
LEMMA UsableIsInScope ==
  ASSUME builder \in Builder, ScopesOK(builder), definedBy \in Seq(Nat),
         Nesting(builder, definedBy), NEW v
  PROVE  Abstract!Usable(v) <=> InScope(builder, v)
<1> DEFINE p == builder.instructions
           scopes == builder.active_scopes
           id == builder.variables[v].scope_id
           j == definedBy[v]
<1>1. Abstract!Usable(v) <=> /\ v \in 1..Len(definedBy)
                             /\ p[j].op \notin NopOp /\ Abstract!OpenSince(p, j)
  <2> DEFINE defs == [w \in 1..Len(definedBy) |->
                        [type |-> builder.variables[w].var, by |-> definedBy[w]]]
  <2>1. Len(definedBy) \in Nat
    OBVIOUS
  <2>2. Len(defs) = Len(definedBy)
    BY <2>1
  <2>3. v \in 1..Len(definedBy) => defs[v].by = j
    OBVIOUS
  <2>4. Abstract!Usable(v) <=> /\ v \in 1..Len(defs)
                               /\ p[defs[v].by].op \notin NopOp
                               /\ Abstract!OpenSince(p, defs[v].by)
    BY DEF Abstract!Usable
  <2> HIDE DEF defs, p, j
  <2>5. QED
    BY <2>2, <2>3, <2>4
<1>2. Len(definedBy) = Len(builder.variables)
  BY DEF Nesting
<1>3. ASSUME v \in 1..Len(definedBy)
      PROVE  InScope(builder, v) <=> p[j].op \notin NopOp /\ Abstract!OpenSince(p, j)
  <2>1. Placed(p, scopes, builder.scope_counter, builder.variables[v], j)
    BY <1>3 DEF Nesting
  <2>2. /\ id = 0 <=> p[j].op \in NopOp
        /\ id # 0 => (Abstract!OpenSince(p, j) <=> \E k \in 1..Len(scopes) : scopes[k].id = id)
    BY <2>1 DEF Placed
  <2>3. /\ builder.active_scopes_set = { scopes[k].id : k \in 1..Len(scopes) }
        /\ \A k \in 1..Len(scopes) : scopes[k].id # 0
    BY DEF ScopesOK, ScopeStack
  <2>4. InScope(builder, v) <=> id \in builder.active_scopes_set
    BY <1>2, <1>3 DEF InScope
  <2> HIDE DEF p, scopes, id, j
  <2>5. QED
    BY <2>2, <2>3, <2>4
<1>4. InScope(builder, v) => v \in 1..Len(definedBy)
  BY <1>2 DEF InScope
<1>5. QED
  BY <1>1, <1>3, <1>4

(* The open blocks are the scopes above the global one, and the innermost  *)
(* of them is the top of the stack.                                        *)
LEMMA TopIsInnermost ==
  ASSUME NEW b \in Builder, ScopesOK(b), Blocks(b.instructions, b.active_scopes)
  PROVE  /\ Abstract!OpenBegins(b.instructions) = {} <=> Len(b.active_scopes) = 1
         /\ Len(b.active_scopes) > 1 =>
              Abstract!Innermost(b.instructions) = CurrentScope(b).begin
<1> DEFINE p == b.instructions
           scopes == b.active_scopes
           top == scopes[Len(scopes)].begin
           Open == Abstract!OpenBegins(p)
<1>1. Len(scopes) \in Nat \ {0} /\ Len(p) \in Nat
  BY DEF ScopesOK, ScopeStack, Builder
<1>2. Open = { j \in 1..Len(p) : p[j].op \in Begins /\ Abstract!OpenSince(p, j) }
  BY DEF Abstract!OpenBegins
<1>3. ASSUME NEW k \in 2..Len(scopes)
      PROVE  /\ scopes[k].begin \in 1..Len(p) /\ p[scopes[k].begin].op \in Begins
             /\ Abstract!Depth(p, scopes[k].begin) = k - 1
             /\ Abstract!OpenSince(p, scopes[k].begin)
  <2>1. k \in 1..Len(scopes) /\ k > 1
    BY <1>1
  <2>2. QED
    BY <2>1 DEF ScopesOK, ScopeStack, Blocks
<1>4. \A j \in Open : \E k \in 2..Len(scopes) : scopes[k].begin = j
  BY <1>2 DEF Blocks
<1>5. \A k \in 2..Len(scopes) : scopes[k].begin \in Open
  BY <1>2, <1>3
<1>6. Open = {} <=> Len(scopes) = 1
  <2> HIDE DEF Open, scopes
  <2>1. CASE Len(scopes) = 1
    BY <1>4, <2>1
  <2>2. CASE Len(scopes) # 1
    <3>1. 2 \in 2..Len(scopes)
      <4>1. Len(scopes) \in Nat /\ Len(scopes) # 0 /\ Len(scopes) # 1
        BY <1>1, <2>2
      <4>2. Len(scopes) >= 2
        BY <4>1
      <4>3. QED
        BY <4>1, <4>2
    <3>2. QED
      BY <1>5, <2>2, <3>1
  <2>3. QED
    BY <2>1, <2>2
<1>7. ASSUME Len(scopes) > 1
      PROVE  Abstract!Innermost(p) = top
  <2>1. Len(scopes) \in 2..Len(scopes)
    BY <1>1, <1>7
  <2>2. top \in Open /\ Abstract!Depth(p, top) = Len(scopes) - 1 /\ Abstract!OpenSince(p, top)
        /\ top \in 1..Len(p)
    BY <1>3, <1>5, <2>1
  <2>3. ASSUME NEW j \in Open
        PROVE  j <= top
    <3>1. PICK k \in 2..Len(scopes) : scopes[k].begin = j
      BY <1>4
    <3>2. j \in 1..Len(p) /\ Abstract!Depth(p, j) = k - 1
      BY <1>3, <3>1
    <3>3. j > top => Abstract!Depth(p, j) >= Abstract!Depth(p, top)
      BY <2>2, <3>2 DEF Abstract!OpenSince
    <3>4. j > top => k = Len(scopes)
      <4> HIDE DEF scopes, top, p
      <4>1. QED
        BY <1>1, <2>2, <3>2, <3>3
    <3>5. j > top => j = top
      BY <3>1, <3>4
    <3>6. QED
      BY <2>2, <3>2, <3>5
  <2>4. Open \subseteq Nat
    BY <1>2
  <2>5. Abstract!Innermost(p) = CHOOSE j \in Open : \A k \in Open : k <= j
    BY DEF Abstract!Innermost
  <2> HIDE DEF Open, top, p
  <2>6. \A j \in Open : (\A k \in Open : k <= j) => j = top
    BY <2>2, <2>3, <2>4
  <2>7. QED
    BY <2>2, <2>3, <2>5, <2>6
<1>8. QED
  BY <1>6, <1>7 DEF CurrentScope

(* append returns Ok exactly for the instructions that are admissible.     *)
LEMMA AdmissibleIsOk ==
  ASSUME builder \in Builder, ScopesOK(builder), VariablesOK(builder.variables),
         definedBy \in Seq(Nat), Nesting(builder, definedBy), NEW i \in Instr
  PROVE  Abstract!Admissible(i) <=> Outcome(builder, i) = "Ok"
<1> DEFINE p == builder.instructions
           inputs == i.inputs
           in == Signature[i.op].in
           defs == [w \in 1..Len(definedBy) |->
                      [type |-> builder.variables[w].var, by |-> definedBy[w]]]
           Arity == Len(inputs) = Len(in)
           Defined == \A k \in 1..Len(inputs) : InScope(builder, inputs[k])
           Typed == \A k \in 1..Len(inputs) : builder.variables[inputs[k]].var = in[k]
           Bounded == i.arg < ArgLimit[i.op]
           Matched == i.op \in Ends => /\ Len(builder.active_scopes) > 1
                                       /\ p[CurrentScope(builder).begin].op = BeginOf[i.op]
<1>1. i.arg \in Nat /\ ArgLimit[i.op] \in Nat
  BY IRAssumption DEF Instr
<1>2. Outcome(builder, i) # "Panic"
  BY AppendDoesNotPanic
<1>3. Arity /\ Defined /\ Typed /\ i.op \in Ends => Len(builder.active_scopes) > 1
  BY EndIsNested
<1>4. Outcome(builder, i) = "Ok" <=> Arity /\ Defined /\ Typed /\ Bounded /\ Matched
  <2>1. CASE Arity /\ Defined /\ Typed /\ Bounded
    <3>1. ~ Panics(builder, i)
      BY <1>1, <1>2, <2>1 DEF Outcome
    <3>2. Outcome(builder, i) =
            IF i.op \in Ends /\ p[CurrentScope(builder).begin].op # BeginOf[i.op]
            THEN "InvalidBlockEnd" ELSE "Ok"
      BY <1>1, <2>1, <3>1 DEF Outcome
    <3> HIDE DEF Arity, Defined, Typed, Bounded
    <3>3. QED
      BY <1>3, <2>1, <3>2
  <2>2. CASE ~ (Arity /\ Defined /\ Typed /\ Bounded)
    <3>1. CASE ~ Arity
      BY <3>1 DEF Outcome
    <3>2. CASE ~ Defined
      BY <3>2 DEF Outcome
    <3>3. CASE ~ Typed
      BY <3>3 DEF Outcome
    <3>4. CASE ~ Bounded
      BY <1>1, <3>4 DEF Outcome
    <3> HIDE DEF Arity, Defined, Typed, Bounded
    <3>5. QED
      BY <2>2, <3>1, <3>2, <3>3, <3>4
  <2>3. QED
    BY <2>1, <2>2
<1>5. \A k \in 1..Len(inputs) : Abstract!Usable(inputs[k]) <=> InScope(builder, inputs[k])
  BY UsableIsInScope
<1>6. \A v \in 1..Len(definedBy) : defs[v].type = builder.variables[v].var
  OBVIOUS
<1>7. \A v : InScope(builder, v) => v \in 1..Len(definedBy)
  BY DEF InScope, Nesting
<1>8. /\ Abstract!OpenBegins(p) # {} <=> Len(builder.active_scopes) > 1
      /\ Len(builder.active_scopes) > 1 => Abstract!Innermost(p) = CurrentScope(builder).begin
  <2>1. Blocks(p, builder.active_scopes)
    BY DEF Nesting
  <2>2. Len(builder.active_scopes) \in Nat \ {0}
    BY DEF ScopesOK, ScopeStack, Builder
  <2>3. /\ Abstract!OpenBegins(p) = {} <=> Len(builder.active_scopes) = 1
        /\ Len(builder.active_scopes) > 1 =>
             Abstract!Innermost(p) = CurrentScope(builder).begin
    BY <2>1, TopIsInnermost
  <2>4. Len(builder.active_scopes) # 1 <=> Len(builder.active_scopes) > 1
    <3> DEFINE depth == Len(builder.active_scopes)
    <3>1. depth \in Nat /\ depth # 0
      BY <2>2
    <3> HIDE DEF depth
    <3>2. depth # 1 => depth > 1
      BY <3>1
    <3>3. depth > 1 => depth # 1
      BY <3>1
    <3>4. QED
      BY <3>2, <3>3 DEF depth
  <2> HIDE DEF p
  <2>5. QED
    BY <2>3, <2>4
<1>9. Abstract!Admissible(i) <=>
        /\ Arity
        /\ \A k \in 1..Len(inputs) : Abstract!Usable(inputs[k]) /\ defs[inputs[k]].type = in[k]
        /\ Bounded
        /\ i.op \in Ends => /\ Abstract!OpenBegins(p) # {}
                            /\ p[Abstract!Innermost(p)].op = BeginOf[i.op]
  BY DEF Abstract!Admissible
<1>10. (\A k \in 1..Len(inputs) : Abstract!Usable(inputs[k]) /\ defs[inputs[k]].type = in[k])
         <=> Defined /\ Typed
  <2> HIDE DEF defs, inputs, in
  <2>1. QED
    BY <1>5, <1>6, <1>7
<1>11. (i.op \in Ends => /\ Abstract!OpenBegins(p) # {}
                         /\ p[Abstract!Innermost(p)].op = BeginOf[i.op]) <=> Matched
  <2> HIDE DEF p
  <2>1. QED
    BY <1>8
<1> HIDE DEF Arity, Defined, Typed, Bounded, Matched
<1>12. QED
  BY <1>4, <1>9, <1>10, <1>11

-----------------------------------------------------------------------------
(* The variables as WellScoped sees them.                                  *)
Defs(b, by) == [v \in 1..Len(by) |-> [type |-> b.variables[v].var, by |-> by[v]]]

(* An append adds its variables, of its types, to those WellScoped sees.   *)
LEMMA DefsStep ==
  ASSUME NEW b \in Builder, ScopesOK(b), NEW i \in Instr,
         i.op \in Ends => Len(b.active_scopes) > 1,
         NEW by \in Seq(Nat), Nesting(b, by)
  PROVE  Defs(Appended(b, i), More(b, by, i)) =
           Defs(b, by) \o [k \in 1..Len(Created(i)) |->
                             [type |-> Created(i)[k], by |-> Len(b.instructions) + 1]]
<1> DEFINE a == Appended(b, i)
           m == More(b, by, i)
           types == Created(i)
           n == Len(b.instructions) + 1
           old == Defs(b, by)
           new == [k \in 1..Len(types) |-> [type |-> types[k], by |-> n]]
           all == Defs(a, m)
           Def == [type : VarType, by : Nat]
<1>1. /\ types \in Seq(VarType) /\ Len(types) \in Nat /\ Len(by) \in Nat /\ n \in Nat
      /\ m \in Seq(Nat) /\ Len(m) = Len(by) + Len(types)
      /\ \A v \in 1..Len(by) : m[v] = by[v]
      /\ \A k \in 1..Len(types) : m[Len(by) + k] = n
  <2>1. n \in Nat
    BY DEF Builder
  <2>2. QED
    BY <2>1, MoreFields
<1>2. /\ Len(by) = Len(b.variables)
      /\ \A v \in 1..Len(by) : a.variables[v] = b.variables[v]
      /\ \A k \in 1..Len(types) : a.variables[Len(by) + k].var = types[k]
  <2>1. Len(by) = Len(b.variables)
    BY DEF Nesting
  <2> DEFINE id == IF i.op \in NopOp THEN 0 ELSE CurrentScope(a).id
  <2>2. HasMore(a, b, types, id)
    BY AppendedFields
  <2> HIDE DEF a, types, id
  <2>3. /\ \A v \in 1..Len(by) : a.variables[v] = b.variables[v]
        /\ \A k \in 1..Len(types) :
             a.variables[Len(by) + k] = [var |-> types[k], scope_id |-> id]
    BY <2>1, <2>2 DEF HasMore
  <2>4. ASSUME NEW k \in 1..Len(types)
        PROVE  a.variables[Len(by) + k].var = types[k]
    <3>1. a.variables[Len(by) + k] = [var |-> types[k], scope_id |-> id]
      BY <2>3
    <3>2. QED
      BY <3>1
  <2>5. QED
    BY <2>1, <2>3, <2>4
<1>3. \A v \in 1..Len(by) : b.variables[v].var \in VarType
  <2> DEFINE variables == b.variables
  <2>1. variables \in Seq(ScopedVariable) /\ Len(by) = Len(variables)
    BY <1>2 DEF Builder
  <2> HIDE DEF variables
  <2>2. \A v \in 1..Len(by) : variables[v] \in ScopedVariable
    BY <2>1
  <2>3. QED
    BY <2>2 DEF ScopedVariable, variables
<1> HIDE DEF a, m, types, n
<1>4. /\ old \in Seq(Def) /\ Len(old) = Len(by)
      /\ \A v \in 1..Len(by) : old[v] = [type |-> b.variables[v].var, by |-> by[v]]
  BY <1>1, <1>3 DEF Defs
<1>5. /\ new \in Seq(Def) /\ Len(new) = Len(types)
      /\ \A k \in 1..Len(types) : new[k] = [type |-> types[k], by |-> n]
  BY <1>1
<1>6. all = [v \in 1..Len(m) |-> [type |-> a.variables[v].var, by |-> m[v]]]
  BY DEF Defs
<1> HIDE DEF old, new, all, Def
<1>7. /\ Len(old \o new) = Len(m)
      /\ DOMAIN (old \o new) = 1..Len(m)
      /\ \A v \in 1..Len(m) : (old \o new)[v] = IF v <= Len(by) THEN old[v] ELSE new[v - Len(by)]
      /\ old \o new \in Seq(Def)
  <2>1. /\ old \o new \in Seq(Def) /\ Len(old \o new) = Len(old) + Len(new)
        /\ \A v \in 1..(Len(old) + Len(new)) :
              (old \o new)[v] = IF v <= Len(old) THEN old[v] ELSE new[v - Len(old)]
    <3>1. old \in Seq(Def) /\ new \in Seq(Def)
      BY <1>4, <1>5
    <3>2. QED
      BY <3>1, ConcatProperties
  <2>2. DOMAIN (old \o new) = 1..Len(old \o new)
    BY <2>1, LenProperties
  <2>3. Len(old) + Len(new) = Len(m)
    BY <1>1, <1>4, <1>5
  <2>4. QED
    BY <1>4, <2>1, <2>2, <2>3
<1>8. ASSUME NEW v \in 1..Len(m)
      PROVE  (old \o new)[v] = [type |-> a.variables[v].var, by |-> m[v]]
  <2>1. CASE v <= Len(by)
    <3>1. v \in 1..Len(by)
      BY <1>1, <2>1
    <3>2. QED
      BY <1>1, <1>2, <1>4, <1>7, <2>1, <3>1
  <2>2. CASE ~ (v <= Len(by))
    <3> DEFINE k == v - Len(by)
    <3>1. k \in 1..Len(types) /\ v = Len(by) + k
      BY <1>1, <2>2
    <3>2. (old \o new)[v] = new[k]
      BY <1>7, <2>2
    <3> HIDE DEF k
    <3>3. new[k] = [type |-> types[k], by |-> n]
      BY <1>5, <3>1
    <3>4. a.variables[v].var = types[k] /\ m[v] = n
      BY <1>1, <1>2, <3>1
    <3>5. QED
      BY <3>2, <3>3, <3>4
  <2>3. QED
    BY <2>1, <2>2
<1>9. old \o new = [v \in 1..Len(m) |-> (old \o new)[v]]
  BY <1>7, LenProperties
<1>10. all = old \o new
  BY <1>6, <1>8, <1>9
<1>11. QED
  BY <1>10 DEF all, old, new, a, m, types, n

(* A refused append takes no instruction and no variable away.             *)
LEMMA RefusedKeeps ==
  ASSUME NEW b \in Builder, ScopesOK(b), NEW i \in Instr
  PROVE  /\ Refused(b, i).instructions = b.instructions
         /\ Refused(b, i).variables = b.variables
<1>1. b.active_scopes # <<>>
  BY DEF ScopesOK, ScopeStack
<1>2. /\ NoteContext(b) \in Builder /\ NoteContext(b).variables = b.variables
      /\ NoteContext(b).instructions = b.instructions
  BY <1>1, NoteContextType
<1>3. /\ ExitScope(NoteContext(b)).instructions = NoteContext(b).instructions
      /\ ExitScope(NoteContext(b)).variables = NoteContext(b).variables
  BY <1>2 DEF ExitScope, Builder
<1>4. QED
  BY <1>2, <1>3 DEF Refused

(* A new builder is an empty program.                                      *)
LEMMA NestingNew == Nesting(NewBuilder, <<>>)
<1>1. /\ NewBuilder \in Builder /\ NewBuilder.variables = <<>> /\ NewBuilder.instructions = <<>>
      /\ Len(NewBuilder.active_scopes) = 1
  <2>1. NewBuilder.active_scopes = Append(<<>>, [begin |-> 0, id |-> 1, context |-> Global])
        /\ NewBuilder.variables = <<>> /\ NewBuilder.instructions = <<>>
    BY DEF NewBuilder, EnterScope
  <2> DEFINE g == [begin |-> 0, id |-> 1, context |-> Global]
  <2>2. g \in Scope
    BY IRAssumption DEF Scope
  <2> HIDE DEF g
  <2>3. Len(Append(<<>>, g)) = 1
    BY <2>2
  <2>4. QED
    BY <2>1, <2>3, NewBuilderOK DEF g
<1>2. Abstract!Depth(<<>>, 0) = 0
  <2>1. Upto(Begins, <<>>, 0) = {} /\ Upto(Ends, <<>>, 0) = {}
    BY DEF Upto
  <2>2. Count(Begins, <<>>, 0) = 0 /\ Count(Ends, <<>>, 0) = 0
    BY <2>1, FS_EmptySet DEF Count
  <2>3. QED
    BY <2>2, DepthIsCount
<1>3. Len(<<>>) = 0
  OBVIOUS
<1>4. Blocks(<<>>, NewBuilder.active_scopes)
  BY <1>1, <1>2, <1>3 DEF Blocks
<1>5. QED
  BY <1>1, <1>3, <1>4 DEF Nesting

-----------------------------------------------------------------------------
(* A new builder is the initial state of WellScoped.                       *)
LEMMA InitRefines == Init => RInv /\ Abstract!Init
<1> SUFFICES ASSUME Init
             PROVE  RInv /\ Abstract!Init
  OBVIOUS
<1>1. RInv
  BY NestingNew DEF Init, RInv
<1>2. builder.instructions = <<>>
  BY DEF Init, NewBuilder, EnterScope
<1>3. definedBy = <<>> /\ result = "open"
  BY DEF Init
<1>4. Abstract!Init
  BY <1>2, <1>3 DEF Abstract!Init
<1>5. QED
  BY <1>1, <1>4

(* A candidate is one of the instructions that WellScoped tries.           *)
LEMMA CandidateParts ==
  ASSUME NEW i \in Candidates
  PROVE  /\ i.op \in Op /\ i.inputs \in InputVectors[i.op] /\ i.arg \in Arguments[i.op]
         /\ i = [op |-> i.op, inputs |-> i.inputs, arg |-> i.arg]
BY DEF Candidates

(* Extending or rejecting by a candidate is a step of WellScoped.          *)
LEMMA StepOfWellScoped ==
  ASSUME NEW i \in Candidates, Abstract!Extend(i) \/ Abstract!Reject(i)
  PROVE  Abstract!Next
<1> DEFINE j == [op |-> i.op, inputs |-> i.inputs, arg |-> i.arg]
<1>1. i = j /\ i.op \in Op /\ i.inputs \in InputVectors[i.op] /\ i.arg \in Arguments[i.op]
  BY CandidateParts
<1>2. Abstract!Extend(j) \/ Abstract!Reject(j)
  <2> HIDE DEF j
  <2>1. QED
    BY <1>1
<1>3. QED
  BY <1>1, <1>2 DEF Abstract!Next

(* An append that returned Ok extends the program.                         *)
LEMMA AppendOkRefines ==
  ASSUME IInv, RInv, NEW i \in Candidates, AppendOk(i)
  PROVE  RInv' /\ Abstract!Extend(i)
<1>1. /\ builder \in Builder /\ ScopesOK(builder) /\ VariablesOK(builder.variables)
      /\ definedBy \in Seq(Nat) /\ Nesting(builder, definedBy) /\ i \in Instr
      /\ Outcome(builder, i) = "Ok" /\ result = "open" /\ result' = "open"
      /\ builder' = Appended(builder, i)
      /\ Len(builder.instructions) < MaxInstructions
  BY CandidateType DEF AppendOk, IInv, TypeOK, RInv
<1>2. definedBy' = More(builder, definedBy, i)
  BY DEF AppendOk, More, Created
<1>3. i.op \in Ends => Len(builder.active_scopes) > 1
  <2>1. /\ Len(i.inputs) = Len(Signature[i.op].in)
        /\ \A k \in 1..Len(i.inputs) : InScope(builder, i.inputs[k])
        /\ \A k \in 1..Len(i.inputs) : builder.variables[i.inputs[k]].var = Signature[i.op].in[k]
    BY <1>1 DEF Outcome
  <2>2. QED
    BY <1>1, <2>1, EndIsNested
<1>4. Appended(builder, i) \in Builder /\ ScopesOK(Appended(builder, i))
  BY <1>1, AppendedOK
<1>5. Nesting(builder', definedBy')
  BY <1>1, <1>2, <1>3, <1>4, NestingStep
<1>6. RInv'
  BY <1>5 DEF RInv
<1>7. Defs(builder', definedBy') =
        Defs(builder, definedBy) \o
          [k \in 1..Len(Created(i)) |->
             [type |-> Created(i)[k], by |-> Len(builder.instructions) + 1]]
  BY <1>1, <1>2, <1>3, DefsStep
<1>8. builder'.instructions = Append(builder.instructions, i)
  BY <1>1, <1>3, AppendedFields
<1>9. Abstract!Admissible(i)
  BY <1>1, AdmissibleIsOk
<1>10. Abstract!Extend(i)
  BY <1>1, <1>7, <1>8, <1>9 DEF Abstract!Extend, Defs, Created
<1>11. QED
  BY <1>6, <1>10

(* An append that failed rejects the program.                              *)
LEMMA AppendFailsRefines ==
  ASSUME IInv, RInv, NEW i \in Candidates, AppendFails(i)
  PROVE  RInv' /\ Abstract!Reject(i)
<1>1. /\ builder \in Builder /\ ScopesOK(builder) /\ VariablesOK(builder.variables)
      /\ definedBy \in Seq(Nat) /\ Nesting(builder, definedBy) /\ i \in Instr
      /\ Outcome(builder, i) # "Ok" /\ result = "open" /\ result' = Outcome(builder, i)
      /\ builder' = Refused(builder, i) /\ definedBy' = definedBy
  BY CandidateType DEF AppendFails, IInv, TypeOK, RInv
<1>2. result' \in Refusals
  <2>1. Outcome(builder, i) # "Panic"
    BY <1>1, AppendDoesNotPanic
  <2>2. QED
    BY <1>1, <2>1 DEF Outcome, Refusals
<1>3. result' \notin {"open", "Ok", "ScopeStillOpen"}
  BY <1>2 DEF Refusals
<1>4. ~ Abstract!Admissible(i)
  BY <1>1, AdmissibleIsOk
<1>5. builder'.instructions = builder.instructions /\ builder'.variables = builder.variables
  BY <1>1, RefusedKeeps
<1>6. Abstract!Reject(i)
  BY <1>1, <1>2, <1>3, <1>4, <1>5 DEF Abstract!Reject
<1>7. QED
  BY <1>3, <1>6 DEF RInv

(* Finalizing closes it: the global scope is alone on the stack exactly    *)
(* when no block is open.                                                  *)
LEMMA FinalizeRefines ==
  ASSUME IInv, RInv, Finalize
  PROVE  RInv' /\ Abstract!Close
<1>1. /\ builder \in Builder /\ ScopesOK(builder) /\ Nesting(builder, definedBy)
      /\ result = "open" /\ result' = FinalizeOutcome(builder)
      /\ builder' = builder /\ definedBy' = definedBy
  BY DEF Finalize, IInv, TypeOK, RInv
<1>2. result' = IF Len(builder.active_scopes) # 1 THEN "ScopeStillOpen" ELSE "Ok"
  <2>1. FinalizeOutcome(builder) # "Panic"
    BY <1>1, FinalizeDoesNotPanic
  <2>2. QED
    BY <1>1, <2>1 DEF FinalizeOutcome
<1>3. Abstract!OpenBegins(builder.instructions) = {} <=> Len(builder.active_scopes) = 1
  BY <1>1, TopIsInnermost DEF Nesting
<1>4. Abstract!Close
  BY <1>1, <1>2, <1>3 DEF Abstract!Close
<1>5. QED
  BY <1>2, <1>4 DEF RInv

(* Every step of the builder is a step of WellScoped, or leaves it alone.  *)
LEMMA NextRefines ==
  IInv /\ RInv /\ [Next]_vars => RInv' /\ [Abstract!Next]_(Abstract!vars)
<1> SUFFICES ASSUME IInv, RInv, [Next]_vars
             PROVE  RInv' /\ [Abstract!Next]_(Abstract!vars)
  OBVIOUS
<1>1. ASSUME NEW i \in Candidates, AppendOk(i)
      PROVE  RInv' /\ Abstract!Next
  BY <1>1, AppendOkRefines, StepOfWellScoped
<1>2. ASSUME NEW i \in Candidates, AppendFails(i)
      PROVE  RInv' /\ Abstract!Next
  BY <1>2, AppendFailsRefines, StepOfWellScoped
<1>3. CASE Finalize
  BY <1>3, FinalizeRefines DEF Abstract!Next
<1>4. CASE UNCHANGED vars
  <2>1. builder' = builder /\ definedBy' = definedBy /\ result' = result
    BY <1>4 DEF vars
  <2>2. RInv'
    BY <2>1 DEF RInv
  <2>3. UNCHANGED Abstract!vars
    BY <2>1 DEF Abstract!vars
  <2>4. QED
    BY <2>2, <2>3
<1>5. QED
  BY <1>1, <1>2, <1>3, <1>4 DEF Next

(* The builder implements WellScoped: whatever is appended, and however    *)
(* long the program, append accepts exactly the instructions that keep the *)
(* program well-scoped and well-typed, and finalize exactly the programs   *)
(* whose blocks are all closed (builder.rs:236-345, 425-445).              *)
THEOREM BuilderImplementsWellScoped == Spec => ImplementsWellScoped
<1>1. Init => RInv /\ Abstract!Init
  BY InitRefines
<1>2. IInv /\ RInv /\ [Next]_vars => RInv' /\ [Abstract!Next]_(Abstract!vars)
  BY NextRefines
<1>3. Spec => []IInv
  BY Invariance
<1>4. QED
  BY <1>1, <1>2, <1>3, PTL DEF Spec, ImplementsWellScoped, Abstract!Spec
=============================================================================

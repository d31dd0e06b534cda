---------------------------- MODULE MutationProofs ----------------------------
(***************************************************************************)
(* However mutators and generators are stacked on the programs of a        *)
(* corpus, the program stays valid, what was spliced or generated takes    *)
(* its data from where it took it before, and metadata is only used on the *)
(* program it describes: for every corpus and every operation table.       *)
(***************************************************************************)
EXTENDS Mutation, ProgramLemmas

(* One instruction instead of another: the operation is the same, or both  *)
(* declare the same and neither begins or ends a block or is a Nop.        *)
Replaceable(op, instead) ==
  \/ instead = op
  \/ /\ instead \in Op /\ Signature[instead] = Signature[op]
     /\ {op, instead} \cap (Begins \cup Ends \cup NopOp) = {}

Unmoved == [n \in Nat |-> n]

(* An instruction is its own counterpart, and a builder goes in step with  *)
(* itself.                                                                 *)
LEMMA NewInStep ==
  /\ InStep(NewBuilder, NewBuilder, 0, Unmoved, Unmoved)
  /\ \A i \in Instr : Counterpart(i, i, Unmoved)
  /\ \A m \in Nat : MovedFrom(Unmoved, m, m)
<1>1. \A m \in Nat : MovedFrom(Unmoved, m, m)
  <2>1. \A m \in Nat : \A k \in Nat : m + k \in Nat
    OBVIOUS
  <2>2. QED
    BY <2>1 DEF MovedFrom, Unmoved
<1>2. ASSUME NEW i \in Instr
      PROVE  Counterpart(i, i, Unmoved)
  <2>1. \A k \in 1..Len(i.inputs) : i.inputs[k] \in Nat
    BY DEF Instr
  <2>2. QED
    BY <2>1 DEF Counterpart, Unmoved
<1>3. NewBuilder \in Sound
  BY NewBuilderOK DEF Sound
<1>4. /\ NewBuilder.active_scopes = Append(<<>>, [begin |-> 0, id |-> 1, context |-> Global])
      /\ NewBuilder.variables = <<>> /\ NewBuilder.scope_counter = 1
  BY DEF NewBuilder, EnterScope
<1>5. Len(<<>>) = 0
  OBVIOUS
<1>6. SameVariables(NewBuilder, NewBuilder, Unmoved, Unmoved)
  BY <1>4, <1>5 DEF SameVariables
<1>7. SameStack(NewBuilder, NewBuilder, 0, Unmoved)
  <2>1. /\ Len(NewBuilder.active_scopes) \in Nat
        /\ \A k \in 1..Len(NewBuilder.active_scopes) : NewBuilder.active_scopes[k].id \in Nat
    <3>1. NewBuilder.active_scopes \in Seq(Scope)
      BY <1>3 DEF Sound, Builder
    <3>2. \A k \in 1..Len(NewBuilder.active_scopes) : NewBuilder.active_scopes[k] \in Scope
      BY <3>1
    <3>3. QED
      BY <3>1, <3>2 DEF Scope
  <2>2. QED
    BY <2>1 DEF SameStack, Unmoved
<1>8. QED
  BY <1>1, <1>2, <1>3, <1>4, <1>5, <1>6, <1>7 DEF InStep, Mirrors

(* A builder that accepted the one, and one that accepted the other.       *)
LEMMA ReplacedInStep ==
  ASSUME NEW b \in Sound, InStep(b, b, 0, Unmoved, Unmoved),
         NEW i \in Instr, NEW j \in Instr, Replaceable(i.op, j.op),
         Outcome(b, i) = "Ok", Outcome(b, j) = "Ok"
  PROVE  InStep(Appended(b, i), Appended(b, j), 0, Unmoved, Unmoved)
<1> DEFINE same == Unmoved
           a == Appended(b, i)
           e == Appended(b, j)
           n == Len(b.variables)
<1>1. /\ a \in Sound /\ e \in Sound /\ NextFields(b, i, a) /\ NextFields(b, j, e)
      /\ i.op \in Ends => Len(b.active_scopes) > 1
  BY AcceptedIsSound, AcceptedFields
<1>2. /\ b \in Builder /\ ScopesOK(b) /\ n \in Nat /\ b.scope_counter \in Nat
      /\ b.instructions \in Seq(Instr) /\ b.active_scopes \in Seq(Scope)
      /\ a \in Builder /\ ScopesOK(a) /\ a.active_scopes \in Seq(Scope)
      /\ Len(b.active_scopes) \in Nat /\ Len(a.active_scopes) \in Nat /\ Len(b.instructions) \in Nat
  BY <1>1 DEF Sound, Builder
<1>3. Created(j) = Created(i) /\ (j.op \in Begins <=> i.op \in Begins)
      /\ (j.op \in Ends <=> i.op \in Ends) /\ (j.op \in NopOp <=> i.op \in NopOp)
  BY DEF Replaceable, Created
<1>4. (i.op \in Begins \/ i.op \in Ends) => j.op = i.op
  BY DEF Replaceable
<1>0. InStep(a, a, 0, same, same)
  BY NewInStep, InStepStep
<1> HIDE DEF a, e, n
<1>5. /\ a.active_scopes = Entered(Left(b.active_scopes, i), b.scope_counter, Len(b.instructions) + 1, i)
      /\ e.active_scopes = a.active_scopes /\ e.scope_counter = a.scope_counter
      /\ a.instructions = Append(b.instructions, i) /\ e.instructions = Append(b.instructions, j)
  <2>1. Left(b.active_scopes, j) = Left(b.active_scopes, i)
    BY <1>3 DEF Left
  <2>2. \A s, c, m : Entered(s, c, m, j) = Entered(s, c, m, i)
    BY <1>3, <1>4 DEF Entered
  <2>3. QED
    BY <1>1, <1>3, <2>1, <2>2 DEF NextFields
<1>6. \A m \in 1..Len(b.instructions) : e.instructions[m] = b.instructions[m]
                                       /\ a.instructions[m] = b.instructions[m]
  BY <1>2, <1>5
<1>7. /\ a.instructions[Len(b.instructions) + 1] = i /\ e.instructions[Len(b.instructions) + 1] = j
      /\ Len(a.instructions) = Len(b.instructions) + 1
  BY <1>2, <1>5
<1>8. ASSUME NEW k \in 1..Len(a.active_scopes), k > 1
      PROVE  e.instructions[e.active_scopes[k].begin].op = a.instructions[a.active_scopes[k].begin].op
  <2> DEFINE m == a.active_scopes[k].begin
  <2>1. m \in 1..Len(a.instructions) /\ a.instructions[m].op \in Begins
    BY <1>2, <1>8 DEF ScopesOK, ScopeStack
  <2>2. m \in 1..Len(b.instructions) \/ m = Len(b.instructions) + 1
    BY <1>2, <1>7, <2>1
  <2> HIDE DEF m
  <2>3. CASE m \in 1..Len(b.instructions)
    BY <1>5, <1>6, <2>3 DEF m
  <2>4. CASE m = Len(b.instructions) + 1
    <3>1. a.instructions[m] = i /\ e.instructions[m] = j
      BY <1>7, <2>4
    <3>2. j.op = i.op
      BY <1>4, <2>1, <3>1
    <3>3. QED
      BY <1>5, <3>1, <3>2 DEF m
  <2>5. QED
    BY <2>2, <2>3, <2>4
<1>9. SameStack(a, e, 0, same)
  <2>1. \A k \in 1..Len(a.active_scopes) : k + 0 = k /\ a.active_scopes[k].id \in Nat
    <3>1. \A k \in 1..Len(a.active_scopes) : k + 0 = k /\ a.active_scopes[k] \in Scope
      BY <1>2
    <3>2. QED
      BY <3>1 DEF Scope
  <2>2. Len(e.active_scopes) = Len(a.active_scopes) + 0
    BY <1>2, <1>5
  <2>3. \A k \in 1..Len(a.active_scopes) : same[a.active_scopes[k].id] = a.active_scopes[k].id
    BY <2>1 DEF Unmoved
  <2> HIDE DEF same
  <2>4. QED
    BY <1>5, <1>8, <2>1, <2>2, <2>3 DEF SameStack
<1> DEFINE id == IF i.op \in NopOp THEN 0 ELSE CurrentScope(a).id
           more == Created(i)
<1>10. HasMore(a, b, more, id) /\ HasMore(e, b, more, id)
  BY <1>1, <1>3, <1>5 DEF NextFields, CurrentScope
<1>11. /\ Len(more) \in Nat /\ Len(a.variables) = n + Len(more) /\ Len(e.variables) = n + Len(more)
       /\ \A v \in 1..n : a.variables[v] = b.variables[v] /\ e.variables[v] = b.variables[v]
       /\ \A k \in 1..Len(more) : a.variables[n + k] = e.variables[n + k]
  <2>1. Len(more) \in Nat
    BY CreatedType
  <2> HIDE DEF more, id
  <2>2. QED
    BY <1>10, <2>1 DEF HasMore, n
<1> HIDE DEF more, id
<1>12. \A v \in 1..Len(a.variables) : e.variables[v] = a.variables[v]
  <2> SUFFICES ASSUME NEW v \in 1..Len(a.variables)
               PROVE  e.variables[v] = a.variables[v]
    OBVIOUS
  <2>1. v \in 1..n \/ (v - n \in 1..Len(more) /\ n + (v - n) = v)
    BY <1>2, <1>11
  <2>2. QED
    BY <1>11, <2>1
<1>13. SameVariables(a, e, same, same)
  <2> SUFFICES ASSUME NEW v \in 1..Len(a.variables)
               PROVE  /\ a.variables[v].scope_id \in 0..a.scope_counter
                      /\ a.variables[v].scope_id # 0 =>
                           /\ same[v] \in 1..Len(e.variables)
                           /\ e.variables[same[v]].var = a.variables[v].var
                           /\ e.variables[same[v]].scope_id = same[a.variables[v].scope_id]
    BY DEF SameVariables
  <2>1. Len(e.variables) = Len(a.variables)
    BY <1>11
  <2>2. /\ a.variables[v].scope_id \in 0..a.scope_counter
        /\ a.variables[v].scope_id # 0 =>
             /\ same[v] \in 1..Len(a.variables)
             /\ a.variables[same[v]].var = a.variables[v].var
             /\ a.variables[same[v]].scope_id = same[a.variables[v].scope_id]
    BY <1>0 DEF InStep, Mirrors, SameVariables
  <2>3. same[v] = v
    BY DEF Unmoved
  <2> HIDE DEF same
  <2>4. QED
    BY <1>12, <2>1, <2>2, <2>3
<1>14. MovedFrom(same, Len(a.variables), Len(e.variables))
       /\ MovedFrom(same, a.scope_counter, e.scope_counter)
  <2>1. \A m \in Nat : MovedFrom(same, m, m)
    BY NewInStep
  <2>2. Len(a.variables) \in Nat /\ Len(e.variables) = Len(a.variables) /\ a.scope_counter \in Nat
    BY <1>2, <1>11 DEF Builder
  <2> HIDE DEF same
  <2>3. QED
    BY <1>5, <2>1, <2>2
<1> HIDE DEF same
<1>15. InStep(a, e, 0, same, same)
  BY <1>1, <1>9, <1>13, <1>14 DEF InStep, Mirrors
<1>16. QED
  BY <1>15 DEF a, e, same

(* A valid program with one instruction replaced by another that is        *)
(* accepted in its place is valid.                                         *)
LEMMA ReplacingOne ==
  ASSUME NEW p \in Seq(Instr), IsStaticallyValid(p), NEW f, AcceptedRun(NewBuilder, p, f),
         NEW k \in 1..Len(p), NEW j \in Instr, Replaceable(p[k].op, j.op),
         Outcome(f[k - 1].builder, j) = "Ok"
  PROVE  /\ [p EXCEPT ![k] = j] \in Seq(Instr) /\ Len([p EXCEPT ![k] = j]) = Len(p)
         /\ IsStaticallyValid([p EXCEPT ![k] = j])
<1> DEFINE N == Len(p)
           q == [p EXCEPT ![k] = j]
<1>1. N \in Nat /\ NewBuilder \in Sound
  BY NewReplays DEF Replays
<1>2. q \in Seq(Instr) /\ Len(q) = N /\ q[k] = j /\ \A n \in 1..N : n # k => q[n] = p[n]
  OBVIOUS
<1> HIDE DEF q, N
<1>3. PICK g : Runs(NewBuilder, q, g) /\ AppendAll(NewBuilder, q) = g[N]
  BY <1>1, <1>2, AppendAllRuns
<1>4. /\ \A n \in 0..N : f[n].result = "Ok" /\ f[n].builder \in Sound
      /\ \A n \in 1..N : /\ Outcome(f[n - 1].builder, p[n]) = "Ok"
                         /\ f[n].builder = Appended(f[n - 1].builder, p[n])
      /\ AppendAll(NewBuilder, p) = f[N]
  BY <1>1, AllAccepted, TheRun DEF AcceptedRun, N
<1> DEFINE P == { n \in Nat : /\ g[n].result = "Ok"
                              /\ InStep(f[n].builder, g[n].builder, 0, Unmoved, Unmoved)
                              /\ n < k => g[n].builder = f[n].builder }
<1>5. 0 \in P
  <2>1. g[0] = [result |-> "Ok", builder |-> NewBuilder] /\ f[0] = g[0]
    BY <1>3 DEF AcceptedRun, Runs
  <2>2. QED
    BY <2>1, NewInStep
<1>6. ASSUME NEW n \in 1..N, n - 1 \in P
      PROVE  n \in P
  <2> DEFINE b == f[n - 1].builder
             c == g[n - 1].builder
             i == p[n]
             e == q[n]
  <2>1. n \in Nat /\ n - 1 \in 0..N /\ i \in Instr /\ e \in Instr
    BY <1>1, <1>2 DEF N
  <2>2. /\ g[n - 1].result = "Ok" /\ InStep(b, c, 0, Unmoved, Unmoved)
        /\ n - 1 < k => c = b
    BY <1>6
  <2>3. Outcome(b, i) = "Ok" /\ f[n].builder = Appended(b, i) /\ b \in Sound
    BY <1>4, <2>1
  <2>4. g[n] = AfterStep(g[n - 1], e)
    BY <1>2, <1>3 DEF Runs
  <2>5. Outcome(c, e) = "Ok" =>
          g[n].result = "Ok" /\ g[n].builder = Appended(c, e)
    BY <2>2, <2>4 DEF AfterStep, AppendReturning
  <2>6. n = k => e = j /\ i = p[k] /\ b = f[k - 1].builder
    BY <1>2
  <2>7. n # k => e = i
    BY <1>2
  <2>8. k \in Nat /\ (n <= k => n - 1 < k)
    BY <2>1
  <2> HIDE DEF b, c, i, e
  <2>9. CASE n = k
    <3>1. c = b
      BY <2>2, <2>8, <2>9
    <3>2. Outcome(b, e) = "Ok" /\ Replaceable(i.op, e.op)
      BY <2>6, <2>9
    <3>3. InStep(Appended(b, i), Appended(b, e), 0, Unmoved, Unmoved)
      BY <2>1, <2>2, <2>3, <3>1, <3>2, ReplacedInStep
    <3>4. QED
      BY <2>1, <2>3, <2>5, <2>9, <3>1, <3>2, <3>3
  <2>10. CASE n # k
    <3>1. Counterpart(i, i, Unmoved) /\ e = i
      BY <2>1, <2>7, <2>10, NewInStep
    <3>2. Outcome(c, i) = "Ok" /\ InStep(Appended(b, i), Appended(c, i), 0, Unmoved, Unmoved)
      BY <2>1, <2>2, <2>3, <3>1, InStepStep
    <3>3. n < k => Appended(c, i) = Appended(b, i)
      BY <2>2, <2>8, <2>1
    <3>4. QED
      BY <2>1, <2>3, <2>5, <3>1, <3>2, <3>3
  <2>11. QED
    BY <2>9, <2>10
<1>7. \A n \in 0..N : n \in P
  <2> HIDE DEF P
  <2>1. QED
    BY <1>1, <1>5, <1>6, InductionUpTo
<1>8. g[N].result = "Ok" /\ InStep(f[N].builder, g[N].builder, 0, Unmoved, Unmoved)
  <2>1. N \in 0..N
    BY <1>1
  <2>2. QED
    BY <1>7, <2>1
<1>9. FinalizeOutcome(f[N].builder) = "Ok"
  BY <1>4 DEF IsStaticallyValid, IsComplete
<1>10. FinalizeOutcome(g[N].builder) = "Ok"
  BY <1>8, <1>9, MirrorsComplete DEF InStep
<1>11. IsStaticallyValid(q)
  BY <1>3, <1>8, <1>10 DEF IsStaticallyValid, IsComplete
<1>12. QED
  BY <1>2, <1>11 DEF q, N

-----------------------------------------------------------------------------
(* The InputMutator finds the variable it replaces, and what it puts in    *)
(* its place is accepted there.                                            *)
LEMMA ReplacingInput ==
  ASSUME NEW p \in Seq(Instr), IsStaticallyValid(p), NEW k \in Indices(p),
         NEW s \in Indices(p[k].inputs)
  PROVE  /\ p[k].inputs[s] \in DOMAIN Visible(Lookup(SubSeq(p, 1, k - 1)))
         /\ \A v \in InputReplacements(p, k, s) :
              LET q == [p EXCEPT ![k].inputs[s] = v]
              IN  q \in Seq(Instr) /\ Len(q) = Len(p) /\ IsStaticallyValid(q)
<1> DEFINE i == p[k]
           old == i.inputs[s]
<1>1. PICK f : AcceptedRun(NewBuilder, p, f)
  BY ValidRun
<1> DEFINE b == f[k - 1].builder
<1>2. k \in 1..Len(p) /\ k - 1 \in 0..Len(p) /\ i \in Instr /\ s \in 1..Len(i.inputs)
  BY DEF Indices
<1>3. b \in Sound /\ Outcome(b, i) = "Ok"
  <2>1. NewBuilder \in Sound
    BY NewReplays DEF Replays
  <2>2. QED
    BY <1>1, <1>2, <2>1, AllAccepted DEF AcceptedRun
<1>4. Visible(Lookup(SubSeq(p, 1, k - 1))) = Visible(b)
  BY <1>1, <1>2, LookupOfPrefix
<1>5. /\ DOMAIN Visible(b) = { v \in 1..Len(b.variables) : InScope(b, v) }
      /\ \A v \in DOMAIN Visible(b) : Visible(b)[v] = b.variables[v].var
  BY DEF Visible
<1> HIDE DEF i, b
<1>6. /\ Len(i.inputs) = Len(Signature[i.op].in)
      /\ \A n \in 1..Len(i.inputs) : /\ InScope(b, i.inputs[n])
                                     /\ b.variables[i.inputs[n]].var = Signature[i.op].in[n]
  BY <1>2, <1>3, AcceptedIsSound
<1>7. old \in DOMAIN Visible(b)
  <2>1. InScope(b, old)
    BY <1>2, <1>6
  <2>2. QED
    BY <1>5, <2>1 DEF InScope
<1>8. ASSUME NEW v \in InputReplacements(p, k, s)
      PROVE  LET q == [p EXCEPT ![k].inputs[s] = v]
             IN  q \in Seq(Instr) /\ Len(q) = Len(p) /\ IsStaticallyValid(q)
  <2>1. v \in DOMAIN Visible(b) /\ Visible(b)[v] = Visible(b)[old]
    BY <1>4 DEF InputReplacements, i
  <2>2. v \in 1..Len(b.variables) /\ InScope(b, v) /\ b.variables[v].var = b.variables[old].var
    BY <1>5, <1>7, <2>1
  <2> DEFINE ins == [i.inputs EXCEPT ![s] = v]
             j == [i EXCEPT !.inputs = ins]
  <2>3. i.inputs \in Seq(Nat) /\ v \in Nat
    BY <1>2, <2>2 DEF Instr
  <2>4. ins \in Seq(Nat) /\ Len(ins) = Len(i.inputs)
        /\ \A n \in 1..Len(i.inputs) : ins[n] = IF n = s THEN v ELSE i.inputs[n]
    BY <1>2, <2>3
  <2> HIDE DEF ins
  <2>5. j \in Instr /\ j.op = i.op /\ j.arg = i.arg /\ j.inputs = ins
    BY <1>2, <2>4 DEF Instr
  <2>6. \A n \in 1..Len(j.inputs) : /\ InScope(b, j.inputs[n])
                                    /\ b.variables[j.inputs[n]].var = Signature[i.op].in[n]
    BY <1>2, <1>6, <2>2, <2>4, <2>5
  <2>7. [p EXCEPT ![k].inputs[s] = v] = [p EXCEPT ![k] = j]
    BY DEF i, ins
  <2> HIDE DEF j
  <2>8. Outcome(b, j) = "Ok"
    BY <1>3, <1>6, <2>4, <2>5, <2>6 DEF Outcome, Panics
  <2>9. Replaceable(i.op, j.op)
    BY <2>5 DEF Replaceable
  <2>10. /\ [p EXCEPT ![k] = j] \in Seq(Instr) /\ Len([p EXCEPT ![k] = j]) = Len(p)
         /\ IsStaticallyValid([p EXCEPT ![k] = j])
    BY <1>1, <1>2, <2>5, <2>8, <2>9, ReplacingOne DEF i, b
  <2> DEFINE new == [p EXCEPT ![k] = j]
             same == [p EXCEPT ![k].inputs[s] = v]
  <2>11. same = new /\ new \in Seq(Instr) /\ Len(new) = Len(p) /\ IsStaticallyValid(new)
    BY <2>7, <2>10
  <2> HIDE DEF new
  <2>12. QED
    BY <2>11
<1>9. QED
  BY <1>4, <1>7, <1>8 DEF i

(* What the OperationMutator puts in the place of an operation is accepted *)
(* there.                                                                  *)
LEMMA ReplacingOperation ==
  ASSUME NEW p \in Seq(Instr), IsStaticallyValid(p), NEW k \in Indices(p),
         OperationMutable[p[k].op], NEW op \in OpsInstead[p[k].op],
         NEW arg \in ArgsInstead(p[k].op, p[k].arg)
  PROVE  LET q == [p EXCEPT ![k].op = op, ![k].arg = arg]
         IN  q \in Seq(Instr) /\ Len(q) = Len(p) /\ IsStaticallyValid(q)
<1> DEFINE i == p[k]
           j == [i EXCEPT !.op = op, !.arg = arg]
<1>1. PICK f : AcceptedRun(NewBuilder, p, f)
  BY ValidRun
<1> DEFINE b == f[k - 1].builder
<1>2. k \in 1..Len(p) /\ k - 1 \in 0..Len(p) /\ i \in Instr
  BY DEF Indices
<1>3. b \in Sound /\ Outcome(b, i) = "Ok"
  <2>1. NewBuilder \in Sound
    BY NewReplays DEF Replays
  <2>2. QED
    BY <1>1, <1>2, <2>1, AllAccepted DEF AcceptedRun
<1>4. [p EXCEPT ![k].op = op, ![k].arg = arg] = [p EXCEPT ![k] = j]
  BY <1>2
<1>5. /\ i.op \in Op /\ op \in Op /\ i.op \notin Begins \cup Ends \cup NopOp
      /\ op \notin Begins \cup Ends \cup NopOp
      /\ Signature[op] = Signature[i.op] /\ ArgLimit[i.op] <= ArgLimit[op]
  BY <1>2, CorpusAssumption DEF Instr
<1>6. ArgLimit[i.op] \in Nat /\ ArgLimit[op] \in Nat
  BY <1>5, IRAssumption
<1> HIDE DEF i, b
<1>7. i.arg \in Nat /\ i.arg < ArgLimit[i.op]
      /\ Len(i.inputs) = Len(Signature[i.op].in)
      /\ \A n \in 1..Len(i.inputs) : /\ InScope(b, i.inputs[n])
                                     /\ b.variables[i.inputs[n]].var = Signature[i.op].in[n]
  BY <1>2, <1>3, AcceptedIsSound DEF Instr
<1>8. arg \in Nat /\ arg < ArgLimit[op]
  <2>1. arg \in 0..(ArgLimit[i.op] - 1) \/ arg = i.arg
    BY DEF ArgsInstead, i
  <2>2. QED
    BY <1>5, <1>6, <1>7, <2>1
<1>9. j \in Instr /\ j.op = op /\ j.arg = arg /\ j.inputs = i.inputs
  BY <1>2, <1>5, <1>8 DEF Instr
<1> HIDE DEF j
<1>10. ~ Panics(b, j)
  <2>1. b.active_scopes # <<>>
    BY <1>3 DEF Sound, ScopesOK, ScopeStack
  <2>2. QED
    BY <1>5, <1>9, <2>1 DEF Panics
<1>11. ~ (j.arg >= ArgLimit[j.op])
  BY <1>6, <1>8, <1>9
<1>12. Outcome(b, j) = "Ok"
  BY <1>5, <1>7, <1>9, <1>10, <1>11 DEF Outcome
<1>13. Replaceable(i.op, j.op)
  BY <1>5, <1>9 DEF Replaceable
<1>14. /\ [p EXCEPT ![k] = j] \in Seq(Instr) /\ Len([p EXCEPT ![k] = j]) = Len(p)
       /\ IsStaticallyValid([p EXCEPT ![k] = j])
  BY <1>1, <1>2, <1>9, <1>12, <1>13, ReplacingOne DEF i, b
<1> DEFINE new == [p EXCEPT ![k] = j]
           same == [p EXCEPT ![k].op = op, ![k].arg = arg]
<1>15. same = new /\ new \in Seq(Instr) /\ Len(new) = Len(p) /\ IsStaticallyValid(new)
  BY <1>4, <1>14
<1> HIDE DEF new
<1>16. QED
  BY <1>15

-----------------------------------------------------------------------------
(* Numbers up to n stay, the others move by x.                             *)
Shift(n, x) == [v \in Nat |-> IF v > n THEN v + x ELSE v]

(* append_program renumbers the inputs of a program and leaves the rest of *)
(* its instructions as it is.                                              *)
LEMMA RenumberedCounterparts ==
  ASSUME NEW p \in Seq(Instr), NEW n \in Nat, NEW x \in Nat
  PROVE  /\ Renumbered(p, n, x) \in Seq(Instr) /\ Len(Renumbered(p, n, x)) = Len(p)
         /\ \A k \in 1..Len(p) : Counterpart(p[k], Renumbered(p, n, x)[k], Shift(n, x))
<1> DEFINE N == Len(p)
           ins(i) == [s \in 1..Len(i.inputs) |-> IF i.inputs[s] > n THEN i.inputs[s] + x
                                                ELSE i.inputs[s]]
           new(i) == [i EXCEPT !.inputs = ins(i)]
           q == [k \in 1..N |-> new(p[k])]
<1>1. N \in Nat /\ \A k \in 1..N : p[k] \in Instr
  OBVIOUS
<1>2. ASSUME NEW i \in Instr
      PROVE  new(i) \in Instr /\ Counterpart(i, new(i), Shift(n, x))
  <2>1. /\ i.inputs \in Seq(Nat) /\ Len(i.inputs) \in Nat
        /\ \A s \in 1..Len(i.inputs) : i.inputs[s] \in Nat
    BY DEF Instr
  <2>2. /\ ins(i) \in Seq(Nat) /\ Len(ins(i)) = Len(i.inputs)
        /\ \A s \in 1..Len(i.inputs) : ins(i)[s] = Shift(n, x)[i.inputs[s]]
    BY <2>1 DEF Shift
  <2> HIDE DEF ins
  <2>3. /\ new(i) \in Instr /\ new(i).op = i.op /\ new(i).arg = i.arg
        /\ new(i).inputs = ins(i)
    BY <2>2 DEF Instr
  <2> HIDE DEF new
  <2>4. QED
    BY <2>2, <2>3 DEF Counterpart
<1>3. Renumbered(p, n, x) = q
  BY DEF Renumbered, Indices
<1> HIDE DEF new, N
<1>4. q \in Seq(Instr) /\ Len(q) = N /\ \A k \in 1..N : q[k] = new(p[k])
  BY <1>1, <1>2
<1>5. \A k \in 1..N : Counterpart(p[k], q[k], Shift(n, x))
  BY <1>1, <1>2, <1>4
<1> HIDE DEF q
<1>6. QED
  BY <1>3, <1>4, <1>5 DEF N

(* Moved by nothing, a program is the same.                                *)
LEMMA RenumberedByNothing ==
  ASSUME NEW p \in Seq(Instr)
  PROVE  Renumbered(p, 0, 0) = p
<1> DEFINE q == Renumbered(p, 0, 0)
<1>1. /\ q \in Seq(Instr) /\ Len(q) = Len(p)
      /\ \A k \in 1..Len(p) : Counterpart(p[k], q[k], Shift(0, 0))
  BY RenumberedCounterparts
<1> HIDE DEF q
<1>2. ASSUME NEW k \in 1..Len(p)
      PROVE  q[k] = p[k]
  <2> DEFINE i == p[k]
             j == q[k]
  <2>1. i \in Instr /\ Counterpart(i, j, Shift(0, 0))
    BY <1>1
  <2> HIDE DEF i, j
  <2>2. /\ j \in Instr /\ j.op = i.op /\ j.arg = i.arg /\ Len(j.inputs) = Len(i.inputs)
        /\ \A s \in 1..Len(i.inputs) : j.inputs[s] = Shift(0, 0)[i.inputs[s]]
    BY <2>1 DEF Counterpart
  <2>3. \A e \in Instr : /\ e = [op |-> e.op, inputs |-> e.inputs, arg |-> e.arg]
                         /\ e.inputs \in Seq(Nat)
                         /\ \A s \in 1..Len(e.inputs) : e.inputs[s] \in Nat
    BY DEF Instr
  <2>4. \A v \in Nat : Shift(0, 0)[v] = v
    BY DEF Shift
  <2>5. \A s \in 1..Len(i.inputs) : j.inputs[s] = i.inputs[s]
    BY <2>1, <2>2, <2>3, <2>4
  <2>6. j = i
    <3>1. i.inputs \in Seq(Nat) /\ j.inputs \in Seq(Nat)
      BY <2>1, <2>2, <2>3
    <3>2. j.inputs = i.inputs
      BY <2>2, <2>5, <3>1, SeqEqual
    <3>3. /\ i = [op |-> i.op, inputs |-> i.inputs, arg |-> i.arg]
          /\ j = [op |-> j.op, inputs |-> j.inputs, arg |-> j.arg]
      BY <2>1, <2>2, <2>3
    <3>4. QED
      BY <2>2, <3>2, <3>3
  <2>7. QED
    BY <2>6 DEF i, j
<1>3. QED
  BY <1>1, <1>2, SeqEqual DEF q

-----------------------------------------------------------------------------
(* The run g of r comes to the builder c before the first N instructions   *)
(* of q.                                                                   *)
Meets(r, g, k, c, q, N) ==
  /\ k \in Nat /\ N \in 0..Len(q) /\ k + N <= Len(r)
  /\ g[k] = [result |-> "Ok", builder |-> c]
  /\ \A n \in 1..N : r[k + n] = q[n]

From(g, k, h, N) == \A n \in 0..N : g[k + n] = h[n]

(* Where a longer run reaches the builder that a run starts from, and has  *)
(* its instructions before it, they are the same run.                      *)
LEMMA RunsAgree ==
  ASSUME NEW b, NEW r \in Seq(Instr), NEW g, Runs(b, r, g), NEW c, NEW q \in Seq(Instr),
         NEW h, Runs(c, q, h), NEW N, NEW k, Meets(r, g, k, c, q, N)
  PROVE  From(g, k, h, N)
<1> DEFINE P == { n \in Nat : g[k + n] = h[n] }
<1>1. /\ N \in Nat /\ Len(r) \in Nat /\ Len(q) \in Nat /\ N <= Len(q)
      /\ k \in Nat /\ k + N <= Len(r)
      /\ g[k] = [result |-> "Ok", builder |-> c] /\ \A n \in 1..N : r[k + n] = q[n]
  BY DEF Meets
<1>2. 0 \in P
  BY <1>1 DEF Runs
<1>3. ASSUME NEW n \in 1..N, n - 1 \in P
      PROVE  n \in P
  <2>1. n \in Nat /\ n \in 1..Len(q) /\ k + n \in 1..Len(r) /\ (k + n) - 1 = k + (n - 1) /\ r[k + n] = q[n]
    BY <1>1
  <2>2. g[k + n] = AfterStep(g[k + (n - 1)], r[k + n]) /\ h[n] = AfterStep(h[n - 1], q[n])
    <3>1. g[k + n] = AfterStep(g[(k + n) - 1], r[k + n])
      BY <2>1 DEF Runs
    <3>2. h[n] = AfterStep(h[n - 1], q[n])
      BY <2>1 DEF Runs
    <3>3. QED
      BY <2>1, <3>1, <3>2
  <2>3. QED
    BY <1>3, <2>1, <2>2
<1>4. \A n \in 0..N : n \in P
  <2> HIDE DEF P
  <2>1. QED
    BY <1>1, <1>2, <1>3, InductionUpTo
<1>5. QED
  BY <1>4 DEF From

(* The rest of an accepted program is accepted by the builder of its first *)
(* instructions.                                                           *)
LEMMA RunOfRest ==
  ASSUME NEW b \in Sound, NEW p \in Seq(Instr), NEW f, AcceptedRun(b, p, f), NEW k \in 0..Len(p)
  PROVE  LET q == SubSeq(p, k + 1, Len(p))
         IN  /\ q \in Seq(Instr) /\ Len(q) = Len(p) - k
             /\ \A n \in 1..(Len(p) - k) : q[n] = p[k + n]
             /\ AcceptedRun(f[k].builder, q, [n \in 0..(Len(p) - k) |-> f[k + n]])
<1> DEFINE q == SubSeq(p, k + 1, Len(p))
           N == Len(p)
           M == N - k
           g == [n \in 0..M |-> f[k + n]]
           c == f[k].builder
<1>1. N \in Nat /\ k \in Nat /\ k <= N /\ M \in Nat /\ \A n \in 1..N : p[n] \in Instr
  OBVIOUS
<1>2. q \in Seq(Instr) /\ Len(q) = M /\ \A n \in 1..M : q[n] = p[k + n]
  <2>1. Len(q) = M /\ \A n \in 1..M : q[n] = p[k + n]
    BY <1>1, SubSeqProperties
  <2>2. \A n \in 1..M : p[k + n] \in Instr
    BY <1>1
  <2>3. q \in Seq(Instr)
    BY <1>1, SubSeqProperties
  <2>4. QED
    BY <2>1, <2>3
<1> HIDE DEF q
<1>3. /\ f \in [0..N -> Run] /\ \A n \in 1..N : f[n] = AfterStep(f[n - 1], p[n])
      /\ f[N].result = "Ok"
  BY DEF AcceptedRun, Runs
<1>4. \A n \in 0..N : f[n].result = "Ok" /\ f[n].builder \in Sound
  BY AllAccepted DEF AcceptedRun
<1>5. f[k] = [result |-> "Ok", builder |-> c]
  <2>1. f[k] \in Run /\ f[k].result = "Ok"
    BY <1>3, <1>4
  <2>2. QED
    BY <2>1 DEF Run
<1>6. \A n \in 0..M : k + n \in 0..N /\ g[n] = f[k + n]
  BY <1>1
<1>7. \A n \in 1..M : /\ k + n \in 1..N /\ (k + n) - 1 = k + (n - 1)
                      /\ n \in 0..M /\ n - 1 \in 0..M
  BY <1>1
<1>8. k + 0 = k /\ k + M = N /\ 0 \in 0..M /\ M \in 0..M
  BY <1>1
<1> HIDE DEF c, M, N
<1>9. g \in [0..M -> Run]
  BY <1>3, <1>6
<1> HIDE DEF g
<1>10. g[0] = [result |-> "Ok", builder |-> c] /\ g[M].result = "Ok"
  BY <1>3, <1>5, <1>6, <1>8
<1>11. ASSUME NEW n \in 1..M
       PROVE  g[n] = AfterStep(g[n - 1], q[n])
  <2>1. k + n \in 1..N /\ (k + n) - 1 = k + (n - 1) /\ n \in 0..M /\ n - 1 \in 0..M
    BY <1>7
  <2>2. f[k + n] = AfterStep(f[(k + n) - 1], p[k + n])
    BY <1>3, <2>1
  <2>3. g[n] = f[k + n] /\ g[n - 1] = f[k + (n - 1)] /\ q[n] = p[k + n]
    BY <1>2, <1>6, <2>1
  <2>4. QED
    BY <2>1, <2>2, <2>3
<1>12. AcceptedRun(c, q, g)
  BY <1>2, <1>9, <1>10, <1>11 DEF AcceptedRun, Runs
<1>13. QED
  BY <1>2, <1>12 DEF q, M, N, g, c

-----------------------------------------------------------------------------
(* The builder of an accepted program goes in step with itself.            *)
LEMMA RunInStep ==
  ASSUME NEW p \in Seq(Instr), NEW f, AcceptedRun(NewBuilder, p, f), NEW n \in 0..Len(p)
  PROVE  InStep(f[n].builder, f[n].builder, 0, Unmoved, Unmoved)
<1>1. /\ InStep(NewBuilder, NewBuilder, 0, Unmoved, Unmoved)
      /\ \A k \in 1..Len(p) : Counterpart(p[k], p[k], Unmoved)
  BY NewInStep
<1>2. Runs(NewBuilder, p, f)
  BY DEF AcceptedRun
<1>3. QED
  BY <1>1, <1>2, InStepRun

(* A builder that is back in the scopes of an earlier one goes in step     *)
(* with it: what the earlier one declared is where it was, what it would   *)
(* declare is moved past what was declared since.                          *)
LEMMA ReturnedInStep ==
  ASSUME NEW b, NEW c \in Sound, InStep(b, b, 0, Unmoved, Unmoved), Grown(b, c),
         c.active_scopes = b.active_scopes
  PROVE  InStep(b, c, 0, Shift(Len(b.variables), Len(c.variables) - Len(b.variables)),
                Shift(b.scope_counter, c.scope_counter - b.scope_counter))
<1> DEFINE n == Len(b.variables)
           x == Len(c.variables) - n
           s == b.scope_counter
           y == c.scope_counter - s
           mu == Shift(n, x)
           sig == Shift(s, y)
<1>1. /\ n \in Nat /\ x \in Nat /\ s \in Nat /\ y \in Nat
      /\ Len(c.variables) = n + x /\ c.scope_counter = s + y
      /\ b \in Sound
  <2>1. b \in Sound
    BY DEF InStep
  <2>2. /\ Len(b.variables) \in Nat /\ Len(c.variables) \in Nat
        /\ b.scope_counter \in Nat /\ c.scope_counter \in Nat
    BY <2>1 DEF Sound, Builder
  <2>3. QED
    BY <2>1, <2>2 DEF Grown
<1>2. /\ \A v \in Nat : v <= n => mu[v] = v
      /\ \A v \in Nat : v <= s => sig[v] = v
      /\ \A k \in Nat \ {0} : mu[n + k] = n + x + k /\ sig[s + k] = s + y + k
  <2>1. \A m, z \in Nat : /\ \A v \in Nat : v <= m => Shift(m, z)[v] = v
                          /\ \A k \in Nat \ {0} : Shift(m, z)[m + k] = m + z + k
    <3> SUFFICES ASSUME NEW m \in Nat, NEW z \in Nat
                 PROVE  /\ \A v \in Nat : v <= m => Shift(m, z)[v] = v
                        /\ \A k \in Nat \ {0} : Shift(m, z)[m + k] = m + z + k
      OBVIOUS
    <3>1. \A v \in Nat : Shift(m, z)[v] = IF v > m THEN v + z ELSE v
      BY DEF Shift
    <3>2. \A k \in Nat \ {0} : m + k \in Nat /\ m + k > m /\ (m + k) + z = m + z + k
      OBVIOUS
    <3>3. QED
      BY <3>1, <3>2
  <2> HIDE DEF n, x, s, y
  <2>2. QED
    BY <1>1, <2>1
<1> HIDE DEF mu, sig, x, y
<1>3. MovedFrom(mu, Len(b.variables), Len(c.variables))
      /\ MovedFrom(sig, b.scope_counter, c.scope_counter)
  BY <1>1, <1>2 DEF MovedFrom
<1>4. SameStack(b, c, 0, sig)
  <2>1. ScopesOK(b) /\ b.active_scopes \in Seq(Scope)
    BY <1>1 DEF Sound, Builder
  <2>2. /\ Len(c.active_scopes) = Len(b.active_scopes) + 0 /\ Len(b.active_scopes) \in Nat
        /\ \A k \in 1..Len(b.active_scopes) : k + 0 = k
    BY <2>1
  <2>3. ASSUME NEW k \in 1..Len(b.active_scopes)
        PROVE  /\ c.active_scopes[k + 0].id = sig[b.active_scopes[k].id]
               /\ k > 1 => c.instructions[c.active_scopes[k + 0].begin].op
                             = b.instructions[b.active_scopes[k].begin].op
    <3>1. b.active_scopes[k].id \in 1..s
      BY <2>1 DEF ScopesOK, ScopeStack
    <3>2. sig[b.active_scopes[k].id] = b.active_scopes[k].id
      <4>1. b.active_scopes[k].id \in Nat /\ b.active_scopes[k].id <= s
        BY <1>1, <3>1
      <4>2. QED
        BY <1>2, <4>1
    <3>3. k > 1 => b.active_scopes[k].begin \in 1..Len(b.instructions)
      BY <2>1 DEF ScopesOK, ScopeStack
    <3>4. k > 1 => c.instructions[b.active_scopes[k].begin] = b.instructions[b.active_scopes[k].begin]
      BY <3>3 DEF Grown
    <3>5. QED
      BY <2>2, <3>2, <3>4
  <2>4. QED
    BY <2>2, <2>3 DEF SameStack
<1>5. SameVariables(b, c, mu, sig)
  <2>1. \A v \in 1..Len(b.variables) : b.variables[v].scope_id \in 0..s
    BY DEF InStep, Mirrors, SameVariables
  <2>2. ASSUME NEW v \in 1..Len(b.variables)
        PROVE  /\ mu[v] = v /\ v \in 1..Len(c.variables) /\ c.variables[v] = b.variables[v]
               /\ sig[b.variables[v].scope_id] = b.variables[v].scope_id
    <3>1. b.variables[v].scope_id \in Nat /\ b.variables[v].scope_id <= s
      BY <1>1, <2>1
    <3>2. v \in Nat /\ v <= n /\ v \in 1..(n + x)
      BY <1>1
    <3>3. c.variables[v] = b.variables[v]
      BY DEF Grown
    <3>4. QED
      BY <1>1, <1>2, <3>1, <3>2, <3>3
  <2>3. QED
    BY <2>1, <2>2 DEF SameVariables
<1>6. QED
  BY <1>1, <1>3, <1>4, <1>5 DEF InStep, Mirrors, mu, sig, x, y

-----------------------------------------------------------------------------
(* A program and its counterpart, run in step.                             *)
RunInStepWith(p, f, q, g, d, mu, sig) ==
  /\ q \in Seq(Instr) /\ Len(q) = Len(p)
  /\ \A n \in 1..Len(p) : Counterpart(p[n], q[n], mu)
  /\ \A n \in 0..Len(p) : InStep(f[n].builder, g[n].builder, d, mu, sig)

(* The scopes below the one a program starts in stay as they are.          *)
LEMMA ScopesBelowStay ==
  ASSUME NEW c, NEW d \in Nat, NEW mu, NEW sig,
         NEW p \in Seq(Instr), NEW f, AcceptedRun(NewBuilder, p, f),
         NEW q, NEW g, AcceptedRun(c, q, g), RunInStepWith(p, f, q, g, d, mu, sig)
  PROVE  \A n \in 0..Len(p) : \A k \in 1..(d + 1) :
           g[n].builder.active_scopes[k] = c.active_scopes[k]
<1> DEFINE N == Len(p)
           P == { n \in Nat : \A k \in 1..(d + 1) :
                                g[n].builder.active_scopes[k] = c.active_scopes[k] }
<1>1. /\ N \in Nat /\ NewBuilder \in Sound /\ q \in Seq(Instr) /\ Len(q) = N
      /\ \A n \in 1..N : Counterpart(p[n], q[n], mu)
      /\ \A n \in 0..N : InStep(f[n].builder, g[n].builder, d, mu, sig)
  BY NewReplays DEF Replays, RunInStepWith
<1>2. g[0].builder = c
  BY DEF AcceptedRun, Runs
<1>3. c \in Sound
  <2>1. 0 \in 0..N
    BY <1>1
  <2>2. QED
    BY <1>1, <1>2, <2>1 DEF InStep
<1>4. \A n \in 1..N : /\ Outcome(f[n - 1].builder, p[n]) = "Ok"
                      /\ Outcome(g[n - 1].builder, q[n]) = "Ok"
                      /\ g[n].builder = Appended(g[n - 1].builder, q[n])
  BY <1>1, <1>3, AllAccepted DEF AcceptedRun
<1>5. 0 \in P
  BY <1>2
<1>6. ASSUME NEW n \in 1..N, n - 1 \in P
      PROVE  n \in P
  <2> DEFINE b == f[n - 1].builder
             e == g[n - 1].builder
             i == p[n]
             j == q[n]
             a == g[n].builder
  <2>1. n \in Nat /\ n - 1 \in 0..N /\ i \in Instr
    BY <1>1
  <2>2. /\ InStep(b, e, d, mu, sig) /\ Counterpart(i, j, mu)
        /\ Outcome(b, i) = "Ok" /\ Outcome(e, j) = "Ok" /\ a = Appended(e, j)
        /\ \A k \in 1..(d + 1) : e.active_scopes[k] = c.active_scopes[k]
    BY <1>1, <1>4, <1>6, <2>1
  <2> HIDE DEF b, e, i, j, a
  <2>3. /\ b \in Sound /\ e \in Sound /\ j \in Instr /\ j.op = i.op
        /\ Len(e.active_scopes) = Len(b.active_scopes) + d
    BY <2>2 DEF InStep, Mirrors, SameStack, Counterpart
  <2>4. /\ b.active_scopes \in Seq(Scope) /\ e.active_scopes \in Seq(Scope)
        /\ e.instructions \in Seq(Instr) /\ e.scope_counter \in Nat /\ ScopesOK(b)
    BY <2>3 DEF Sound, Builder
  <2>5. j.op \in Ends => Len(b.active_scopes) > 1
    BY <2>1, <2>2, <2>3, AcceptedIsSound
  <2>6. Len(b.active_scopes) > 0 /\ Len(b.active_scopes) \in Nat
    BY <2>4 DEF ScopesOK, ScopeStack
  <2>7. j.op \in Ends => Len(e.active_scopes) > 1
    BY <2>3, <2>5, <2>6
  <2>8. StackMoved(a.active_scopes, e.active_scopes, e.scope_counter, Len(e.instructions) + 1, j)
    <3>1. a.active_scopes = Entered(Left(e.active_scopes, j), e.scope_counter,
                                    Len(e.instructions) + 1, j)
      BY <2>2, <2>3, AcceptedFields DEF NextFields
    <3>2. Len(e.instructions) + 1 \in Nat
      BY <2>4
    <3>3. QED
      BY <2>3, <2>4, <2>7, <3>1, <3>2, NextStack
  <2>9. d + 1 <= Same(e.active_scopes, j) /\ Same(e.active_scopes, j) \in Nat
    BY <2>3, <2>5, <2>6 DEF Same
  <2>10. \A k \in 1..(d + 1) : a.active_scopes[k] = e.active_scopes[k]
    BY <2>8, <2>9 DEF StackMoved
  <2>11. \A k \in 1..(d + 1) : a.active_scopes[k] = c.active_scopes[k]
    BY <2>2, <2>10
  <2>12. QED
    BY <2>1, <2>11 DEF a
<1>7. \A n \in 0..N : n \in P
  <2> HIDE DEF N, P
  <2>1. QED
    BY <1>1, <1>5, <1>6, InductionUpTo
<1>8. QED
  BY <1>7

(* The program of q in the builder b, its variables moved past those of b. *)
SplicedRun(b, q, f, r, h) ==
  LET n   == Len(b.variables)
      d   == Len(b.active_scopes) - 1
      sig == [s \in Nat |-> IF s = 1 THEN CurrentScope(b).id ELSE b.scope_counter + (s - 1)]
  IN  /\ AcceptedRun(b, r, h) /\ RunInStepWith(q, f, r, h, d, Shift(0, n), sig)
      /\ h[Len(q)].builder.active_scopes = b.active_scopes

(* A valid program is accepted wherever it is appended, and ends in the    *)
(* scope in which it began.                                                *)
LEMMA SplicedIn ==
  ASSUME NEW b \in Sound, NEW q \in Seq(Instr), NEW f, AcceptedRun(NewBuilder, q, f),
         FinalizeOutcome(f[Len(q)].builder) = "Ok",
         NEW h, Runs(b, Renumbered(q, 0, Len(b.variables)), h)
  PROVE  SplicedRun(b, q, f, Renumbered(q, 0, Len(b.variables)), h)
<1> DEFINE N == Len(q)
           n == Len(b.variables)
           r == Renumbered(q, 0, n)
           d == Len(b.active_scopes) - 1
           mu == Shift(0, n)
           sig == [s \in Nat |-> IF s = 1 THEN CurrentScope(b).id ELSE b.scope_counter + (s - 1)]
<1>1. /\ N \in Nat /\ n \in Nat /\ b.scope_counter \in Nat /\ b.active_scopes \in Seq(Scope)
      /\ ScopesOK(b) /\ Len(b.active_scopes) \in Nat
  BY DEF Sound, Builder
<1>2. Len(b.active_scopes) > 0
  BY <1>1 DEF ScopesOK, ScopeStack
<1>3. d \in Nat /\ Len(b.active_scopes) = 1 + d
  BY <1>1, <1>2
<1>4. /\ r \in Seq(Instr) /\ Len(r) = N
      /\ \A m \in 1..N : Counterpart(q[m], r[m], mu)
  BY <1>1, RenumberedCounterparts
<1>5. /\ \A k \in Nat \ {0} : mu[0 + k] = n + k
      /\ \A k \in Nat \ {0} : sig[1 + k] = b.scope_counter + k
      /\ sig[1] = CurrentScope(b).id
  <2>1. \A k \in Nat \ {0} : mu[0 + k] = n + k
    BY <1>1 DEF Shift
  <2>2. \A k \in Nat \ {0} : 1 + k \in Nat /\ 1 + k # 1 /\ (1 + k) - 1 = k
    OBVIOUS
  <2>3. QED
    BY <2>1, <2>2
<1> HIDE DEF mu, sig, r
<1>6. InStep(NewBuilder, b, d, mu, sig)
  <2>1. /\ NewBuilder.active_scopes = Append(<<>>, [begin |-> 0, id |-> 1, context |-> Global])
        /\ NewBuilder.variables = <<>> /\ NewBuilder.scope_counter = 1
    BY DEF NewBuilder, EnterScope
  <2>2. Len(<<>>) = 0
    OBVIOUS
  <2>3. Len(NewBuilder.active_scopes) = 1 /\ NewBuilder.active_scopes[1].id = 1
    BY <2>1
  <2>4. NewBuilder \in Sound
    BY NewReplays DEF Replays
  <2>5. SameStack(NewBuilder, b, d, sig)
    <3>1. b.active_scopes[1 + d].id = sig[1]
      BY <1>3, <1>5 DEF CurrentScope
    <3>2. QED
      BY <1>3, <2>3, <3>1 DEF SameStack
  <2>6. SameVariables(NewBuilder, b, mu, sig)
    BY <2>1, <2>2 DEF SameVariables
  <2>7. MovedFrom(mu, Len(NewBuilder.variables), n) /\ MovedFrom(sig, NewBuilder.scope_counter, b.scope_counter)
    BY <1>5, <2>1, <2>2 DEF MovedFrom
  <2>8. QED
    BY <2>4, <2>5, <2>6, <2>7 DEF InStep, Mirrors
<1>7. AcceptedRun(b, r, h) /\ \A m \in 0..N : InStep(f[m].builder, h[m].builder, d, mu, sig)
  <2>1. Runs(b, r, h)
    BY DEF r
  <2>2. d \in Nat /\ r \in Seq(Instr) /\ Len(r) = Len(q)
        /\ \A m \in 1..Len(q) : Counterpart(q[m], r[m], mu)
    BY <1>3, <1>4
  <2> HIDE DEF d, n
  <2>3. AcceptedRun(b, r, h) /\ \A m \in 0..Len(q) : InStep(f[m].builder, h[m].builder, d, mu, sig)
    BY <1>6, <2>1, <2>2, InStepRun
  <2>4. QED
    BY <2>3
<1>8. h[N].builder.active_scopes = b.active_scopes
  <2> DEFINE c == h[N].builder
  <2>1. N \in 0..N
    BY <1>1
  <2>2. \A k \in 1..(d + 1) : c.active_scopes[k] = b.active_scopes[k]
    <3>1. d \in Nat /\ AcceptedRun(b, r, h) /\ RunInStepWith(q, f, r, h, d, mu, sig)
      BY <1>3, <1>4, <1>7 DEF RunInStepWith
    <3> HIDE DEF d, n
    <3>2. \A m \in 0..Len(q) : \A k \in 1..(d + 1) :
            h[m].builder.active_scopes[k] = b.active_scopes[k]
      BY <3>1, ScopesBelowStay
    <3>3. QED
      BY <2>1, <3>2
  <2>3. InStep(f[N].builder, c, d, mu, sig)
    BY <1>7, <2>1
  <2> HIDE DEF c
  <2>4. Len(f[N].builder.active_scopes) = 1
    BY DEF FinalizeOutcome
  <2>5. c.active_scopes \in Seq(Scope) /\ Len(c.active_scopes) = 1 + d
    BY <2>3, <2>4 DEF InStep, Mirrors, SameStack, Sound, Builder
  <2>6. 1 + d = d + 1
    BY <1>3
  <2>7. QED
    BY <1>1, <1>3, <2>2, <2>5, <2>6, SeqEqual DEF c
<1>9. QED
  BY <1>4, <1>7, <1>8 DEF SplicedRun, RunInStepWith, r, mu, sig

-----------------------------------------------------------------------------
(* The program r that holds q after the first k instructions of p: its run *)
(* g goes through that of p, then through that of q, then in step with     *)
(* that of the rest of p.                                                  *)
Joins(r, g, p, f, k, q, h, mu) ==
  /\ r \in Seq(Instr) /\ IsStaticallyValid(r) /\ Len(r) = Len(p) + Len(q)
  /\ AcceptedRun(NewBuilder, r, g)
  /\ \A j \in 0..k : g[j] = f[j]
  /\ \A j \in 0..Len(q) : g[k + j] = h[j]
  /\ \A j \in 1..k : r[j] = p[j]
  /\ \A j \in 1..Len(q) : r[k + j] = q[j]
  /\ \A j \in 1..(Len(p) - k) : Counterpart(p[k + j], r[(k + Len(q)) + j], mu)
  /\ \A j \in 0..(Len(p) - k) : MovedFrom(mu, Len(f[k + j].builder.variables),
                                          Len(g[(k + Len(q)) + j].builder.variables))

Joined(r, p, f, k, q, h) ==
  LET n == Len(f[k].builder.variables)
      x == Len(h[Len(q)].builder.variables) - n
  IN  r.result = "Ok" /\ \E g : Joins(r.program, g, p, f, k, q, h, Shift(n, x))

(* What is accepted after the first k instructions of a valid program and  *)
(* leaves the scopes as they are can be inserted there: the rest of the    *)
(* program, renumbered, is accepted after it.                              *)
LEMMA InsertedRun ==
  ASSUME NEW p \in Seq(Instr), NEW f, AcceptedRun(NewBuilder, p, f),
         FinalizeOutcome(f[Len(p)].builder) = "Ok", NEW k \in 0..Len(p),
         NEW q \in Seq(Instr), NEW h, AcceptedRun(f[k].builder, q, h),
         h[Len(q)].builder.active_scopes = f[k].builder.active_scopes
  PROVE  Joined(Continued(p, k, f[k], h[Len(q)]), p, f, k, q, h)
<1> DEFINE N == Len(p)
           M == N - k
           Q == Len(q)
           b == f[k].builder
           m == h[Q].builder
           n == Len(b.variables)
           x == Len(m.variables) - n
           mu == Shift(n, x)
           rest == SubSeq(p, k + 1, N)
           moved == Renumbered(rest, n, x)
           fr == [j \in 0..M |-> f[k + j]]
<1>1. N \in Nat /\ k \in Nat /\ k <= N /\ M \in Nat /\ Q \in Nat /\ N = k + M /\ Q \in 0..Q /\ M \in 0..M
      /\ k \in 0..k /\ N \in 0..N
  OBVIOUS
<1>2. NewBuilder \in Sound /\ Replays(NewBuilder) /\ NewBuilder.instructions = <<>>
  BY NewReplays DEF Replays
<1>3. /\ \A j \in 0..N : f[j].result = "Ok" /\ f[j].builder \in Sound
      /\ Runs(NewBuilder, p, f)
  BY <1>2, AllAccepted DEF AcceptedRun
<1>4. b \in Sound /\ f[k].result = "Ok"
  BY <1>3
<1>5. /\ \A j \in 0..Q : h[j].result = "Ok" /\ h[j].builder \in Sound
      /\ Runs(b, q, h) /\ h[0].builder = b
  <2>1. Runs(b, q, h) /\ h[Q].result = "Ok"
    BY DEF AcceptedRun
  <2> HIDE DEF b
  <2>2. \A j \in 0..Q : h[j].result = "Ok" /\ h[j].builder \in Sound
    BY <1>4, <2>1, AllAccepted
  <2>3. QED
    BY <2>1, <2>2 DEF Runs
<1>6. m \in Sound /\ h[Q].result = "Ok"
  BY <1>1, <1>5
<1>7. Grown(b, m)
  <2>1. \A i \in 0..Q : \A j \in 0..i : Grown(h[j].builder, h[i].builder)
    BY <1>4, RunGrows
  <2>2. 0 \in 0..Q
    BY <1>1
  <2>3. QED
    BY <1>1, <1>5, <2>1, <2>2
<1>8. n \in Nat /\ x \in Nat
  <2>1. Len(b.variables) \in Nat /\ Len(m.variables) \in Nat
    <3>1. b.variables \in Seq(ScopedVariable) /\ m.variables \in Seq(ScopedVariable)
      <4> HIDE DEF b, m
      <4>1. QED
        BY <1>4, <1>6 DEF Sound, Builder
    <3>2. QED
      BY <3>1
  <2>2. QED
    BY <1>7, <2>1 DEF Grown
<1>9. PICK sig : InStep(b, m, 0, mu, sig)
  <2>1. InStep(b, b, 0, Unmoved, Unmoved)
    BY RunInStep
  <2>2. m.active_scopes = b.active_scopes
    OBVIOUS
  <2> HIDE DEF b, m
  <2>3. QED
    BY <1>6, <1>7, <2>1, <2>2, ReturnedInStep
<1>10. /\ rest \in Seq(Instr) /\ Len(rest) = M /\ \A j \in 1..M : rest[j] = p[k + j]
       /\ AcceptedRun(b, rest, fr)
  BY <1>2, RunOfRest
<1>11. /\ moved \in Seq(Instr) /\ Len(moved) = M
       /\ \A j \in 1..M : Counterpart(rest[j], moved[j], mu)
  <2> HIDE DEF rest, n, x
  <2>1. QED
    BY <1>8, <1>10, RenumberedCounterparts
<1> HIDE DEF mu, rest, moved, m
<1>12. PICK e : Runs(m, moved, e) /\ AppendAll(m, moved) = e[M]
  BY <1>6, <1>11, AppendAllRuns
<1>13. AcceptedRun(m, moved, e) /\ \A j \in 0..M : InStep(fr[j].builder, e[j].builder, 0, mu, sig)
  <2> DEFINE L == Len(rest)
  <2>1. Len(moved) = L /\ \A j \in 1..L : Counterpart(rest[j], moved[j], mu)
    BY <1>10, <1>11
  <2> HIDE DEF b, fr, M
  <2>2. AcceptedRun(m, moved, e) /\ \A j \in 0..L : InStep(fr[j].builder, e[j].builder, 0, mu, sig)
    BY <1>9, <1>10, <1>11, <1>12, <2>1, InStepRun
  <2>3. QED
    BY <1>10, <2>2
<1> DEFINE c == e[M].builder
           r == c.instructions
<1>14. e[M].result = "Ok" /\ c \in Sound /\ FinalizeOutcome(c) = "Ok"
  <2>1. e[M].result = "Ok"
    BY <1>11, <1>13 DEF AcceptedRun
  <2>2. InStep(fr[M].builder, c, 0, mu, sig) /\ fr[M] = f[N]
    BY <1>1, <1>13
  <2>3. FinalizeOutcome(c) = "Ok" /\ c \in Sound
    <3>1. InStep(f[N].builder, c, 0, mu, sig) /\ FinalizeOutcome(f[N].builder) = "Ok"
      BY <2>2
    <3> HIDE DEF c, N
    <3>2. QED
      BY <3>1, MirrorsComplete DEF InStep
  <2>4. QED
    BY <2>1, <2>3
<1>15. Extended(NewBuilder, p, b, k)
  BY <1>2, RunReplays
<1>16. Extended(b, q, m, Q)
  <2>1. Replays(b)
    BY <1>15 DEF Extended
  <2>2. \A j \in 0..Q : Extended(b, q, h[j].builder, j)
    BY <2>1, RunReplays
  <2>3. QED
    BY <1>1, <2>2 DEF m
<1>17. Extended(m, moved, c, M)
  <2>1. Replays(m)
    BY <1>16 DEF Extended
  <2>2. \A j \in 0..Len(moved) : Extended(m, moved, e[j].builder, j)
    BY <1>11, <1>13, <2>1, RunReplays
  <2>3. QED
    BY <1>1, <1>11, <2>2
<1> HIDE DEF c, b, fr, M, Q, N
<1>18. /\ r \in Seq(Instr) /\ Len(r) = (k + Q) + M
       /\ \A j \in 1..k : r[j] = p[j]
       /\ \A j \in 1..Q : r[k + j] = q[j]
       /\ \A j \in 1..M : r[(k + Q) + j] = moved[j]
  <2>1. r \in Seq(Instr)
    BY <1>14 DEF Sound, Builder
  <2>2. Len(<<>>) = 0
    OBVIOUS
  <2>3. Len(b.instructions) = k /\ \A j \in 1..k : b.instructions[j] = p[j]
    BY <1>1, <1>2, <1>15, <2>2 DEF Extended
  <2>4. /\ Len(m.instructions) = k + Q /\ \A j \in 1..k : m.instructions[j] = p[j]
        /\ \A j \in 1..Q : m.instructions[k + j] = q[j]
    BY <1>16, <2>3 DEF Extended
  <2>5. \A j \in 1..k : j \in 1..(k + Q)
    BY <1>1
  <2>6. \A j \in 1..Q : k + j \in 1..(k + Q)
    BY <1>1
  <2>7. /\ Len(r) = (k + Q) + M /\ \A j \in 1..(k + Q) : r[j] = m.instructions[j]
        /\ \A j \in 1..M : r[(k + Q) + j] = moved[j]
    BY <1>17, <2>4 DEF Extended
  <2>8. QED
    BY <2>1, <2>4, <2>5, <2>6, <2>7
<1>19. IsStaticallyValid(r) /\ AppendAll(NewBuilder, r) = [result |-> "Ok", builder |-> c]
  <2>1. AppendAll(NewBuilder, r) = [result |-> "Ok", builder |-> c]
    BY <1>17 DEF Extended, Replays
  <2>2. QED
    BY <1>14, <2>1 DEF IsStaticallyValid, IsComplete
<1>20. Continued(p, k, f[k], h[Q]) = [result |-> "Ok", program |-> r]
  <2>1. AppendProgram(m, rest, n, x) = e[M]
    BY <1>12 DEF AppendProgram, moved
  <2>2. Continued(p, k, f[k], h[Q]) = Inserted(p, f[k], h[Q], e[M])
    BY <2>1 DEF Continued, b, m, rest, N
  <2>3. QED
    BY <1>4, <1>6, <1>14, <2>2 DEF Inserted, IsComplete, c
<1> HIDE DEF r
<1>21. PICK g : Runs(NewBuilder, r, g) /\ AppendAll(NewBuilder, r) = g[Len(r)]
  BY <1>2, <1>18, AppendAllRuns
<1>22. AcceptedRun(NewBuilder, r, g)
  BY <1>19, <1>21 DEF AcceptedRun
<1>23. \A j \in 0..k : g[j] = f[j]
  <2>1. g[0] = [result |-> "Ok", builder |-> NewBuilder] /\ k <= Len(r) /\ k \in 0..Len(p)
    BY <1>1, <1>18, <1>21 DEF Runs
  <2>2. Meets(r, g, 0, NewBuilder, p, k)
    BY <1>1, <1>18, <2>1 DEF Meets
  <2>3. Runs(NewBuilder, r, g) /\ Runs(NewBuilder, p, f) /\ r \in Seq(Instr)
        /\ p \in Seq(Instr)
    BY <1>3, <1>18, <1>21
  <2>4. From(g, 0, f, k)
    BY <2>2, <2>3, RunsAgree
  <2>5. \A j \in 0..k : 0 + j = j
    BY <1>1
  <2>6. QED
    BY <2>4, <2>5 DEF From
<1>24. ASSUME NEW y, y \in Run, y.result = "Ok"
       PROVE  y = [result |-> "Ok", builder |-> y.builder]
  BY <1>24 DEF Run
<1>25. \A j \in 0..Q : g[k + j] = h[j]
  <2>1. f[k] \in Run
    BY <1>3 DEF Runs
  <2>2. g[k] = [result |-> "Ok", builder |-> b]
    BY <1>1, <1>4, <1>23, <1>24, <2>1 DEF b
  <2>3. k + Q <= Len(r) /\ Q \in 0..Len(q)
    BY <1>1, <1>18 DEF Q
  <2>4. Meets(r, g, k, b, q, Q)
    BY <1>1, <1>18, <2>2, <2>3 DEF Meets
  <2>5. Runs(NewBuilder, r, g) /\ Runs(b, q, h) /\ r \in Seq(Instr)
        /\ q \in Seq(Instr)
    BY <1>5, <1>18, <1>21
  <2>6. From(g, k, h, Q)
    BY <2>4, <2>5, RunsAgree
  <2>7. QED
    BY <2>6 DEF From
<1>26. \A j \in 0..M : g[(k + Q) + j] = e[j]
  <2>1. h[Q] \in Run
    BY <1>1, <1>5 DEF Runs, Q
  <2>2. g[k + Q] = [result |-> "Ok", builder |-> m]
    BY <1>1, <1>6, <1>24, <1>25, <2>1 DEF m
  <2>3. (k + Q) + M <= Len(r) /\ M \in 0..Len(moved) /\ k + Q \in Nat
    BY <1>1, <1>11, <1>18
  <2>4. Meets(r, g, k + Q, m, moved, M)
    BY <1>18, <2>2, <2>3 DEF Meets
  <2>5. From(g, k + Q, e, M)
    BY <1>11, <1>12, <1>18, <1>21, <2>4, RunsAgree
  <2>6. QED
    BY <2>5 DEF From
<1>27. \A j \in 1..M : Counterpart(p[k + j], r[(k + Q) + j], mu)
  BY <1>10, <1>11, <1>18
<1>28. ASSUME NEW j \in 0..M
       PROVE  MovedFrom(mu, Len(f[k + j].builder.variables),
                        Len(g[(k + Q) + j].builder.variables))
  <2>1. fr[j] = f[k + j] /\ g[(k + Q) + j] = e[j] /\ InStep(fr[j].builder, e[j].builder, 0, mu, sig)
    BY <1>13, <1>26 DEF fr
  <2>2. QED
    BY <2>1 DEF InStep
<1>29. Len(r) = N + Q
  BY <1>1, <1>18
<1>30. Joins(r, g, p, f, k, q, h, mu)
  BY <1>18, <1>19, <1>22, <1>23, <1>25, <1>27, <1>28, <1>29 DEF Joins, N, Q, M
<1> DEFINE s == Continued(p, k, f[k], h[Q])
<1>31. s.result = "Ok" /\ Joins(s.program, g, p, f, k, q, h, mu)
  <2>1. s.result = "Ok" /\ s.program = r
    BY <1>20
  <2>2. QED
    BY <1>30, <2>1
<1> HIDE DEF s
<1>32. Joined(s, p, f, k, q, h)
  BY <1>31 DEF Joined, mu, n, x, b, m, Q
<1>33. QED
  BY <1>32 DEF s, Q

-----------------------------------------------------------------------------
(* The instructions of p at other positions in r, taking the variables     *)
(* that stand for the ones they took: each declares its variables where    *)
(* those that stand for them are.                                          *)
Carries(p, f, r, g, pos, mu) ==
  \A k \in 1..Len(p) :
    /\ pos[k] \in 1..Len(r) /\ Counterpart(p[k], r[pos[k]], mu)
    /\ \A m \in 1..Len(Created(p[k])) :
         mu[Variables(f, k - 1) + m] = Variables(g, pos[k] - 1) + m

Flows(p, r, pos) ==
  \A k \in 1..Len(p) :
    /\ r[pos[k]].op = p[k].op
    /\ \A s \in 1..Len(p[k].inputs) : Dataflow(p)[k][s][1] \in 1..Len(p)
    /\ Dataflow(r)[pos[k]] = [s \in Indices(Dataflow(p)[k]) |->
                                <<pos[Dataflow(p)[k][s][1]], Dataflow(p)[k][s][2]>>]
    /\ Indices(Dataflow(p)[k]) = 1..Len(p[k].inputs)

(* Then the dataflow of p is in r.                                         *)
LEMMA FlowCarried ==
  ASSUME NEW p \in Seq(Instr), NEW f, AcceptedRun(NewBuilder, p, f),
         NEW r \in Seq(Instr), NEW g, AcceptedRun(NewBuilder, r, g),
         NEW pos, NEW mu, Carries(p, f, r, g, pos, mu)
  PROVE  Flows(p, r, pos)
<1> SUFFICES ASSUME NEW k \in 1..Len(p)
             PROVE  /\ r[pos[k]].op = p[k].op
                    /\ \A s \in 1..Len(p[k].inputs) : Dataflow(p)[k][s][1] \in 1..Len(p)
                    /\ Dataflow(r)[pos[k]] = [s \in Indices(Dataflow(p)[k]) |->
                                                <<pos[Dataflow(p)[k][s][1]], Dataflow(p)[k][s][2]>>]
                    /\ Indices(Dataflow(p)[k]) = 1..Len(p[k].inputs)
  BY DEF Flows
<1> DEFINE i == p[k]
           j == r[pos[k]]
           len == Len(i.inputs)
           here == [s \in 1..len |-> Origins(p)[i.inputs[s]]]
           there == [s \in 1..Len(j.inputs) |-> Origins(r)[j.inputs[s]]]
<1>1. /\ pos[k] \in 1..Len(r) /\ i \in Instr /\ j \in Instr /\ j.op = i.op /\ Len(j.inputs) = len
      /\ \A s \in 1..len : j.inputs[s] = mu[i.inputs[s]]
  BY DEF Carries, Counterpart
<1>2. len \in Nat
  <2>1. i.inputs \in Seq(Nat)
    BY <1>1 DEF Instr
  <2>2. QED
    BY <2>1
<1>3. Dataflow(p)[k] = here /\ Dataflow(r)[pos[k]] = there
  BY <1>1 DEF Dataflow, Indices
<1>4. Indices(here) = 1..len
  <2> HIDE DEF len
  <2>1. Len(here) = len
    BY <1>2
  <2>2. QED
    BY <2>1 DEF Indices
<1> HIDE DEF i, j, len
<1>5. ASSUME NEW s \in 1..len
      PROVE  /\ Origins(p)[i.inputs[s]][1] \in 1..Len(p)
             /\ Origins(r)[j.inputs[s]] = <<pos[Origins(p)[i.inputs[s]][1]], Origins(p)[i.inputs[s]][2]>>
  <2> DEFINE v == i.inputs[s]
  <2>1. OriginsTell(p, f) /\ OriginsTell(r, g)
    BY OriginsOfRun
  <2>2. v \in 1..Variables(f, k - 1) /\ k - 1 \in 0..Len(p)
    <3>1. RunDeclares(p, f, TypesOf(p))
      BY AcceptedDeclares
    <3>2. QED
      <4>1. i.inputs[s] \in 1..Len(f[k - 1].builder.variables)
        BY <3>1 DEF RunDeclares, i, len
      <4>2. k - 1 \in 0..Len(p)
        OBVIOUS
      <4>3. QED
        BY <4>1, <4>2 DEF Variables
  <2> HIDE DEF v
  <2>3. PICK e \in 1..(k - 1) : \E m \in 1..Len(Created(p[e])) : v = Variables(f, e - 1) + m
    BY <2>1, <2>2 DEF OriginsTell
  <2>4. PICK m \in 1..Len(Created(p[e])) : v = Variables(f, e - 1) + m
    BY <2>3
  <2>5. e \in 1..Len(p)
    OBVIOUS
  <2>6. Origins(p)[v] = <<e, m>>
    BY <2>1, <2>4, <2>5 DEF OriginsTell
  <2>7. /\ pos[e] \in 1..Len(r) /\ Counterpart(p[e], r[pos[e]], mu)
        /\ mu[v] = Variables(g, pos[e] - 1) + m
    BY <2>4, <2>5 DEF Carries
  <2>8. Created(r[pos[e]]) = Created(p[e])
    BY <2>7 DEF Counterpart, Created
  <2>9. Origins(r)[mu[v]] = <<pos[e], m>>
    BY <2>1, <2>4, <2>7, <2>8 DEF OriginsTell
  <2>10. j.inputs[s] = mu[v]
    BY <1>1 DEF v
  <2>11. Origins(r)[j.inputs[s]] = <<pos[Origins(p)[v][1]], Origins(p)[v][2]>>
         /\ Origins(p)[v][1] \in 1..Len(p)
    BY <2>5, <2>6, <2>9, <2>10
  <2>12. QED
    BY <2>11 DEF v
<1>6. \A s \in 1..len : /\ here[s] = Origins(p)[i.inputs[s]] /\ here[s][1] \in 1..Len(p)
                        /\ there[s] = <<pos[here[s][1]], here[s][2]>>
  BY <1>1, <1>5
<1>7. there = [s \in 1..len |-> <<pos[here[s][1]], here[s][2]>>]
  <2>1. there = [s \in 1..len |-> there[s]]
    BY <1>1
  <2> HIDE DEF here, there
  <2>2. QED
    BY <1>6, <2>1
<1> HIDE DEF here, there
<1>8. QED
  BY <1>1, <1>3, <1>4, <1>6, <1>7 DEF i, j, len

(* The places of the instructions of p after an insertion of x of them     *)
(* after the first k, and those of the inserted ones.                      *)
Around(k, x) == [j \in Nat |-> IF j <= k THEN j ELSE j + x]
Beyond(k) == [j \in Nat |-> j + k]

(* Embeds says of a position operator what Flows says of a function.       *)
LEMMA FlowsEmbeds ==
  ASSUME NEW p \in Seq(Instr), NEW r, NEW k \in Nat, NEW x \in Nat
  PROVE  /\ Flows(p, r, Around(k, x)) => Embeds(p, r, LAMBDA j : IF j <= k THEN j ELSE j + x)
         /\ Flows(p, r, Beyond(k)) => Embeds(p, r, LAMBDA j : j + k)
<1>1. \A n \in 1..Len(p) : n \in Nat
  OBVIOUS
<1>2. /\ \A n \in Nat : Around(k, x)[n] = IF n <= k THEN n ELSE n + x
      /\ \A n \in Nat : Beyond(k)[n] = n + k
  BY DEF Around, Beyond
<1>3. ASSUME Flows(p, r, Beyond(k))
      PROVE  Embeds(p, r, LAMBDA j : j + k)
  <2> SUFFICES ASSUME NEW n \in Indices(p)
               PROVE  /\ r[n + k].op = p[n].op
                      /\ Dataflow(r)[n + k] = [s \in Indices(Dataflow(p)[n]) |->
                                                 <<Dataflow(p)[n][s][1] + k, Dataflow(p)[n][s][2]>>]
    BY DEF Embeds, SameFlow
  <2>1. n \in 1..Len(p) /\ n \in Nat
    BY DEF Indices
  <2>2. /\ r[n + k].op = p[n].op /\ Indices(Dataflow(p)[n]) = 1..Len(p[n].inputs)
        /\ \A s \in 1..Len(p[n].inputs) : Dataflow(p)[n][s][1] \in Nat
        /\ Dataflow(r)[n + k] = [s \in Indices(Dataflow(p)[n]) |->
                                   <<Beyond(k)[Dataflow(p)[n][s][1]], Dataflow(p)[n][s][2]>>]
    BY <1>1, <1>2, <1>3, <2>1 DEF Flows
  <2>3. \A s \in Indices(Dataflow(p)[n]) : Beyond(k)[Dataflow(p)[n][s][1]] = Dataflow(p)[n][s][1] + k
    BY <1>2, <2>2
  <2>4. QED
    BY <2>2, <2>3
<1>4. ASSUME Flows(p, r, Around(k, x))
      PROVE  Embeds(p, r, LAMBDA j : IF j <= k THEN j ELSE j + x)
  <2> DEFINE At(j) == IF j <= k THEN j ELSE j + x
  <2> SUFFICES ASSUME NEW n \in Indices(p)
               PROVE  /\ r[At(n)].op = p[n].op
                      /\ Dataflow(r)[At(n)] = [s \in Indices(Dataflow(p)[n]) |->
                                                 <<At(Dataflow(p)[n][s][1]), Dataflow(p)[n][s][2]>>]
    BY DEF Embeds, SameFlow
  <2>1. n \in 1..Len(p) /\ n \in Nat
    BY DEF Indices
  <2>2. \A j \in Nat : Around(k, x)[j] = At(j)
    BY <1>2
  <2> HIDE DEF At
  <2>3. /\ r[At(n)].op = p[n].op /\ Indices(Dataflow(p)[n]) = 1..Len(p[n].inputs)
        /\ \A s \in 1..Len(p[n].inputs) : Dataflow(p)[n][s][1] \in Nat
        /\ Dataflow(r)[At(n)] = [s \in Indices(Dataflow(p)[n]) |->
                                   <<Around(k, x)[Dataflow(p)[n][s][1]], Dataflow(p)[n][s][2]>>]
    BY <1>1, <1>4, <2>1, <2>2 DEF Flows
  <2>4. \A s \in Indices(Dataflow(p)[n]) : Around(k, x)[Dataflow(p)[n][s][1]] = At(Dataflow(p)[n][s][1])
    BY <2>2, <2>3
  <2>5. QED
    BY <2>3, <2>4
<1>5. QED
  BY <1>3, <1>4

(* The program around an insertion keeps its dataflow.                     *)
LEMMA JoinsKeeps ==
  ASSUME NEW p \in Seq(Instr), NEW f, AcceptedRun(NewBuilder, p, f), NEW k \in 0..Len(p),
         NEW q \in Seq(Instr), NEW h, NEW x \in Nat,
         NEW r, NEW g, Joins(r, g, p, f, k, q, h, Shift(Variables(f, k), x))
  PROVE  Flows(p, r, Around(k, Len(q)))
<1> DEFINE N == Len(p)
           Q == Len(q)
           n == Variables(f, k)
           mu == Shift(n, x)
           pos == Around(k, Q)
<1>1. /\ N \in Nat /\ Q \in Nat /\ k \in Nat /\ k <= N
      /\ \A j \in 1..N : p[j] \in Instr
      /\ r \in Seq(Instr) /\ Len(r) = N + Q /\ AcceptedRun(NewBuilder, r, g)
  BY DEF Joins
<1>2. /\ \A j \in 0..k : g[j] = f[j]
      /\ \A j \in 1..k : r[j] = p[j]
      /\ \A j \in 1..(N - k) : Counterpart(p[k + j], r[(k + Q) + j], mu)
      /\ \A j \in 0..(N - k) : MovedFrom(mu, Variables(f, k + j), Variables(g, (k + Q) + j))
  BY DEF Joins, Variables
<1>3. /\ \A j \in 0..N : Variables(f, j) \in Nat
      /\ \A j \in 1..k : Variables(f, j) <= n
      /\ \A j \in 1..N : Variables(f, j) = Variables(f, j - 1) + Len(Created(p[j]))
  <2>1. NewBuilder \in Sound
    BY NewReplays DEF Replays
  <2>2. \A j \in 0..N : f[j].builder \in Sound
    BY <2>1, AllAccepted DEF AcceptedRun
  <2>3. \A b \in Sound : b.variables \in Seq(ScopedVariable)
    BY DEF Sound, Builder
  <2>4. \A b \in Sound : Len(b.variables) \in Nat
    BY <2>3
  <2>5. /\ \A i \in 0..N : \A j \in 0..i : Grown(f[j].builder, f[i].builder)
        /\ \A j \in 1..N : Variables(f, j) = Variables(f, j - 1) + Len(Created(p[j]))
    BY <2>1, RunGrows DEF Variables
  <2>6. \A j \in 1..k : Variables(f, j) <= n
    <3>1. \A j \in 1..k : j \in 0..k
      BY <1>1
    <3>2. QED
      BY <2>5, <3>1 DEF Grown, Variables
  <2>7. QED
    BY <2>2, <2>4, <2>5, <2>6 DEF Variables
<1>4. n \in Nat
  BY <1>3
<1>5. /\ \A v \in Nat : v <= n => mu[v] = v
      /\ \A j \in Nat : pos[j] = IF j <= k THEN j ELSE j + Q
  BY <1>4 DEF Shift, Around
<1> HIDE DEF mu, pos, N, Q, n
<1>6. ASSUME NEW j \in 1..N
      PROVE  /\ pos[j] \in 1..Len(r) /\ Counterpart(p[j], r[pos[j]], mu)
             /\ \A m \in 1..Len(Created(p[j])) :
                  mu[Variables(f, j - 1) + m] = Variables(g, pos[j] - 1) + m
  <2>1. /\ j \in Nat /\ p[j] \in Instr /\ j - 1 \in 0..N
        /\ Len(Created(p[j])) \in Nat /\ Variables(f, j - 1) \in Nat
        /\ Variables(f, j) = Variables(f, j - 1) + Len(Created(p[j]))
    BY <1>1, <1>3, CreatedType
  <2>2. CASE j <= k
    <3>1. j \in 1..k /\ j - 1 \in 0..k /\ pos[j] = j /\ j \in 1..Len(r)
      BY <1>1, <1>5, <2>1, <2>2
    <3>2. r[j] = p[j] /\ Variables(g, j - 1) = Variables(f, j - 1) /\ Variables(f, j) <= n
      BY <1>2, <1>3, <3>1 DEF Variables
    <3>3. \A m \in 1..Len(Created(p[j])) : mu[Variables(f, j - 1) + m] = Variables(f, j - 1) + m
      <4>1. \A m \in 1..Len(Created(p[j])) : /\ Variables(f, j - 1) + m \in Nat
                                             /\ Variables(f, j - 1) + m <= n
        BY <1>4, <2>1, <3>2
      <4>2. QED
        BY <1>5, <4>1
    <3>4. Counterpart(p[j], p[j], mu)
      <4> DEFINE i == p[j]
      <4>1. \A s \in 1..Len(i.inputs) : i.inputs[s] \in 1..Variables(f, j - 1)
        <5>1. RunDeclares(p, f, TypesOf(p))
          BY AcceptedDeclares
        <5>2. QED
          BY <5>1 DEF RunDeclares, Variables, N
      <4>2. \A s \in 1..Len(i.inputs) : i.inputs[s] \in Nat /\ i.inputs[s] <= n
        <5>1. Variables(f, j - 1) \in Nat /\ Variables(f, j - 1) <= n
          BY <1>4, <2>1, <3>2
        <5>2. \A v \in 1..Variables(f, j - 1) : v \in Nat /\ v <= n
          BY <1>4, <5>1
        <5> HIDE DEF i
        <5>3. QED
          BY <4>1, <5>2
      <4>3. \A s \in 1..Len(i.inputs) : i.inputs[s] = mu[i.inputs[s]]
        BY <1>5, <4>2
      <4>4. i \in Instr
        BY <2>1
      <4> HIDE DEF i
      <4>5. Counterpart(i, i, mu)
        BY <4>3, <4>4 DEF Counterpart
      <4>6. QED
        BY <4>5 DEF i
    <3>5. QED
      BY <3>1, <3>2, <3>3, <3>4
  <2>3. CASE ~ (j <= k)
    <3>1. /\ j - k \in 1..(N - k) /\ (j - k) - 1 \in 0..(N - k)
          /\ k + (j - k) = j /\ k + ((j - k) - 1) = j - 1
          /\ pos[j] = (k + Q) + (j - k) /\ pos[j] - 1 = (k + Q) + ((j - k) - 1)
          /\ pos[j] \in 1..(N + Q)
      BY <1>1, <1>5, <2>1, <2>3
    <3>2. Counterpart(p[j], r[pos[j]], mu)
      BY <1>2, <3>1
    <3>3. MovedFrom(mu, Variables(f, j - 1), Variables(g, pos[j] - 1))
      BY <1>2, <3>1
    <3>4. \A m \in 1..Len(Created(p[j])) : m \in Nat \ {0}
      BY <2>1
    <3>5. QED
      BY <1>1, <3>1, <3>2, <3>3, <3>4 DEF MovedFrom
  <2>4. QED
    BY <2>2, <2>3
<1>7. Carries(p, f, r, g, pos, mu)
  BY <1>6 DEF Carries, N
<1>8. Flows(p, r, pos)
  BY <1>1, <1>7, FlowCarried
<1>9. QED
  BY <1>8 DEF pos, Q

(* And so does a program that is spliced in.                               *)
LEMMA JoinsSpliced ==
  ASSUME NEW p \in Seq(Instr), NEW f, NEW k \in 0..Len(p),
         NEW q \in Seq(Instr), NEW fq, AcceptedRun(NewBuilder, q, fq),
         NEW s, NEW h, SplicedRun(f[k].builder, q, fq, s, h),
         NEW r, NEW g, NEW mu, Joins(r, g, p, f, k, s, h, mu)
  PROVE  Flows(q, r, Beyond(k))
<1> DEFINE Q == Len(q)
           b == f[k].builder
           n == Len(b.variables)
           d == Len(b.active_scopes) - 1
           nu == Shift(0, n)
           sig == [x \in Nat |-> IF x = 1 THEN CurrentScope(b).id ELSE b.scope_counter + (x - 1)]
           pos == Beyond(k)
<1>1. /\ Len(p) \in Nat /\ Q \in Nat /\ k \in Nat /\ k <= Len(p)
      /\ \A j \in 1..Q : q[j] \in Instr
      /\ RunInStepWith(q, fq, s, h, d, nu, sig)
  BY DEF SplicedRun
<1> HIDE DEF nu, sig, d, n, b
<1>2. /\ s \in Seq(Instr) /\ Len(s) = Q
      /\ \A j \in 1..Q : Counterpart(q[j], s[j], nu)
      /\ \A j \in 0..Q : MovedFrom(nu, Variables(fq, j), Variables(h, j))
  BY <1>1 DEF RunInStepWith, InStep, Variables
<1>3. /\ r \in Seq(Instr) /\ Len(r) = Len(p) + Q /\ AcceptedRun(NewBuilder, r, g)
      /\ \A j \in 0..Q : g[k + j] = h[j]
      /\ \A j \in 1..Q : r[k + j] = s[j]
  BY <1>2 DEF Joins
<1>4. \A j \in Nat : pos[j] = j + k
  BY DEF Beyond
<1> HIDE DEF pos, Q
<1>5. ASSUME NEW j \in 1..Q
      PROVE  /\ pos[j] \in 1..Len(r) /\ Counterpart(q[j], r[pos[j]], nu)
             /\ \A m \in 1..Len(Created(q[j])) :
                  nu[Variables(fq, j - 1) + m] = Variables(g, pos[j] - 1) + m
  <2>0. j \in Nat /\ j - 1 \in 0..Q /\ q[j] \in Instr
    BY <1>1
  <2>1. pos[j] = k + j /\ pos[j] - 1 = k + (j - 1)
    <3>1. pos[j] = j + k
      BY <1>4, <2>0
    <3>2. QED
      BY <1>1, <2>0, <3>1
  <2>2. pos[j] \in 1..Len(r)
    BY <1>1, <1>3, <2>0, <2>1
  <2>3. Counterpart(q[j], r[pos[j]], nu)
    BY <1>2, <1>3, <2>1
  <2>4. MovedFrom(nu, Variables(fq, j - 1), Variables(g, pos[j] - 1))
    BY <1>2, <1>3, <2>0, <2>1 DEF Variables
  <2>5. \A m \in 1..Len(Created(q[j])) : m \in Nat \ {0}
    BY <2>0, CreatedType
  <2>6. QED
    BY <2>2, <2>3, <2>4, <2>5 DEF MovedFrom
<1>6. Carries(q, fq, r, g, pos, nu)
  BY <1>5 DEF Carries, Q
<1>7. Flows(q, r, pos)
  BY <1>3, <1>6, FlowCarried
<1>8. QED
  BY <1>7 DEF pos

-----------------------------------------------------------------------------
(* What a splice returns: a valid program with both of the others in it.   *)
Splices(r, p, k, q) ==
  r.program \in Seq(Instr) /\ IsStaticallyValid(r.program) /\ HoldsBoth(r, p, k, q)

(* A run of append_program on a sound builder.                             *)
LEMMA AppendProgramRuns ==
  ASSUME NEW b \in Sound, NEW q \in Seq(Instr), NEW n \in Nat
  PROVE  \E h : /\ Runs(b, Renumbered(q, 0, n), h)
                /\ AppendProgram(b, q, 0, n) = h[Len(Renumbered(q, 0, n))]
<1>1. Renumbered(q, 0, n) \in Seq(Instr)
  BY RenumberedCounterparts
<1>2. QED
  BY <1>1, AppendAllRuns DEF AppendProgram

(* Two programs joined by a splice are both in what it makes.              *)
LEMMA JoinedHoldsBoth ==
  ASSUME NEW p \in Seq(Instr), NEW f, AcceptedRun(NewBuilder, p, f),
         NEW k \in 0..Len(p), NEW q \in Seq(Instr), NEW fq, AcceptedRun(NewBuilder, q, fq),
         NEW s, NEW h, SplicedRun(f[k].builder, q, fq, s, h),
         NEW r, Joined(r, p, f, k, s, h)
  PROVE  Splices(r, p, k, q)
<1> DEFINE b == f[k].builder
           n == Variables(f, k)
           x == Len(h[Len(s)].builder.variables) - n
           d == Len(b.active_scopes) - 1
           nu == Shift(0, Len(b.variables))
           sig == [y \in Nat |-> IF y = 1 THEN CurrentScope(b).id ELSE b.scope_counter + (y - 1)]
<1>1. PICK g : r.result = "Ok" /\ Joins(r.program, g, p, f, k, s, h, Shift(n, x))
  BY DEF Joined, Variables
<1>2. AcceptedRun(b, s, h) /\ RunInStepWith(q, fq, s, h, d, nu, sig)
  BY DEF SplicedRun
<1> HIDE DEF nu, sig, d
<1>3. s \in Seq(Instr) /\ Len(s) = Len(q)
  BY <1>2 DEF RunInStepWith
<1>4. x \in Nat
  <2>1. NewBuilder \in Sound
    BY NewReplays DEF Replays
  <2>2. b \in Sound
    BY <2>1, AllAccepted DEF AcceptedRun
  <2> HIDE DEF b
  <2>3. \A i \in 0..Len(s) : \A j \in 0..i : Grown(h[j].builder, h[i].builder)
    BY <1>2, <1>3, <2>2, RunGrows
  <2>4. h[0].builder = b /\ 0 \in 0..Len(s) /\ Len(s) \in 0..Len(s)
    BY <1>2, <1>3 DEF AcceptedRun, Runs
  <2> DEFINE m == h[Len(s)].builder
  <2>5. Grown(b, m)
    BY <2>3, <2>4
  <2>6. m \in Sound
    BY <1>2, <1>3, <2>2, <2>4, AllAccepted DEF AcceptedRun
  <2> HIDE DEF m
  <2>7. b.variables \in Seq(ScopedVariable) /\ m.variables \in Seq(ScopedVariable)
    BY <2>2, <2>6 DEF Sound, Builder
  <2>8. Len(b.variables) \in Nat /\ Len(m.variables) \in Nat /\ Len(b.variables) <= Len(m.variables)
    BY <2>5, <2>7 DEF Grown
  <2>9. x = Len(m.variables) - Len(b.variables)
    BY DEF m, b, Variables
  <2>10. Len(m.variables) - Len(b.variables) \in Nat
    BY <2>8
  <2> HIDE DEF x
  <2>11. QED
    BY <2>9, <2>10
<1> HIDE DEF x, n
<1> DEFINE z == r.program
<1>5. Flows(p, z, Around(k, Len(q)))
  <2>1. Flows(p, z, Around(k, Len(s)))
    <3>1. Joins(z, g, p, f, k, s, h, Shift(Variables(f, k), x))
      BY <1>1 DEF n
    <3> HIDE DEF z
    <3>2. QED
      BY <1>3, <1>4, <3>1, JoinsKeeps
  <2>2. QED
    BY <1>3, <2>1
<1>6. Flows(q, z, Beyond(k))
  BY <1>1, JoinsSpliced
<1>7. z \in Seq(Instr) /\ IsStaticallyValid(z)
  BY <1>1 DEF Joins
<1>8. /\ Embeds(p, z, LAMBDA j : IF j <= k THEN j ELSE j + Len(q))
      /\ Embeds(q, z, LAMBDA j : j + k)
  <2>1. Len(q) \in Nat /\ k \in Nat
    OBVIOUS
  <2> HIDE DEF z
  <2>2. QED
    BY <1>5, <1>6, <2>1, FlowsEmbeds
<1>9. QED
  BY <1>1, <1>7, <1>8 DEF Splices, HoldsBoth

(* CombineMutator::splice makes a valid program of two valid ones, and     *)
(* both are in it.                                                         *)
LEMMA CombineHolds ==
  ASSUME NEW p \in Seq(Instr), IsStaticallyValid(p), NEW q \in Seq(Instr), IsStaticallyValid(q),
         NEW k \in 0..Len(p)
  PROVE  Splices(Combine(p, k, q), p, k, q)
<1>1. NewBuilder \in Sound
  BY NewReplays DEF Replays
<1>2. PICK f : /\ AcceptedRun(NewBuilder, p, f)
               /\ FinalizeOutcome(f[Len(p)].builder) = "Ok"
  BY ValidRun
<1>3. PICK fq : /\ AcceptedRun(NewBuilder, q, fq)
                /\ FinalizeOutcome(fq[Len(q)].builder) = "Ok"
  BY ValidRun
<1> DEFINE b == f[k].builder
           n == Len(b.variables)
           s == Renumbered(q, 0, n)
<1>4. b \in Sound
  BY <1>1, <1>2, AllAccepted DEF AcceptedRun
<1>5. AppendAll(NewBuilder, SubSeq(p, 1, k)) = f[k]
  BY <1>1, <1>2, RunOfPrefix DEF AcceptedRun
<1>6. n \in Nat
  BY <1>4 DEF Sound, Builder
<1>7. PICK h : Runs(b, s, h) /\ AppendProgram(b, q, 0, n) = h[Len(s)]
  BY <1>4, <1>6, AppendProgramRuns
<1>8. SplicedRun(b, q, fq, s, h)
  <2> HIDE DEF b
  <2>1. QED
    BY <1>3, <1>4, <1>7, SplicedIn
<1>9. s \in Seq(Instr)
  BY <1>6, RenumberedCounterparts
<1>10. AcceptedRun(b, s, h) /\ h[Len(s)].builder.active_scopes = b.active_scopes
  <2>1. Len(s) = Len(q)
    BY <1>6, RenumberedCounterparts
  <2>2. QED
    BY <1>8, <2>1 DEF SplicedRun
<1> HIDE DEF s
<1>11. Joined(Continued(p, k, f[k], h[Len(s)]), p, f, k, s, h)
  BY <1>2, <1>9, <1>10, InsertedRun
<1>12. Combine(p, k, q) = Continued(p, k, f[k], h[Len(s)])
  BY <1>5, <1>7 DEF Combine, CombineAfter, InsertAfter
<1> HIDE DEF b, n
<1>13. Splices(Continued(p, k, f[k], h[Len(s)]), p, k, q)
  <2>1. SplicedRun(f[k].builder, q, fq, s, h)
    BY <1>8 DEF b
  <2>2. QED
    BY <1>2, <1>3, <1>11, <2>1, JoinedHoldsBoth
<1>14. QED
  BY <1>12, <1>13

(* Nothing follows an insertion at the end.                                *)
LEMMA ContinuedAtEnd ==
  ASSUME NEW p \in Seq(Instr), NEW b \in Sound, NEW m \in Sound, Grown(b, m),
         FinalizeOutcome(m) = "Ok"
  PROVE  Continued(p, Len(p), [result |-> "Ok", builder |-> b], [result |-> "Ok", builder |-> m])
           = [result |-> "Ok", program |-> m.instructions]
<1> DEFINE n == Len(b.variables)
           x == Len(m.variables) - n
           rest == SubSeq(p, Len(p) + 1, Len(p))
           moved == Renumbered(rest, n, x)
           before == [result |-> "Ok", builder |-> b]
           middle == [result |-> "Ok", builder |-> m]
<1>1. n \in Nat /\ x \in Nat
  <2>1. b.variables \in Seq(ScopedVariable) /\ m.variables \in Seq(ScopedVariable)
    BY DEF Sound, Builder
  <2>2. Len(b.variables) \in Nat /\ Len(m.variables) \in Nat /\ Len(b.variables) <= Len(m.variables)
    BY <2>1 DEF Grown
  <2>3. QED
    BY <2>2
<1>2. rest \in Seq(Instr) /\ Len(rest) = 0
  OBVIOUS
<1> HIDE DEF n, x, rest
<1>3. moved \in Seq(Instr) /\ Len(moved) = 0
  BY <1>1, <1>2, RenumberedCounterparts
<1> HIDE DEF moved
<1>4. PICK e : Runs(m, moved, e) /\ AppendAll(m, moved) = e[Len(moved)]
  BY <1>3, AppendAllRuns
<1>5. AppendAll(m, moved) = middle
  BY <1>3, <1>4 DEF Runs
<1>6. Continued(p, Len(p), before, middle) = Inserted(p, before, middle, middle)
  BY <1>5 DEF Continued, AppendProgram, n, x, rest, moved
<1>7. QED
  BY <1>6 DEF Inserted, IsComplete

(* ConcatMutator::splice does the same at the end of the program.          *)
LEMMA ConcatHolds ==
  ASSUME NEW p \in Seq(Instr), IsStaticallyValid(p), NEW q \in Seq(Instr), IsStaticallyValid(q)
  PROVE  Splices(Concat(p, q), p, Len(p), q)
<1> DEFINE N == Len(p)
<1>1. NewBuilder \in Sound /\ N \in 0..N
  BY NewReplays DEF Replays
<1>2. PICK f : /\ AcceptedRun(NewBuilder, p, f) /\ AppendAll(NewBuilder, p) = f[N]
               /\ FinalizeOutcome(f[N].builder) = "Ok"
  BY ValidRun
<1>3. PICK fq : /\ AcceptedRun(NewBuilder, q, fq)
                /\ FinalizeOutcome(fq[Len(q)].builder) = "Ok"
  BY ValidRun
<1> DEFINE b == f[N].builder
           n == Len(b.variables)
           s == Renumbered(q, 0, n)
<1>4. b \in Sound /\ f[N] = [result |-> "Ok", builder |-> b]
  <2>1. f[N] \in Run /\ f[N].result = "Ok"
    BY <1>1, <1>2 DEF AcceptedRun, Runs
  <2>2. QED
    BY <2>1 DEF Run, Errors
<1>5. n \in Nat
  BY <1>4 DEF Sound, Builder
<1>6. PICK h : Runs(b, s, h) /\ AppendProgram(b, q, 0, n) = h[Len(s)]
  BY <1>4, <1>5, AppendProgramRuns
<1>7. SplicedRun(b, q, fq, s, h)
  <2> HIDE DEF b
  <2>1. QED
    BY <1>3, <1>4, <1>6, SplicedIn
<1>8. s \in Seq(Instr) /\ Len(s) = Len(q)
  BY <1>5, RenumberedCounterparts
<1>9. AcceptedRun(b, s, h) /\ h[Len(s)].builder.active_scopes = b.active_scopes
  BY <1>7, <1>8 DEF SplicedRun
<1> HIDE DEF s
<1>10. Joined(Continued(p, N, f[N], h[Len(s)]), p, f, N, s, h)
  BY <1>1, <1>2, <1>8, <1>9, InsertedRun
<1> DEFINE m == h[Len(s)].builder
<1> HIDE DEF b, n
<1>11. m \in Sound /\ h[Len(s)] = [result |-> "Ok", builder |-> m]
  <2>1. h[Len(s)] \in Run /\ h[Len(s)].result = "Ok"
    BY <1>8, <1>9 DEF AcceptedRun, Runs
  <2>2. QED
    BY <2>1 DEF Run, Errors
<1>12. Grown(b, m)
  <2>1. \A i \in 0..Len(s) : \A j \in 0..i : Grown(h[j].builder, h[i].builder)
    BY <1>4, <1>8, <1>9, RunGrows
  <2>2. h[0].builder = b /\ 0 \in 0..Len(s) /\ Len(s) \in 0..Len(s)
    BY <1>8, <1>9 DEF AcceptedRun, Runs
  <2>3. QED
    BY <2>1, <2>2
<1>13. FinalizeOutcome(m) = "Ok"
  <2>1. Len(b.active_scopes) = 1
    BY <1>2 DEF FinalizeOutcome, b
  <2>2. m \in Builder /\ ScopesOK(m) /\ Len(m.active_scopes) = 1
    BY <1>9, <1>11, <2>1 DEF Sound
  <2> HIDE DEF m
  <2>3. FinalizeOutcome(m) # "Panic"
    BY <2>2, FinalizeDoesNotPanic
  <2>4. QED
    BY <2>2, <2>3 DEF FinalizeOutcome
<1>14. Concat(p, q) = [result |-> "Ok", program |-> m.instructions]
  <2>1. AppendProgram(NewBuilder, p, 0, 0) = f[N]
    BY <1>2, RenumberedByNothing DEF AppendProgram
  <2>2. AppendProgram(f[N].builder, q, 0, Len(f[N].builder.variables)) = h[Len(s)]
    BY <1>6 DEF b, n
  <2>3. f[N].result = "Ok"
    BY <1>4
  <2>4. Concat(p, q) = Concatenated(p, h[Len(s)])
    BY <2>1, <2>2, <2>3 DEF Concat, ConcatAfter
  <2>5. IsComplete(h[Len(s)])
    BY <1>11, <1>13 DEF IsComplete
  <2>6. QED
    BY <2>4, <2>5 DEF Concatenated
<1> HIDE DEF m
<1>15. Continued(p, N, f[N], h[Len(s)]) = [result |-> "Ok", program |-> m.instructions]
  BY <1>4, <1>11, <1>12, <1>13, ContinuedAtEnd
<1>16. Splices(Continued(p, N, f[N], h[Len(s)]), p, N, q)
  <2>1. SplicedRun(f[N].builder, q, fq, s, h)
    BY <1>7 DEF b
  <2>2. QED
    BY <1>1, <1>2, <1>3, <1>10, <2>1, JoinedHoldsBoth
<1>17. QED
  BY <1>14, <1>15, <1>16

-----------------------------------------------------------------------------
(* An instruction that begins or ends no block, in a builder that has what *)
(* it takes: it is accepted, the scopes stay, and what was visible is.     *)
Has(b, i) ==
  /\ Len(i.inputs) = Len(Signature[i.op].in)
  /\ \A k \in 1..Len(i.inputs) : i.inputs[k] \in VisibleOf(b, Signature[i.op].in[k])

LEMMA PlainStep ==
  ASSUME NEW b \in Sound, NEW i \in Instr, i.op \notin Begins \cup Ends \cup NopOp,
         i.arg < ArgLimit[i.op], Has(b, i)
  PROVE  /\ Outcome(b, i) = "Ok" /\ Appended(b, i) \in Sound
         /\ Appended(b, i).active_scopes = b.active_scopes
         /\ \A type : VisibleOf(b, type) \subseteq VisibleOf(Appended(b, i), type)
         /\ \A k \in 1..Len(Created(i)) :
              Len(b.variables) + k \in VisibleOf(Appended(b, i), Created(i)[k])
<1> DEFINE a == Appended(b, i)
           n == Len(b.variables)
           c == Len(Created(i))
<1>1. /\ b \in Builder /\ ScopesOK(b) /\ b.active_scopes # <<>> /\ n \in Nat /\ c \in Nat
      /\ i.arg \in Nat /\ i.op \in Op
  BY CreatedType DEF Sound, Builder, ScopesOK, ScopeStack, Instr
<1>2. \A k \in 1..Len(i.inputs) : /\ InScope(b, i.inputs[k])
                                  /\ b.variables[i.inputs[k]].var = Signature[i.op].in[k]
  BY DEF Has, VisibleOf
<1>3. Outcome(b, i) = "Ok"
  <2>1. ~ Panics(b, i)
    BY <1>1 DEF Panics
  <2>2. ~ (i.arg >= ArgLimit[i.op])
    <3>1. ArgLimit[i.op] \in Nat
      BY <1>1, IRAssumption
    <3>2. QED
      BY <1>1, <3>1
  <2>3. Len(i.inputs) = Len(Signature[i.op].in)
    BY DEF Has
  <2>4. QED
    BY <1>2, <2>1, <2>2, <2>3 DEF Outcome
<1>4. a \in Sound /\ NextFields(b, i, a)
  BY <1>3, AcceptedIsSound, AcceptedFields
<1> HIDE DEF a, n, c
<1>5. a.active_scopes = b.active_scopes
  BY <1>4 DEF NextFields, Entered, Left
<1>6. a.active_scopes_set = b.active_scopes_set
  <2>1. ScopesOK(a)
    BY <1>4 DEF Sound
  <2>2. QED
    BY <1>1, <1>5, <2>1 DEF ScopesOK, ScopeStack
<1>7. /\ Len(a.variables) = n + c
      /\ \A v \in 1..n : a.variables[v] = b.variables[v]
      /\ \A k \in 1..c : a.variables[n + k] = [var |-> Created(i)[k], scope_id |-> CurrentScope(a).id]
  BY <1>4 DEF NextFields, HasMore, n, c
<1>8. \A v \in 1..n : v \in 1..(n + c)
  BY <1>1
<1>9. \A k \in 1..c : n + k \in 1..(n + c)
  BY <1>1
<1>10. ASSUME NEW type
       PROVE  VisibleOf(b, type) \subseteq VisibleOf(a, type)
  <2> SUFFICES ASSUME NEW v \in VisibleOf(b, type)
               PROVE  v \in VisibleOf(a, type)
    OBVIOUS
  <2>1. /\ v \in 1..n /\ b.variables[v].scope_id \in b.active_scopes_set
        /\ b.variables[v].var = type
    BY DEF VisibleOf, InScope, Indices, n
  <2>2. v \in 1..Len(a.variables) /\ a.variables[v] = b.variables[v]
    BY <1>7, <1>8, <2>1
  <2>3. QED
    BY <1>6, <2>1, <2>2 DEF VisibleOf, InScope, Indices
<1>11. CurrentScope(a).id \in a.active_scopes_set
  <2>1. a.active_scopes \in Seq(Scope)
    BY <1>4 DEF Sound, Builder
  <2>2. Len(a.active_scopes) \in 1..Len(a.active_scopes)
    BY <1>1, <1>5, <2>1
  <2>3. ScopesOK(a)
    BY <1>4 DEF Sound
  <2>4. QED
    BY <2>2, <2>3 DEF ScopesOK, ScopeStack, CurrentScope
<1>12. ASSUME NEW k \in 1..c
       PROVE  n + k \in VisibleOf(a, Created(i)[k])
  <2>1. n + k \in 1..Len(a.variables)
    BY <1>7, <1>9
  <2>2. a.variables[n + k].var = Created(i)[k] /\ a.variables[n + k].scope_id = CurrentScope(a).id
    <3>1. \A x, y, z : z = [var |-> x, scope_id |-> y] => z.var = x /\ z.scope_id = y
      OBVIOUS
    <3>2. a.variables[n + k] = [var |-> Created(i)[k], scope_id |-> CurrentScope(a).id]
      BY <1>7
    <3>3. QED
      BY <3>1, <3>2
  <2> DEFINE v == n + k
  <2>3. /\ v \in 1..Len(a.variables) /\ a.variables[v].var = Created(i)[k]
        /\ a.variables[v].scope_id = CurrentScope(a).id
    BY <2>1, <2>2
  <2> HIDE DEF v
  <2>4. v \in VisibleOf(a, Created(i)[k])
    BY <1>11, <2>3 DEF VisibleOf, InScope, Indices
  <2>5. QED
    BY <2>4 DEF v
<1>13. QED
  BY <1>3, <1>4, <1>5, <1>10, <1>12 DEF a, n, c

(* What a builder accepts and leaves its scopes as they are.               *)
Fits(b, q) ==
  /\ q \in Seq(Instr)
  /\ \A h : Runs(b, q, h) => /\ AcceptedRun(b, q, h)
                             /\ h[Len(q)].builder.active_scopes = b.active_scopes

(* One plain instruction, or two.                                          *)
Plain(b, i) ==
  /\ i \in Instr /\ i.op \notin Begins \cup Ends \cup NopOp
  /\ i.arg < ArgLimit[i.op] /\ Has(b, i)

LEMMA PlainFits ==
  ASSUME NEW b \in Sound, NEW i, Plain(b, i)
  PROVE  /\ Fits(b, <<i>>)
         /\ \A j : Plain(Appended(b, i), j) => Fits(b, <<i, j>>)
<1> DEFINE a == Appended(b, i)
<1>1. i \in Instr /\ Outcome(b, i) = "Ok" /\ a \in Sound /\ a.active_scopes = b.active_scopes
  BY PlainStep DEF Plain
<1>2. ASSUME NEW q \in Seq(Instr), NEW h, Runs(b, q, h), Len(q) >= 1, q[1] = i
      PROVE  h[1] = [result |-> "Ok", builder |-> a]
  <2>1. 1 \in 1..Len(q) /\ 1 - 1 = 0
    BY <1>2
  <2>2. h[0] = [result |-> "Ok", builder |-> b] /\ h[1] = AfterStep(h[1 - 1], q[1])
    BY <1>2, <2>1 DEF Runs
  <2>3. h[1] = AfterStep(h[0], i)
    BY <1>2, <2>1, <2>2
  <2>4. AfterStep([result |-> "Ok", builder |-> b], i) = [result |-> "Ok", builder |-> a]
    BY <1>1 DEF AfterStep, AppendReturning
  <2>5. QED
    BY <2>2, <2>3, <2>4
<1> HIDE DEF a
<1>3. Fits(b, <<i>>)
  <2>1. <<i>> \in Seq(Instr) /\ Len(<<i>>) = 1 /\ <<i>>[1] = i
    BY <1>1
  <2> DEFINE q == <<i>>
  <2> HIDE DEF q
  <2>2. ASSUME NEW h, Runs(b, q, h)
        PROVE  AcceptedRun(b, q, h) /\ h[Len(q)].builder.active_scopes = b.active_scopes
    <3>1. q \in Seq(Instr) /\ Len(q) = 1 /\ q[1] = i
      BY <2>1 DEF q
    <3>2. h[1] = [result |-> "Ok", builder |-> a]
      BY <1>2, <2>2, <3>1
    <3>3. QED
      BY <1>1, <2>2, <3>1, <3>2 DEF AcceptedRun
  <2>3. QED
    BY <2>1, <2>2 DEF Fits, q
<1>4. ASSUME NEW j, Plain(a, j)
      PROVE  Fits(b, <<i, j>>)
  <2> DEFINE e == Appended(a, j)
  <2>1. j \in Instr /\ Outcome(a, j) = "Ok" /\ e.active_scopes = a.active_scopes
    BY <1>1, <1>4, PlainStep DEF Plain
  <2>2. AfterStep([result |-> "Ok", builder |-> a], j) = [result |-> "Ok", builder |-> e]
    BY <2>1 DEF AfterStep, AppendReturning
  <2> HIDE DEF e
  <2>3. <<i, j>> \in Seq(Instr) /\ Len(<<i, j>>) = 2 /\ <<i, j>>[1] = i /\ <<i, j>>[2] = j
    BY <1>1, <2>1
  <2> DEFINE q == <<i, j>>
  <2> HIDE DEF q
  <2>4. ASSUME NEW h, Runs(b, q, h)
        PROVE  AcceptedRun(b, q, h) /\ h[Len(q)].builder.active_scopes = b.active_scopes
    <3>1. q \in Seq(Instr) /\ Len(q) = 2 /\ q[1] = i /\ q[2] = j
      BY <2>3 DEF q
    <3>2. h[1] = [result |-> "Ok", builder |-> a]
      BY <1>2, <2>4, <3>1
    <3>3. h[2] = AfterStep(h[1], j)
      <4>1. 2 \in 1..Len(q) /\ 2 - 1 = 1
        BY <3>1
      <4>2. h[2] = AfterStep(h[2 - 1], q[2])
        BY <2>4, <4>1 DEF Runs
      <4>3. QED
        BY <3>1, <4>1, <4>2
    <3>4. h[2] = [result |-> "Ok", builder |-> e]
      BY <2>2, <3>2, <3>3
    <3>5. QED
      BY <1>1, <2>1, <2>4, <3>1, <3>4 DEF AcceptedRun
  <2>5. QED
    BY <2>3, <2>4 DEF Fits, q
<1>5. QED
  BY <1>3, <1>4 DEF a

-----------------------------------------------------------------------------
(* The instructions of the two generators, each with what it takes.        *)
LEMMA LoadIsPlain ==
  ASSUME NEW b \in Sound, NEW op, NEW type, Takes(op, <<>>, <<type>>)
  PROVE  LET i == Instruction(op, <<>>)
         IN  /\ Plain(b, i) /\ Appended(b, i) \in Sound
             /\ Len(b.variables) + 1 \in VisibleOf(Appended(b, i), type)
             /\ \A t : VisibleOf(b, t) \subseteq VisibleOf(Appended(b, i), t)
<1> DEFINE i == Instruction(op, <<>>)
<1>1. /\ op \in Op \ (Begins \cup Ends \cup NopOp) /\ ArgLimit[op] > 0
      /\ Signature[op].in = <<>> /\ Signature[op].out = <<type>> /\ Signature[op].inner = <<>>
  BY IRAssumption DEF Takes
<1>2. <<>> \in Seq(Nat) /\ Len(<<>>) = 0 /\ <<type>> \o <<>> = <<type>>
      /\ Len(<<type>>) = 1 /\ <<type>>[1] = type
  OBVIOUS
<1>3. i \in Instr /\ i.op = op /\ i.inputs = <<>> /\ i.arg = 0
  BY <1>1, <1>2 DEF Instruction, Instr
<1> HIDE DEF i
<1>4. Plain(b, i)
  BY <1>1, <1>2, <1>3 DEF Plain, Has
<1>5. Created(i) = <<type>>
  BY <1>1, <1>2, <1>3 DEF Created
<1>6. 1 \in 1..Len(Created(i)) /\ Created(i)[1] = type
  BY <1>2, <1>5
<1>7. /\ Appended(b, i) \in Sound
      /\ \A t : VisibleOf(b, t) \subseteq VisibleOf(Appended(b, i), t)
      /\ \A k \in 1..Len(Created(i)) : Len(b.variables) + k \in VisibleOf(Appended(b, i), Created(i)[k])
  BY <1>4, PlainStep DEF Plain
<1>8. Len(b.variables) + 1 \in VisibleOf(Appended(b, i), type)
  BY <1>6, <1>7
<1>9. QED
  BY <1>4, <1>7, <1>8 DEF i

(* An instruction that uses two visible variables and makes none.          *)
LEMMA UseIsPlain ==
  ASSUME NEW b \in Sound, NEW op, NEW type, NEW other, Takes(op, <<type, other>>, <<>>),
         NEW v \in VisibleOf(b, type), NEW w \in VisibleOf(b, other)
  PROVE  Plain(b, Instruction(op, <<v, w>>))
<1> DEFINE i == Instruction(op, <<v, w>>)
<1>1. /\ op \in Op \ (Begins \cup Ends \cup NopOp) /\ ArgLimit[op] > 0
      /\ Signature[op].in = <<type, other>>
  BY DEF Takes
<1>2. v \in Nat /\ w \in Nat
  BY DEF VisibleOf, Indices
<1>3. <<v, w>> \in Seq(Nat) /\ Len(<<v, w>>) = 2 /\ <<v, w>>[1] = v /\ <<v, w>>[2] = w
      /\ Len(<<type, other>>) = 2 /\ <<type, other>>[1] = type /\ <<type, other>>[2] = other
  BY <1>2
<1>4. i \in Instr /\ i.op = op /\ i.inputs = <<v, w>> /\ i.arg = 0
  BY <1>1, <1>3 DEF Instruction, Instr
<1> HIDE DEF i
<1>5. \A k \in 1..2 : <<v, w>>[k] \in VisibleOf(b, <<type, other>>[k])
  <2>1. \A k \in 1..2 : k = 1 \/ k = 2
    OBVIOUS
  <2>2. QED
    BY <1>3, <2>1
<1>6. Has(b, i)
  BY <1>1, <1>3, <1>4, <1>5 DEF Has
<1>7. QED
  BY <1>1, <1>4, <1>6 DEF Plain, i

(* What the generators append is accepted where they append it.            *)
LEMMA GeneratedFits ==
  ASSUME NEW b \in Sound, NEW generator, NEW g \in Generated(generator, b)
  PROVE  Fits(b, g)
<1> DEFINE n == Len(b.variables)
<1>1. CASE g \in WitnessGenerator(b)
  <2> DEFINE stacks == VisibleOf(b, "MutWitnessStack")
             top == Max(stacks)
             i == Instruction("LoadBytes", <<>>)
             j == Instruction("AddWitness", <<top, n + 1>>)
  <2>1. stacks # {} /\ g = <<i, j>>
    BY <1>1 DEF WitnessGenerator
  <2>2. top \in stacks
    <3>1. stacks \subseteq 1..n /\ n \in Nat
      BY DEF VisibleOf, Indices, Sound, Builder
    <3> HIDE DEF stacks, n
    <3>2. QED
      BY <2>1, <3>1, MaxOfNumbers
  <2> HIDE DEF top
  <2>3. /\ Plain(b, i) /\ Appended(b, i) \in Sound
        /\ n + 1 \in VisibleOf(Appended(b, i), "Bytes")
        /\ stacks \subseteq VisibleOf(Appended(b, i), "MutWitnessStack")
    BY LoadIsPlain, GeneratorsAssumption
  <2>4. Plain(Appended(b, i), j)
    <3>1. top \in VisibleOf(Appended(b, i), "MutWitnessStack")
      BY <2>2, <2>3
    <3> HIDE DEF i, stacks, n
    <3>2. QED
      BY <2>3, <3>1, UseIsPlain, GeneratorsAssumption
  <2> HIDE DEF i, j
  <2>5. QED
    BY <2>1, <2>3, <2>4, PlainFits
<1>2. CASE g \in GetDataGenerator(b)
  <2> DEFINE connections == VisibleOf(b, "Connection")
             On(c, inv) == Instruction("SendGetData", <<c, inv>>)
             i == Instruction("LoadConnection", <<>>)
  <2>1. CASE connections # {}
    <3>1. PICK c \in connections, inv \in VisibleOf(b, "ConstInventory") : g = <<On(c, inv)>>
      <4>1. GetDataGenerator(b) =
              { <<On(c, inv)>> : c \in connections, inv \in VisibleOf(b, "ConstInventory") }
        BY <2>1 DEF GetDataGenerator
      <4> HIDE DEF On, connections
      <4>2. QED
        BY <1>2, <4>1
    <3>2. Takes("SendGetData", <<"Connection", "ConstInventory">>, <<>>)
      BY GeneratorsAssumption
    <3>3. Plain(b, On(c, inv))
      BY <3>2, UseIsPlain
    <3> HIDE DEF On
    <3>4. QED
      BY <3>1, <3>3, PlainFits
  <2>2. CASE connections = {}
    <3>1. PICK inv \in VisibleOf(b, "ConstInventory") : g = <<i, On(n + 1, inv)>>
      BY <1>2, <2>2 DEF GetDataGenerator
    <3>2. /\ Plain(b, i) /\ Appended(b, i) \in Sound
          /\ n + 1 \in VisibleOf(Appended(b, i), "Connection")
          /\ inv \in VisibleOf(Appended(b, i), "ConstInventory")
      BY LoadIsPlain, GeneratorsAssumption
    <3> HIDE DEF i, n
    <3>3. Plain(Appended(b, i), On(n + 1, inv))
      BY <3>2, UseIsPlain, GeneratorsAssumption
    <3> HIDE DEF On
    <3>4. QED
      BY <3>1, <3>2, <3>3, PlainFits
  <2>3. QED
    BY <2>1, <2>2
<1>3. QED
  BY <1>1, <1>2 DEF Generated

-----------------------------------------------------------------------------
Inserts(r, p, k, g) ==
  r.program \in Seq(Instr) /\ IsStaticallyValid(r.program) /\ HoldsWith(r, p, k, g)

(* The generator runs on a builder that its part of the program made, and  *)
(* the program it generates in stays valid and keeps its dataflow.         *)
LEMMA InsertHolds ==
  ASSUME NEW p \in Seq(Instr), IsStaticallyValid(p), NEW k \in 0..Len(p)
  PROVE  LET prefix == AppendAll(NewBuilder, SubSeq(p, 1, k))
         IN  /\ prefix.result = "Ok"
             /\ \A generator : \A g \in Generated(generator, prefix.builder) :
                  Inserts(Insert(p, k, g), p, k, g)
<1> DEFINE prefix == AppendAll(NewBuilder, SubSeq(p, 1, k))
<1>1. NewBuilder \in Sound
  BY NewReplays DEF Replays
<1>2. PICK f : /\ AcceptedRun(NewBuilder, p, f)
               /\ FinalizeOutcome(f[Len(p)].builder) = "Ok"
  BY ValidRun
<1> DEFINE b == f[k].builder
<1>3. b \in Sound /\ f[k].result = "Ok"
  BY <1>1, <1>2, AllAccepted DEF AcceptedRun
<1>4. prefix = f[k]
  BY <1>1, <1>2, RunOfPrefix DEF AcceptedRun
<1>5. ASSUME NEW generator, NEW g \in Generated(generator, b)
      PROVE  Inserts(Insert(p, k, g), p, k, g)
  <2> HIDE DEF b
  <2>1. g \in Seq(Instr) /\ Fits(b, g)
    BY <1>3, GeneratedFits DEF Fits
  <2>2. PICK h : Runs(b, g, h) /\ AppendAll(b, g) = h[Len(g)]
    BY <1>3, <2>1, AppendAllRuns
  <2>3. AcceptedRun(b, g, h) /\ h[Len(g)].builder.active_scopes = b.active_scopes
    BY <2>1, <2>2 DEF Fits
  <2> DEFINE r == Continued(p, k, f[k], h[Len(g)])
  <2>4. Joined(r, p, f, k, g, h)
    BY <1>2, <2>1, <2>3, InsertedRun DEF b
  <2>5. Insert(p, k, g) = r
    <3>1. AppendProgram(b, g, 0, 0) = h[Len(g)]
      BY <2>1, <2>2, RenumberedByNothing DEF AppendProgram
    <3>2. QED
      BY <1>4, <3>1 DEF Insert, InsertAfter, b
  <2> HIDE DEF r
  <2> DEFINE n == Variables(f, k)
             x == Len(h[Len(g)].builder.variables) - n
  <2>6. PICK e : r.result = "Ok" /\ Joins(r.program, e, p, f, k, g, h, Shift(n, x))
    BY <2>4 DEF Joined, Variables
  <2>7. x \in Nat
    <3> DEFINE m == h[Len(g)].builder
    <3>1. \A i \in 0..Len(g) : \A j \in 0..i : Grown(h[j].builder, h[i].builder)
      BY <1>3, <2>1, <2>3, RunGrows
    <3>2. h[0].builder = b /\ 0 \in 0..Len(g) /\ Len(g) \in 0..Len(g)
      BY <2>1, <2>2 DEF Runs
    <3>3. Grown(b, m)
      BY <3>1, <3>2
    <3>4. m \in Sound
      BY <1>3, <2>1, <2>3, <3>2, AllAccepted DEF AcceptedRun
    <3> HIDE DEF m
    <3>5. b.variables \in Seq(ScopedVariable) /\ m.variables \in Seq(ScopedVariable)
      BY <1>3, <3>4 DEF Sound, Builder
    <3>6. Len(b.variables) \in Nat /\ Len(m.variables) \in Nat /\ Len(b.variables) <= Len(m.variables)
      BY <3>3, <3>5 DEF Grown
    <3>7. x = Len(m.variables) - Len(b.variables)
      BY DEF m, b, Variables
    <3>8. Len(m.variables) - Len(b.variables) \in Nat
      BY <3>6
    <3> HIDE DEF x
    <3>9. QED
      BY <3>7, <3>8
  <2> DEFINE z == r.program
  <2>8. Flows(p, z, Around(k, Len(g)))
    <3>1. Joins(z, e, p, f, k, g, h, Shift(Variables(f, k), x))
      BY <2>6
    <3> HIDE DEF z, x, n
    <3>2. QED
      BY <1>2, <2>1, <2>7, <3>1, JoinsKeeps
  <2>9. z \in Seq(Instr) /\ IsStaticallyValid(z)
    BY <2>6 DEF Joins
  <2>10. Embeds(p, z, LAMBDA j : IF j <= k THEN j ELSE j + Len(g))
    <3>1. Len(g) \in Nat /\ k \in Nat
      BY <2>1
    <3> HIDE DEF z
    <3>2. QED
      BY <2>8, <3>1, FlowsEmbeds
  <2>11. QED
    BY <2>5, <2>6, <2>9, <2>10 DEF Inserts, HoldsWith
<1> HIDE DEF prefix
<1>6. prefix.result = "Ok" /\ prefix.builder = b
  BY <1>3, <1>4
<1>7. QED
  BY <1>5, <1>6 DEF prefix

-----------------------------------------------------------------------------
(* The inductive invariant: the validity of the program carries itself     *)
(* from step to step, and while no mutator was counted the program is the  *)
(* testcase, which is what the metadata describes.                         *)
MutationInvariant ==
  /\ TypeOK
  /\ ProgramsStayValid
  /\ mutation_idx = 0 => program = Corpus[testcase]

(* What a mutator may leave behind.                                        *)
Sane ==
  /\ program \in Seq(Instr) /\ Len(program) <= MaxLength /\ IsStaticallyValid(program)
  /\ mutated \in BOOLEAN /\ result \in Results \ {"Panic"}

(* What is adopted is no longer than allowed, and else nothing changes.    *)
LEMMA AdoptingIsSane ==
  ASSUME Sane, NEW r, r.program \in Seq(Instr), IsStaticallyValid(r.program), Adopts(r)
  PROVE  Sane'
<1>1. CASE r.result = "Ok" /\ Len(r.program) <= MaxLength
  BY <1>1 DEF Adopts, Mutates, Sane, Results
<1>2. CASE ~ (r.result = "Ok" /\ Len(r.program) <= MaxLength)
  BY <1>2 DEF Adopts, Skips, Sane, Results
<1>3. QED
  BY <1>1, <1>2

(* A skip changes nothing.                                                 *)
LEMMA SkippingIsSane == Sane /\ Skips => Sane'
BY DEF Sane, Skips, Results

(* A program of the same length that is valid may replace the mutated one. *)
LEMMA MutatingIsSane ==
  ASSUME Sane, NEW q \in Seq(Instr), Len(q) = Len(program), IsStaticallyValid(q), Mutates(q)
  PROVE  Sane'
BY DEF Sane, Mutates, Results

(* The InputMutator finds the old input among the visible variables, and   *)
(* the replacement keeps the program valid without validating it again.    *)
LEMMA InputStaysSane == Sane /\ MutateInput => Sane'
<1> SUFFICES ASSUME Sane, MutateInput PROVE Sane'
  OBVIOUS
<1>1. program \in Seq(Instr) /\ IsStaticallyValid(program)
  BY DEF Sane
<1>2. CASE Skips
  BY <1>2, SkippingIsSane
<1>3. ASSUME NEW k \in Indices(program), NEW s \in Indices(program[k].inputs),
             IF program[k].inputs[s] \notin DOMAIN Visible(Lookup(SubSeq(program, 1, k - 1)))
             THEN result' = "Panic" /\ UNCHANGED <<program, mutated>>
             ELSE \/ Skips
                  \/ \E v \in InputReplacements(program, k, s) :
                       Mutates([program EXCEPT ![k].inputs[s] = v])
      PROVE  Sane'
  <2>1. /\ program[k].inputs[s] \in DOMAIN Visible(Lookup(SubSeq(program, 1, k - 1)))
        /\ \A v \in InputReplacements(program, k, s) :
             LET q == [program EXCEPT ![k].inputs[s] = v]
             IN  q \in Seq(Instr) /\ Len(q) = Len(program) /\ IsStaticallyValid(q)
    BY <1>1, ReplacingInput
  <2>2. CASE Skips
    BY <2>2, SkippingIsSane
  <2>3. ASSUME NEW v \in InputReplacements(program, k, s),
               Mutates([program EXCEPT ![k].inputs[s] = v])
        PROVE  Sane'
    BY <2>1, <2>3, MutatingIsSane
  <2>4. QED
    BY <1>3, <2>1, <2>2, <2>3
<1>4. QED
  BY <1>2, <1>3 DEF MutateInput

(* What the OperationMutator exchanges fits where it is put.               *)
LEMMA OperationStaysSane == Sane /\ MutateOperation => Sane'
<1> SUFFICES ASSUME Sane, MutateOperation PROVE Sane'
  OBVIOUS
<1>1. program \in Seq(Instr) /\ IsStaticallyValid(program)
  BY DEF Sane
<1>2. CASE Skips
  BY <1>2, SkippingIsSane
<1>3. ASSUME NEW k \in Indices(program), OperationMutable[program[k].op],
             NEW op \in OpsInstead[program[k].op],
             NEW arg \in ArgsInstead(program[k].op, program[k].arg),
             Mutates([program EXCEPT ![k].op = op, ![k].arg = arg])
      PROVE  Sane'
  <2> DEFINE q == [program EXCEPT ![k].op = op, ![k].arg = arg]
  <2>1. q \in Seq(Instr) /\ Len(q) = Len(program) /\ IsStaticallyValid(q)
    BY <1>1, <1>3, ReplacingOperation
  <2>2. Mutates(q)
    BY <1>3
  <2> HIDE DEF q
  <2>3. QED
    BY <2>1, <2>2, MutatingIsSane
<1>4. QED
  BY <1>2, <1>3 DEF MutateOperation

(* A splice makes a valid program of two valid ones.                       *)
LEMMA SplicingStaysSane == Sane /\ Splice => Sane'
<1> SUFFICES ASSUME Sane, Splice PROVE Sane'
  OBVIOUS
<1>1. program \in Seq(Instr) /\ IsStaticallyValid(program)
  BY DEF Sane
<1>2. ASSUME NEW t, NEW r, r.program \in Seq(Instr), IsStaticallyValid(r.program),
             SpliceWith(t, r)
      PROVE  Sane'
  <2>1. Skips \/ Adopts(r)
    BY <1>2 DEF SpliceWith
  <2>2. QED
    BY <1>2, <2>1, SkippingIsSane, AdoptingIsSane
<1>3. ASSUME NEW t \in DOMAIN Corpus,
             \/ \E k \in InsertionIndices(program, Global) :
                  SpliceWith(t, Combine(program, k, Corpus[t]))
             \/ SpliceWith(t, Concat(program, Corpus[t]))
      PROVE  Sane'
  <2>1. Corpus[t] \in Seq(Instr) /\ IsStaticallyValid(Corpus[t])
    BY CorpusAssumption
  <2>2. CASE \E k \in InsertionIndices(program, Global) :
               SpliceWith(t, Combine(program, k, Corpus[t]))
    <3>1. PICK k \in InsertionIndices(program, Global) :
            SpliceWith(t, Combine(program, k, Corpus[t]))
      BY <2>2
    <3>2. k \in 0..Len(program)
      BY <1>1, InsertionPoint
    <3>3. Splices(Combine(program, k, Corpus[t]), program, k, Corpus[t])
      BY <1>1, <2>1, <3>2, CombineHolds
    <3>4. QED
      BY <1>2, <3>1, <3>3 DEF Splices
  <2>3. CASE SpliceWith(t, Concat(program, Corpus[t]))
    <3>1. Splices(Concat(program, Corpus[t]), program, Len(program), Corpus[t])
      BY <1>1, <2>1, ConcatHolds
    <3>2. QED
      BY <1>2, <2>3, <3>1 DEF Splices
  <2>4. QED
    BY <1>3, <2>2, <2>3
<1>4. QED
  BY <1>3 DEF Splice

(* The part of the program before the insertion point can always be built  *)
(* again, and what is generated there is accepted.                         *)
LEMMA GeneratingStaysSane ==
  ASSUME Sane, NEW generator, Generate(generator)
  PROVE  Sane'
<1>1. program \in Seq(Instr) /\ IsStaticallyValid(program)
  BY DEF Sane
<1>2. PICK k \in InsertionIndices(program, RequestedContext[generator]) :
        GenerateAfter(AppendAll(NewBuilder, SubSeq(program, 1, k)), generator, k)
  BY DEF Generate
<1> DEFINE prefix == AppendAll(NewBuilder, SubSeq(program, 1, k))
<1>3. k \in 0..Len(program)
  BY <1>1, InsertionPoint
<1>4. /\ prefix.result = "Ok"
      /\ \A g \in Generated(generator, prefix.builder) :
           Inserts(Insert(program, k, g), program, k, g)
  BY <1>1, <1>3, InsertHolds
<1>5. GenerateAfter(prefix, generator, k)
  BY <1>2
<1> HIDE DEF prefix
<1>6. CASE Skips
  BY <1>6, SkippingIsSane
<1>7. ASSUME NEW g \in Generated(generator, prefix.builder), Adopts(Insert(program, k, g))
      PROVE  Sane'
  BY <1>4, <1>7, AdoptingIsSane DEF Inserts
<1>8. QED
  BY <1>4, <1>5, <1>6, <1>7 DEF GenerateAfter

(* A testcase of the corpus.                                               *)
LEMMA TestcaseIsSane ==
  ASSUME NEW t \in DOMAIN Corpus
  PROVE  /\ Corpus[t] \in Seq(Instr) /\ Len(Corpus[t]) <= MaxLength
         /\ IsStaticallyValid(Corpus[t])
BY CorpusAssumption

(* The counter never returns to 0 in a mutation.                           *)
LEMMA IncrementedOnce ==
  ASSUME NEW n \in 0..2
  PROVE  Incremented(n) \in 1..2
BY DEF Incremented

(* Which part of the state a mutator changes besides the program.          *)
LEMMA MutatorsCount ==
  ASSUME TypeOK, MutateInput \/ MutateOperation \/ Splice \/ \E g \in DOMAIN RequestedContext : Generate(g)
  PROVE  /\ testcase' = testcase /\ mutation_idx' \in 0..2 /\ metadata' \in BOOLEAN
         /\ mutation_idx' = 0 => program' = program /\ mutation_idx = 0
         /\ metadata' => mutation_idx = 0
<1>1. mutation_idx \in 0..2 /\ Incremented(mutation_idx) \in 1..2
  BY IncrementedOnce DEF TypeOK
<1>2. ASSUME mutation_idx' = Incremented(mutation_idx)
      PROVE  mutation_idx' \in 0..2 /\ mutation_idx' # 0
  BY <1>1, <1>2
<1>3. CASE MutateInput
  BY <1>2, <1>3 DEF MutateInput
<1>4. CASE MutateOperation
  BY <1>2, <1>4 DEF MutateOperation
<1>5. CASE Splice
  <2>1. ASSUME NEW t, NEW r, SpliceWith(t, r)
        PROVE  \/ program' = program /\ mutation_idx' = mutation_idx
               \/ mutation_idx' = Incremented(mutation_idx)
    BY <2>1 DEF SpliceWith, Skips
  <2>2. \/ program' = program /\ mutation_idx' = mutation_idx
        \/ mutation_idx' = Incremented(mutation_idx)
    BY <1>5, <2>1 DEF Splice
  <2>3. testcase' = testcase /\ metadata' = FALSE
    BY <1>5 DEF Splice
  <2>4. QED
    BY <1>1, <1>2, <2>2, <2>3
<1>6. ASSUME NEW g, Generate(g)
      PROVE  /\ testcase' = testcase /\ mutation_idx' \in 0..2 /\ metadata' \in BOOLEAN
             /\ mutation_idx' = 0 => program' = program /\ mutation_idx = 0
             /\ metadata' => mutation_idx = 0
  BY <1>2, <1>6 DEF Generate
<1>7. QED
  BY <1>3, <1>4, <1>5, <1>6

(* The invariant holds at the start.                                       *)
LEMMA MutationInit == Init => MutationInvariant
<1> SUFFICES ASSUME Init PROVE MutationInvariant
  OBVIOUS
<1>1. testcase \in DOMAIN Corpus /\ program = Corpus[testcase]
  BY DEF Init
<1>2. TypeOK
  <2>1. program \in Seq(Instr) /\ Len(program) <= MaxLength
    BY <1>1, TestcaseIsSane
  <2>2. mutation_idx \in 0..2
    BY DEF Init
  <2>3. mutated \in BOOLEAN /\ metadata \in BOOLEAN /\ result \in Results
    BY DEF Init, Results
  <2>4. QED
    BY <1>1, <2>1, <2>2, <2>3 DEF TypeOK
<1>3. QED
  BY <1>1, <1>2, TestcaseIsSane DEF Init, MutationInvariant, ProgramsStayValid

(* Every step keeps it.                                                    *)
LEMMA MutationStep == MutationInvariant /\ [Next]_vars => MutationInvariant'
<1> SUFFICES ASSUME MutationInvariant, [Next]_vars PROVE MutationInvariant'
  OBVIOUS
<1>1. Sane /\ TypeOK /\ testcase \in DOMAIN Corpus
      /\ (mutation_idx = 0 => program = Corpus[testcase])
  BY DEF MutationInvariant, TypeOK, ProgramsStayValid, Sane
<1>2. ASSUME MutateInput \/ MutateOperation \/ Splice \/ \E g \in DOMAIN RequestedContext : Generate(g)
      PROVE  MutationInvariant'
  <2>1. Sane'
    BY <1>1, <1>2, InputStaysSane, OperationStaysSane, SplicingStaysSane, GeneratingStaysSane
  <2>2. /\ testcase' = testcase /\ mutation_idx' \in 0..2 /\ metadata' \in BOOLEAN
        /\ mutation_idx' = 0 => program' = program /\ mutation_idx = 0
    BY <1>1, <1>2, MutatorsCount
  <2>3. TypeOK'
    BY <1>1, <2>1, <2>2 DEF TypeOK, Sane, Results
  <2>4. ProgramsStayValid'
    BY <2>1 DEF ProgramsStayValid, Sane
  <2>5. mutation_idx' = 0 => program' = Corpus[testcase']
    BY <1>1, <2>2
  <2>6. QED
    BY <2>3, <2>4, <2>5 DEF MutationInvariant
<1>3. CASE NextInput
  <2>1. testcase' \in DOMAIN Corpus /\ program' = Corpus[testcase']
    BY <1>3 DEF NextInput
  <2>2. /\ program' \in Seq(Instr) /\ Len(program') <= MaxLength
        /\ IsStaticallyValid(program')
    BY <2>1, TestcaseIsSane
  <2>3. mutation_idx' \in 0..2
    BY <1>1, <1>3 DEF NextInput, TypeOK
  <2>4. TypeOK'
    BY <1>3, <2>1, <2>2, <2>3 DEF NextInput, TypeOK, Results
  <2>5. ProgramsStayValid'
    BY <1>3, <2>2 DEF NextInput, ProgramsStayValid
  <2>6. QED
    BY <2>1, <2>4, <2>5 DEF MutationInvariant
<1>4. CASE UNCHANGED vars
  BY <1>1, <1>4 DEF MutationInvariant, TypeOK, ProgramsStayValid, vars
<1>5. QED
  BY <1>2, <1>3, <1>4 DEF Next

(* The program that a client mutates, the corpus it takes testcases from   *)
(* and what the mutators say they did have their types, and the program    *)
(* never grows beyond MAX_INSTRUCTIONS.                                    *)
THEOREM MutationTypeCorrect == Spec => []TypeOK
<1>1. MutationInvariant => TypeOK
  BY DEF MutationInvariant
<1>2. QED
  BY <1>1, MutationInit, MutationStep, PTL DEF Spec

(* No stack of mutators, splices and generators, however long, leaves a    *)
(* program behind that the builder would refuse, although the              *)
(* InputMutator and the OperationMutator do not validate what they made,   *)
(* and no expect in them can fail.                                         *)
THEOREM MutatedProgramsStayValid == Spec => []ProgramsStayValid
<1>1. MutationInvariant => ProgramsStayValid
  BY DEF MutationInvariant
<1>2. QED
  BY <1>1, MutationInit, MutationStep, PTL DEF Spec

(* Whatever the mutators made of the program before, splicing any testcase *)
(* into it succeeds and keeps the dataflow of both.                        *)
THEOREM SplicingAlwaysKeepsDataflow == Spec => []SplicingKeepsDataflow
<1>1. MutationInvariant => SplicingKeepsDataflow
  <2> SUFFICES ASSUME MutationInvariant, NEW t \in DOMAIN Corpus
      PROVE  /\ \A k \in InsertionIndices(program, Global) :
                  HoldsBoth(Combine(program, k, Corpus[t]), program, k, Corpus[t])
             /\ HoldsBoth(Concat(program, Corpus[t]), program, Len(program), Corpus[t])
    BY DEF SplicingKeepsDataflow
  <2>1. program \in Seq(Instr) /\ IsStaticallyValid(program)
    BY DEF MutationInvariant, TypeOK, ProgramsStayValid
  <2>2. Corpus[t] \in Seq(Instr) /\ IsStaticallyValid(Corpus[t])
    BY CorpusAssumption
  <2>3. ASSUME NEW k \in InsertionIndices(program, Global)
        PROVE  HoldsBoth(Combine(program, k, Corpus[t]), program, k, Corpus[t])
    <3>1. k \in 0..Len(program)
      BY <2>1, InsertionPoint
    <3>2. QED
      BY <2>1, <2>2, <3>1, CombineHolds DEF Splices
  <2>4. HoldsBoth(Concat(program, Corpus[t]), program, Len(program), Corpus[t])
    BY <2>1, <2>2, ConcatHolds DEF Splices
  <2>5. QED
    BY <2>3, <2>4
<1>2. QED
  BY <1>1, MutationInit, MutationStep, PTL DEF Spec

(* Wherever a generator adds its instructions, it succeeds and does not    *)
(* disturb what the rest of the program does.                              *)
THEOREM GeneratingAlwaysKeepsDataflow == Spec => []GeneratingKeepsDataflow
<1>1. MutationInvariant => GeneratingKeepsDataflow
  <2> SUFFICES ASSUME MutationInvariant, NEW generator \in DOMAIN RequestedContext,
                      NEW k \in InsertionIndices(program, RequestedContext[generator]),
                      NEW g \in Generated(generator, AppendAll(NewBuilder, SubSeq(program, 1, k)).builder)
      PROVE  HoldsWith(Insert(program, k, g), program, k, g)
    BY DEF GeneratingKeepsDataflow
  <2>1. program \in Seq(Instr) /\ IsStaticallyValid(program)
    BY DEF MutationInvariant, TypeOK, ProgramsStayValid
  <2>2. k \in 0..Len(program)
    BY <2>1, InsertionPoint
  <2>3. Inserts(Insert(program, k, g), program, k, g)
    BY <2>1, <2>2, InsertHolds
  <2>4. QED
    BY <2>3 DEF Inserts
<1>2. QED
  BY <1>1, MutationInit, MutationStep, PTL DEF Spec

(* A mutator is given the metadata only while the clone is still the       *)
(* testcase that the metadata describes: the counter is 0 only then, and a *)
(* splice that is not counted has changed nothing.                         *)
THEOREM MetadataAlwaysFresh == Spec => MetadataIsFresh
<1>1. MutationInvariant /\ [Next]_vars => [metadata' => program = Corpus[testcase]]_vars
  <2> SUFFICES ASSUME MutationInvariant, Next PROVE metadata' => program = Corpus[testcase]
    OBVIOUS
  <2>1. CASE NextInput
    BY <2>1 DEF NextInput
  <2>2. CASE MutateInput \/ MutateOperation \/ Splice \/ \E g \in DOMAIN RequestedContext : Generate(g)
    BY <2>2, MutatorsCount DEF MutationInvariant
  <2>3. QED
    BY <2>1, <2>2 DEF Next
<1>2. QED
  BY <1>1, MutationInit, MutationStep, PTL DEF Spec, MetadataIsFresh
=============================================================================

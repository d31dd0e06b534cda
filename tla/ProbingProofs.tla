---------------------------- MODULE ProbingProofs ----------------------------
(***************************************************************************)
(* What probing learns about a testcase is true of it, for every valid     *)
(* testcase, every operation table and whatever the target does: a request *)
(* is kept with the instruction and the variables it belongs to, and the   *)
(* header of a recent block is there wherever it may be built on.          *)
(***************************************************************************)
EXTENDS Probing, ProgramLemmas

(* A sequence, of whatever elements: the values that the compiler keeps    *)
(* are of many kinds.                                                      *)
HasElements(s) == \E S : s \in Seq(S)

(* The elements of a concatenation.                                        *)
LEMMA ConcatHas ==
  ASSUME NEW s, HasElements(s), NEW u, HasElements(u)
  PROVE  /\ HasElements(s \o u) /\ Len(s \o u) = Len(s) + Len(u)
         /\ Len(s) \in Nat /\ Len(u) \in Nat
         /\ \A k \in 1..Len(s) : (s \o u)[k] = s[k]
         /\ \A k \in 1..Len(u) : (s \o u)[Len(s) + k] = u[k]
<1>1. PICK S : s \in Seq(S)
  BY DEF HasElements
<1>2. PICK U : u \in Seq(U)
  BY DEF HasElements
<1>3. s \in Seq(S \cup U) /\ u \in Seq(S \cup U)
  BY <1>1, <1>2
<1>4. s \o u \in Seq(S \cup U)
  BY <1>3
<1>5. HasElements(s \o u)
  BY <1>4 DEF HasElements
<1>6. Len(s) \in Nat /\ Len(u) \in Nat
  BY <1>1, <1>2
<1>7. QED
  BY <1>3, <1>5, <1>6, ConcatElements

(* Replacing an element.                                                   *)
LEMMA ReplacedHas ==
  ASSUME NEW s, HasElements(s), NEW n \in 1..Len(s), NEW x
  PROVE  /\ HasElements([s EXCEPT ![n] = x]) /\ Len([s EXCEPT ![n] = x]) = Len(s)
         /\ Len(s) \in Nat
         /\ \A k \in 1..Len(s) : k # n => [s EXCEPT ![n] = x][k] = s[k]
<1>1. PICK S : s \in Seq(S)
  BY DEF HasElements
<1>2. s \in Seq(S \cup {x}) /\ x \in S \cup {x}
  BY <1>1
<1>3. [s EXCEPT ![n] = x] \in Seq(S \cup {x}) /\ Len([s EXCEPT ![n] = x]) = Len(s)
  BY <1>2
<1>4. HasElements([s EXCEPT ![n] = x])
  BY <1>3 DEF HasElements
<1>5. QED
  BY <1>1, <1>3, <1>4

(* Sequences by their elements.                                            *)
LEMMA ListedHas ==
  /\ HasElements(<<>>) /\ Len(<<>>) = 0
  /\ \A x : HasElements(<<x>>) /\ Len(<<x>>) = 1 /\ <<x>>[1] = x
  /\ \A x, y, z : /\ HasElements(<<x, y, z>>) /\ Len(<<x, y, z>>) = 3
                  /\ <<x, y, z>>[2] = y
<1>1. HasElements(<<>>) /\ Len(<<>>) = 0
  <2>1. <<>> \in Seq({}) /\ Len(<<>>) = 0
    OBVIOUS
  <2>2. QED
    BY <2>1 DEF HasElements
<1>2. ASSUME NEW x
      PROVE  HasElements(<<x>>) /\ Len(<<x>>) = 1 /\ <<x>>[1] = x
  <2>1. <<x>> \in Seq({x}) /\ Len(<<x>>) = 1 /\ <<x>>[1] = x
    OBVIOUS
  <2>2. QED
    BY <2>1 DEF HasElements
<1>3. ASSUME NEW x, NEW y, NEW z
      PROVE  HasElements(<<x, y, z>>) /\ Len(<<x, y, z>>) = 3 /\ <<x, y, z>>[2] = y
  <2>1. <<x, y, z>> \in Seq({x, y, z}) /\ Len(<<x, y, z>>) = 3 /\ <<x, y, z>>[2] = y
    OBVIOUS
  <2>2. QED
    BY <2>1 DEF HasElements
<1>4. QED
  BY <1>1, <1>2, <1>3

(* One value, as often as there are numbers.                               *)
LEMMA RepeatedHas ==
  ASSUME NEW n \in Nat, NEW x
  PROVE  /\ [k \in 1..n |-> x] \in Seq({x}) /\ HasElements([k \in 1..n |-> x])
         /\ Len([k \in 1..n |-> x]) = n
<1>1. [k \in 1..n |-> x] \in Seq({x}) /\ Len([k \in 1..n |-> x]) = n
  OBVIOUS
<1>2. QED
  BY <1>1 DEF HasElements

-----------------------------------------------------------------------------
(* The compilers that compile goes through.                                *)
Solution(p, m, g) ==
  g = [ n \in 0..m |-> IF n = 0 THEN NewCompiler ELSE CompileInstruction(g[n - 1], p[n]) ]

Compiles(p, g) ==
  g[0] = NewCompiler /\ \A n \in 1..Len(p) : g[n] = CompileInstruction(g[n - 1], p[n])

(* compile goes through one after every instruction.                       *)
LEMMA CompileSteps ==
  ASSUME NEW p, Len(p) \in Nat
  PROVE  \E g : Compiles(p, g) /\ Compile(p) = g[Len(p)]
<1> DEFINE N == Len(p)
           P == { m \in Nat : \E g : Solution(p, m, g) }
<1>1. 0 \in P
  <2> DEFINE g == [n \in 0..0 |-> NewCompiler]
  <2>1. g = [n \in 0..0 |-> IF n = 0 THEN NewCompiler ELSE CompileInstruction(g[n - 1], p[n])]
    OBVIOUS
  <2> HIDE DEF g
  <2>2. Solution(p, 0, g)
    BY <2>1 DEF Solution
  <2>3. QED
    BY <2>2
<1>2. ASSUME NEW m \in 1..N, m - 1 \in P
      PROVE  m \in P
  <2>1. PICK g : Solution(p, m - 1, g)
    BY <1>2
  <2> DEFINE h == [n \in 0..m |-> IF n = m THEN CompileInstruction(g[m - 1], p[m]) ELSE g[n]]
  <2>2. ASSUME NEW n \in 0..m
        PROVE  h[n] = IF n = 0 THEN NewCompiler ELSE CompileInstruction(h[n - 1], p[n])
    <3>0. m \in Nat /\ m # 0
      OBVIOUS
    <3>1. CASE n = m
      <4>1. n # 0 /\ n - 1 \in 0..m /\ n - 1 # m /\ n - 1 = m - 1
        BY <3>0, <3>1
      <4>2. h[n - 1] = g[m - 1]
        BY <4>1
      <4>3. h[n] = CompileInstruction(g[m - 1], p[m])
        BY <3>1
      <4> HIDE DEF h
      <4>4. QED
        BY <3>1, <4>1, <4>2, <4>3
    <3>2. CASE n # m
      <4>1. n \in 0..(m - 1) /\ (n # 0 => n - 1 \in 0..m /\ n - 1 # m)
        BY <3>0, <3>2
      <4>2. g[n] = IF n = 0 THEN NewCompiler ELSE CompileInstruction(g[n - 1], p[n])
        BY <2>1, <4>1 DEF Solution
      <4>3. h[n] = g[n] /\ (n # 0 => h[n - 1] = g[n - 1])
        BY <3>2, <4>1
      <4> HIDE DEF h
      <4>4. QED
        BY <4>2, <4>3
    <3>3. QED
      BY <3>1, <3>2
  <2>3. h = [n \in 0..m |-> h[n]]
    OBVIOUS
  <2> HIDE DEF h
  <2>4. Solution(p, m, h)
    BY <2>2, <2>3 DEF Solution
  <2>5. QED
    BY <2>4
<1>3. N \in P
  <2>1. \A m \in 0..N : m \in P
    <3> HIDE DEF P
    <3>1. QED
      BY <1>1, <1>2, InductionUpTo
  <2>2. QED
    BY <2>1
<1> DEFINE g == CHOOSE h : Solution(p, N, h)
<1>4. Solution(p, N, g)
  BY <1>3
<1>5. Compile(p) = g[N]
  BY DEF Compile, Folded, Solution
<1> HIDE DEF g
<1>6. Compiles(p, g)
  <2>1. 0 \in 0..N /\ \A n \in 1..N : n \in 0..N /\ n # 0
    OBVIOUS
  <2>2. \A n \in 0..N : g[n] = IF n = 0 THEN NewCompiler ELSE CompileInstruction(g[n - 1], p[n])
    BY <1>4 DEF Solution
  <2>3. QED
    BY <2>1, <2>2 DEF Compiles
<1>7. QED
  BY <1>5, <1>6

-----------------------------------------------------------------------------
(* The fields of a compiler.                                               *)
IsCompiler(c) ==
  c = [ variables |-> c.variables, actions |-> c.actions,
        connection_counter |-> c.connection_counter, block_tx_var_map |-> c.block_tx_var_map,
        connection_map |-> c.connection_map, action_indices |-> c.action_indices,
        variable_indices |-> c.variable_indices, instructions |-> c.instructions,
        error |-> c.error ]

(* What a handler that succeeds makes of them.                             *)
Held(c, i) ==
  IF i.op \in Modifying THEN [c.variables EXCEPT ![i.inputs[1]] = Modified(c, i)] ELSE c.variables

Handled(c, i, d) ==
  LET here == c.instructions + 1
      new  == Len(c.variables)
  IN  /\ d.error = "None"
      /\ d.instructions = IF i.op = "Probe" THEN c.instructions ELSE here
      /\ d.variables = Held(c, i) \o Produced(c, i)
      /\ d.variable_indices = c.variable_indices \o [ k \in 1..Len(Produced(c, i)) |-> here ]
      /\ d.actions = c.actions \o Emitted(c, i)
      /\ d.action_indices = IF i.op = "Probe" THEN c.action_indices
                            ELSE c.action_indices \o [ k \in 1..Len(Emitted(c, i)) |-> here ]
      /\ d.connection_map = IF i.op = "LoadConnection" THEN OrInsert(c.connection_map, i.arg, new + 1)
                            ELSE c.connection_map
      /\ d.block_tx_var_map = IF i.op = "BuildBlock"
                              THEN OrInsert(c.block_tx_var_map, Produced(c, i)[2].hash,
                                            [ header_var |-> new + 1, block_var |-> new + 2,
                                              block_transactions_var |-> i.inputs[5] ])
                              ELSE c.block_tx_var_map

(* And one that fails.                                                     *)
Stopped(c, d) ==
  /\ d.error # "None" /\ d.instructions = c.instructions
  /\ d.variables = c.variables /\ d.variable_indices = c.variable_indices
  /\ d.actions = c.actions /\ d.action_indices = c.action_indices
  /\ d.connection_map = c.connection_map /\ d.block_tx_var_map = c.block_tx_var_map

(* The compiler after an instruction.                                      *)
LEMMA NextCompiler ==
  ASSUME NEW c, IsCompiler(c), NEW i, NEW d, d = CompileInstruction(c, i)
  PROVE  /\ IsCompiler(d)
         /\ Stopped(c, d) \/ (c.error = "None" /\ Handled(c, i, d))
<1>1. CASE c.error # "None"
  <2>1. d = c
    BY <1>1 DEF CompileInstruction
  <2>2. QED
    BY <1>1, <2>1 DEF Stopped
<1>2. CASE c.error = "None" /\ Failure(c, i) # "None"
  <2>1. d = [c EXCEPT !.error = Failure(c, i)]
    BY <1>2 DEF CompileInstruction
  <2>2. QED
    BY <1>2, <2>1 DEF Stopped, IsCompiler
<1>3. CASE c.error = "None" /\ Failure(c, i) = "None"
  <2>1. /\ IsCompiler(d) /\ d.error = "None"
        /\ d.instructions = IF i.op = "Probe" THEN c.instructions ELSE c.instructions + 1
        /\ d.variables = Held(c, i) \o Produced(c, i)
        /\ d.variable_indices = c.variable_indices
                                \o [ k \in Indices(Produced(c, i)) |-> c.instructions + 1 ]
        /\ d.actions = c.actions \o Emitted(c, i)
    BY <1>3 DEF CompileInstruction, IsCompiler, Held
  <2>2. /\ d.action_indices = IF i.op = "Probe" THEN c.action_indices
                              ELSE c.action_indices
                                   \o [ k \in Indices(Emitted(c, i)) |-> c.instructions + 1 ]
        /\ d.connection_map = IF i.op = "LoadConnection"
                              THEN OrInsert(c.connection_map, i.arg, Len(c.variables) + 1)
                              ELSE c.connection_map
        /\ d.block_tx_var_map = IF i.op = "BuildBlock"
                                THEN OrInsert(c.block_tx_var_map, Produced(c, i)[2].hash,
                                              [ header_var |-> Len(c.variables) + 1,
                                                block_var |-> Len(c.variables) + 2,
                                                block_transactions_var |-> i.inputs[5] ])
                                ELSE c.block_tx_var_map
    BY <1>3 DEF CompileInstruction, IsCompiler
  <2>3. QED
    BY <1>3, <2>1, <2>2 DEF Handled, Indices
<1>4. QED
  BY <1>1, <1>2, <1>3

(* What the instruction creates, one value for each variable.              *)
LEMMA ProducedHas ==
  ASSUME NEW c, NEW i \in Instr
  PROVE  /\ HasElements(Produced(c, i)) /\ Len(Produced(c, i)) = Len(Created(i))
         /\ i.op = "LoadConnection" => Len(Created(i)) = 1
         /\ i.op = "BuildBlock" =>
              /\ i.inputs \in Seq(Nat) /\ Len(Created(i)) = 3
              /\ Created(i) = <<"Header", "Block", "ConstCoinbaseTx">>
              /\ Produced(c, i)[2].hash = <<SubSeq(i.inputs, 1, 4), Input(c, i, 5).txs>>
<1>1. i.op \in Op /\ i.inputs \in Seq(Nat)
  BY DEF Instr
<1>2. CASE i.op \in Valued
  <2>1. Len(Created(i)) = 1
    BY <1>1, <1>2, CompilerAssumption DEF Created
  <2>2. \E x : Produced(c, i) = <<x>>
    BY <1>2 DEF Valued, Connecting, Copying, Produced
  <2>3. i.op # "BuildBlock"
    BY <1>2 DEF Valued, Connecting, Copying
  <2>4. QED
    BY <2>1, <2>2, <2>3, ListedHas
<1>3. CASE i.op = "BuildBlock"
  <2>1. Produced(c, i) = << Opaque, BuiltBlock(c, i), Opaque >>
    BY <1>3 DEF Produced, Connecting, Copying
  <2>3. Created(i) = <<"Header", "Block", "ConstCoinbaseTx">>
    BY <1>1, <1>3, CompilerAssumption DEF Created
  <2>4. Len(Created(i)) = 3
    BY <2>3
  <2>5. Produced(c, i)[2].hash = <<SubSeq(i.inputs, 1, 4), Input(c, i, 5).txs>>
    BY <2>1 DEF BuiltBlock
  <2>6. QED
    BY <1>1, <1>3, <2>1, <2>3, <2>4, <2>5, ListedHas
<1>4. CASE i.op \notin Valued /\ i.op # "BuildBlock"
  <2>1. Produced(c, i) = [ k \in 1..Len(Created(i)) |-> Opaque ]
    BY <1>4 DEF Valued, Connecting, Copying, Produced, Indices
  <2>2. Len(Created(i)) \in Nat
    BY CreatedType
  <2>3. i.op # "LoadConnection"
    BY <1>4 DEF Valued
  <2>4. QED
    BY <1>4, <2>1, <2>2, <2>3, RepeatedHas
<1>5. QED
  BY <1>2, <1>3, <1>4

-----------------------------------------------------------------------------
(* Where the instructions of an accepted program declare their variables,  *)
(* and which they take.                                                    *)
Declaring(p, f) ==
  /\ Variables(f, 0) = 0
  /\ \A n \in 0..Len(p) : f[n].builder \in Sound /\ Variables(f, n) \in Nat
  /\ \A n \in 1..Len(p) : Variables(f, n) = Variables(f, n - 1) + Len(Created(p[n]))

DeclaredAt(p, f, k, n) ==
  \A x \in 1..Len(Created(p[k])) :
    /\ Variables(f, k - 1) + x \in 1..Variables(f, n)
    /\ f[n].builder.variables[Variables(f, k - 1) + x]
         = [ var |-> Created(p[k])[x],
             scope_id |-> IF p[k].op \in NopOp THEN 0 ELSE CurrentScope(f[k].builder).id ]

TakenAt(p, f, j, n) ==
  /\ Len(p[j].inputs) = Len(Signature[p[j].op].in)
  /\ \A s \in 1..Len(p[j].inputs) :
       /\ p[j].inputs[s] \in 1..Variables(f, j - 1)
       /\ f[n].builder.variables[p[j].inputs[s]].var = Signature[p[j].op].in[s]

(* The run declares the variables one instruction after the other.         *)
LEMMA RunDeclaring ==
  ASSUME NEW p \in Seq(Instr), NEW f, AcceptedRun(NewBuilder, p, f)
  PROVE  Declaring(p, f)
<1>1. NewBuilder \in Sound
  BY NewReplays DEF Replays
<1>2. \A n \in 0..Len(p) : f[n].builder \in Sound
  BY <1>1, AllAccepted DEF AcceptedRun
<1>3. \A n \in 0..Len(p) : Variables(f, n) \in Nat
  <2>1. \A b \in Sound : b.variables \in Seq(ScopedVariable)
    BY DEF Sound, Builder
  <2>2. \A b \in Sound : Len(b.variables) \in Nat
    BY <2>1
  <2>3. QED
    BY <1>2, <2>2 DEF Variables
<1>4. \A n \in 1..Len(p) : Variables(f, n) = Variables(f, n - 1) + Len(Created(p[n]))
  BY <1>1, RunGrows DEF Variables
<1>5. Variables(f, 0) = 0
  <2>1. f[0].builder = NewBuilder /\ NewBuilder.variables = <<>>
    BY DEF AcceptedRun, Runs, NewBuilder, EnterScope
  <2>2. Len(<<>>) = 0
    OBVIOUS
  <2>3. QED
    BY <2>1, <2>2 DEF Variables
<1>6. QED
  BY <1>2, <1>3, <1>4, <1>5 DEF Declaring

(* And forgets none of them.                                               *)
LEMMA RunDeclaresAt ==
  ASSUME NEW p \in Seq(Instr), NEW f, AcceptedRun(NewBuilder, p, f),
         NEW n \in 0..Len(p), NEW k \in 1..n
  PROVE  DeclaredAt(p, f, k, n)
<1>1. /\ k \in 1..Len(p) /\ k \in 0..n /\ k - 1 \in 0..Len(p) /\ k \in 0..Len(p)
      /\ Len(p) \in Nat /\ p[k] \in Instr
  OBVIOUS
<1>2. NewBuilder \in Sound
  BY NewReplays DEF Replays
<1>3. Declaring(p, f)
  BY RunDeclaring
<1>4. Outcome(f[k - 1].builder, p[k]) = "Ok" /\ f[k].builder = Appended(f[k - 1].builder, p[k])
  BY <1>1, <1>2, AllAccepted DEF AcceptedRun
<1>5. NextFields(f[k - 1].builder, p[k], f[k].builder)
  BY <1>1, <1>3, <1>4, AcceptedFields DEF Declaring
<1>6. Grown(f[k].builder, f[n].builder)
  BY <1>1, <1>2, RunGrows
<1>7. /\ Variables(f, k) = Variables(f, k - 1) + Len(Created(p[k]))
      /\ Variables(f, k) \in Nat /\ Variables(f, k - 1) \in Nat /\ Variables(f, n) \in Nat
      /\ Variables(f, k) <= Variables(f, n) /\ Len(Created(p[k])) \in Nat
  BY <1>1, <1>3, <1>6, CreatedType DEF Declaring, Grown, Variables
<1> SUFFICES ASSUME NEW x \in 1..Len(Created(p[k]))
             PROVE  /\ Variables(f, k - 1) + x \in 1..Variables(f, n)
                    /\ f[n].builder.variables[Variables(f, k - 1) + x]
                         = [ var |-> Created(p[k])[x],
                             scope_id |-> IF p[k].op \in NopOp THEN 0
                                          ELSE CurrentScope(f[k].builder).id ]
  BY DEF DeclaredAt
<1>8. /\ Variables(f, k - 1) + x \in 1..Variables(f, k)
      /\ Variables(f, k - 1) + x \in 1..Variables(f, n)
  BY <1>7
<1>9. f[k].builder.variables[Variables(f, k - 1) + x]
        = [ var |-> Created(p[k])[x],
            scope_id |-> IF p[k].op \in NopOp THEN 0 ELSE CurrentScope(f[k].builder).id ]
  BY <1>5 DEF NextFields, HasMore, Variables
<1>10. f[n].builder.variables[Variables(f, k - 1) + x]
         = f[k].builder.variables[Variables(f, k - 1) + x]
  BY <1>6, <1>8 DEF Grown, Variables
<1>11. QED
  BY <1>8, <1>9, <1>10

(* An instruction takes variables of its types.                            *)
LEMMA RunTakesAt ==
  ASSUME NEW p \in Seq(Instr), NEW f, AcceptedRun(NewBuilder, p, f),
         NEW j \in 1..Len(p), NEW n \in (j - 1)..Len(p)
  PROVE  TakenAt(p, f, j, n)
<1>1. /\ j - 1 \in 0..Len(p) /\ n \in 0..Len(p) /\ j - 1 \in 0..n /\ p[j] \in Instr
  OBVIOUS
<1>2. NewBuilder \in Sound
  BY NewReplays DEF Replays
<1>3. f[j - 1].builder \in Sound
  BY <1>1, RunDeclaring DEF Declaring
<1>4. Outcome(f[j - 1].builder, p[j]) = "Ok"
  BY <1>1, <1>2, AllAccepted DEF AcceptedRun
<1>5. /\ Len(p[j].inputs) = Len(Signature[p[j].op].in)
      /\ \A s \in 1..Len(p[j].inputs) :
           /\ InScope(f[j - 1].builder, p[j].inputs[s])
           /\ f[j - 1].builder.variables[p[j].inputs[s]].var = Signature[p[j].op].in[s]
  BY <1>1, <1>3, <1>4, AcceptedIsSound
<1>6. Grown(f[j - 1].builder, f[n].builder)
  BY <1>1, <1>2, RunGrows
<1>7. QED
  BY <1>5, <1>6 DEF TakenAt, InScope, Grown, Variables

-----------------------------------------------------------------------------
(* What the compiler knows after the first instructions of a program, by   *)
(* the run of the builder over it: a value and an index for every          *)
(* variable, ...                                                           *)
VariablesKept(p, f, c) ==
  /\ HasElements(c.variables) /\ Len(c.variables) = Variables(f, c.instructions)
  /\ c.variable_indices \in Seq(Nat) /\ Len(c.variable_indices) = Variables(f, c.instructions)
  /\ \A k \in 1..c.instructions : \A x \in 1..Len(Created(p[k])) :
       c.variable_indices[Variables(f, k - 1) + x] = k

(* ... the instruction that each action after Probe came from, ...         *)
Sends(p, c, action, j) ==
  /\ p[j].op = "SendCompactBlock"
  /\ action.payload = c.variables[p[j].inputs[2]]

ActionsKept(p, c) ==
  /\ HasElements(c.actions) /\ c.action_indices \in Seq(Nat)
  /\ Len(c.actions) = Len(c.action_indices) + 1
  /\ c.actions[1].kind = "Probe"
  /\ \A a \in 1..Len(c.action_indices) :
       /\ c.action_indices[a] \in 1..c.instructions
       /\ c.actions[a + 1].kind # "Probe"
       /\ c.actions[a + 1].kind = "SendRawMessage" /\ c.actions[a + 1].command = "SendCompactBlock" =>
            Sends(p, c, c.actions[a + 1], c.action_indices[a])

(* ... the instruction that loaded each connection, ...                    *)
ConnectionsKept(p, f, c) ==
  \A d \in DOMAIN c.connection_map : \E k \in 1..c.instructions :
    p[k].op = "LoadConnection" /\ p[k].arg = d /\ c.connection_map[d] = Variables(f, k - 1) + 1

(* ... and the one that built each block.                                  *)
BuiltAt(p, f, c, h, k) ==
  /\ p[k].op = "BuildBlock"
  /\ c.block_tx_var_map[h].header_var = Variables(f, k - 1) + 1
  /\ c.block_tx_var_map[h].block_var = Variables(f, k - 1) + 2
  /\ c.variables[Variables(f, k - 1) + 2].hash = h

BlocksKept(p, f, c) ==
  \A h \in DOMAIN c.block_tx_var_map :
    /\ h # UnknownBlock
    /\ \E k \in 1..c.instructions : BuiltAt(p, f, c, h, k)

Kept(p, f, c) ==
  /\ IsCompiler(c) /\ c.instructions \in 0..Len(p)
  /\ VariablesKept(p, f, c) /\ ActionsKept(p, c) /\ ConnectionsKept(p, f, c) /\ BlocksKept(p, f, c)

(* One more instruction, and no error.                                     *)
Goes(p, f, c, d) ==
  LET n == c.instructions + 1
  IN  /\ Kept(p, f, c) /\ n \in 1..Len(p) /\ p[n].op # "Probe" /\ Handled(c, p[n], d)

(* Its effect on the values: blocks and compact blocks stay as they are.   *)
Keeping(p, f, c, d) ==
  LET m == c.instructions
  IN  /\ m \in 0..Len(p) /\ m + 1 \in 1..Len(p) /\ d.instructions = m + 1 /\ p[m + 1] \in Instr
      /\ HasElements(d.variables) /\ Len(d.variables) = Variables(f, m + 1)
      /\ Len(c.variables) = Variables(f, m) /\ Variables(f, m) \in Nat
      /\ Len(Produced(c, p[m + 1])) = Len(Created(p[m + 1]))
      /\ Len(Created(p[m + 1])) \in Nat
      /\ Variables(f, m + 1) = Variables(f, m) + Len(Created(p[m + 1]))
      /\ \A v \in 1..Variables(f, m) :
           f[m].builder.variables[v].var \in {"Block", "CompactBlock"} => d.variables[v] = c.variables[v]
      /\ \A x \in 1..Len(Created(p[m + 1])) :
           d.variables[Variables(f, m) + x] = Produced(c, p[m + 1])[x]

(* The values after an instruction.                                        *)
LEMMA ValuesStay ==
  ASSUME NEW p \in Seq(Instr), NEW f, AcceptedRun(NewBuilder, p, f), NEW c, NEW d, Goes(p, f, c, d)
  PROVE  Keeping(p, f, c, d)
<1> DEFINE m == c.instructions
           i == p[m + 1]
<1>1. /\ m \in 0..Len(p) /\ m + 1 \in 1..Len(p) /\ (m + 1) - 1 = m /\ m \in Nat
      /\ i \in Instr /\ i.op # "Probe" /\ Handled(c, i, d)
  BY DEF Goes, Kept
<1>2. HasElements(c.variables) /\ Len(c.variables) = Variables(f, m)
  BY DEF Goes, Kept, VariablesKept
<1>3. /\ Variables(f, m) \in Nat
      /\ Variables(f, m + 1) = Variables(f, m) + Len(Created(i))
  <2>1. Declaring(p, f)
    BY RunDeclaring
  <2>2. QED
    BY <1>1, <2>1 DEF Declaring
<1>4. TakenAt(p, f, m + 1, m)
  <2>1. m \in ((m + 1) - 1)..Len(p)
    BY <1>1
  <2>2. QED
    BY <1>1, <2>1, RunTakesAt
<1>5. HasElements(Produced(c, i)) /\ Len(Produced(c, i)) = Len(Created(i)) /\ Len(Created(i)) \in Nat
  BY <1>1, ProducedHas, CreatedType
<1>6. d.instructions = m + 1 /\ d.variables = Held(c, i) \o Produced(c, i)
  BY <1>1 DEF Handled
<1> HIDE DEF m, i
<1>7. /\ HasElements(Held(c, i)) /\ Len(Held(c, i)) = Variables(f, m)
      /\ \A v \in 1..Variables(f, m) :
           f[m].builder.variables[v].var \in {"Block", "CompactBlock"} => Held(c, i)[v] = c.variables[v]
  <2>1. CASE i.op \notin Modifying
    BY <1>2, <2>1 DEF Held
  <2>2. CASE i.op \in Modifying
    <3> DEFINE w == i.inputs[1]
    <3>1. i.op \in Op /\ Signature[i.op].in \in Seq(VarType)
      BY <1>1, TableFacts DEF Instr
    <3>2. Signature[i.op].in # <<>> /\ Signature[i.op].in[1] \notin {"Block", "CompactBlock"}
      BY <2>2, <3>1, CompilerAssumption
    <3>3. 1 \in 1..Len(i.inputs)
      <4>1. Len(i.inputs) = Len(Signature[i.op].in)
        BY <1>4 DEF TakenAt, i
      <4>2. QED
        BY <3>1, <3>2, <4>1
    <3>4. /\ w \in 1..Variables(f, m)
          /\ f[m].builder.variables[w].var \notin {"Block", "CompactBlock"}
      BY <1>1, <1>4, <3>2, <3>3 DEF TakenAt, i
    <3>5. Held(c, i) = [c.variables EXCEPT ![w] = Modified(c, i)]
      BY <2>2 DEF Held
    <3> HIDE DEF w
    <3>6. /\ HasElements(Held(c, i)) /\ Len(Held(c, i)) = Len(c.variables)
          /\ \A v \in 1..Len(c.variables) : v # w => Held(c, i)[v] = c.variables[v]
      <4> DEFINE s == c.variables
                 x == Modified(c, i)
      <4>1. HasElements(s) /\ w \in 1..Len(s) /\ Held(c, i) = [s EXCEPT ![w] = x]
        BY <1>2, <3>4, <3>5
      <4> HIDE DEF s, x
      <4>2. /\ HasElements([s EXCEPT ![w] = x]) /\ Len([s EXCEPT ![w] = x]) = Len(s)
            /\ \A k \in 1..Len(s) : k # w => [s EXCEPT ![w] = x][k] = s[k]
        <5>1. HasElements(s) /\ w \in 1..Len(s)
          BY <4>1
        <5>2. QED
          BY <5>1, ReplacedHas
      <4>3. QED
        BY <4>1, <4>2 DEF s
    <3>7. QED
      BY <1>2, <3>4, <3>6
  <2>3. QED
    BY <2>1, <2>2
<1>8. /\ HasElements(d.variables) /\ Len(d.variables) = Variables(f, m) + Len(Created(i))
      /\ \A v \in 1..Variables(f, m) : d.variables[v] = Held(c, i)[v]
      /\ \A x \in 1..Len(Created(i)) : d.variables[Variables(f, m) + x] = Produced(c, i)[x]
  <2> DEFINE s == Held(c, i)
             u == Produced(c, i)
  <2>1. HasElements(s) /\ HasElements(u) /\ Len(s) = Variables(f, m) /\ Len(u) = Len(Created(i))
    BY <1>5, <1>7
  <2>2. d.variables = s \o u
    BY <1>6
  <2> HIDE DEF s, u
  <2>3. /\ HasElements(s \o u) /\ Len(s \o u) = Len(s) + Len(u)
        /\ \A k \in 1..Len(s) : (s \o u)[k] = s[k]
        /\ \A k \in 1..Len(u) : (s \o u)[Len(s) + k] = u[k]
    <3>1. HasElements(s) /\ HasElements(u)
      BY <2>1
    <3>2. QED
      BY <3>1, ConcatHas
  <2>4. QED
    BY <2>1, <2>2, <2>3 DEF s, u
<1>9. QED
  BY <1>1, <1>2, <1>3, <1>5, <1>6, <1>7, <1>8 DEF Keeping, m, i

(* The indices of the new variables.                                       *)
LEMMA VariablesStep ==
  ASSUME NEW p \in Seq(Instr), NEW f, AcceptedRun(NewBuilder, p, f), NEW c, NEW d, Goes(p, f, c, d)
  PROVE  VariablesKept(p, f, d)
<1> DEFINE m == c.instructions
           i == p[m + 1]
           new == [ k \in 1..Len(Produced(c, i)) |-> m + 1 ]
<1>1. Keeping(p, f, c, d)
  BY ValuesStay
<1>2. d.variable_indices = c.variable_indices \o new
  BY DEF Goes, Handled
<1>3. VariablesKept(p, f, c)
  BY DEF Goes, Kept
<1>4. m \in Nat /\ m + 1 \in Nat /\ (m + 1) - 1 = m
  BY <1>1 DEF Keeping
<1>5. new \in Seq(Nat) /\ Len(new) = Len(Created(i)) /\ \A x \in 1..Len(Created(i)) : new[x] = m + 1
  BY <1>1, <1>4 DEF Keeping
<1> HIDE DEF new
<1>6. /\ d.variable_indices \in Seq(Nat)
      /\ Len(d.variable_indices) = Len(c.variable_indices) + Len(Created(i))
      /\ \A v \in 1..Len(c.variable_indices) : d.variable_indices[v] = c.variable_indices[v]
      /\ \A x \in 1..Len(Created(i)) : d.variable_indices[Len(c.variable_indices) + x] = m + 1
  <2> DEFINE s == c.variable_indices
  <2>1. s \in Seq(Nat) /\ d.variable_indices = s \o new
    BY <1>2, <1>3 DEF VariablesKept
  <2> HIDE DEF s
  <2>2. /\ s \o new \in Seq(Nat) /\ Len(s \o new) = Len(s) + Len(new)
        /\ \A k \in 1..Len(s) : (s \o new)[k] = s[k]
        /\ \A k \in 1..Len(new) : (s \o new)[Len(s) + k] = new[k]
    <3>1. s \in Seq(Nat) /\ new \in Seq(Nat)
      BY <1>5, <2>1
    <3>2. QED
      BY <3>1, ConcatElements
  <2>3. QED
    BY <1>5, <2>1, <2>2 DEF s
<1>7. ASSUME NEW k \in 1..(m + 1), NEW x \in 1..Len(Created(p[k]))
      PROVE  d.variable_indices[Variables(f, k - 1) + x] = k
  <2>1. CASE k = m + 1
    <3>1. x \in 1..Len(Created(i)) /\ k - 1 = m /\ Len(c.variable_indices) = Variables(f, m)
      BY <1>3, <1>4, <2>1 DEF VariablesKept
    <3>2. QED
      BY <1>6, <2>1, <3>1
  <2>2. CASE k # m + 1
    <3>1. k \in 1..m
      BY <1>4, <2>2
    <3>2. m \in 0..Len(p)
      BY <1>1 DEF Keeping
    <3>3. Variables(f, k - 1) + x \in 1..Variables(f, m)
      BY <3>1, <3>2, RunDeclaresAt DEF DeclaredAt
    <3>4. QED
      BY <1>3, <1>6, <3>1, <3>3 DEF VariablesKept
  <2>3. QED
    BY <2>1, <2>2
<1>8. QED
  BY <1>1, <1>3, <1>6, <1>7 DEF VariablesKept, Keeping

(* An instruction that is not Probe emits at most one action, and a        *)
(* compact block only if it is one.                                        *)
EmittedBy(c, i, action) ==
  /\ action.kind # "Probe"
  /\ action.kind = "SendRawMessage" /\ action.command = "SendCompactBlock" =>
       i.op = "SendCompactBlock" /\ action.payload = Input(c, i, 2)

(* What an instruction emits.                                              *)
LEMMA EmittedActions ==
  ASSUME NEW c, NEW i, i.op # "Probe"
  PROVE  \/ Emitted(c, i) = <<>>
         \/ \E action : Emitted(c, i) = <<action>> /\ EmittedBy(c, i, action)
<1>1. CASE i.op \in Sending
  <2> DEFINE sent == [ kind |-> "SendRawMessage", from |-> Input(c, i, 1).id, command |-> i.op,
                       payload |-> IF i.op \in {"SendCompactBlock", "SendBlockTxn"}
                                   THEN Input(c, i, 2) ELSE Opaque ]
  <2>1. Emitted(c, i) = <<sent>>
    BY <1>1 DEF Emitted
  <2>2. EmittedBy(c, i, sent)
    BY DEF EmittedBy
  <2>3. QED
    BY <2>1, <2>2
<1>2. CASE i.op \notin Sending
  <2> DEFINE kinds == {"Connect", "ConnectAndHandshake", "SetTime"}
  <2>1. Emitted(c, i) = <<>> \/ \E kind \in kinds : Emitted(c, i) = <<[kind |-> kind]>>
    BY <1>2 DEF Emitted
  <2>2. \A kind \in kinds : EmittedBy(c, i, [kind |-> kind])
    BY DEF EmittedBy
  <2>3. QED
    BY <2>1, <2>2
<1>3. QED
  BY <1>1, <1>2

(* A compact block keeps its value after it was sent.                      *)
LEMMA CompactBlocksStay ==
  ASSUME NEW p \in Seq(Instr), NEW f, AcceptedRun(NewBuilder, p, f), NEW c, NEW d, Goes(p, f, c, d),
         NEW j \in 1..(c.instructions + 1), p[j].op = "SendCompactBlock"
  PROVE  d.variables[p[j].inputs[2]] = c.variables[p[j].inputs[2]]
<1> DEFINE m == c.instructions
           v == p[j].inputs[2]
<1>1. Keeping(p, f, c, d)
  BY ValuesStay
<1>2. /\ m \in 0..Len(p) /\ m + 1 \in 1..Len(p) /\ j \in 1..Len(p) /\ m \in (j - 1)..Len(p)
      /\ p[j] \in Instr
  BY <1>1 DEF Keeping
<1>3. TakenAt(p, f, j, m)
  BY <1>2, RunTakesAt
<1>4. Signature[p[j].op].in = <<"Connection", "CompactBlock">>
  BY <1>2, CompilerAssumption DEF Instr
<1>5. 2 \in 1..Len(p[j].inputs) /\ Signature[p[j].op].in[2] = "CompactBlock"
  BY <1>3, <1>4 DEF TakenAt
<1>6. v \in 1..Variables(f, j - 1) /\ f[m].builder.variables[v].var = "CompactBlock"
  BY <1>3, <1>5 DEF TakenAt
<1>7. v \in 1..Variables(f, m)
  <2>1. NewBuilder \in Sound /\ j - 1 \in 0..m
    BY <1>2, NewReplays DEF Replays
  <2>2. Grown(f[j - 1].builder, f[m].builder)
    BY <1>2, <2>1, RunGrows
  <2>3. Declaring(p, f) /\ j - 1 \in 0..Len(p)
    BY <1>2, RunDeclaring
  <2>4. Variables(f, j - 1) <= Variables(f, m)
    BY <2>2 DEF Grown, Variables
  <2>5. Variables(f, j - 1) \in Nat /\ Variables(f, m) \in Nat
    BY <1>2, <2>3 DEF Declaring
  <2> HIDE DEF v
  <2>6. QED
    BY <1>6, <2>4, <2>5
<1>8. QED
  BY <1>1, <1>6, <1>7 DEF Keeping

(* The actions, each with the instruction it came from.                    *)
LEMMA ActionsStep ==
  ASSUME NEW p \in Seq(Instr), NEW f, AcceptedRun(NewBuilder, p, f), NEW c, NEW d, Goes(p, f, c, d)
  PROVE  ActionsKept(p, d)
<1> DEFINE m == c.instructions
           i == p[m + 1]
           e == Emitted(c, i)
           new == [ k \in 1..Len(e) |-> m + 1 ]
           A == Len(c.action_indices)
<1>1. ActionsKept(p, c) /\ i.op # "Probe"
  BY DEF Goes, Kept
<1>2. /\ m \in 0..Len(p) /\ m + 1 \in 1..Len(p) /\ m \in Nat /\ d.instructions = m + 1
  <2>1. Keeping(p, f, c, d)
    BY ValuesStay
  <2>2. QED
    BY <2>1 DEF Keeping
<1>3. d.actions = c.actions \o e /\ d.action_indices = c.action_indices \o new
  BY <1>1 DEF Goes, Handled
<1>4. e = <<>> \/ \E action : e = <<action>> /\ EmittedBy(c, i, action)
  BY <1>1, EmittedActions
<1>5. /\ HasElements(c.actions) /\ c.action_indices \in Seq(Nat) /\ Len(c.actions) = A + 1
      /\ c.actions[1].kind = "Probe" /\ A \in Nat
  BY <1>1 DEF ActionsKept
<1>6. ASSUME NEW a \in 1..A
      PROVE  /\ c.action_indices[a] \in 1..(m + 1)
             /\ c.actions[a + 1].kind # "Probe"
             /\ c.actions[a + 1].kind = "SendRawMessage" /\ c.actions[a + 1].command = "SendCompactBlock" =>
                  Sends(p, d, c.actions[a + 1], c.action_indices[a])
  <2>1. c.action_indices[a] \in 1..(m + 1) /\ c.actions[a + 1].kind # "Probe"
    BY <1>1, <1>2 DEF ActionsKept
  <2>2. ASSUME c.actions[a + 1].kind = "SendRawMessage", c.actions[a + 1].command = "SendCompactBlock"
        PROVE  Sends(p, d, c.actions[a + 1], c.action_indices[a])
    <3>1. Sends(p, c, c.actions[a + 1], c.action_indices[a])
      BY <1>1, <2>2 DEF ActionsKept
    <3> DEFINE j == c.action_indices[a]
    <3>2. j \in 1..(c.instructions + 1) /\ p[j].op = "SendCompactBlock"
      BY <2>1, <3>1 DEF Sends
    <3> HIDE DEF j
    <3>3. d.variables[p[j].inputs[2]] = c.variables[p[j].inputs[2]]
      BY <3>2, CompactBlocksStay
    <3>4. QED
      BY <3>1, <3>3 DEF Sends, j
  <2>3. QED
    BY <2>1, <2>2
<1> HIDE DEF e
<1>7. CASE e = <<>>
  <2>1. d.actions = c.actions /\ d.action_indices = c.action_indices
    <3>1. new = <<>>
      BY <1>7
    <3>2. \A s : HasElements(s) => s \o <<>> = s
      BY DEF HasElements
    <3>3. HasElements(c.action_indices)
      BY <1>5 DEF HasElements
    <3> HIDE DEF new
    <3>4. QED
      BY <1>3, <1>5, <1>7, <3>1, <3>2, <3>3
  <2>2. QED
    BY <1>2, <1>5, <1>6, <2>1 DEF ActionsKept
<1>8. ASSUME NEW action, e = <<action>>, EmittedBy(c, i, action)
      PROVE  ActionsKept(p, d)
  <2>1. HasElements(e) /\ Len(e) = 1 /\ e[1] = action
    BY <1>8, ListedHas
  <2>2. new = <<m + 1>> /\ <<m + 1>> \in Seq(Nat)
    BY <1>2, <2>1
  <2>3. Len(<<m + 1>>) = 1 /\ <<m + 1>>[1] = m + 1
    OBVIOUS
  <2> DEFINE s == c.actions
             t == c.action_indices
             w == <<m + 1>>
  <2>4. d.actions = s \o e /\ d.action_indices = t \o w
    BY <1>3, <2>2
  <2>5. HasElements(s) /\ t \in Seq(Nat) /\ Len(s) = A + 1 /\ Len(t) = A /\ w \in Seq(Nat)
    BY <1>5, <2>2
  <2> HIDE DEF s, t, w, new
  <2>6. /\ HasElements(s \o e) /\ Len(s \o e) = Len(s) + Len(e)
        /\ \A k \in 1..Len(s) : (s \o e)[k] = s[k]
        /\ \A k \in 1..Len(e) : (s \o e)[Len(s) + k] = e[k]
    <3>1. HasElements(s) /\ HasElements(e)
      BY <2>1, <2>5
    <3>2. QED
      BY <3>1, ConcatHas
  <2>7. /\ t \o w \in Seq(Nat) /\ Len(t \o w) = Len(t) + Len(w)
        /\ \A k \in 1..Len(t) : (t \o w)[k] = t[k]
        /\ \A k \in 1..Len(w) : (t \o w)[Len(t) + k] = w[k]
    <3>1. t \in Seq(Nat) /\ w \in Seq(Nat)
      BY <2>5
    <3>2. QED
      BY <3>1, ConcatElements
  <2>8. /\ HasElements(d.actions) /\ Len(d.actions) = A + 2
        /\ \A k \in 1..(A + 1) : d.actions[k] = c.actions[k]
        /\ d.actions[A + 2] = action
    <3>1. Len(s) + 1 = A + 2 /\ 1 \in 1..Len(e)
      BY <1>5, <2>1, <2>5
    <3>2. QED
      BY <1>5, <2>1, <2>4, <2>5, <2>6, <3>1 DEF s
  <2>9. /\ d.action_indices \in Seq(Nat) /\ Len(d.action_indices) = A + 1
        /\ \A k \in 1..A : d.action_indices[k] = c.action_indices[k]
        /\ d.action_indices[A + 1] = m + 1
    <3>1. Len(w) = 1 /\ w[1] = m + 1 /\ 1 \in 1..Len(w)
      BY <2>3 DEF w
    <3>2. QED
      BY <1>5, <2>4, <2>5, <2>7, <3>1 DEF t
  <2>10. ASSUME NEW a \in 1..(A + 1)
         PROVE  /\ d.action_indices[a] \in 1..d.instructions
                /\ d.actions[a + 1].kind # "Probe"
                /\ d.actions[a + 1].kind = "SendRawMessage" /\ d.actions[a + 1].command = "SendCompactBlock" =>
                     Sends(p, d, d.actions[a + 1], d.action_indices[a])
    <3>1. CASE a \in 1..A
      <4>1. d.actions[a + 1] = c.actions[a + 1] /\ d.action_indices[a] = c.action_indices[a]
        BY <1>5, <2>8, <2>9, <3>1
      <4>2. QED
        BY <1>2, <1>6, <3>1, <4>1
    <3>2. CASE a = A + 1
      <4>1. d.actions[a + 1] = action /\ d.action_indices[a] = m + 1 /\ m + 1 \in 1..d.instructions
        BY <1>2, <1>5, <2>8, <2>9, <3>2
      <4>2. action.kind # "Probe"
        BY <1>8 DEF EmittedBy
      <4>3. ASSUME action.kind = "SendRawMessage", action.command = "SendCompactBlock"
            PROVE  Sends(p, d, action, m + 1)
        <5>1. p[m + 1].op = "SendCompactBlock" /\ action.payload = c.variables[p[m + 1].inputs[2]]
          BY <1>8, <4>3 DEF EmittedBy, Input
        <5>2. m + 1 \in 1..(c.instructions + 1)
          BY <1>2
        <5>3. d.variables[p[m + 1].inputs[2]] = c.variables[p[m + 1].inputs[2]]
          BY <5>1, <5>2, CompactBlocksStay
        <5>4. QED
          BY <5>1, <5>3 DEF Sends
      <4>4. QED
        BY <4>1, <4>2, <4>3
    <3>3. QED
      BY <1>5, <3>1, <3>2
  <2>11. d.actions[1].kind = "Probe" /\ Len(d.actions) = Len(d.action_indices) + 1
    <3>1. 1 \in 1..(A + 1)
      BY <1>5
    <3>2. QED
      BY <1>5, <2>8, <2>9, <3>1
  <2>12. QED
    BY <2>8, <2>9, <2>10, <2>11 DEF ActionsKept
<1>9. QED
  BY <1>4, <1>7, <1>8

(* Inserting into a map.                                                   *)
LEMMA OrInserted ==
  ASSUME NEW m, NEW key, NEW value
  PROVE  \A k \in DOMAIN OrInsert(m, key, value) :
           \/ k \in DOMAIN m /\ OrInsert(m, key, value)[k] = m[k]
           \/ k = key /\ OrInsert(m, key, value)[k] = value
BY DEF OrInsert

(* The connections, each with the instruction that loaded it.              *)
LEMMA ConnectionsStep ==
  ASSUME NEW p \in Seq(Instr), NEW f, AcceptedRun(NewBuilder, p, f), NEW c, NEW d, Goes(p, f, c, d)
  PROVE  ConnectionsKept(p, f, d)
<1> DEFINE m == c.instructions
           i == p[m + 1]
<1>1. ConnectionsKept(p, f, c)
  BY DEF Goes, Kept
<1>2. /\ m \in Nat /\ d.instructions = m + 1 /\ (m + 1) - 1 = m
      /\ Len(c.variables) = Variables(f, m)
  <2>1. Keeping(p, f, c, d)
    BY ValuesStay
  <2>2. QED
    BY <2>1 DEF Keeping
<1>3. d.connection_map = IF i.op = "LoadConnection"
                         THEN OrInsert(c.connection_map, i.arg, Variables(f, m) + 1)
                         ELSE c.connection_map
  BY <1>2 DEF Goes, Handled
<1> SUFFICES ASSUME NEW x \in DOMAIN d.connection_map
             PROVE  \E k \in 1..d.instructions :
                      /\ p[k].op = "LoadConnection" /\ p[k].arg = x
                      /\ d.connection_map[x] = Variables(f, k - 1) + 1
  BY DEF ConnectionsKept
<1>4. CASE x \in DOMAIN c.connection_map /\ d.connection_map[x] = c.connection_map[x]
  <2>1. PICK k \in 1..m : /\ p[k].op = "LoadConnection" /\ p[k].arg = x
                          /\ c.connection_map[x] = Variables(f, k - 1) + 1
    BY <1>1, <1>4 DEF ConnectionsKept
  <2>2. k \in 1..d.instructions
    BY <1>2
  <2>3. QED
    BY <1>4, <2>1, <2>2
<1>5. CASE i.op = "LoadConnection" /\ x = i.arg /\ d.connection_map[x] = Variables(f, m) + 1
  <2>1. m + 1 \in 1..d.instructions
    BY <1>2
  <2>2. QED
    BY <1>2, <1>5, <2>1
<1>6. QED
  BY <1>3, <1>4, <1>5, OrInserted

(* The blocks, each with the instruction that built it.                    *)
LEMMA BlocksStep ==
  ASSUME NEW p \in Seq(Instr), NEW f, AcceptedRun(NewBuilder, p, f), NEW c, NEW d, Goes(p, f, c, d)
  PROVE  BlocksKept(p, f, d)
<1> DEFINE m == c.instructions
           i == p[m + 1]
           hash == Produced(c, i)[2].hash
           new == [ header_var |-> Variables(f, m) + 1, block_var |-> Variables(f, m) + 2,
                    block_transactions_var |-> i.inputs[5] ]
<1>1. BlocksKept(p, f, c)
  BY DEF Goes, Kept
<1>2. Keeping(p, f, c, d)
  BY ValuesStay
<1>3. /\ m \in Nat /\ m \in 0..Len(p) /\ d.instructions = m + 1 /\ (m + 1) - 1 = m
      /\ Len(c.variables) = Variables(f, m) /\ i \in Instr /\ m + 1 \in 1..Len(p)
  BY <1>2 DEF Keeping
<1>4. d.block_tx_var_map = IF i.op = "BuildBlock" THEN OrInsert(c.block_tx_var_map, hash, new)
                           ELSE c.block_tx_var_map
  BY <1>3 DEF Goes, Handled
<1> SUFFICES ASSUME NEW h \in DOMAIN d.block_tx_var_map
             PROVE  h # UnknownBlock /\ \E k \in 1..d.instructions : BuiltAt(p, f, d, h, k)
  BY DEF BlocksKept
<1>5. CASE h \in DOMAIN c.block_tx_var_map /\ d.block_tx_var_map[h] = c.block_tx_var_map[h]
  <2>1. h # UnknownBlock /\ \E k \in 1..m : BuiltAt(p, f, c, h, k)
    BY <1>1, <1>5 DEF BlocksKept
  <2>2. PICK k \in 1..m : BuiltAt(p, f, c, h, k)
    BY <2>1
  <2>3. k \in 1..d.instructions /\ k \in 1..Len(p) /\ p[k] \in Instr
    BY <1>3
  <2>4. Created(p[k]) = <<"Header", "Block", "ConstCoinbaseTx">> /\ Len(Created(p[k])) = 3
    BY <2>2, <2>3, ProducedHas DEF BuiltAt
  <2>5. 2 \in 1..Len(Created(p[k])) /\ Created(p[k])[2] = "Block"
    BY <2>4
  <2>6. DeclaredAt(p, f, k, m)
    BY <1>3, RunDeclaresAt
  <2> DEFINE v == Variables(f, k - 1) + 2
  <2>7. v \in 1..Variables(f, m) /\ f[m].builder.variables[v].var = "Block"
    <3>1. /\ v \in 1..Variables(f, m)
          /\ f[m].builder.variables[v]
               = [ var |-> Created(p[k])[2],
                   scope_id |-> IF p[k].op \in NopOp THEN 0 ELSE CurrentScope(f[k].builder).id ]
      BY <2>5, <2>6 DEF DeclaredAt
    <3> HIDE DEF v
    <3>2. QED
      BY <2>5, <3>1
  <2>8. d.variables[v] = c.variables[v]
    BY <1>2, <2>7 DEF Keeping
  <2>9. QED
    BY <1>5, <2>1, <2>2, <2>3, <2>8 DEF BuiltAt
<1>6. CASE i.op = "BuildBlock" /\ h = hash /\ d.block_tx_var_map[h] = new
  <2>1. /\ Len(Created(i)) = 3 /\ i.inputs \in Seq(Nat)
        /\ hash = <<SubSeq(i.inputs, 1, 4), Input(c, i, 5).txs>>
    BY <1>3, <1>6, ProducedHas
  <2>2. Len(i.inputs) = 5
    <3>1. m + 1 \in 1..Len(p) /\ m \in ((m + 1) - 1)..Len(p)
      BY <1>3
    <3>2. TakenAt(p, f, m + 1, m)
      BY <3>1, RunTakesAt
    <3>3. i.op \in Op
      BY <1>3 DEF Instr
    <3>4. QED
      BY <1>6, <3>2, <3>3, CompilerAssumption DEF TakenAt
  <2>3. SubSeq(i.inputs, 1, 4) # <<>>
    <3> DEFINE s == i.inputs
    <3>1. s \in Seq(Nat) /\ Len(s) = 5
      BY <2>1, <2>2
    <3> HIDE DEF s
    <3>2. Len(SubSeq(s, 1, 4)) = 4
      BY <3>1
    <3>3. Len(<<>>) = 0
      BY ListedHas
    <3>4. SubSeq(s, 1, 4) # <<>>
      <4>1. SUFFICES ASSUME SubSeq(s, 1, 4) = <<>> PROVE FALSE
        OBVIOUS
      <4>2. Len(SubSeq(s, 1, 4)) = Len(<<>>)
        BY <4>1, Zenon
      <4>3. 4 # 0
        OBVIOUS
      <4>4. QED
        BY <3>2, <3>3, <4>2, <4>3, Zenon
    <3>5. QED
      BY <3>4 DEF s
  <2>4. hash # UnknownBlock
    BY <2>1, <2>3 DEF UnknownBlock
  <2>5. d.variables[Variables(f, m) + 2] = Produced(c, i)[2]
    <3>1. 2 \in 1..Len(Created(i))
      BY <2>1
    <3>2. QED
      BY <1>2, <3>1 DEF Keeping
  <2>6. m + 1 \in 1..d.instructions
    BY <1>3
  <2>7. BuiltAt(p, f, d, h, m + 1)
    <3>1. d.variables[Variables(f, m) + 2].hash = h
      BY <1>6, <2>5
    <3>2. d.block_tx_var_map[h].header_var = Variables(f, m) + 1
          /\ d.block_tx_var_map[h].block_var = Variables(f, m) + 2
      BY <1>6
    <3>3. QED
      BY <1>3, <1>6, <3>1, <3>2 DEF BuiltAt
  <2>8. QED
    BY <1>6, <2>4, <2>6, <2>7
<1>7. QED
  BY <1>4, <1>5, <1>6, OrInserted

(* The compiler keeps what it knows, and learns about one instruction.     *)
LEMMA KeptStep ==
  ASSUME NEW p \in Seq(Instr), NEW f, AcceptedRun(NewBuilder, p, f), NEW c, Kept(p, f, c),
         NEW i, i.op # "Probe",
         c.error = "None" => c.instructions + 1 \in 1..Len(p) /\ i = p[c.instructions + 1],
         NEW d, d = CompileInstruction(c, i)
  PROVE  /\ Kept(p, f, d)
         /\ d.error = "None" => c.error = "None" /\ d.instructions = c.instructions + 1
<1>1. IsCompiler(c)
  BY DEF Kept
<1>2. /\ IsCompiler(d)
      /\ Stopped(c, d) \/ (c.error = "None" /\ Handled(c, i, d))
  BY <1>1, NextCompiler
<1>3. CASE Stopped(c, d)
  <2>1. VariablesKept(p, f, d) /\ d.instructions \in 0..Len(p) /\ d.error # "None"
    BY <1>3 DEF Stopped, Kept, VariablesKept
  <2>2. ActionsKept(p, d)
    BY <1>3 DEF Stopped, Kept, ActionsKept, Sends
  <2>3. ConnectionsKept(p, f, d)
    BY <1>3 DEF Stopped, Kept, ConnectionsKept
  <2>4. BlocksKept(p, f, d)
    BY <1>3 DEF Stopped, Kept, BlocksKept, BuiltAt
  <2>5. QED
    BY <1>2, <2>1, <2>2, <2>3, <2>4 DEF Kept
<1>4. CASE c.error = "None" /\ Handled(c, i, d)
  <2>1. Goes(p, f, c, d)
    BY <1>4 DEF Goes
  <2>2. d.instructions = c.instructions + 1 /\ d.instructions \in 0..Len(p)
    <3>1. Keeping(p, f, c, d)
      BY <2>1, ValuesStay
    <3>2. QED
      BY <3>1 DEF Keeping
  <2>3. QED
    BY <1>2, <1>4, <2>1, <2>2, VariablesStep, ActionsStep, ConnectionsStep, BlocksStep DEF Kept
<1>5. QED
  BY <1>2, <1>3, <1>4

(* What a testcase is.                                                     *)
LEMMA Testcase ==
  ASSUME NEW p \in Testcases
  PROVE  /\ p \in Seq(Instr) /\ IsStaticallyValid(p) /\ Len(p) \in Nat
         /\ \A k \in 1..Len(p) :
              p[k].op # "Probe" /\ (p[k].op = "BuildBlock" => Last(ContextStacks(p)[k]) = Global)
<1>1. p \in Seq(Instr) /\ IsStaticallyValid(p)
  BY ProbingAssumption, Zenon
<1>2. \A k \in Indices(p) :
        p[k].op # "Probe" /\ (p[k].op = "BuildBlock" => Last(ContextStacks(p)[k]) = Global)
  BY ProbingAssumption, Zenon
<1>3. Indices(p) = 1..Len(p)
  BY DEF Indices
<1>4. Len(p) \in Nat
  BY <1>1
<1>5. QED
  BY <1>1, <1>2, <1>3, <1>4, Zenon

(* Probe is the first action, and not an instruction of the testcase.      *)
LEMMA ProbeIsFirst ==
  ASSUME NEW p \in Testcases, NEW f, AcceptedRun(NewBuilder, p, f),
         NEW d, d = CompileInstruction(NewCompiler, [op |-> "Probe", inputs |-> <<>>, arg |-> 0])
  PROVE  Kept(p, f, d) /\ d.error = "None" /\ d.instructions = 0
<1> DEFINE i == [op |-> "Probe", inputs |-> <<>>, arg |-> 0]
           x == Produced(NewCompiler, i)
           probe == [kind |-> "Probe"]
<1>1. /\ IsCompiler(NewCompiler) /\ NewCompiler.error = "None" /\ NewCompiler.instructions = 0
      /\ NewCompiler.variables = <<>> /\ NewCompiler.variable_indices = <<>>
      /\ NewCompiler.actions = <<>> /\ NewCompiler.action_indices = <<>>
      /\ NewCompiler.connection_map = <<>> /\ NewCompiler.block_tx_var_map = <<>>
  BY DEF NewCompiler, IsCompiler
<1>2. IsCompiler(d) /\ (Stopped(NewCompiler, d) \/ Handled(NewCompiler, i, d))
  <2> DEFINE c == NewCompiler
  <2>1. IsCompiler(c)
    BY <1>1
  <2>2. d = CompileInstruction(c, i)
    OBVIOUS
  <2> HIDE DEF c, i
  <2>3. IsCompiler(d) /\ (Stopped(c, d) \/ (c.error = "None" /\ Handled(c, i, d)))
    BY <2>1, <2>2, NextCompiler
  <2>4. QED
    BY <2>3 DEF c
<1>3. d.error = "None"
  <2>1. Failure(NewCompiler, i) = "None"
    BY DEF Failure
  <2>2. QED
    BY <1>1, <2>1 DEF CompileInstruction
<1>4. Handled(NewCompiler, i, d)
  BY <1>2, <1>3 DEF Stopped
<1>5. i \in Instr /\ Created(i) = <<>> /\ p \in Seq(Instr) /\ Len(p) \in Nat
  <2>1. "Probe" \in Op /\ Signature["Probe"].out \o Signature["Probe"].inner = <<>>
    BY ProbingAssumption, Zenon
  <2>2. <<>> \in Seq(Nat) /\ 0 \in Nat
    OBVIOUS
  <2>3. i \in Instr
    BY <2>1, <2>2 DEF Instr
  <2>4. Created(i) = <<>>
    BY <2>1 DEF Created
  <2>5. QED
    BY <2>3, <2>4, Testcase
<1>6. HasElements(x) /\ Len(x) = 0
  <2>1. HasElements(x) /\ Len(x) = Len(Created(i))
    <3>1. i \in Instr
      BY <1>5
    <3> HIDE DEF i
    <3>2. QED
      BY <3>1, ProducedHas
  <2>2. Len(<<>>) = 0
    BY ListedHas
  <2>3. QED
    BY <1>5, <2>1, <2>2
<1>7. Emitted(NewCompiler, i) = <<probe>>
  BY DEF Emitted, Sending
<1>8. Held(NewCompiler, i) = <<>>
  BY <1>1 DEF Held, Modifying
<1>9. /\ d.instructions = 0 /\ d.variables = <<>> \o x
      /\ d.variable_indices = <<>> \o [k \in 1..Len(x) |-> 0 + 1]
      /\ d.actions = <<>> \o <<probe>> /\ d.action_indices = <<>>
      /\ d.connection_map = <<>> /\ d.block_tx_var_map = <<>>
  BY <1>1, <1>4, <1>7, <1>8 DEF Handled
<1> HIDE DEF i, x
<1>10. VariablesKept(p, f, d)
  <2>1. Variables(f, 0) = 0
    BY <1>5, RunDeclaring DEF Declaring
  <2>2. HasElements(<<>>) /\ Len(<<>>) = 0
    BY ListedHas
  <2>3. HasElements(d.variables) /\ Len(d.variables) = 0
    <3>1. HasElements(<<>> \o x) /\ Len(<<>> \o x) = Len(<<>>) + Len(x)
      BY <1>6, <2>2, ConcatHas
    <3>2. QED
      BY <1>6, <1>9, <2>2, <3>1
  <2>4. d.variable_indices \in Seq(Nat) /\ Len(d.variable_indices) = 0
    <3>1. d.variable_indices = <<>> \o [k \in 1..0 |-> 1]
      BY <1>6, <1>9
    <3>2. [k \in 1..0 |-> 1] \in Seq(Nat) /\ Len([k \in 1..0 |-> 1]) = 0
      OBVIOUS
    <3>3. \A y \in Seq(Nat) : <<>> \o y = y
      OBVIOUS
    <3>4. QED
      BY <3>1, <3>2, <3>3
  <2>5. QED
    BY <1>9, <2>1, <2>3, <2>4 DEF VariablesKept
<1>11. ActionsKept(p, d)
  <2>1. HasElements(<<>>) /\ Len(<<>>) = 0 /\ HasElements(<<probe>>) /\ Len(<<probe>>) = 1
        /\ <<probe>>[1] = probe
    <3> HIDE DEF probe
    <3>1. QED
      BY ListedHas
  <2>2. HasElements(<<>> \o <<probe>>) /\ Len(<<>> \o <<probe>>) = Len(<<>>) + Len(<<probe>>)
        /\ \A k \in 1..Len(<<probe>>) : (<<>> \o <<probe>>)[Len(<<>>) + k] = <<probe>>[k]
    <3> DEFINE u == <<probe>>
    <3>1. HasElements(<<>>) /\ HasElements(u)
      BY <2>1
    <3> HIDE DEF u
    <3>2. HasElements(<<>> \o u) /\ Len(<<>> \o u) = Len(<<>>) + Len(u)
          /\ \A k \in 1..Len(u) : (<<>> \o u)[Len(<<>>) + k] = u[k]
      BY <3>1, ConcatHas
    <3>3. QED
      BY <3>2 DEF u
  <2> DEFINE actions == <<>> \o <<probe>>
  <2>3. HasElements(actions) /\ Len(actions) = 1
    BY <2>1, <2>2
  <2>4. actions[1].kind = "Probe"
    <3>1. actions[Len(<<>>) + 1] = probe
      BY <2>1, <2>2
    <3>2. actions[1] = probe
      BY <2>1, <3>1
    <3>3. QED
      BY <3>2
  <2>5. d.actions = actions /\ d.action_indices = <<>>
    BY <1>9
  <2>6. <<>> \in Seq(Nat)
    OBVIOUS
  <2> HIDE DEF actions
  <2>7. 1..0 = {} /\ 0 + 1 = 1
    OBVIOUS
  <2>9. Len(d.action_indices) = 0 /\ d.action_indices \in Seq(Nat)
    BY <2>1, <2>5, <2>6, Zenon
  <2>10. QED
    BY <2>3, <2>4, <2>5, <2>7, <2>9 DEF ActionsKept
<1>12. ConnectionsKept(p, f, d) /\ BlocksKept(p, f, d)
  <2>1. DOMAIN <<>> = {}
    OBVIOUS
  <2>2. QED
    BY <1>9, <2>1 DEF ConnectionsKept, BlocksKept
<1>13. QED
  BY <1>2, <1>3, <1>5, <1>9, <1>10, <1>11, <1>12 DEF Kept

(* What the compiler keeps of a testcase that is probed.                   *)
LEMMA CompiledKept ==
  ASSUME NEW p \in Testcases, NEW f, AcceptedRun(NewBuilder, p, f)
  PROVE  Kept(p, f, Compile(Probed(p)))
<1> DEFINE q == Probed(p)
           i == [op |-> "Probe", inputs |-> <<>>, arg |-> 0]
<1>1. p \in Seq(Instr) /\ Len(p) \in Nat /\ \A k \in 1..Len(p) : p[k].op # "Probe"
  BY Testcase
<1>2. Len(q) = Len(p) + 1 /\ q[1] = i /\ \A k \in 1..Len(p) : q[1 + k] = p[k]
  <2>1. HasElements(<<i>>) /\ Len(<<i>>) = 1 /\ <<i>>[1] = i
    <3> HIDE DEF i
    <3>1. QED
      BY ListedHas
  <2>2. HasElements(p)
    BY <1>1 DEF HasElements
  <2> DEFINE s == <<i>>
  <2>3. q = s \o p
    BY DEF Probed
  <2>4. HasElements(s) /\ HasElements(p)
    BY <2>1, <2>2
  <2>5. Len(s) = 1 /\ s[1] = i
    BY <2>1
  <2> HIDE DEF i, s, q
  <2>6. Len(s \o p) = Len(s) + Len(p) /\ (\A k \in 1..Len(s) : (s \o p)[k] = s[k])
        /\ \A k \in 1..Len(p) : (s \o p)[Len(s) + k] = p[k]
    BY <2>4, ConcatHas
  <2>7. q[1] = s[1]
    BY <2>3, <2>5, <2>6
  <2>8. QED
    BY <1>1, <2>3, <2>5, <2>6, <2>7
<1> HIDE DEF q
<1>3. Len(q) \in Nat
  BY <1>1, <1>2
<1>4. PICK g : Compiles(q, g) /\ Compile(q) = g[Len(q)]
  BY <1>3, CompileSteps
<1> DEFINE P == { n \in 0..Len(p) : Kept(p, f, g[n + 1])
                                   /\ (g[n + 1].error = "None" => g[n + 1].instructions = n) }
<1>5. 0 \in P
  <2>1. 1 \in 1..Len(q) /\ 0 \in 0..Len(p) /\ 1 - 1 = 0 /\ 0 + 1 = 1
    BY <1>1, <1>2
  <2>2. g[1] = CompileInstruction(NewCompiler, i)
    BY <1>2, <1>4, <2>1 DEF Compiles
  <2> DEFINE d == g[1]
  <2>3. d = CompileInstruction(NewCompiler, [op |-> "Probe", inputs |-> <<>>, arg |-> 0])
    BY <2>2
  <2> HIDE DEF d
  <2>4. Kept(p, f, d) /\ d.error = "None" /\ d.instructions = 0
    BY <2>3, ProbeIsFirst
  <2>5. QED
    BY <2>1, <2>4 DEF d
<1>6. ASSUME NEW n \in 1..Len(p), n - 1 \in P PROVE n \in P
  <2> DEFINE c == g[n]
             d == g[n + 1]
  <2>1. /\ n \in 0..Len(p) /\ (n - 1) + 1 = n /\ n + 1 \in 1..Len(q) /\ (n + 1) - 1 = n
        /\ 1 + n = n + 1 /\ n \in Nat
    BY <1>1, <1>2
  <2>2. Kept(p, f, c) /\ (c.error = "None" => c.instructions = n - 1)
    BY <1>6, <2>1
  <2>3. d = CompileInstruction(c, p[n])
    BY <1>2, <1>4, <2>1 DEF Compiles
  <2>4. p[n].op # "Probe"
    BY <1>1
  <2> HIDE DEF c, d, P
  <2>5. c.error = "None" => c.instructions + 1 \in 1..Len(p) /\ p[n] = p[c.instructions + 1]
    BY <2>1, <2>2
  <2>6. /\ Kept(p, f, d)
        /\ d.error = "None" => c.error = "None" /\ d.instructions = c.instructions + 1
    <3> DEFINE j == p[n]
    <3>1. /\ d = CompileInstruction(c, j) /\ j.op # "Probe"
          /\ c.error = "None" => c.instructions + 1 \in 1..Len(p) /\ j = p[c.instructions + 1]
      BY <2>3, <2>4, <2>5
    <3> HIDE DEF j
    <3>2. QED
      BY <1>1, <2>2, <3>1, KeptStep
  <2>7. d.error = "None" => d.instructions = n
    BY <2>1, <2>2, <2>6
  <2>8. QED
    BY <2>1, <2>6, <2>7 DEF P, d
<1>7. \A n \in 0..Len(p) : n \in P
  <2> HIDE DEF P
  <2>1. QED
    BY <1>1, <1>5, <1>6, InductionUpTo
<1>8. Kept(p, f, g[Len(p) + 1])
  <2>1. Len(p) \in P
    BY <1>1, <1>7
  <2>2. QED
    BY <2>1
<1>9. QED
  BY <1>2, <1>4, <1>8 DEF q

-----------------------------------------------------------------------------
(* The contexts on the stack of get_random_instruction_index_from, for the *)
(* scopes of the builder: as many, and none is global but the first.       *)
Follows(top, scopes) ==
  /\ top \in Seq(Context) /\ Len(top) = Len(scopes)
  /\ \A k \in 2..Len(top) : top[k] # Global

NextTop(top, i) ==
  LET left == IF i.op \in Ends THEN Front(top) ELSE top
  IN  IF i.op \in Begins THEN Append(left, EnteredContext[i.op]) ELSE left

(* They follow the scopes through every instruction.                       *)
LEMMA FollowsStep ==
  ASSUME NEW b \in Sound, NEW i \in Instr, Outcome(b, i) = "Ok",
         NEW top, Follows(top, b.active_scopes)
  PROVE  Follows(NextTop(top, i), Appended(b, i).active_scopes)
<1> DEFINE scopes == b.active_scopes
           next == Appended(b, i).active_scopes
           left == IF i.op \in Ends THEN Front(top) ELSE top
           low == Same(scopes, i)
<1>1. /\ scopes \in Seq(Scope) /\ b.scope_counter \in Nat /\ b.instructions \in Seq(Instr)
      /\ i.op \in Ends => Len(scopes) > 1
  BY AcceptedIsSound DEF Sound, Builder
<1>2. Len(b.instructions) + 1 \in Nat
  BY <1>1
<1>3. next = Entered(Left(scopes, i), b.scope_counter, Len(b.instructions) + 1, i)
  BY AcceptedFields DEF NextFields
<1>4. StackMoved(next, scopes, b.scope_counter, Len(b.instructions) + 1, i)
  <2> HIDE DEF scopes, next
  <2>1. QED
    BY <1>1, <1>2, <1>3, NextStack
<1>5. /\ low \in Nat /\ Len(next) = low + (IF i.op \in Begins THEN 1 ELSE 0)
      /\ low = IF i.op \in Ends THEN Len(scopes) - 1 ELSE Len(scopes)
  BY <1>4 DEF StackMoved, Same
<1>6. top \in Seq(Context) /\ Len(top) = Len(scopes) /\ \A k \in 2..Len(top) : top[k] # Global
  BY DEF Follows
<1> HIDE DEF low, next, scopes
<1>7. left \in Seq(Context) /\ Len(left) = low /\ \A k \in 2..low : left[k] # Global
  <2>1. CASE i.op \in Ends
    <3> DEFINE n == Len(top) - 1
    <3>1. Len(top) \in Nat /\ Len(top) > 1 /\ n = low
      BY <1>1, <1>5, <1>6, <2>1
    <3>2. 1 \in 1..(Len(top) + 1) /\ n \in (1 - 1)..Len(top) /\ 1 <= n /\ n - 1 + 1 = n
      BY <3>1
    <3>3. /\ SubSeq(top, 1, n) \in Seq(Context) /\ Len(SubSeq(top, 1, n)) = n
          /\ \A k \in 1..n : SubSeq(top, 1, n)[k] = top[k]
      <4> HIDE DEF n
      <4>1. QED
        BY <1>6, <3>1, <3>2
    <3>4. left = SubSeq(top, 1, n)
      BY <2>1 DEF Front
    <3> HIDE DEF n, left
    <3>5. \A k \in 2..n : k \in 1..n /\ k \in 2..Len(top)
      BY <3>1, <3>2
    <3>6. QED
      BY <1>6, <3>1, <3>3, <3>4, <3>5
  <2>2. CASE i.op \notin Ends
    BY <1>5, <1>6, <2>2
  <2>3. QED
    BY <2>1, <2>2
<1> DEFINE new == NextTop(top, i)
<1>8. new = IF i.op \in Begins THEN Append(left, EnteredContext[i.op]) ELSE left
  BY DEF NextTop
<1> HIDE DEF left, new
<1>9. CASE i.op \in Begins
  <2>1. EnteredContext[i.op] \in Context /\ EnteredContext[i.op] # Global
    <3>1. EnteredContext[i.op] \in Context
      BY <1>9, TableFacts
    <3>2. EnteredContext[i.op] # Global
      BY <1>9, ProbingAssumption, Zenon
    <3>3. QED
      BY <3>1, <3>2
  <2>2. new \in Seq(Context) /\ Len(new) = low + 1
    BY <1>5, <1>7, <1>8, <1>9, <2>1
  <2>3. \A k \in 2..Len(new) : new[k] # Global
    <3>1. SUFFICES ASSUME NEW k \in 2..Len(new) PROVE new[k] # Global
      OBVIOUS
    <3>2. k \in 2..low \/ k = low + 1
      BY <1>5, <2>2
    <3>3. new = Append(left, EnteredContext[i.op])
      BY <1>8, <1>9
    <3>4. k \in 2..low => new[k] = left[k]
      BY <1>5, <1>7, <2>1, <3>3
    <3>5. new[low + 1] = EnteredContext[i.op]
      BY <1>5, <1>7, <2>1, <3>3
    <3>6. QED
      BY <1>7, <2>1, <3>2, <3>4, <3>5
  <2>4. Len(new) = Len(next)
    BY <1>5, <1>9, <2>2
  <2>5. QED
    BY <2>2, <2>3, <2>4 DEF Follows, new, next
<1>10. CASE i.op \notin Begins
  <2>1. new = left /\ Len(next) = low
    BY <1>5, <1>8, <1>10
  <2>2. QED
    BY <1>7, <2>1 DEF Follows, new, next
<1>11. QED
  BY <1>9, <1>10

(* The stacks after every instruction.                                     *)
LEMMA ContextsOfRun ==
  ASSUME NEW p \in Seq(Instr), NEW f, AcceptedRun(NewBuilder, p, f), NEW n \in 0..Len(p)
  PROVE  Follows(ContextStacks(p)[n + 1], f[n].builder.active_scopes)
<1> DEFINE N == Len(p)
           S == Seq(Seq(Context)) \ {<<>>}
           base == << <<Global>> >>
           step == [x \in S \X Instr |-> Append(x[1], NextTop(Last(x[1]), x[2]))]
           Collects(g) ==
             g = [ m \in 0..N |->
                     IF m = 0 THEN << <<Global>> >>
                     ELSE LET top  == Last(g[m - 1])
                              left == IF p[m].op \in Ends THEN Front(top) ELSE top
                          IN  Append(g[m - 1],
                                     IF p[m].op \in Begins THEN Append(left, EnteredContext[p[m].op])
                                     ELSE left) ]
<1>1. N \in Nat /\ NewBuilder \in Sound
  BY NewReplays DEF Replays
<1>2. Global \in Context /\ <<Global>> \in Seq(Context) /\ Len(<<Global>>) = 1
  BY IRAssumption
<1>3. base \in S /\ Len(base) = 1 /\ base[1] = <<Global>>
  <2> DEFINE top == <<Global>>
  <2>1. top \in Seq(Context)
    BY <1>2
  <2> HIDE DEF top
  <2>2. <<top>> \in Seq(Seq(Context)) /\ Len(<<top>>) = 1 /\ <<top>>[1] = top /\ <<top>> # <<>>
    BY <2>1
  <2>3. QED
    BY <2>2 DEF top
<1>4. ASSUME NEW s \in S, NEW i \in Instr
      PROVE  Append(s, NextTop(Last(s), i)) \in S
  <2>1. s \in Seq(Seq(Context)) /\ s # <<>> /\ Len(s) \in Nat \ {0}
    OBVIOUS
  <2>2. Last(s) \in Seq(Context)
    BY <2>1 DEF Last
  <2> DEFINE top == Last(s)
             left == IF i.op \in Ends THEN Front(top) ELSE top
  <2>3. Front(top) \in Seq(Context)
    <3>1. Front(top) = SubSeq(top, 1, Len(top) - 1)
      BY DEF Front
    <3>2. CASE top = <<>>
      <4>1. Len(top) - 1 \in Int /\ 1 > Len(top) - 1 /\ 1 \in Int
        <5> HIDE DEF top
        <5>1. Len(<<>>) = 0
          OBVIOUS
        <5>2. QED
          BY <3>2, <5>1
      <4> DEFINE m == Len(top) - 1
      <4>2. m \in Int /\ 1 > m /\ 1 \in Int
        BY <4>1
      <4>3. SubSeq(top, 1, m) = <<>>
        <5> HIDE DEF m, top
        <5>1. QED
          BY <4>2, SubSeqEmpty
      <4>4. <<>> \in Seq(Context)
        OBVIOUS
      <4>5. QED
        BY <3>1, <4>3, <4>4
    <3>3. CASE top # <<>>
      <4> HIDE DEF top
      <4>1. top \in Seq(Context)
        BY <2>2 DEF top
      <4>2. Len(top) \in Nat \ {0}
        BY <3>3, <4>1
      <4> DEFINE m == Len(top) - 1
      <4>3. m \in (1 - 1)..Len(top) /\ 1 \in 1..(Len(top) + 1)
        BY <4>2
      <4> HIDE DEF m
      <4>4. SubSeq(top, 1, m) \in Seq(Context)
        BY <4>1, <4>3, SubSeqProperties
      <4>5. QED
        BY <3>1, <4>4 DEF m
    <3>4. QED
      BY <3>2, <3>3
  <2>4. left \in Seq(Context)
    BY <2>2, <2>3
  <2>5. i.op \in Begins => EnteredContext[i.op] \in Context
    BY TableFacts
  <2> DEFINE new == NextTop(top, i)
  <2>6. new = IF i.op \in Begins THEN Append(left, EnteredContext[i.op]) ELSE left
    BY DEF NextTop
  <2> HIDE DEF left, new
  <2>7. new \in Seq(Context)
    BY <2>4, <2>5, <2>6
  <2>8. Append(s, new) \in Seq(Seq(Context)) /\ Append(s, new) # <<>>
    <3>1. Append(s, new) \in Seq(Seq(Context)) /\ Len(Append(s, new)) = Len(s) + 1
      BY <2>1, <2>7
    <3>2. Len(<<>>) = 0
      OBVIOUS
    <3> DEFINE x == Append(s, new)
    <3>3. Len(x) # Len(<<>>)
      BY <2>1, <3>1, <3>2
    <3> HIDE DEF x
    <3>4. x # <<>>
      BY <3>3, Zenon
    <3>5. QED
      BY <3>1, <3>4 DEF x
  <2>9. QED
    BY <2>8 DEF new
<1>5. step \in [S \X Instr -> S]
  <2>1. \A x \in S \X Instr : Append(x[1], NextTop(Last(x[1]), x[2])) \in S
    <3> HIDE DEF S
    <3>1. \A x \in S \X Instr : x[1] \in S /\ x[2] \in Instr
      OBVIOUS
    <3>2. QED
      BY <1>4, <3>1
  <2> HIDE DEF S
  <2>2. QED
    BY <2>1
<1>6. \A s \in S : \A i \in Instr : step[<<s, i>>] = Append(s, NextTop(Last(s), i))
  <2> HIDE DEF S
  <2>1. QED
    OBVIOUS
<1>7. Folds(S, base, p, step)
  <2> HIDE DEF S, base, step
  <2>1. QED
    BY <1>3, <1>5, FoldSteps
<1> HIDE DEF step, S
<1>8. PICK h \in [0..N -> S] :
        h[0] = base /\ \A m \in 1..N : h[m] = step[<<h[m - 1], p[m]>>]
  BY <1>7 DEF Folds
<1>9. ASSUME NEW m \in 1..N
      PROVE  h[m] = Append(h[m - 1], NextTop(Last(h[m - 1]), p[m]))
  <2>1. m - 1 \in 0..N /\ p[m] \in Instr
    BY <1>1
  <2>2. h[m - 1] \in S
    BY <2>1
  <2>3. QED
    BY <1>6, <1>8, <2>1, <2>2
<1>10. Collects(h)
  <2>1. h = [m \in 0..N |-> h[m]]
    OBVIOUS
  <2>2. \A m \in 0..N : m = 0 \/ m \in 1..N
    BY <1>1
  <2>3. ASSUME NEW m \in 0..N
        PROVE  h[m] = IF m = 0 THEN << <<Global>> >>
                      ELSE LET top  == Last(h[m - 1])
                               left == IF p[m].op \in Ends THEN Front(top) ELSE top
                           IN  Append(h[m - 1],
                                 IF p[m].op \in Begins THEN Append(left, EnteredContext[p[m].op])
                                 ELSE left)
    BY <1>8, <1>9, <2>2 DEF NextTop
  <2>4. QED
    BY <2>1, <2>3
<1> DEFINE g == CHOOSE x : Collects(x)
<1>11. Collects(g)
  BY <1>10
<1>12. ContextStacks(p) = g[N]
  BY DEF ContextStacks, Folded
<1> HIDE DEF g
<1>13. g[0] = base /\ \A m \in 1..N : g[m] = Append(g[m - 1], NextTop(Last(g[m - 1]), p[m]))
  <2>1. 0 \in 0..N /\ \A m \in 1..N : m \in 0..N /\ m # 0
    BY <1>1
  <2>2. \A m \in 0..N :
          g[m] = IF m = 0 THEN base ELSE Append(g[m - 1], NextTop(Last(g[m - 1]), p[m]))
    BY <1>11 DEF NextTop
  <2>3. QED
    BY <2>1, <2>2
<1> HIDE DEF Collects, base
<1> DEFINE Scopes(m) == f[m].builder.active_scopes
           P == { m \in 0..N : /\ g[m] \in S /\ Len(g[m]) = m + 1
                               /\ \A k \in 0..m : Follows(g[m][k + 1], Scopes(k)) }
<1>14. 0 \in P
  <2>1. Follows(<<Global>>, Scopes(0))
    <3>1. f[0].builder = NewBuilder
      BY DEF AcceptedRun, Runs
    <3>2. Len(NewBuilder.active_scopes) = 1
      BY DEF NewBuilder, EnterScope
    <3>3. 2..1 = {}
      OBVIOUS
    <3>4. QED
      BY <1>2, <3>1, <3>2, <3>3 DEF Follows
  <2>2. 0 \in 0..N /\ 0 + 1 = 1 /\ \A k \in 0..0 : k = 0
    BY <1>1
  <2> HIDE DEF Scopes
  <2>3. QED
    BY <1>3, <1>13, <2>1, <2>2
<1>15. ASSUME NEW m \in 1..N, m - 1 \in P PROVE m \in P
  <2> DEFINE s == g[m - 1]
             b == f[m - 1].builder
             i == p[m]
             new == NextTop(Last(s), i)
  <2>1. m \in 0..N /\ m \in Nat /\ m - 1 \in 0..(m - 1) /\ (m - 1) + 1 = m /\ i \in Instr
        /\ m - 1 \in 0..N
    BY <1>1
  <2>2. s \in S /\ Len(s) = m /\ \A k \in 0..(m - 1) : Follows(s[k + 1], Scopes(k))
    BY <1>15, <2>1
  <2>3. b \in Sound /\ Outcome(b, i) = "Ok" /\ f[m].builder = Appended(b, i)
    BY <1>1, <2>1, AllAccepted DEF AcceptedRun
  <2>4. Follows(s[m], b.active_scopes)
    BY <2>1, <2>2
  <2>5. Last(s) = s[m]
    BY <2>2 DEF Last
  <2>6. Follows(new, Scopes(m))
    <3> DEFINE top == s[m]
    <3>1. Follows(top, b.active_scopes)
      BY <2>4
    <3> HIDE DEF top, b, i, s
    <3>2. Follows(NextTop(top, i), Appended(b, i).active_scopes)
      BY <2>1, <2>3, <3>1, FollowsStep
    <3>3. QED
      BY <2>3, <2>5, <3>2 DEF top
  <2>7. g[m] = Append(s, new) /\ g[m] \in S
    <3>1. g[m] = Append(s, new)
      BY <1>13
    <3>2. QED
      BY <1>4, <2>1, <2>2, <3>1
  <2>8. s \in Seq(Seq(Context)) /\ new \in Seq(Context)
    BY <2>2, <2>6 DEF S, Follows
  <2> HIDE DEF s, new, b, i, Scopes
  <2>9. Len(g[m]) = m + 1 /\ g[m][m + 1] = new /\ \A k \in 1..m : g[m][k] = s[k]
    BY <2>1, <2>2, <2>7, <2>8
  <2>10. ASSUME NEW k \in 0..m PROVE Follows(g[m][k + 1], Scopes(k))
    <3>1. k = m \/ (k \in 0..(m - 1) /\ k + 1 \in 1..m)
      BY <2>1
    <3>2. QED
      BY <2>2, <2>6, <2>9, <3>1
  <2>11. QED
    BY <2>1, <2>7, <2>9, <2>10
<1>16. \A m \in 0..N : m \in P
  <2> HIDE DEF P, N
  <2>1. QED
    BY <1>1, <1>14, <1>15, InductionUpTo
<1>17. N \in P /\ n \in 0..N
  BY <1>1, <1>16
<1>18. QED
  BY <1>12, <1>17

(* The bottom of the stack is the global scope.                            *)
LEMMA SoundScopes ==
  ASSUME NEW b \in Sound
  PROVE  /\ b.active_scopes \in Seq(Scope) /\ Len(b.active_scopes) \in Nat \ {0}
         /\ b.active_scopes[1].id = 1 /\ 1 \in b.active_scopes_set
<1>1. b.active_scopes \in Seq(Scope)
  BY DEF Sound, Builder
<1> DEFINE s == b.active_scopes
<1>2. /\ s # <<>> /\ \A k \in 1..Len(s) : k = 1 => s[k].id = 1
      /\ b.active_scopes_set = { s[k].id : k \in 1..Len(s) }
  BY DEF Sound, ScopesOK, ScopeStack
<1> HIDE DEF s
<1>3. s \in Seq(Scope)
  BY <1>1 DEF s
<1>4. Len(s) \in Nat \ {0}
  BY <1>2, <1>3
<1>5. 1 \in 1..Len(s)
  BY <1>4
<1>6. QED
  BY <1>2, <1>3, <1>4, <1>5 DEF s

(* A block is built in the global scope.                                   *)
LEMMA BuiltGlobally ==
  ASSUME NEW p \in Testcases, NEW f, AcceptedRun(NewBuilder, p, f),
         NEW k \in 1..Len(p), p[k].op = "BuildBlock"
  PROVE  CurrentScope(f[k].builder).id = 1 /\ p[k].op \notin NopOp
<1> DEFINE b == f[k - 1].builder
           c == f[k].builder
           i == p[k]
<1>1. p \in Seq(Instr) /\ Len(p) \in Nat /\ NewBuilder \in Sound
  BY Testcase, NewReplays DEF Replays
<1>2. /\ k - 1 \in 0..Len(p) /\ (k - 1) + 1 = k /\ k \in 0..Len(p) /\ i \in Instr
      /\ Last(ContextStacks(p)[k]) = Global
  BY <1>1, Testcase
<1>3. b \in Sound /\ Outcome(b, i) = "Ok" /\ c = Appended(b, i) /\ c \in Sound
  BY <1>1, <1>2, AllAccepted DEF AcceptedRun
<1>4. i.op \in Op
  BY <1>2 DEF Instr
<1>5. i.op \notin Begins /\ i.op \notin Ends /\ Created(i) = <<"Header", "Block", "ConstCoinbaseTx">>
  BY <1>4, CompilerAssumption DEF Created
<1>6. Len(b.active_scopes) \in Nat \ {0} /\ c.active_scopes[1].id = 1
  BY <1>3, SoundScopes
<1>7. Len(b.active_scopes) = 1
  <2> DEFINE top == ContextStacks(p)[k]
  <2>1. Follows(ContextStacks(p)[(k - 1) + 1], f[k - 1].builder.active_scopes)
    BY <1>1, <1>2, ContextsOfRun
  <2>2. Follows(top, b.active_scopes) /\ Last(top) = Global
    BY <1>2, <2>1
  <2> HIDE DEF top
  <2>3. Len(top) = Len(b.active_scopes) /\ Len(top) \in Nat /\ top[Len(top)] = Global
        /\ \A n \in 2..Len(top) : top[n] # Global
    BY <2>2 DEF Follows, Last
  <2>4. Len(top) < 2
    BY <2>3
  <2> DEFINE n == Len(b.active_scopes)
             m == Len(top)
  <2>5. n \in Nat \ {0} /\ m = n /\ m < 2
    BY <1>6, <2>3, <2>4
  <2> HIDE DEF n, m
  <2>6. n = 1
    BY <2>5
  <2>7. QED
    BY <2>6 DEF n
<1>8. c.active_scopes = b.active_scopes
  <2> HIDE DEF b, i
  <2>1. NextFields(b, i, c)
    BY <1>2, <1>3, AcceptedFields
  <2>2. QED
    BY <1>5, <2>1 DEF NextFields, Entered, Left
<1>10. i.op \notin NopOp
  <2>1. Len(Created(i)) = 3 /\ Created(i)[1] = "Header" /\ 1 \in 1..Len(Created(i))
    BY <1>5
  <2>2. "Header" # "Nop"
    OBVIOUS
  <2> HIDE DEF i
  <2>3. QED
    BY <1>2, <2>1, <2>2, NopTypes
<1>11. QED
  BY <1>6, <1>7, <1>8, <1>10 DEF CurrentScope

(* What RecentHeadersAreDefined says of one of the recent blocks.          *)
SeenFrom(p, v, i) ==
  \A k \in InsertionIndices(p, Global) :
    k >= i => LET seen == Visible(Lookup(SubSeq(p, 1, k)))
              IN  v \in DOMAIN seen /\ seen[v] = "Header"

(* The header of a block stays visible.                                    *)
LEMMA HeaderStays ==
  ASSUME NEW p \in Testcases, NEW f, AcceptedRun(NewBuilder, p, f),
         NEW k \in 1..Len(p), p[k].op = "BuildBlock"
  PROVE  SeenFrom(p, Variables(f, k - 1) + 1, k)
<1> DEFINE v == Variables(f, k - 1) + 1
<1>1. p \in Seq(Instr) /\ Len(p) \in Nat /\ k \in Nat /\ p[k] \in Instr
  BY Testcase
<1>2. Len(Created(p[k])) = 3 /\ Created(p[k]) = <<"Header", "Block", "ConstCoinbaseTx">>
  <2> DEFINE i == p[k]
  <2>1. i \in Instr /\ i.op = "BuildBlock"
    BY <1>1
  <2> HIDE DEF i
  <2>2. Len(Created(i)) = 3 /\ Created(i) = <<"Header", "Block", "ConstCoinbaseTx">>
    BY <2>1, ProducedHas
  <2>3. QED
    BY <2>2 DEF i
<1>3. 1 \in 1..Len(Created(p[k])) /\ Created(p[k])[1] = "Header"
  BY <1>2
<1>4. SUFFICES ASSUME NEW n \in InsertionIndices(p, Global), n >= k
               PROVE  LET seen == Visible(Lookup(SubSeq(p, 1, n)))
                      IN  v \in DOMAIN seen /\ seen[v] = "Header"
  BY DEF SeenFrom
<1>5. n \in 0..Len(p) /\ k \in 1..n
  <2>1. n \in 0..Len(p)
    BY <1>1, InsertionPoint
  <2>2. QED
    BY <1>1, <1>4, <2>1
<1> DEFINE b == f[n].builder
<1>6. /\ v \in 1..Variables(f, n)
      /\ b.variables[v] = [ var |-> Created(p[k])[1],
                            scope_id |-> IF p[k].op \in NopOp THEN 0
                                         ELSE CurrentScope(f[k].builder).id ]
  <2>1. DeclaredAt(p, f, k, n)
    BY <1>1, <1>5, RunDeclaresAt
  <2>2. QED
    BY <1>3, <2>1 DEF DeclaredAt
<1>7. v \in 1..Len(b.variables) /\ b.variables[v].var = "Header" /\ b.variables[v].scope_id = 1
  <2>1. CurrentScope(f[k].builder).id = 1 /\ p[k].op \notin NopOp
    BY BuiltGlobally
  <2>2. b.variables[v] = [var |-> "Header", scope_id |-> 1]
    BY <1>3, <1>6, <2>1
  <2>3. QED
    BY <1>6, <2>2 DEF Variables
<1>8. 1 \in b.active_scopes_set
  <2>1. b \in Sound
    BY <1>1, <1>5, RunDeclaring DEF Declaring
  <2>2. QED
    BY <2>1, SoundScopes
<1>9. Visible(Lookup(SubSeq(p, 1, n))) = Visible(b)
  BY <1>1, <1>5, LookupOfPrefix
<1> HIDE DEF v, b
<1>10. v \in DOMAIN Visible(b) /\ Visible(b)[v] = "Header"
  <2>1. InScope(b, v)
    BY <1>7, <1>8 DEF InScope
  <2>2. QED
    BY <1>7, <2>1 DEF Visible
<1>11. QED
  BY <1>9, <1>10

-----------------------------------------------------------------------------
(* What is reported, and what is kept of it.                               *)
GetBlockTxns ==
  [ kind : {"GetBlockTxn"}, connection_index : Nat, triggering_instruction_index : Nat,
    block_variable : Nat, tx_indices_variables : Seq(Nat) ]

Failures == [ kind   : {"Failure"},
              reason : { "block hash is not registered in the metadata",
                         "couldn't find matching connection var" } ]

KnownHeaders(p) ==
  { r \in [height : Nat, variable : Nat, instruction : Nat] : SeenFrom(p, r.variable, r.instruction) }

Descending(p) ==
  { s \in Seq(KnownHeaders(p)) : \A n, m \in 1..Len(s) : n < m => s[n].height > s[m].height }

Results(p) == GetBlockTxns \cup Failures \cup [kind : {"RecentBlocks"}, result : Descending(p)]

Metadata(p) == [block_txn_request : Seq(GetBlockTxns), recent_blocks : Seq(KnownHeaders(p))]

(* What RequestsNameTheirTrigger says of one of the results.               *)
Told(p, c, r, a) ==
  r.kind = "GetBlockTxn" =>
    LET trigger == p[r.triggering_instruction_index]
        loading == p[Origins(p)[r.connection_index][1]]
    IN  /\ trigger.op = "SendCompactBlock"
        /\ c.variables[trigger.inputs[2]].hash = a.request.block_hash
        /\ c.variables[r.block_variable].hash = a.request.block_hash
        /\ loading.op = "LoadConnection" /\ loading.arg = a.dst

-----------------------------------------------------------------------------
(* What the target asks for.                                               *)
LEMMA RequestsAsk ==
  ASSUME NEW action, NEW request \in Requests(action)
  PROVE  /\ request.indexes \in Seq(Nat)
         /\ \/ action.command = "SendCompactBlock" /\ request.block_hash = action.payload.hash
            \/ request.block_hash = UnknownBlock
<1> DEFINE missing == Indices(action.payload.txs) \ action.payload.prefilled
           size == Cardinality(missing)
<1>1. CASE action.command = "SendCompactBlock"
  <2>1. request \in { [block_hash |-> action.payload.hash, indexes |-> wanted] :
                        wanted \in Ascending(missing) }
    BY <1>1 DEF Requests
  <2>2. PICK wanted \in Ascending(missing) :
               request = [block_hash |-> action.payload.hash, indexes |-> wanted]
    BY <2>1
  <2>3. \A x : \A k \in 1..x : k \in Nat
    OBVIOUS
  <2>4. \A k \in missing : k \in Nat
    BY <2>3 DEF Indices
  <2> HIDE DEF missing
  <2>5. wanted \in UNION { [1..n -> missing] : n \in 1..size }
    BY DEF Ascending
  <2> HIDE DEF size
  <2>6. PICK n \in 1..size : wanted \in [1..n -> missing]
    BY <2>5
  <2>7. n \in Nat
    BY <2>3
  <2>8. wanted \in [1..n -> Nat]
    BY <2>4, <2>6
  <2>9. wanted \in Seq(Nat)
    BY <2>7, <2>8
  <2>10. QED
    BY <1>1, <2>2, <2>9
<1>2. CASE action.command # "SendCompactBlock"
  <2>1. request = [block_hash |-> UnknownBlock, indexes |-> <<1>>]
    BY <1>2 DEF Requests
  <2>2. <<1>> \in Seq(Nat)
    OBVIOUS
  <2>3. QED
    BY <2>1, <2>2
<1>3. QED
  BY <1>1, <1>2

(* The report of a request for transactions.                               *)
LEMMA MappedTells ==
  ASSUME program \in Testcases, compiled = Compile(Probed(program)),
         NEW k \in 1..Len(compiled.action_indices),
         compiled.actions[k + 1].kind = "SendRawMessage",
         NEW request \in Requests(compiled.actions[k + 1]), NEW dst,
         NEW count, count + 1 = k,
         NEW a, a.request = request, a.dst = dst
  PROVE  /\ Mapped(request, dst, count) \in GetBlockTxns \cup Failures
         /\ Told(program, compiled, Mapped(request, dst, count), a)
<1> DEFINE p == program
           c == compiled
           r == Mapped(request, dst, count)
           h == request.block_hash
           action == c.actions[k + 1]
<1>1. p \in Seq(Instr) /\ IsStaticallyValid(p) /\ Len(p) \in Nat
  BY Testcase
<1>2. PICK f : AcceptedRun(NewBuilder, p, f)
  BY <1>1, ValidRun
<1>3. Kept(p, f, c)
  BY <1>2, CompiledKept
<1>4. /\ c.instructions \in 0..Len(p) /\ ActionsKept(p, c) /\ ConnectionsKept(p, f, c)
      /\ BlocksKept(p, f, c)
  BY <1>3 DEF Kept
<1>5. /\ request.indexes \in Seq(Nat)
      /\ \/ action.command = "SendCompactBlock" /\ h = action.payload.hash
         \/ h = UnknownBlock
  BY RequestsAsk
<1>6. CASE h \notin DOMAIN c.block_tx_var_map \/ dst \notin DOMAIN c.connection_map
  <2>1. r \in Failures
    BY <1>6 DEF Mapped, Failures
  <2>2. r.kind # "GetBlockTxn"
    BY <2>1 DEF Failures
  <2>3. QED
    BY <2>1, <2>2 DEF Told
<1>7. CASE h \in DOMAIN c.block_tx_var_map /\ dst \in DOMAIN c.connection_map
  <2>1. r = [ kind |-> "GetBlockTxn", connection_index |-> c.connection_map[dst],
              triggering_instruction_index |-> c.action_indices[k],
              block_variable |-> c.block_tx_var_map[h].block_var,
              tx_indices_variables |-> request.indexes ]
    BY <1>7 DEF Mapped
  <2>2. h # UnknownBlock /\ \E n \in 1..c.instructions : BuiltAt(p, f, c, h, n)
    BY <1>4, <1>7 DEF BlocksKept
  <2>3. PICK n \in 1..c.instructions : BuiltAt(p, f, c, h, n)
    BY <2>2
  <2>4. action.command = "SendCompactBlock" /\ h = action.payload.hash
    BY <1>5, <2>2
  <2> DEFINE j == c.action_indices[k]
  <2>5. Sends(p, c, action, j)
    BY <1>4, <2>4 DEF ActionsKept
  <2>6. PICK m \in 1..c.instructions : /\ p[m].op = "LoadConnection" /\ p[m].arg = dst
                                       /\ c.connection_map[dst] = Variables(f, m - 1) + 1
    BY <1>4, <1>7 DEF ConnectionsKept
  <2>7. /\ n - 1 \in 0..Len(p) /\ m - 1 \in 0..Len(p) /\ m \in 1..Len(p) /\ p[m] \in Instr
    BY <1>1, <1>4
  <2>8. Variables(f, n - 1) \in Nat /\ Variables(f, m - 1) \in Nat
    BY <1>1, <1>2, <2>7, RunDeclaring DEF Declaring
  <2>9. Origins(p)[Variables(f, m - 1) + 1] = <<m, 1>>
    <3>1. Len(Created(p[m])) = 1
      <4> DEFINE i == p[m]
      <4>1. i \in Instr /\ i.op = "LoadConnection"
        BY <2>6, <2>7
      <4> HIDE DEF i
      <4>2. Len(Created(i)) = 1
        BY <4>1, ProducedHas
      <4>3. QED
        BY <4>2 DEF i
    <3>2. 1 \in 1..Len(Created(p[m]))
      BY <3>1
    <3>3. OriginsTell(p, f)
      BY <1>1, <1>2, OriginsOfRun
    <3>4. QED
      BY <2>7, <3>2, <3>3 DEF OriginsTell
  <2>10. j \in Nat /\ c.connection_map[dst] \in Nat /\ c.block_tx_var_map[h].block_var \in Nat
    <3>1. c.action_indices \in Seq(Nat)
      BY <1>4 DEF ActionsKept
    <3>2. j \in Nat
      BY <3>1
    <3>3. QED
      BY <2>3, <2>6, <2>8, <3>2 DEF BuiltAt
  <2>11. r \in GetBlockTxns
    BY <1>5, <2>1, <2>10 DEF GetBlockTxns
  <2>12. p[j].op = "SendCompactBlock" /\ c.variables[p[j].inputs[2]].hash = h
    BY <2>4, <2>5 DEF Sends
  <2>13. c.variables[c.block_tx_var_map[h].block_var].hash = h
    BY <2>3 DEF BuiltAt
  <2>14. p[Origins(p)[c.connection_map[dst]][1]] = p[m]
    BY <2>6, <2>9
  <2>15. /\ r.triggering_instruction_index = j /\ r.connection_index = c.connection_map[dst]
         /\ r.block_variable = c.block_tx_var_map[h].block_var
    BY <2>1
  <2>16. Told(p, c, r, a)
    <3> HIDE DEF p, c, r, h, j, action
    <3>1. a.request.block_hash = h
      BY DEF h
    <3>2. QED
      BY <2>6, <2>12, <2>13, <2>14, <2>15, <3>1 DEF Told
  <2>17. QED
    BY <2>11, <2>16
<1>8. QED
  BY <1>6, <1>7

-----------------------------------------------------------------------------
(* The smaller of two numbers.                                             *)
LEMMA MinOfTwo ==
  ASSUME NEW a \in Nat, NEW b \in Nat
  PROVE  Min({a, b}) \in Nat /\ Min({a, b}) <= a
<1>1. \E x \in {a, b} : \A y \in {a, b} : x =< y
  OBVIOUS
<1> DEFINE m == CHOOSE x \in {a, b} : \A y \in {a, b} : x =< y
<1>2. m \in {a, b} /\ \A y \in {a, b} : m =< y
  BY <1>1
<1>3. Min({a, b}) = m
  BY DEF Min
<1> HIDE DEF m
<1>4. QED
  BY <1>2, <1>3

(* The recent blocks, from the tip downwards: their headers are known.     *)
LEMMA RecentBlocksKnown ==
  ASSUME program \in Testcases, compiled = Compile(Probed(program)), NEW chain \in Chains
  PROVE  RecentBlocks(chain) \in Descending(program)
<1> DEFINE p == program
           c == compiled
           Hashes == DOMAIN c.block_tx_var_map
           size == Cardinality(Hashes)
           m == Min({Len(chain), NumRecentBlocks})
           height(back) == Len(chain) - back + 1
           header(back) == c.block_tx_var_map[chain[height(back)]].header_var
           block(back) == [ height |-> height(back), variable |-> header(back),
                            instruction |-> c.variable_indices[header(back)] ]
           s == RecentBlocks(chain)
<1>1. p \in Seq(Instr) /\ IsStaticallyValid(p) /\ Len(p) \in Nat
  BY Testcase
<1>2. PICK f : AcceptedRun(NewBuilder, p, f)
  BY <1>1, ValidRun
<1>3. Kept(p, f, c)
  BY <1>2, CompiledKept
<1>4. c.instructions \in 0..Len(p) /\ VariablesKept(p, f, c) /\ BlocksKept(p, f, c)
  BY <1>3 DEF Kept
<1>5. Len(chain) \in Nat /\ \A k \in 1..Len(chain) : chain[k] \in Hashes
  <2>1. chain \in UNION { [1..n -> Hashes] : n \in 0..size }
    BY DEF Chains
  <2> HIDE DEF size, Hashes
  <2>2. PICK n \in 0..size : chain \in [1..n -> Hashes]
    BY <2>1
  <2>3. n \in Nat
    OBVIOUS
  <2>4. QED
    BY <2>2, <2>3
<1>6. m \in Nat /\ m <= Len(chain)
  <2>1. NumRecentBlocks \in Nat
    BY ProbingAssumption, Zenon
  <2>2. QED
    BY <1>5, <2>1, MinOfTwo
<1>7. s = [back \in 1..m |-> block(back)]
  BY DEF RecentBlocks
<1> HIDE DEF m, s
<1>8. ASSUME NEW back \in 1..m
      PROVE  /\ height(back) \in Nat
             /\ block(back) \in KnownHeaders(p)
  <2>1. height(back) \in 1..Len(chain)
    BY <1>5, <1>6
  <2> DEFINE h == chain[height(back)]
             v == header(back)
  <2>2. h \in DOMAIN c.block_tx_var_map
    BY <1>5, <2>1
  <2>3. PICK n \in 1..c.instructions : BuiltAt(p, f, c, h, n)
    BY <1>4, <2>2 DEF BlocksKept
  <2>4. n \in 1..Len(p) /\ n - 1 \in 0..Len(p) /\ n \in Nat /\ p[n] \in Instr
    BY <1>1, <1>4
  <2>5. p[n].op = "BuildBlock" /\ v = Variables(f, n - 1) + 1
    BY <2>3 DEF BuiltAt
  <2>6. Variables(f, n - 1) \in Nat
    BY <1>1, <1>2, <2>4, RunDeclaring DEF Declaring
  <2>7. c.variable_indices[v] = n
    <3>1. Len(Created(p[n])) = 3
      <4> DEFINE i == p[n]
      <4>1. i \in Instr /\ i.op = "BuildBlock"
        BY <2>4, <2>5
      <4> HIDE DEF i
      <4>2. Len(Created(i)) = 3
        BY <4>1, ProducedHas
      <4>3. QED
        BY <4>2 DEF i
    <3>2. 1 \in 1..Len(Created(p[n]))
      BY <3>1
    <3>3. c.variable_indices[Variables(f, n - 1) + 1] = n
      BY <1>4, <3>2 DEF VariablesKept
    <3>4. QED
      BY <2>5, <3>3
  <2>8. SeenFrom(p, Variables(f, n - 1) + 1, n)
    BY <1>2, <2>4, <2>5, HeaderStays
  <2>9. v \in Nat /\ SeenFrom(p, v, c.variable_indices[v])
    BY <2>5, <2>6, <2>7, <2>8
  <2>10. height(back) \in Nat
    BY <2>1
  <2> DEFINE x == block(back)
             i == c.variable_indices[v]
             g == height(back)
  <2>11. x = [height |-> g, variable |-> v, instruction |-> i]
    OBVIOUS
  <2>12. g \in Nat /\ v \in Nat /\ i \in Nat /\ SeenFrom(p, v, i)
    BY <2>4, <2>7, <2>9, <2>10
  <2> HIDE DEF x, i, g, v, p
  <2>13. x \in KnownHeaders(p)
    BY <2>11, <2>12 DEF KnownHeaders
  <2>14. QED
    BY <2>12, <2>13 DEF x, g
<1> DEFINE K == KnownHeaders(p)
<1>9. s \in [1..m -> K]
  <2>1. \A back \in 1..m : block(back) \in K
    BY <1>8
  <2> HIDE DEF K, block
  <2>2. QED
    BY <1>7, <2>1
<1>10. s \in Seq(K) /\ Len(s) = m
  <2> HIDE DEF K
  <2>1. QED
    BY <1>6, <1>9
<1>11. ASSUME NEW n \in 1..Len(s), NEW k \in 1..Len(s), n < k
       PROVE  s[n].height > s[k].height
  <2>1. n \in 1..m /\ k \in 1..m
    BY <1>10
  <2>2. s[n].height = height(n) /\ s[k].height = height(k)
    BY <1>7, <2>1
  <2>3. height(n) > height(k)
    BY <1>5, <1>6, <1>11, <2>1
  <2>4. QED
    BY <2>2, <2>3
<1>12. QED
  <2> HIDE DEF K, p
  <2>1. s \in Descending(p)
    BY <1>10, <1>11 DEF Descending, K
  <2>2. QED
    BY <2>1 DEF s, p

(* add_recent_blocks sorts them.                                           *)
LEMMA ByHeightSorts ==
  ASSUME NEW p, NEW s \in Descending(p)
  PROVE  ByHeight(s) \in Seq(KnownHeaders(p))
<1> DEFINE K == KnownHeaders(p)
           L == Len(s)
           H == ToSet(s)
           Sorted(u) == /\ ToSet(u) = ToSet(s)
                        /\ \A n, m \in Indices(u) : n < m => u[n].height <= u[m].height
           r == [n \in 1..L |-> s[L + 1 - n]]
<1>1. s \in Seq(K) /\ \A n, m \in 1..L : n < m => s[n].height > s[m].height
  BY DEF Descending
<1>2. \A x \in K : x.height \in Nat
  BY DEF KnownHeaders
<1> HIDE DEF K
<1>3. L \in Nat /\ DOMAIN s = 1..L
  BY <1>1
<1>4. H = { s[n] : n \in 1..L } /\ H \subseteq K
  <2>1. H = { s[n] : n \in 1..L }
    BY <1>3 DEF ToSet
  <2>2. \A n \in 1..L : s[n] \in K
    BY <1>1
  <2>3. QED
    BY <2>1, <2>2
<1> HIDE DEF H, L
<1>5. r \in [1..L -> H]
  BY <1>3, <1>4
<1>6. DOMAIN r = 1..L /\ Len(r) = L
  BY <1>3
<1>7. ToSet(r) = H
  <2>1. ToSet(r) = { r[n] : n \in 1..L }
    BY <1>6 DEF ToSet
  <2>2. \A n \in 1..L : L + 1 - n \in 1..L /\ L + 1 - (L + 1 - n) = n
    BY <1>3
  <2>3. \A n \in 1..L : r[n] = s[L + 1 - n] /\ r[L + 1 - n] = s[n]
    BY <2>2
  <2> HIDE DEF r
  <2>4. ASSUME NEW x \in H PROVE x \in { r[n] : n \in 1..L }
    <3>1. PICK n \in 1..L : x = s[n]
      BY <1>4
    <3>2. L + 1 - n \in 1..L /\ r[L + 1 - n] = x
      BY <2>2, <2>3, <3>1
    <3>3. QED
      BY <3>2
  <2>5. \A n \in 1..L : r[n] \in H
    BY <1>4, <2>2, <2>3
  <2>6. QED
    BY <2>1, <2>4, <2>5
<1>8. ASSUME NEW n \in 1..L, NEW m \in 1..L, n < m PROVE r[n].height <= r[m].height
  <2>1. L + 1 - n \in 1..L /\ L + 1 - m \in 1..L /\ L + 1 - m < L + 1 - n
    BY <1>3, <1>8
  <2>2. s[L + 1 - m].height > s[L + 1 - n].height
    BY <1>1, <2>1 DEF L
  <2>3. s[L + 1 - m].height \in Nat /\ s[L + 1 - n].height \in Nat
    <3>1. \A k \in 1..L : s[k] \in K
      BY <1>1 DEF L
    <3>2. QED
      BY <1>2, <2>1, <3>1
  <2>4. r[n] = s[L + 1 - n] /\ r[m] = s[L + 1 - m]
    OBVIOUS
  <2>5. QED
    BY <2>2, <2>3, <2>4
<1>9. Indices(s) = 1..L /\ Indices(r) = 1..L
  BY <1>6 DEF Indices, L
<1> HIDE DEF r
<1>10. Sorted(r)
  BY <1>7, <1>8, <1>9 DEF H
<1>11. r \in [Indices(s) -> ToSet(s)]
  BY <1>5, <1>9 DEF H
<1> DEFINE x == CHOOSE u \in [Indices(s) -> ToSet(s)] :
                  /\ ToSet(u) = ToSet(s)
                  /\ \A n, m \in Indices(u) : n < m => u[n].height <= u[m].height
<1>12. \E u \in [Indices(s) -> ToSet(s)] :
         /\ ToSet(u) = ToSet(s)
         /\ \A n, m \in Indices(u) : n < m => u[n].height <= u[m].height
  BY <1>10, <1>11
<1>13. x \in [Indices(s) -> ToSet(s)]
  BY <1>12
<1>14. ByHeight(s) = x
  BY <1>9 DEF ByHeight
<1> HIDE DEF x
<1>15. x \in [1..L -> K]
  BY <1>4, <1>9, <1>13 DEF H
<1>16. x \in Seq(K)
  BY <1>3, <1>15
<1>17. QED
  BY <1>14, <1>16 DEF K

(* process_probe_results keeps requests and known headers.                 *)
LEMMA LearnedType ==
  ASSUME NEW p, NEW m \in Metadata(p), NEW r \in Results(p)
  PROVE  Learned(m, r) \in Metadata(p)
<1> DEFINE K == KnownHeaders(p)
<1>1. /\ m = [block_txn_request |-> m.block_txn_request, recent_blocks |-> m.recent_blocks]
      /\ m.block_txn_request \in Seq(GetBlockTxns) /\ m.recent_blocks \in Seq(K)
  BY DEF Metadata
<1>2. CASE r \in GetBlockTxns
  <2>1. r.kind = "GetBlockTxn"
    BY <1>2 DEF GetBlockTxns
  <2>2. Learned(m, r) = [m EXCEPT !.block_txn_request = Append(@, r)]
    BY <2>1 DEF Learned
  <2>3. Append(m.block_txn_request, r) \in Seq(GetBlockTxns)
    BY <1>1, <1>2
  <2> HIDE DEF K
  <2>4. QED
    BY <1>1, <2>2, <2>3 DEF Metadata, K
<1>3. CASE r \in [kind : {"RecentBlocks"}, result : Descending(p)]
  <2>1. r.kind = "RecentBlocks" /\ r.result \in Descending(p)
    BY <1>3
  <2>2. Learned(m, r) = [m EXCEPT !.recent_blocks = ByHeight(r.result)]
    BY <2>1 DEF Learned
  <2> DEFINE s == r.result
             b == ByHeight(s)
  <2>3. s \in Descending(p)
    BY <2>1
  <2> HIDE DEF s
  <2>4. b \in Seq(K)
    BY <2>3, ByHeightSorts
  <2>5. Learned(m, r) = [m EXCEPT !.recent_blocks = b]
    BY <2>2 DEF s
  <2> HIDE DEF K, b
  <2>6. QED
    BY <1>1, <2>4, <2>5 DEF Metadata, K
<1>4. CASE r \in Failures
  <2>1. r.kind = "Failure"
    BY <1>4 DEF Failures
  <2>2. Learned(m, r) = m
    BY <2>1 DEF Learned
  <2>3. QED
    BY <2>2
<1>5. QED
  BY <1>2, <1>3, <1>4 DEF Results

(* And so it does for all that an execution reported.                      *)
LEMMA LearnsAll ==
  ASSUME NEW p, NEW m \in Metadata(p), NEW results \in Seq(Results(p))
  PROVE  Folded(Learned, m, results) \in Metadata(p)
<1> DEFINE S == Metadata(p)
           T == Results(p)
           N == Len(results)
           step == [x \in S \X T |-> Learned(x[1], x[2])]
           Learns(g) == g = [n \in 0..N |-> IF n = 0 THEN m ELSE Learned(g[n - 1], results[n])]
<1>1. N \in Nat
  OBVIOUS
<1>2. \A x \in S : \A r \in T : Learned(x, r) \in S
  BY LearnedType
<1> HIDE DEF S, T
<1>3. step \in [S \X T -> S]
  <2>1. \A x \in S \X T : x[1] \in S /\ x[2] \in T
    OBVIOUS
  <2>2. \A x \in S \X T : Learned(x[1], x[2]) \in S
    BY <1>2, <2>1
  <2>3. QED
    BY <2>2
<1>4. \A x \in S : \A r \in T : step[<<x, r>>] = Learned(x, r)
  OBVIOUS
<1>5. m \in S /\ results \in Seq(T)
  BY DEF S, T
<1> HIDE DEF step
<1>6. Folds(S, m, results, step)
  BY <1>3, <1>5, FoldSteps
<1>7. PICK h \in [0..N -> S] :
        h[0] = m /\ \A n \in 1..N : h[n] = step[<<h[n - 1], results[n]>>]
  BY <1>6 DEF Folds
<1>8. \A n \in 1..N : n - 1 \in 0..N /\ results[n] \in T
  BY <1>1, <1>5
<1>9. \A n \in 1..N : h[n] = Learned(h[n - 1], results[n])
  BY <1>4, <1>7, <1>8
<1>10. Learns(h)
  <2>1. h = [n \in 0..N |-> h[n]]
    OBVIOUS
  <2>2. \A n \in 0..N : n = 0 \/ n \in 1..N
    BY <1>1
  <2>3. \A n \in 0..N : h[n] = IF n = 0 THEN m ELSE Learned(h[n - 1], results[n])
    BY <1>7, <1>9, <2>2
  <2>4. QED
    BY <2>1, <2>3
<1> DEFINE g == CHOOSE x : Learns(x)
<1>11. Learns(g)
  BY <1>10
<1>12. Folded(Learned, m, results) = g[N]
  BY DEF Folded
<1> HIDE DEF g
<1> DEFINE P == { n \in 0..N : g[n] \in S }
<1>13. \A n \in 0..N : g[n] = IF n = 0 THEN m ELSE Learned(g[n - 1], results[n])
  BY <1>11
<1>14. 0 \in P /\ \A n \in 1..N : n - 1 \in P => n \in P
  <2>1. 0 \in 0..N /\ \A n \in 1..N : n \in 0..N /\ n # 0
    BY <1>1
  <2>2. g[0] = m /\ \A n \in 1..N : g[n] = Learned(g[n - 1], results[n])
    BY <1>13, <2>1
  <2> HIDE DEF Learns
  <2>3. QED
    BY <1>2, <1>5, <1>8, <2>1, <2>2
<1>15. \A n \in 0..N : n \in P
  <2> HIDE DEF P, N
  <2>1. QED
    BY <1>1, <1>14, InductionUpTo
<1>16. g[N] \in S
  BY <1>1, <1>15
<1>17. QED
  BY <1>12, <1>16 DEF S

-----------------------------------------------------------------------------
(* The invariant.  The reports are those of the requests, in their order,  *)
(* before that of the recent blocks.                                       *)
Paired(p, c, results, asks) ==
  /\ results \in Seq(Results(p)) /\ HasElements(asks) /\ Len(asks) \in 0..Len(results)
  /\ \A n \in 1..Len(asks) : results[n].kind # "RecentBlocks" /\ Told(p, c, results[n], asks[n])
  /\ \A n \in (Len(asks) + 1)..Len(results) : results[n].kind = "RecentBlocks"

ProbingInvariant ==
  /\ program \in Testcases /\ compiled = Compile(Probed(program))
  /\ processed \in 0..Len(compiled.actions)
  /\ non_probe_action_count = IF processed = 0 THEN 0 ELSE processed - 1
  /\ connections \in Seq(BOOLEAN) /\ recording_received_messages \in BOOLEAN
  /\ phase \in {"acting", "reported", "probed"}
  /\ Paired(program, compiled, probe_results, asked)
  /\ phase = "acting" => Len(asked) = Len(probe_results)
  /\ metadata \in Metadata(program)

(* The parts of it that an action on the target leaves alone.              *)
Acted ==
  /\ UNCHANGED <<program, compiled, phase, metadata>>
  /\ phase = "acting" /\ processed \in Nat /\ processed' = processed + 1
  /\ processed' \in 1..Len(compiled.actions)
  /\ compiled.actions[processed + 1].kind = "Probe" <=> processed = 0

(* Probe is the first action and no other is.                              *)
LEMMA FirstOfAll ==
  ASSUME program \in Testcases, compiled = Compile(Probed(program))
  PROVE  /\ compiled.action_indices \in Seq(Nat) /\ HasElements(compiled.actions)
         /\ Len(compiled.actions) = Len(compiled.action_indices) + 1
         /\ \A n \in 1..Len(compiled.actions) : compiled.actions[n].kind = "Probe" <=> n = 1
<1> DEFINE p == program
           c == compiled
<1>1. p \in Seq(Instr) /\ IsStaticallyValid(p)
  BY Testcase
<1>2. PICK f : AcceptedRun(NewBuilder, p, f)
  BY <1>1, ValidRun
<1>3. ActionsKept(p, c)
  BY <1>2, CompiledKept DEF Kept
<1>4. /\ c.action_indices \in Seq(Nat) /\ HasElements(c.actions)
      /\ Len(c.actions) = Len(c.action_indices) + 1 /\ c.actions[1].kind = "Probe"
      /\ \A a \in 1..Len(c.action_indices) : c.actions[a + 1].kind # "Probe"
  BY <1>3 DEF ActionsKept
<1>5. Len(c.action_indices) \in Nat
  BY <1>4
<1>6. ASSUME NEW n \in 1..Len(c.actions), n # 1 PROVE c.actions[n].kind # "Probe"
  <2>1. n - 1 \in 1..Len(c.action_indices) /\ (n - 1) + 1 = n
    BY <1>4, <1>5, <1>6
  <2> HIDE DEF c
  <2>2. QED
    BY <1>4, <2>1
<1>7. QED
  BY <1>4, <1>6

(* Every action on the target is the next one.                             *)
LEMMA ActingActs ==
  ASSUME ProbingInvariant, NEW kind, Acting(kind), UNCHANGED <<program, compiled, phase, metadata>>
  PROVE  Acted
<1>1. /\ program \in Testcases /\ compiled = Compile(Probed(program))
      /\ processed \in 0..Len(compiled.actions)
  BY DEF ProbingInvariant
<1>2. phase = "acting" /\ processed < Len(compiled.actions) /\ processed' = processed + 1
  BY DEF Acting
<1>3. /\ compiled.action_indices \in Seq(Nat)
      /\ Len(compiled.actions) = Len(compiled.action_indices) + 1
      /\ \A n \in 1..Len(compiled.actions) : compiled.actions[n].kind = "Probe" <=> n = 1
  BY <1>1, FirstOfAll
<1>4. Len(compiled.actions) \in Nat
  BY <1>3
<1>5. processed \in Nat /\ processed + 1 \in 1..Len(compiled.actions)
  BY <1>1, <1>2, <1>4
<1>6. processed + 1 = 1 <=> processed = 0
  BY <1>5
<1>7. QED
  BY <1>2, <1>3, <1>5, <1>6 DEF Acted

(* It keeps the invariant if it keeps the parts it does not leave alone.   *)
LEMMA ActedKeeps ==
  ASSUME ProbingInvariant, Acted,
         connections' \in Seq(BOOLEAN), recording_received_messages' \in BOOLEAN,
         non_probe_action_count' = IF processed = 0 THEN 0 ELSE non_probe_action_count + 1,
         Paired(program, compiled, probe_results', asked'), Len(asked') = Len(probe_results')
  PROVE  ProbingInvariant'
<1>1. /\ program' = program /\ compiled' = compiled /\ phase' = phase /\ metadata' = metadata
      /\ processed \in Nat /\ processed' = processed + 1
      /\ processed' \in 1..Len(compiled.actions)
  BY DEF Acted
<1>2. /\ program \in Testcases /\ compiled = Compile(Probed(program))
      /\ non_probe_action_count = IF processed = 0 THEN 0 ELSE processed - 1
      /\ phase \in {"acting", "reported", "probed"} /\ metadata \in Metadata(program)
  BY DEF ProbingInvariant
<1>3. program' \in Testcases /\ compiled' = Compile(Probed(program'))
  BY <1>1, <1>2
<1>4. processed' \in 0..Len(compiled'.actions) /\ processed' # 0
  <2> DEFINE n == Len(compiled.actions)
  <2>1. processed' \in 1..n /\ Len(compiled'.actions) = n
    BY <1>1
  <2> HIDE DEF n
  <2>2. QED
    BY <2>1
<1>5. non_probe_action_count' = processed' - 1
  <2>1. CASE processed = 0
    BY <1>1, <2>1
  <2>2. CASE processed # 0
    BY <1>1, <1>2, <2>2
  <2>3. QED
    BY <2>1, <2>2
<1>6. phase' \in {"acting", "reported", "probed"} /\ metadata' \in Metadata(program')
  BY <1>1, <1>2
<1>7. Paired(program', compiled', probe_results', asked')
  BY <1>1
<1> DEFINE goal == phase' = "acting" => Len(asked') = Len(probe_results')
<1>8. goal
  OBVIOUS
<1>9. QED
  BY <1>3, <1>4, <1>5, <1>6, <1>7, <1>8 DEF ProbingInvariant

(* It holds at first.                                                      *)
LEMMA ProbingInvariantInit == Init => ProbingInvariant
<1> SUFFICES ASSUME Init PROVE ProbingInvariant
  OBVIOUS
<1>1. program \in Testcases /\ compiled = Compile(Probed(program))
  BY DEF Init
<1>2. processed = 0 /\ processed \in 0..Len(compiled.actions) /\ non_probe_action_count = 0
  <2>1. compiled.action_indices \in Seq(Nat) /\ Len(compiled.actions) = Len(compiled.action_indices) + 1
    BY <1>1, FirstOfAll
  <2>2. Len(compiled.actions) \in Nat
    BY <2>1
  <2>3. QED
    BY <2>2 DEF Init
<1>3. connections \in Seq(BOOLEAN) /\ recording_received_messages \in BOOLEAN /\ phase = "acting"
  <2>1. NumConnections \in Nat
    BY CompilerAssumption
  <2>2. [k \in 1..NumConnections |-> TRUE] \in Seq(BOOLEAN)
    BY <2>1
  <2>3. QED
    BY <2>2 DEF Init
<1>4. probe_results = <<>> /\ asked = <<>> /\ Len(<<>>) = 0 /\ HasElements(<<>>)
  BY ListedHas DEF Init
<1>5. Paired(program, compiled, probe_results, asked) /\ Len(asked) = Len(probe_results)
  <2>1. <<>> \in Seq(Results(program))
    OBVIOUS
  <2>2. 0 \in 0..0 /\ 1..0 = {} /\ (0 + 1)..0 = {}
    OBVIOUS
  <2>3. QED
    BY <1>4, <2>1, <2>2 DEF Paired
<1>6. metadata \in Metadata(program)
  <2>1. <<>> \in Seq(GetBlockTxns) /\ <<>> \in Seq(KnownHeaders(program))
    OBVIOUS
  <2>2. QED
    BY <2>1 DEF Init, Metadata
<1>7. QED
  BY <1>1, <1>2, <1>3, <1>5, <1>6 DEF ProbingInvariant

(* A request is reported.                                                  *)
LEMMA AskedPaired ==
  ASSUME NEW p, NEW c, NEW results, NEW asks, Paired(p, c, results, asks),
         Len(asks) = Len(results), NEW r \in Results(p), r.kind # "RecentBlocks",
         NEW a, Told(p, c, r, a)
  PROVE  /\ Paired(p, c, Append(results, r), Append(asks, a))
         /\ Len(Append(asks, a)) = Len(Append(results, r))
<1> DEFINE L == Len(results)
           R == Append(results, r)
           A == Append(asks, a)
<1>1. /\ results \in Seq(Results(p)) /\ HasElements(asks)
      /\ \A n \in 1..L : results[n].kind # "RecentBlocks" /\ Told(p, c, results[n], asks[n])
  BY DEF Paired
<1>2. R \in Seq(Results(p)) /\ Len(R) = L + 1 /\ L \in Nat /\ R[L + 1] = r
      /\ \A n \in 1..L : R[n] = results[n]
  <2> DEFINE T == Results(p)
  <2> HIDE DEF T
  <2>1. results \in Seq(T) /\ r \in T
    BY <1>1 DEF T
  <2>2. R \in Seq(T) /\ Len(R) = L + 1 /\ L \in Nat /\ R[L + 1] = r
        /\ \A n \in 1..L : R[n] = results[n]
    BY <2>1
  <2>3. QED
    BY <2>2 DEF T
<1>3. HasElements(A) /\ Len(A) = L + 1 /\ A[L + 1] = a /\ \A n \in 1..L : A[n] = asks[n]
  <2>1. PICK S : asks \in Seq(S)
    BY <1>1 DEF HasElements
  <2> DEFINE T == S \cup {a}
  <2>2. asks \in Seq(T) /\ a \in T
    <3>1. Len(asks) \in Nat /\ asks \in [1..Len(asks) -> S]
      BY <2>1
    <3>2. asks \in [1..Len(asks) -> T]
      BY <3>1
    <3> HIDE DEF T
    <3>3. asks \in Seq(T)
      BY <3>1, <3>2
    <3>4. QED
      BY <3>3 DEF T
  <2> HIDE DEF T
  <2>3. A \in Seq(T) /\ Len(A) = L + 1 /\ A[L + 1] = a /\ \A n \in 1..L : A[n] = asks[n]
    BY <2>2
  <2>4. QED
    BY <2>3 DEF HasElements
<1> HIDE DEF R, A, L
<1>4. ASSUME NEW n \in 1..(L + 1)
      PROVE  R[n].kind # "RecentBlocks" /\ Told(p, c, R[n], A[n])
  <2>1. n \in 1..L \/ n = L + 1
    BY <1>2
  <2>2. CASE n = L + 1
    BY <1>2, <1>3, <2>2
  <2>3. CASE n \in 1..L
    BY <1>1, <1>2, <1>3, <2>3
  <2>4. QED
    BY <2>1, <2>2, <2>3
<1>5. L + 1 \in 0..(L + 1) /\ ((L + 1) + 1)..(L + 1) = {}
  BY <1>2
<1>6. Paired(p, c, R, A)
  BY <1>2, <1>3, <1>4, <1>5 DEF Paired
<1>7. QED
  BY <1>2, <1>3, <1>6 DEF R, A

(* The recent blocks are reported.                                         *)
LEMMA ReportPaired ==
  ASSUME NEW p, NEW c, NEW results, NEW asks, Paired(p, c, results, asks),
         NEW r \in Results(p), r.kind = "RecentBlocks"
  PROVE  Paired(p, c, Append(results, r), asks)
<1> DEFINE L == Len(results)
           R == Append(results, r)
           M == Len(asks)
<1>1. /\ results \in Seq(Results(p)) /\ HasElements(asks) /\ M \in 0..L
      /\ \A n \in 1..M : results[n].kind # "RecentBlocks" /\ Told(p, c, results[n], asks[n])
      /\ \A n \in (M + 1)..L : results[n].kind = "RecentBlocks"
  BY DEF Paired
<1>2. R \in Seq(Results(p)) /\ Len(R) = L + 1 /\ L \in Nat /\ R[L + 1] = r
      /\ \A n \in 1..L : R[n] = results[n]
  <2> DEFINE T == Results(p)
  <2> HIDE DEF T
  <2>1. results \in Seq(T) /\ r \in T
    BY <1>1 DEF T
  <2>2. R \in Seq(T) /\ Len(R) = L + 1 /\ L \in Nat /\ R[L + 1] = r
        /\ \A n \in 1..L : R[n] = results[n]
    BY <2>1
  <2>3. QED
    BY <2>2 DEF T
<1> HIDE DEF R, L
<1>3. M \in 0..(L + 1)
  BY <1>1, <1>2
<1>4. ASSUME NEW n \in 1..M PROVE R[n].kind # "RecentBlocks" /\ Told(p, c, R[n], asks[n])
  <2>1. n \in 1..L
    BY <1>1, <1>2
  <2>2. R[n] = results[n]
    BY <1>2, <2>1
  <2>3. QED
    BY <1>1, <2>2
<1>5. ASSUME NEW n \in (M + 1)..(L + 1) PROVE R[n].kind = "RecentBlocks"
  <2>1. n = L + 1 \/ (n \in (M + 1)..L /\ n \in 1..L)
    BY <1>1, <1>2
  <2>2. QED
    BY <1>1, <1>2, <2>1
<1>6. Paired(p, c, R, asks)
  BY <1>1, <1>2, <1>3, <1>4, <1>5 DEF Paired
<1>7. QED
  BY <1>6 DEF R

(* Every step keeps it.                                                    *)
LEMMA ProbingInvariantStep == ProbingInvariant /\ [Next]_vars => ProbingInvariant'
<1> SUFFICES ASSUME ProbingInvariant, [Next]_vars PROVE ProbingInvariant'
  OBVIOUS
<1>1. /\ program \in Testcases /\ compiled = Compile(Probed(program))
      /\ processed \in 0..Len(compiled.actions)
      /\ non_probe_action_count = IF processed = 0 THEN 0 ELSE processed - 1
      /\ phase \in {"acting", "reported", "probed"}
      /\ Paired(program, compiled, probe_results, asked)
      /\ phase = "acting" => Len(asked) = Len(probe_results)
      /\ metadata \in Metadata(program)
  BY DEF ProbingInvariant
<1>2. connections \in Seq(BOOLEAN) /\ recording_received_messages \in BOOLEAN
  BY DEF ProbingInvariant
<1>3. CASE Probe
  <2>1. /\ Acting("Probe") /\ UNCHANGED <<program, compiled, phase, metadata>>
        /\ UNCHANGED <<non_probe_action_count, connections, probe_results, asked>>
        /\ recording_received_messages' = TRUE
    BY <1>3 DEF Probe
  <2>2. Acted
    BY <2>1, ActingActs
  <2>3. processed = 0 /\ phase = "acting"
    BY <2>1, <2>2 DEF Acted, Acting
  <2>4. non_probe_action_count' = IF processed = 0 THEN 0 ELSE non_probe_action_count + 1
    BY <1>1, <2>1, <2>3
  <2>5. connections' \in Seq(BOOLEAN) /\ recording_received_messages' \in BOOLEAN
    BY <1>2, <2>1, Zenon
  <2>6. Paired(program, compiled, probe_results', asked') /\ Len(asked') = Len(probe_results')
    BY <1>1, <2>1, <2>3
  <2>7. QED
    BY <2>2, <2>4, <2>5, <2>6, ActedKeeps
<1>4. CASE SetTime
  <2>1. /\ Acting("SetTime") /\ UNCHANGED <<program, compiled, phase, metadata>>
        /\ UNCHANGED <<connections, recording_received_messages, probe_results, asked>> /\ Counted
    BY <1>4 DEF SetTime, Reports
  <2>2. Acted
    BY <2>1, ActingActs
  <2>3. processed # 0 /\ phase = "acting"
    BY <2>1, <2>2 DEF Acted, Acting
  <2>4. non_probe_action_count' = IF processed = 0 THEN 0 ELSE non_probe_action_count + 1
    BY <2>1, <2>3 DEF Counted
  <2>5. connections' \in Seq(BOOLEAN) /\ recording_received_messages' \in BOOLEAN
    BY <1>2, <2>1, Zenon
  <2>6. Paired(program, compiled, probe_results', asked') /\ Len(asked') = Len(probe_results')
    BY <1>1, <2>1, <2>3
  <2>7. QED
    BY <2>2, <2>4, <2>5, <2>6, ActedKeeps
<1>5. CASE Connect
  <2>1. /\ UNCHANGED <<program, compiled, phase, metadata>>
        /\ UNCHANGED <<recording_received_messages, probe_results, asked>> /\ Counted
        /\ \/ Acting("Connect") /\ connections' \in {connections, Append(connections, FALSE)}
           \/ Acting("ConnectAndHandshake")
              /\ connections' \in {connections, Append(connections, TRUE)}
    BY <1>5 DEF Connect, Reports
  <2>2. Acted
    BY <2>1, ActingActs
  <2>3. processed # 0 /\ phase = "acting"
    BY <2>1, <2>2 DEF Acted, Acting
  <2>4. non_probe_action_count' = IF processed = 0 THEN 0 ELSE non_probe_action_count + 1
    BY <2>1, <2>3 DEF Counted
  <2>5. connections' \in Seq(BOOLEAN)
    <3>1. TRUE \in BOOLEAN /\ FALSE \in BOOLEAN
      OBVIOUS
    <3>2. \A S : \A s \in Seq(S) : \A x \in S : Append(s, x) \in Seq(S)
      OBVIOUS
    <3>3. Append(connections, TRUE) \in Seq(BOOLEAN) /\ Append(connections, FALSE) \in Seq(BOOLEAN)
      BY <1>2, <3>1, <3>2, Zenon
    <3>4. \/ connections' = connections \/ connections' = Append(connections, TRUE)
          \/ connections' = Append(connections, FALSE)
      BY <2>1, Zenon
    <3>5. QED
      BY <1>2, <3>3, <3>4, Zenon
  <2>6. recording_received_messages' \in BOOLEAN
    BY <1>2, <2>1, Zenon
  <2>7. Paired(program, compiled, probe_results', asked') /\ Len(asked') = Len(probe_results')
    BY <1>1, <2>1, <2>3
  <2>8. QED
    BY <2>2, <2>4, <2>5, <2>6, <2>7, ActedKeeps
<1>6. CASE SendRawMessage
  <2> DEFINE action == compiled.actions[processed + 1]
             dst    == action.from % Len(connections)
             Asking(request) ==
               /\ probe_results' = Append(probe_results,
                                          Mapped(request, dst, non_probe_action_count))
               /\ asked' = Append(asked, [ request |-> request, dst |-> dst,
                                           action |-> processed + 1,
                                           num_connections |-> Len(connections) ])
  <2>1. /\ Acting("SendRawMessage") /\ UNCHANGED <<program, compiled, phase, metadata>>
        /\ UNCHANGED <<connections, recording_received_messages>> /\ Counted
        /\ \/ UNCHANGED <<probe_results, asked>>
           \/ \E request \in Requests(action) : Asking(request)
    BY <1>6 DEF SendRawMessage
  <2>2. Acted
    BY <2>1, ActingActs
  <2>3. processed # 0 /\ phase = "acting" /\ action.kind = "SendRawMessage"
    BY <2>1, <2>2 DEF Acted, Acting
  <2>4. non_probe_action_count' = IF processed = 0 THEN 0 ELSE non_probe_action_count + 1
    BY <2>1, <2>3 DEF Counted
  <2>5. connections' \in Seq(BOOLEAN) /\ recording_received_messages' \in BOOLEAN
    BY <1>2, <2>1, Zenon
  <2>6. Paired(program, compiled, probe_results, asked) /\ Len(asked) = Len(probe_results)
    BY <1>1, <2>3
  <2>7. Paired(program, compiled, probe_results', asked') /\ Len(asked') = Len(probe_results')
    <3>1. CASE UNCHANGED <<probe_results, asked>>
      BY <2>6, <3>1
    <3>2. ASSUME NEW request \in Requests(action), Asking(request)
          PROVE  Paired(program, compiled, probe_results', asked') /\ Len(asked') = Len(probe_results')
      <4> DEFINE a == [ request |-> request, dst |-> dst, action |-> processed + 1,
                        num_connections |-> Len(connections) ]
                 k == processed
                 count == non_probe_action_count
                 to == dst
                 r == Mapped(request, to, count)
      <4>1. k \in 1..Len(compiled.action_indices) /\ count + 1 = k
        <5>1. /\ compiled.action_indices \in Seq(Nat)
              /\ Len(compiled.actions) = Len(compiled.action_indices) + 1
          BY <1>1, FirstOfAll
        <5> DEFINE n == Len(compiled.action_indices)
        <5>2. n \in Nat /\ Len(compiled.actions) = n + 1
          BY <5>1
        <5>3. k \in Nat /\ k # 0 /\ k + 1 \in 1..Len(compiled.actions)
          BY <2>2, <2>3 DEF Acted
        <5> HIDE DEF n
        <5>4. k \in 1..n
          BY <5>2, <5>3
        <5>5. count = k - 1
          BY <1>1, <2>3
        <5>6. QED
          BY <5>3, <5>4, <5>5 DEF n
      <4>2. a.request = request /\ a.dst = to
        OBVIOUS
      <4>3. compiled.actions[k + 1].kind = "SendRawMessage" /\ request \in Requests(compiled.actions[k + 1])
        BY <2>3, <3>2
      <4>4. probe_results' = Append(probe_results, r) /\ asked' = Append(asked, a)
        BY <3>2
      <4> HIDE DEF a, k, count, to, dst, action
      <4>5. r \in GetBlockTxns \cup Failures /\ Told(program, compiled, r, a)
        BY <1>1, <4>1, <4>2, <4>3, MappedTells
      <4>6. r \in Results(program) /\ r.kind # "RecentBlocks"
        BY <4>5 DEF Results, GetBlockTxns, Failures
      <4> HIDE DEF r
      <4>7. /\ Paired(program, compiled, Append(probe_results, r), Append(asked, a))
            /\ Len(Append(asked, a)) = Len(Append(probe_results, r))
        <5> DEFINE p == program
                   c == compiled
                   results == probe_results
                   asks == asked
        <5>1. /\ Paired(p, c, results, asks) /\ Len(asks) = Len(results)
              /\ r \in Results(p) /\ r.kind # "RecentBlocks" /\ Told(p, c, r, a)
          BY <2>6, <4>5, <4>6
        <5> HIDE DEF p, c, results, asks
        <5>2. /\ Paired(p, c, Append(results, r), Append(asks, a))
              /\ Len(Append(asks, a)) = Len(Append(results, r))
          BY <5>1, AskedPaired
        <5>3. QED
          BY <5>2 DEF p, c, results, asks
      <4>8. QED
        BY <4>4, <4>7
    <3>3. QED
      BY <2>1, <3>1, <3>2
  <2>8. QED
    BY <2>2, <2>4, <2>5, <2>7, ActedKeeps
<1>7. CASE Report
  <2>1. /\ phase' = "reported"
        /\ UNCHANGED <<program, compiled, processed, non_probe_action_count, connections,
                       recording_received_messages, metadata, asked>>
        /\ \/ probe_results' = probe_results
           \/ \E chain \in Chains :
                probe_results' = Append(probe_results,
                                        [kind |-> "RecentBlocks", result |-> RecentBlocks(chain)])
    BY <1>7 DEF Report
  <2>2. Paired(program, compiled, probe_results', asked)
    <3>1. CASE probe_results' = probe_results
      BY <1>1, <3>1
    <3>2. ASSUME NEW chain \in Chains,
                 probe_results' = Append(probe_results,
                                         [kind |-> "RecentBlocks", result |-> RecentBlocks(chain)])
          PROVE  Paired(program, compiled, probe_results', asked)
      <4> DEFINE s == RecentBlocks(chain)
                 r == [kind |-> "RecentBlocks", result |-> s]
                 p == program
                 c == compiled
                 results == probe_results
                 asks == asked
      <4>1. s \in Descending(program)
        BY <1>1, RecentBlocksKnown
      <4> HIDE DEF s
      <4>2. r \in Results(p) /\ r.kind = "RecentBlocks"
        BY <4>1 DEF Results
      <4>3. Paired(p, c, results, asks) /\ probe_results' = Append(probe_results, r)
        BY <1>1, <3>2 DEF s
      <4> HIDE DEF r, p, c, results, asks
      <4>4. Paired(p, c, Append(results, r), asks)
        BY <4>2, <4>3, ReportPaired
      <4>5. QED
        BY <4>3, <4>4 DEF p, c, results, asks
    <3>3. QED
      BY <2>1, <3>1, <3>2
  <2>3. connections' \in Seq(BOOLEAN) /\ recording_received_messages' \in BOOLEAN
    BY <1>2, <2>1, Zenon
  <2>4. phase' # "acting" /\ phase' \in {"acting", "reported", "probed"}
    BY <2>1
  <2>5. /\ program' \in Testcases /\ compiled' = Compile(Probed(program'))
        /\ processed' \in 0..Len(compiled'.actions)
        /\ non_probe_action_count' = IF processed' = 0 THEN 0 ELSE processed' - 1
        /\ Paired(program', compiled', probe_results', asked') /\ metadata' \in Metadata(program')
    BY <1>1, <2>1, <2>2
  <2>6. QED
    BY <2>3, <2>4, <2>5 DEF ProbingInvariant
<1>8. CASE Learn
  <2>1. /\ phase' = "probed" /\ metadata' = Folded(Learned, metadata, probe_results)
        /\ UNCHANGED <<program, compiled, processed, non_probe_action_count, connections,
                       recording_received_messages, probe_results, asked>>
    BY <1>8 DEF Learn
  <2>2. metadata' \in Metadata(program)
    <3> DEFINE p == program
               m == metadata
               results == probe_results
    <3>1. m \in Metadata(p) /\ results \in Seq(Results(p))
      BY <1>1 DEF Paired
    <3>2. metadata' = Folded(Learned, m, results)
      BY <2>1
    <3> HIDE DEF p, m, results
    <3>3. Folded(Learned, m, results) \in Metadata(p)
      BY <3>1, LearnsAll
    <3>4. QED
      BY <3>2, <3>3 DEF p
  <2>3. connections' \in Seq(BOOLEAN) /\ recording_received_messages' \in BOOLEAN
    BY <1>2, <2>1, Zenon
  <2>4. phase' # "acting" /\ phase' \in {"acting", "reported", "probed"}
    BY <2>1
  <2>5. /\ program' \in Testcases /\ compiled' = Compile(Probed(program'))
        /\ processed' \in 0..Len(compiled'.actions)
        /\ non_probe_action_count' = IF processed' = 0 THEN 0 ELSE processed' - 1
        /\ Paired(program', compiled', probe_results', asked') /\ metadata' \in Metadata(program')
    BY <1>1, <2>1, <2>2
  <2>6. QED
    BY <2>3, <2>4, <2>5 DEF ProbingInvariant
<1>9. CASE UNCHANGED vars
  <2>1. UNCHANGED <<program, compiled, processed, non_probe_action_count, connections,
                    recording_received_messages, probe_results, phase, metadata, asked>>
    BY <1>9 DEF vars
  <2>2. connections' \in Seq(BOOLEAN) /\ recording_received_messages' \in BOOLEAN
    BY <1>2, <2>1, Zenon
  <2>3. /\ program' \in Testcases /\ compiled' = Compile(Probed(program'))
        /\ processed' \in 0..Len(compiled'.actions)
        /\ non_probe_action_count' = IF processed' = 0 THEN 0 ELSE processed' - 1
        /\ phase' \in {"acting", "reported", "probed"}
        /\ Paired(program', compiled', probe_results', asked') /\ metadata' \in Metadata(program')
    BY <1>1, <2>1
  <2>4. phase' = "acting" => Len(asked') = Len(probe_results')
    BY <1>1, <2>1
  <2>5. QED
    BY <2>2, <2>3, <2>4 DEF ProbingInvariant
<1>10. QED
  BY <1>3, <1>4, <1>5, <1>6, <1>7, <1>8, <1>9 DEF Next

-----------------------------------------------------------------------------
(* The invariant at every place of the specification.                      *)
LEMMA ProbingInvariantHolds == Spec => []ProbingInvariant
<1>1. QED
  BY ProbingInvariantInit, ProbingInvariantStep, PTL DEF Spec

(* The fields of the scenario and of the stage keep their types, no action *)
(* is counted that is not an instruction's, and every request of the       *)
(* target is reported once (ir.rs:82-129, probe.rs).                       *)
THEOREM ProbingTypeCorrect == Spec => []TypeOK
<1>1. ASSUME ProbingInvariant PROVE TypeOK
  <2>1. /\ program \in Testcases /\ compiled = Compile(Probed(program))
        /\ processed \in 0..Len(compiled.actions)
        /\ non_probe_action_count = IF processed = 0 THEN 0 ELSE processed - 1
        /\ phase \in {"acting", "reported", "probed"}
        /\ Paired(program, compiled, probe_results, asked)
        /\ metadata \in Metadata(program)
    BY <1>1 DEF ProbingInvariant
  <2>2. connections \in Seq(BOOLEAN) /\ recording_received_messages \in BOOLEAN
    BY <1>1 DEF ProbingInvariant
  <2>3. non_probe_action_count \in 0..Len(compiled.action_indices)
    <3>1. /\ compiled.action_indices \in Seq(Nat)
          /\ Len(compiled.actions) = Len(compiled.action_indices) + 1
      BY <2>1, FirstOfAll
    <3> DEFINE n == Len(compiled.action_indices)
    <3>2. n \in Nat /\ processed \in 0..(n + 1)
      BY <2>1, <3>1
    <3> HIDE DEF n
    <3>3. non_probe_action_count \in 0..n
      BY <2>1, <3>2
    <3>4. QED
      BY <3>3 DEF n
  <2>4. /\ metadata.block_txn_request \in
             Seq([ kind : {"GetBlockTxn"}, connection_index : Nat, triggering_instruction_index : Nat,
                   block_variable : Nat, tx_indices_variables : Seq(Nat) ])
        /\ metadata.recent_blocks \in Seq(KnownHeaders(program))
    BY <2>1 DEF Metadata, GetBlockTxns
  <2>5. metadata.recent_blocks \in Seq([height : Nat, variable : Nat, instruction : Nat])
    <3> DEFINE s == metadata.recent_blocks
               K == KnownHeaders(program)
               R == [height : Nat, variable : Nat, instruction : Nat]
    <3>1. s \in Seq(K)
      BY <2>4
    <3>2. K \subseteq R
      BY DEF KnownHeaders
    <3> HIDE DEF s, K, R
    <3>3. Len(s) \in Nat /\ s \in [1..Len(s) -> K]
      BY <3>1
    <3>4. s \in [1..Len(s) -> R]
      BY <3>2, <3>3
    <3>5. s \in Seq(R)
      BY <3>3, <3>4
    <3>6. QED
      BY <3>5 DEF s, R
  <2>6. Len(asked) = Cardinality({ k \in Indices(probe_results) : probe_results[k].kind # "RecentBlocks" })
    <3> DEFINE L == Len(probe_results)
               M == Len(asked)
               S == { k \in Indices(probe_results) : probe_results[k].kind # "RecentBlocks" }
    <3>1. /\ probe_results \in Seq(Results(program)) /\ M \in 0..L
          /\ \A n \in 1..M : probe_results[n].kind # "RecentBlocks"
          /\ \A n \in (M + 1)..L : probe_results[n].kind = "RecentBlocks"
      BY <2>1 DEF Paired
    <3>2. L \in Nat
      <4> DEFINE T == Results(program)
      <4>1. probe_results \in Seq(T)
        BY <3>1
      <4> HIDE DEF T
      <4>2. QED
        BY <4>1
    <3>3. Indices(probe_results) = 1..L
      BY DEF Indices
    <3> HIDE DEF L, M
    <3>4. M \in Nat /\ \A n \in 1..L : n \in 1..M \/ n \in (M + 1)..L
      BY <3>1, <3>2
    <3>5. \A n \in 1..M : n \in 1..L
      BY <3>1, <3>2
    <3>6. S = 1..M
      BY <3>1, <3>3, <3>4, <3>5
    <3> HIDE DEF S
    <3>7. Cardinality(1..M) = M
      BY <3>4, FS_Interval
    <3>8. QED
      BY <3>6, <3>7 DEF S, M
  <2>7. QED
    BY <2>1, <2>2, <2>3, <2>4, <2>5, <2>6 DEF TypeOK
<1>2. QED
  BY <1>1, ProbingInvariantHolds, PTL

(* Whatever connections failed, and whatever the target asked: a request   *)
(* for transactions is kept with the instruction that sent the compact     *)
(* block it is about, with a variable of that block, and with one that     *)
(* loads the connection it came from (ir.rs:82-129, compiler.rs:512-541).  *)
THEOREM RequestsAlwaysNameTheirTrigger == Spec => []RequestsNameTheirTrigger
<1>1. ASSUME ProbingInvariant PROVE RequestsNameTheirTrigger
  <2>1. Paired(program, compiled, probe_results, asked)
    BY <1>1 DEF ProbingInvariant
  <2> DEFINE L == Len(probe_results)
             M == Len(asked)
  <2>2. /\ probe_results \in Seq(Results(program)) /\ M \in 0..L
        /\ \A n \in 1..M : Told(program, compiled, probe_results[n], asked[n])
        /\ \A n \in (M + 1)..L : probe_results[n].kind = "RecentBlocks"
    BY <2>1 DEF Paired
  <2>3. L \in Nat
    <3> DEFINE T == Results(program)
    <3>1. probe_results \in Seq(T)
      BY <2>2
    <3> HIDE DEF T
    <3>2. QED
      BY <3>1
  <2>4. Indices(probe_results) = 1..L
    BY DEF Indices
  <2> HIDE DEF L, M
  <2>5. \A n \in 1..L : n \in 1..M \/ n \in (M + 1)..L
    BY <2>2, <2>3
  <2>6. \A n \in 1..L : probe_results[n].kind = "GetBlockTxn" => n \in 1..M
    BY <2>2, <2>5
  <2>7. ASSUME NEW n \in Indices(probe_results), probe_results[n].kind = "GetBlockTxn"
        PROVE  Told(program, compiled, probe_results[n], asked[n])
    BY <2>2, <2>4, <2>6, <2>7
  <2>8. QED
    BY <2>7 DEF RequestsNameTheirTrigger, Told
<1>2. QED
  BY <1>1, ProbingInvariantHolds, PTL

(* Whatever chain the target reported: from the instruction that is kept   *)
(* with a recent block on, the header of the block is visible at every     *)
(* place where a generator may insert in the global context                *)
(* (block.rs:471, metadata.rs:35-38).                                      *)
THEOREM RecentHeadersAlwaysDefined == Spec => []RecentHeadersAreDefined
<1>1. ASSUME ProbingInvariant PROVE RecentHeadersAreDefined
  <2>1. metadata.recent_blocks \in Seq(KnownHeaders(program))
    BY <1>1 DEF ProbingInvariant, Metadata
  <2>2. ASSUME NEW n \in Indices(metadata.recent_blocks)
        PROVE  LET recent == metadata.recent_blocks[n]
               IN  SeenFrom(program, recent.variable, recent.instruction)
    <3> DEFINE s == metadata.recent_blocks
               K == KnownHeaders(program)
    <3>1. s \in Seq(K) /\ n \in 1..Len(s)
      BY <2>1 DEF Indices
    <3> HIDE DEF s, K
    <3>2. s[n] \in K
      BY <3>1
    <3>3. QED
      BY <3>2 DEF s, K, KnownHeaders
  <2>3. QED
    BY <2>2 DEF RecentHeadersAreDefined, SeenFrom
<1>2. QED
  BY <1>1, ProbingInvariantHolds, PTL
=============================================================================

------------------------ MODULE MinimizerStageProofs ------------------------
(***************************************************************************)
(* What the stages minimize stays a valid program of the corpus, becomes   *)
(* shorter, and is written back as it was executed: for every corpus and   *)
(* every operation table, whatever the target answers.                     *)
(***************************************************************************)
EXTENDS MinimizerStage, ProgramLemmas

(* A program with some of its instructions replaced by Nops, and possibly  *)
(* without the last ones.                                                  *)
Reduces(q, p) ==
  /\ q \in Seq(Instr) /\ Len(q) <= Len(p)
  /\ \A k \in 1..Len(q) : q[k] \in {p[k], Nop(p[k])}

(* The minimizers of program p, where q is the program the stage keeps.    *)
CuttingOf(m, p, q) ==
  /\ m \in [kind : {"cutting"}, original : Seq(Instr), current : Nat, chopped : Nat]
  /\ m.original = p
  /\ m.current <= m.chopped /\ m.chopped <= Len(p)
  /\ q = SubSeq(p, 1, m.chopped)

BlocksOf(m, p, q) ==
  /\ m \in [kind : {"blocks"}, last_good : Seq(Instr), current : Seq(Instr), current_index : Nat \ {0}]
  /\ m.current_index = 1 \/ m.current_index <= Len(p)
  /\ Reduces(m.current, p) /\ Len(m.current) = Len(p)
  /\ Reduces(m.last_good, p) /\ Len(m.last_good) = Len(p)
  /\ q = m.last_good

NoppingOf(m, p, q, failed) ==
  /\ m \in [kind : {"nopping"}, program : Seq(Instr), current : Seq(Instr), current_nop : Nat \ {0}]
  /\ m.program = p /\ m.current_nop <= Len(p) + 1
  /\ Reduces(m.current, p) /\ Len(m.current) = Len(p)
  /\ \A k \in 1..(m.current_nop - 1) : m.current[k] = p[k]
  /\ ~ failed => q = m.current

MinimizerOf(m, p, q, failed) ==
  CuttingOf(m, p, q) \/ BlocksOf(m, p, q) \/ NoppingOf(m, p, q, failed)

(* A program that becomes shorter when it is written to the corpus.        *)
Smaller(q, p) == Len(q) < Len(p) \/ Real(q) # 1..Len(q)

(* The inductive invariant.                                                *)
Minimizing(p) ==
  /\ stage > 0 /\ testcase \notin scheduled
  /\ MinimizerOf(minimizer, p, current_ir, errored)
  /\ Reduces(current_ir, p) /\ IsStaticallyValid(current_ir)
  /\ success => Smaller(current_ir, p)

CorpusInv == corpus \in [DOMAIN InitialCorpus -> Seq(Instr)] /\ CorpusStaysValid

ScheduleInv ==
  /\ scheduled \subseteq DOMAIN InitialCorpus
  /\ testcase \in DOMAIN InitialCorpus \cup {0}
  /\ stage \in 0..3 /\ continue_minimizing \in 0..3
  /\ stage # 0 => testcase # 0 /\ continue_minimizing <= stage - 1

KeptInv ==
  /\ current_ir \in Seq(Instr)
  /\ consecutive_failures \in [1..3 -> 0..(MaxConsecutiveFailures + 1)]
  /\ success \in BOOLEAN /\ errored \in BOOLEAN

MinimizerInv == minimizer # None => Minimizing(corpus[testcase])

StageInv == CorpusInv /\ ScheduleInv /\ KeptInv /\ MinimizerInv

-----------------------------------------------------------------------------
(* What a step of a minimizer comes to: it offers a smaller program, and   *)
(* takes the verdict on it.                                                *)
Progresses(m, p, q, failed) ==
  LET a == Advanced(m)
  IN  /\ Reduces(Offered(a), p) /\ Smaller(Offered(a), p)
      /\ MinimizerOf(Succeeded(a), p, Offered(a), failed)
      /\ MinimizerOf(Failed(a), p, q, failed)
      /\ MinimizerOf(a, p, q, TRUE)

(* Instruction::nop gives an instruction, a Nop, and leaves Nops alone.    *)
LEMMA NopType ==
  ASSUME NEW i \in Instr
  PROVE  /\ Nop(i) \in Instr /\ Nop(i).op \in NopOp
         /\ Nop(Nop(i)) = Nop(i)
<1>1. i.op \in Op
  BY DEF Instr
<1>2. NoppedOp[i.op] \in NopOp /\ NopOp \subseteq Op
  BY <1>1, MinimizersAssumption, IRAssumption
<1>3. <<>> \in Seq(Nat)
  OBVIOUS
<1>4. Nop(i) \in Instr /\ Nop(i).op = NoppedOp[i.op]
  BY <1>2, <1>3 DEF Nop, Instr
<1>5. NoppedOp[NoppedOp[i.op]] = NoppedOp[i.op]
  BY <1>2, MinimizersAssumption
<1>6. QED
  BY <1>2, <1>4, <1>5 DEF Nop

(* A program reduces itself.                                               *)
LEMMA ReducesItself ==
  ASSUME NEW p \in Seq(Instr)
  PROVE  Reduces(p, p)
<1>1. Len(p) \in Nat
  OBVIOUS
<1>2. QED
  BY <1>1 DEF Reduces

(* A program that has a Nop is smaller than one of the same length.        *)
LEMMA NopMakesSmaller ==
  ASSUME NEW q \in Seq(Instr), NEW p, NEW k \in 1..Len(q), q[k].op \in NopOp
  PROVE  Smaller(q, p)
<1>1. k \notin Real(q)
  BY DEF Real
<1>2. QED
  BY <1>1 DEF Smaller

(* Replacing the instruction at one position by its Nop.                   *)
LEMMA ReducesByOne ==
  ASSUME NEW p \in Seq(Instr), NEW q, Reduces(q, p), Len(q) = Len(p),
         NEW k \in 1..Len(p), NEW i, i \in {p[k], Nop(p[k])}
  PROVE  Reduces([q EXCEPT ![k] = i], p) /\ Len([q EXCEPT ![k] = i]) = Len(p)
<1> DEFINE r == [q EXCEPT ![k] = i]
<1>1. q \in Seq(Instr) /\ k \in 1..Len(q) /\ Len(q) \in Nat
  BY DEF Reduces
<1>2. i \in Instr
  <2>1. p[k] \in Instr
    OBVIOUS
  <2>2. QED
    BY <2>1, NopType
<1>3. r \in Seq(Instr) /\ Len(r) = Len(q)
  BY <1>1, <1>2
<1>4. \A j \in 1..Len(q) : r[j] = IF j = k THEN i ELSE q[j]
  BY <1>1
<1> HIDE DEF r
<1>5. Reduces(r, p)
  BY <1>1, <1>3, <1>4 DEF Reduces
<1>6. QED
  BY <1>3, <1>5 DEF r

(* And those at several.                                                   *)
LEMMA ReducesByAll ==
  ASSUME NEW p \in Seq(Instr), NEW q, Reduces(q, p), Len(q) = Len(p), NEW S
  PROVE  /\ Reduces(NopAll(q, S), p) /\ Len(NopAll(q, S)) = Len(p)
         /\ \A k \in 1..Len(p) : k \in S => NopAll(q, S)[k].op \in NopOp
<1> DEFINE r == NopAll(q, S)
<1>1. q \in Seq(Instr) /\ Len(q) \in Nat /\ \A k \in 1..Len(q) : q[k] \in {p[k], Nop(p[k])}
  BY DEF Reduces
<1>2. r = [k \in 1..Len(q) |-> IF k \in S THEN Nop(q[k]) ELSE q[k]]
  BY DEF NopAll, Indices
<1>3. ASSUME NEW k \in 1..Len(q)
      PROVE  r[k] \in Instr /\ r[k] \in {p[k], Nop(p[k])} /\ (k \in S => r[k].op \in NopOp)
  <2>1. p[k] \in Instr /\ q[k] \in Instr
    BY <1>1
  <2>2. Nop(q[k]) \in Instr /\ Nop(q[k]).op \in NopOp /\ Nop(q[k]) = Nop(p[k])
    BY <1>1, <2>1, NopType
  <2>3. r[k] = IF k \in S THEN Nop(q[k]) ELSE q[k]
    BY <1>2
  <2> HIDE DEF r
  <2>4. QED
    BY <1>1, <2>1, <2>2, <2>3
<1>4. r \in Seq(Instr) /\ Len(r) = Len(q)
  BY <1>1, <1>2, <1>3
<1> HIDE DEF r
<1>5. Reduces(r, p)
  BY <1>3, <1>4 DEF Reduces
<1>6. QED
  BY <1>3, <1>4, <1>5 DEF r

(* The first instructions of a program.                                    *)
LEMMA ReducesByCutting ==
  ASSUME NEW p \in Seq(Instr), NEW n \in Nat, n <= Len(p)
  PROVE  /\ Reduces(SubSeq(p, 1, n), p)
         /\ n < Len(p) => Smaller(SubSeq(p, 1, n), p)
<1> DEFINE r == SubSeq(p, 1, n)
<1>1. r \in Seq(Instr) /\ Len(r) = n /\ \A k \in 1..n : r[k] = p[k]
  <2>1. Len(p) \in Nat /\ \A k \in 1..n : p[k] \in Instr
    OBVIOUS
  <2>2. QED
    BY <2>1, SubSeqProperties
<1> HIDE DEF r
<1>2. Reduces(r, p)
  BY <1>1 DEF Reduces
<1>3. n < Len(p) => Smaller(r, p)
  BY <1>1 DEF Smaller
<1>4. QED
  BY <1>2, <1>3 DEF r

(* The cutting minimizer: a bisection between `current' and `chopped'.     *)
LEMMA CuttingSteps ==
  ASSUME NEW p \in Seq(Instr), NEW m, NEW q, NEW failed, CuttingOf(m, p, q), ~ Done(m)
  PROVE  Progresses(m, p, q, failed)
<1>1. /\ m \in [kind : {"cutting"}, original : Seq(Instr), current : Nat, chopped : Nat]
      /\ m.original = p /\ m.current <= m.chopped /\ m.chopped <= Len(p)
      /\ q = SubSeq(p, 1, m.chopped)
  BY DEF CuttingOf
<1>2. m.kind = "cutting" /\ m.current \in Nat /\ m.chopped \in Nat /\ Len(p) \in Nat
  BY <1>1
<1>3. m.current # m.chopped
  BY <1>2 DEF Done, CuttingDone
<1>4. Advanced(m) = m /\ Offered(m) = SubSeq(p, 1, m.current)
  BY <1>1, <1>2 DEF Advanced, Offered
<1>5. Reduces(Offered(m), p) /\ Smaller(Offered(m), p)
  <2>1. m.current < Len(p)
    BY <1>1, <1>2, <1>3
  <2>2. QED
    BY <1>2, <1>4, <2>1, ReducesByCutting
<1>6. CuttingOf(Succeeded(m), p, Offered(m))
  <2> DEFINE s == Succeeded(m)
             half == m.current \div 2
  <2>1. half \in Nat /\ half <= m.current
    BY <1>2
  <2>2. s = [m EXCEPT !.chopped = m.current, !.current = half]
    BY <1>2 DEF Succeeded, CuttingSuccess
  <2> HIDE DEF half, s
  <2>3. /\ s \in [kind : {"cutting"}, original : Seq(Instr), current : Nat, chopped : Nat]
        /\ s.original = p /\ s.current = half /\ s.chopped = m.current
    BY <1>1, <1>2, <2>1, <2>2
  <2>4. QED
    BY <1>1, <1>2, <1>4, <2>1, <2>3 DEF CuttingOf, s
<1>7. CuttingOf(Failed(m), p, q)
  <2> DEFINE s == Failed(m)
             half == (m.chopped - m.current) \div 2
             step == IF half < 1 THEN 1 ELSE half
  <2>1. m.chopped - m.current \in Nat \ {0}
    BY <1>1, <1>2, <1>3
  <2>2. half \in Nat /\ half <= m.chopped - m.current
    <3> DEFINE x == m.chopped - m.current
    <3>1. x \in Nat
      BY <2>1
    <3> HIDE DEF x
    <3>2. x \div 2 \in Nat /\ x \div 2 <= x
      BY <3>1
    <3>3. QED
      BY <3>2 DEF x
  <2> HIDE DEF half
  <2>3. step \in Nat /\ step <= m.chopped - m.current
    BY <2>1, <2>2
  <2>4. s = [m EXCEPT !.current = @ + step]
    BY <1>2 DEF Failed, CuttingFailure, half
  <2> HIDE DEF step, s
  <2>5. m.current + step \in Nat /\ m.current + step <= m.chopped
    BY <1>2, <2>3
  <2>6. /\ s \in [kind : {"cutting"}, original : Seq(Instr), current : Nat, chopped : Nat]
        /\ s.original = p /\ s.current = m.current + step /\ s.chopped = m.chopped
    BY <1>1, <2>4, <2>5
  <2>7. QED
    BY <1>1, <2>5, <2>6 DEF CuttingOf, s
<1>8. QED
  BY <1>4, <1>5, <1>6, <1>7 DEF Progresses, MinimizerOf

(* The block minimizer: the last block it has not tried becomes Nops.      *)
LEMMA BlocksSteps ==
  ASSUME NEW p \in Seq(Instr), NEW m, NEW q, NEW failed, BlocksOf(m, p, q), ~ Done(m)
  PROVE  Progresses(m, p, q, failed)
<1> DEFINE Shape == [kind : {"blocks"}, last_good : Seq(Instr), current : Seq(Instr),
                     current_index : Nat \ {0}]
           end == Max(EndsBefore(m))
           begin == Max(BeginsBefore(m, end))
           all == NopAll(m.current, begin..end)
           a == Advanced(m)
<1>1. /\ m \in Shape /\ (m.current_index = 1 \/ m.current_index <= Len(p))
      /\ Reduces(m.current, p) /\ Len(m.current) = Len(p)
      /\ Reduces(m.last_good, p) /\ Len(m.last_good) = Len(p)
      /\ q = m.last_good
  BY DEF BlocksOf
<1>2. /\ m.kind = "blocks" /\ m.current_index \in Nat /\ Len(p) \in Nat
      /\ m.current \in Seq(Instr) /\ m.last_good \in Seq(Instr)
  BY <1>1
<1>3. EndsBefore(m) # {} /\ BeginsBefore(m, end) # {}
  BY <1>2 DEF Done, BlocksDone
<1>4. end \in 1..Len(p)
  <2>1. EndsBefore(m) \subseteq 1..Len(p)
    BY <1>1, <1>2 DEF EndsBefore
  <2> DEFINE S == EndsBefore(m)
  <2>2. Max(S) \in S
    <3> HIDE DEF S
    <3>1. QED
      BY <1>2, <1>3, <2>1, MaxOfNumbers DEF S
  <2>3. QED
    BY <2>1, <2>2
<1> HIDE DEF end
<1>5. begin \in 1..(end - 1)
  <2>1. BeginsBefore(m, end) \subseteq 1..(end - 1) /\ end - 1 \in Nat
    BY <1>4 DEF BeginsBefore
  <2> DEFINE S == BeginsBefore(m, end)
  <2>2. Max(S) \in S
    <3> HIDE DEF S
    <3>1. QED
      BY <1>3, <2>1, MaxOfNumbers DEF S
  <2>3. QED
    BY <2>1, <2>2
<1>6. a = [m EXCEPT !.current_index = begin, !.current = all]
  BY <1>2 DEF Advanced, BlocksNext, end
<1> HIDE DEF begin, a, all
<1>7. begin \in 1..Len(p) /\ begin \in begin..end /\ begin \in Nat \ {0} /\ begin <= Len(p)
  BY <1>2, <1>4, <1>5
<1>8. /\ Reduces(all, p) /\ Len(all) = Len(p) /\ all \in Seq(Instr)
      /\ all[begin].op \in NopOp
  <2>1. /\ Reduces(all, p) /\ Len(all) = Len(p)
        /\ \A k \in 1..Len(p) : k \in begin..end => all[k].op \in NopOp
    BY <1>1, ReducesByAll DEF all
  <2>2. QED
    BY <1>7, <2>1 DEF Reduces
<1>9. /\ a \in Shape /\ a.kind = "blocks" /\ a.current_index = begin /\ a.current = all
      /\ a.last_good = m.last_good
  BY <1>1, <1>2, <1>6, <1>7, <1>8
<1>10. Offered(a) = all
  BY <1>9 DEF Offered
<1>11. Smaller(all, p)
  BY <1>7, <1>8, NopMakesSmaller
<1>12. BlocksOf(a, p, q)
  BY <1>1, <1>7, <1>8, <1>9 DEF BlocksOf
<1>13. BlocksOf(Succeeded(a), p, all)
  <2> DEFINE s == Succeeded(a)
  <2>1. s = [a EXCEPT !.last_good = all]
    BY <1>9 DEF Succeeded, BlocksSuccess
  <2> HIDE DEF s
  <2>2. /\ s \in Shape /\ s.current_index = begin /\ s.current = all /\ s.last_good = all
    BY <1>8, <1>9, <2>1
  <2>3. QED
    BY <1>7, <1>8, <2>2 DEF BlocksOf, s
<1>14. BlocksOf(Failed(a), p, q)
  <2> DEFINE s == Failed(a)
  <2>1. s = [a EXCEPT !.current = m.last_good]
    BY <1>9 DEF Failed, BlocksFailure
  <2> HIDE DEF s
  <2>2. /\ s \in Shape /\ s.current_index = begin /\ s.current = m.last_good
        /\ s.last_good = m.last_good
    BY <1>2, <1>9, <2>1
  <2>3. QED
    BY <1>1, <1>7, <2>2 DEF BlocksOf, s
<1>15. QED
  BY <1>8, <1>10, <1>11, <1>12, <1>13, <1>14 DEF Progresses, MinimizerOf, a

(* The nopping minimizer: the last instruction it has not tried becomes a  *)
(* Nop.                                                                    *)
LEMMA NoppingSteps ==
  ASSUME NEW p \in Seq(Instr), NEW m, NEW q, NEW failed, NoppingOf(m, p, q, failed), ~ Done(m)
  PROVE  Progresses(m, p, q, failed)
<1> DEFINE Shape == [kind : {"nopping"}, program : Seq(Instr), current : Seq(Instr),
                     current_nop : Nat \ {0}]
           k == Max(NextNops(m))
           i == Nop(p[k])
           now == [m.current EXCEPT ![k] = i]
           a == Advanced(m)
<1>1. /\ m \in Shape /\ m.program = p /\ m.current_nop <= Len(p) + 1
      /\ Reduces(m.current, p) /\ Len(m.current) = Len(p)
      /\ \A j \in 1..(m.current_nop - 1) : m.current[j] = p[j]
      /\ ~ failed => q = m.current
  BY DEF NoppingOf
<1>2. /\ m.kind = "nopping" /\ m.current_nop \in Nat \ {0} /\ Len(p) \in Nat
      /\ m.current \in Seq(Instr)
  BY <1>1
<1>3. NextNops(m) # {}
  BY <1>2 DEF Done
<1>4. k \in 1..(m.current_nop - 1)
  <2> DEFINE S == NextNops(m)
  <2>1. S \subseteq 1..(m.current_nop - 1) /\ m.current_nop - 1 \in Nat
    BY <1>2 DEF NextNops
  <2>2. Max(S) \in S
    <3> HIDE DEF S
    <3>1. QED
      BY <1>3, <2>1, MaxOfNumbers DEF S
  <2>3. QED
    BY <2>1, <2>2
<1> HIDE DEF k
<1>5. k \in 1..Len(p) /\ k \in 1..Len(m.current) /\ k \in Nat \ {0} /\ m.current[k] = p[k]
      /\ k <= Len(p) + 1 /\ \A j \in 1..(k - 1) : j \in 1..(m.current_nop - 1) /\ j # k
                                                 /\ j \in 1..Len(m.current)
  BY <1>1, <1>2, <1>4
<1>6. a = [m EXCEPT !.current_nop = k, !.current = now]
  BY <1>2, <1>5 DEF Advanced, NoppingNext, k
<1>7. Nop(p[k]) \in Instr /\ i.op \in NopOp
  <2>1. p[k] \in Instr
    BY <1>5
  <2>2. QED
    BY <2>1, NopType
<1>8. Reduces(now, p) /\ Len(now) = Len(p) /\ now \in Seq(Instr)
  BY <1>1, <1>5, ReducesByOne DEF Reduces
<1>9. now[k] = i /\ \A j \in 1..(k - 1) : now[j] = p[j]
  BY <1>1, <1>2, <1>5
<1>10. [now EXCEPT ![k] = p[k]] = m.current
  BY <1>2, <1>5
<1> HIDE DEF a, now
<1>11. /\ a \in Shape /\ a.kind = "nopping" /\ a.current_nop = k /\ a.current = now
       /\ a.program = p
  BY <1>1, <1>5, <1>6, <1>8
<1>12. Offered(a) = now
  BY <1>11 DEF Offered
<1>13. Smaller(now, p)
  BY <1>5, <1>7, <1>8, <1>9, NopMakesSmaller
<1>14. NoppingOf(a, p, q, TRUE)
  BY <1>5, <1>8, <1>9, <1>11 DEF NoppingOf
<1>15. NoppingOf(Succeeded(a), p, now, failed)
  <2>1. Succeeded(a) = a
    BY <1>11 DEF Succeeded
  <2>2. QED
    BY <1>5, <1>8, <1>9, <1>11, <2>1 DEF NoppingOf
<1>16. NoppingOf(Failed(a), p, q, failed)
  <2> DEFINE s == Failed(a)
  <2>1. s = [a EXCEPT !.current = m.current]
    BY <1>10, <1>11 DEF Failed, NoppingFailure
  <2> HIDE DEF s
  <2>2. /\ s \in Shape /\ s.current_nop = k /\ s.current = m.current /\ s.program = p
    BY <1>2, <1>11, <2>1
  <2>3. QED
    BY <1>1, <1>5, <2>2 DEF NoppingOf, s
<1>17. QED
  BY <1>8, <1>12, <1>13, <1>14, <1>15, <1>16 DEF Progresses, MinimizerOf, a

(* Every minimizer.                                                        *)
LEMMA MinimizerSteps ==
  ASSUME NEW p \in Seq(Instr), NEW m, NEW q, NEW failed, MinimizerOf(m, p, q, failed), ~ Done(m)
  PROVE  Progresses(m, p, q, failed)
  BY CuttingSteps, BlocksSteps, NoppingSteps DEF MinimizerOf

(* A new minimizer of a program keeps all of it.                           *)
LEMMA NewMinimizer ==
  ASSUME NEW p \in Seq(Instr), NEW kind \in {"cutting", "blocks", "nopping"}
  PROVE  MinimizerOf(New(kind, p), p, p, FALSE)
<1>1. Len(p) \in Nat /\ Reduces(p, p) /\ SubSeq(p, 1, Len(p)) = p
  BY ReducesItself
<1>2. CASE kind = "cutting"
  <2> DEFINE half == Len(p) \div 2
             m == [kind |-> "cutting", original |-> p, current |-> half, chopped |-> Len(p)]
  <2>1. half \in Nat /\ half <= Len(p)
    BY <1>1
  <2>2. New(kind, p) = m
    BY <1>2 DEF New, NewCutting
  <2> HIDE DEF half
  <2>3. CuttingOf(m, p, p)
    BY <1>1, <2>1 DEF CuttingOf
  <2>4. QED
    BY <2>2, <2>3 DEF MinimizerOf
<1>3. CASE kind = "blocks"
  <2> DEFINE last == IF p = <<>> THEN 1 ELSE Len(p)
             m == [kind |-> "blocks", last_good |-> p, current |-> p, current_index |-> last]
  <2>1. last \in Nat \ {0} /\ (last = 1 \/ last <= Len(p))
    BY <1>1
  <2>2. New(kind, p) = m
    BY <1>3 DEF New, NewBlocks
  <2> HIDE DEF last
  <2>3. BlocksOf(m, p, p)
    BY <1>1, <2>1 DEF BlocksOf
  <2>4. QED
    BY <2>2, <2>3 DEF MinimizerOf
<1>4. CASE kind = "nopping"
  <2> DEFINE end == Len(p) + 1
             m == [kind |-> "nopping", program |-> p, current |-> p, current_nop |-> end]
  <2>1. end \in Nat \ {0} /\ end <= Len(p) + 1
    BY <1>1
  <2>2. New(kind, p) = m
    BY <1>4 DEF New, NewNopping
  <2> HIDE DEF end
  <2>3. NoppingOf(m, p, p, FALSE)
    BY <1>1, <2>1 DEF NoppingOf
  <2>4. QED
    BY <2>2, <2>3 DEF MinimizerOf
<1>5. QED
  BY <1>2, <1>3, <1>4

(* A smaller program is shorter without its Nops.                          *)
LEMMA ShorterWithoutNops ==
  ASSUME NEW p \in Seq(Instr), NEW q, Reduces(q, p), Smaller(q, p), IsStaticallyValid(q)
  PROVE  /\ RemoveNops(q) \in Seq(Instr) /\ IsStaticallyValid(RemoveNops(q))
         /\ Len(RemoveNops(q)) < Len(p)
<1> DEFINE r == RemoveNops(q)
<1>1. q \in Seq(Instr) /\ Len(q) <= Len(p) /\ Len(q) \in Nat /\ Len(p) \in Nat
  BY DEF Reduces
<1>2. NopsRemoved(q, r, MovedTo(TypesOf(q))) /\ IsStaticallyValid(r)
  BY <1>1, RemoveNopsValid
<1> HIDE DEF r
<1>3. r \in Seq(Instr) /\ Len(r) = CountUpTo(Real(q), Len(q))
  BY <1>2 DEF NopsRemoved
<1>4. Len(r) <= Len(q) /\ Len(r) \in Nat
  BY <1>1, <1>3, CountedGrows
<1>5. Real(q) # 1..Len(q) => Len(r) # Len(q)
  <2>1. Real(q) \subseteq 1..Len(q) /\ { k \in 1..Len(q) : k \in Real(q) } = Real(q)
    BY DEF Real
  <2>2. Len(r) = Cardinality(Real(q))
    <3>1. CountUpTo(Real(q), Len(q)) = Cardinality({ k \in 1..Len(q) : k \in Real(q) })
      BY DEF CountUpTo
    <3>2. QED
      BY <1>3, <2>1, <3>1
  <2>3. IsFiniteSet(1..Len(q)) /\ Cardinality(1..Len(q)) = Len(q)
    <3>1. 1 \in Int /\ Len(q) \in Int
      BY <1>1
    <3>2. /\ IsFiniteSet(1..Len(q))
          /\ Cardinality(1..Len(q)) = IF 1 > Len(q) THEN 0 ELSE Len(q) - 1 + 1
      BY <3>1, FS_Interval
    <3>3. QED
      BY <1>1, <3>2
  <2>4. Cardinality(1..Len(q)) = Cardinality(Real(q)) => 1..Len(q) = Real(q)
    BY <2>1, <2>3, FS_Subset
  <2>5. QED
    BY <2>2, <2>3, <2>4
<1>6. Len(r) < Len(p)
  BY <1>1, <1>4, <1>5 DEF Smaller
<1>7. QED
  BY <1>2, <1>3, <1>6 DEF r

-----------------------------------------------------------------------------
(* The invariant holds when the client starts.                             *)
LEMMA InitStageInv == Init => StageInv
<1> SUFFICES ASSUME Init
             PROVE  StageInv
  OBVIOUS
<1>2. <<>> \in Seq(Instr)
  OBVIOUS
<1>3. 0 \in 0..(MaxConsecutiveFailures + 1)
  <2>1. MaxConsecutiveFailures \in Nat
    BY StageAssumption
  <2>2. QED
    BY <2>1
<1>4. InitialCorpus \in [DOMAIN InitialCorpus -> Seq(Instr)]
      /\ \A t \in DOMAIN InitialCorpus : IsStaticallyValid(InitialCorpus[t])
  BY StageAssumption
<1>5. corpus = InitialCorpus
  BY DEF Init
<1>6. corpus \in [DOMAIN InitialCorpus -> Seq(Instr)] /\ CorpusStaysValid
  BY <1>4, <1>5 DEF CorpusStaysValid
<1>7. consecutive_failures \in [1..3 -> 0..(MaxConsecutiveFailures + 1)]
  BY <1>3 DEF Init
<1>8. success \in BOOLEAN /\ errored \in BOOLEAN /\ minimizer = None
  BY DEF Init
<1>9. /\ scheduled \subseteq DOMAIN InitialCorpus /\ testcase \in DOMAIN InitialCorpus \cup {0}
      /\ stage \in 0..3 /\ continue_minimizing \in 0..3 /\ stage = 0 /\ current_ir \in Seq(Instr)
  BY <1>2 DEF Init
<1>10. QED
  BY <1>6, <1>7, <1>8, <1>9 DEF StageInv, CorpusInv, ScheduleInv, KeptInv, MinimizerInv

(* While a minimizer works, its testcase has a program.                    *)
LEMMA AtWork ==
  ASSUME StageInv, stage > 0
  PROVE  /\ testcase \in DOMAIN InitialCorpus /\ DOMAIN corpus = DOMAIN InitialCorpus
         /\ corpus[testcase] \in Seq(Instr) /\ IsStaticallyValid(corpus[testcase])
         /\ stage \in 1..3 /\ continue_minimizing \in 0..(stage - 1)
<1>1. stage \in 1..3 /\ testcase # 0 /\ continue_minimizing \in 0..(stage - 1)
  BY DEF StageInv, ScheduleInv
<1>2. testcase \in DOMAIN InitialCorpus
  BY <1>1 DEF StageInv, ScheduleInv
<1>3. corpus \in [DOMAIN InitialCorpus -> Seq(Instr)]
  BY DEF StageInv, CorpusInv
<1>4. DOMAIN corpus = DOMAIN InitialCorpus /\ corpus[testcase] \in Seq(Instr)
  BY <1>2, <1>3
<1>5. IsStaticallyValid(corpus[testcase])
  BY <1>2, <1>4 DEF StageInv, CorpusInv, CorpusStaysValid
<1>6. QED
  BY <1>1, <1>2, <1>4, <1>5

(* A minimizer that goes on makes progress.                                *)
LEMMA Loops ==
  ASSUME StageInv, Looping
  PROVE  /\ Minimizing(corpus[testcase])
         /\ Progresses(minimizer, corpus[testcase], current_ir, errored)
         /\ stage > 0
         /\ \A n \in {0, consecutive_failures[stage] + 1} :
              [consecutive_failures EXCEPT ![stage] = n]
                \in [1..3 -> 0..(MaxConsecutiveFailures + 1)]
<1>1. Minimizing(corpus[testcase])
  BY DEF StageInv, MinimizerInv, Looping
<1>2. stage > 0 /\ MinimizerOf(minimizer, corpus[testcase], current_ir, errored) /\ ~ Done(minimizer)
  BY <1>1 DEF Minimizing, Looping
<1>3. corpus[testcase] \in Seq(Instr) /\ stage \in 1..3
  BY <1>2, AtWork
<1>4. Progresses(minimizer, corpus[testcase], current_ir, errored)
  BY <1>2, <1>3, MinimizerSteps
<1>5. MaxConsecutiveFailures \in Nat
  BY StageAssumption
<1>6. consecutive_failures \in [1..3 -> 0..(MaxConsecutiveFailures + 1)]
      /\ ~ (consecutive_failures[stage] > MaxConsecutiveFailures)
  BY DEF StageInv, KeptInv, Looping, GivesUp
<1>7. ASSUME NEW n \in {0, consecutive_failures[stage] + 1}
      PROVE  [consecutive_failures EXCEPT ![stage] = n] \in [1..3 -> 0..(MaxConsecutiveFailures + 1)]
  <2>1. consecutive_failures[stage] \in 0..(MaxConsecutiveFailures + 1)
    BY <1>3, <1>6
  <2>2. n \in 0..(MaxConsecutiveFailures + 1)
    BY <1>5, <1>6, <2>1
  <2>3. QED
    BY <1>6, <2>2
<1>8. QED
  BY <1>1, <1>2, <1>4, <1>7

(* Every step preserves the invariant.                                     *)
LEMMA NextStageInv == StageInv /\ [Next]_vars => StageInv'
<1> SUFFICES ASSUME StageInv, [Next]_vars
             PROVE  StageInv'
  OBVIOUS
<1> DEFINE p == corpus[testcase]
<1>0. CorpusInv /\ ScheduleInv /\ KeptInv /\ MinimizerInv
  BY DEF StageInv
<1>1. UNCHANGED corpus => CorpusInv'
  BY <1>0 DEF CorpusInv, CorpusStaysValid
<1>2. UNCHANGED <<scheduled, testcase, stage, continue_minimizing>> => ScheduleInv'
  BY <1>0 DEF ScheduleInv
<1>3. UNCHANGED <<current_ir, consecutive_failures, success, errored>> => KeptInv'
  BY <1>0 DEF KeptInv
<1>4. stage = 0 => minimizer = None
  BY <1>0 DEF MinimizerInv, Minimizing
<1>5. minimizer = None /\ UNCHANGED minimizer => MinimizerInv'
  BY DEF MinimizerInv
<1>6. ASSUME NEW t \in DOMAIN corpus, Schedule(t)
      PROVE  StageInv'
  <2>1. stage = 0 /\ minimizer = None
    <3>1. stage = 0
      BY <1>0, <1>6 DEF Schedule, ScheduleInv
    <3>2. QED
      BY <1>4, <3>1
  <2>2. t \in DOMAIN InitialCorpus
    BY <1>0 DEF CorpusInv
  <2>3. ScheduleInv'
    BY <1>0, <1>6, <2>1, <2>2 DEF ScheduleInv, Schedule
  <2>4. QED
    BY <1>1, <1>3, <1>5, <1>6, <2>1, <2>3 DEF StageInv, Schedule
<1>7. CASE StartRound
  <2>1. minimizer = None
    BY <1>4, <1>7 DEF StartRound
  <2>2. ScheduleInv'
    BY <1>0, <1>7 DEF ScheduleInv, StartRound
  <2>3. QED
    BY <1>1, <1>3, <1>5, <1>7, <2>1, <2>2 DEF StageInv, StartRound
<1>8. CASE Leave
  <2>1. minimizer = None
    BY <1>4, <1>8 DEF Leave
  <2>2. ScheduleInv'
    BY <1>0, <1>8 DEF ScheduleInv, Leave
  <2>3. QED
    BY <1>1, <1>3, <1>5, <1>8, <2>1, <2>2 DEF StageInv, Leave
<1>9. CASE StartStage
  <2>1. stage > 0 /\ minimizer = None
        /\ UNCHANGED <<corpus, scheduled, testcase, consecutive_failures, continue_minimizing>>
    BY <1>9 DEF StartStage
  <2>2. /\ testcase \in DOMAIN InitialCorpus /\ p \in Seq(Instr) /\ IsStaticallyValid(p)
        /\ stage \in 1..3 /\ continue_minimizing \in 0..(stage - 1)
    BY <2>1, AtWork
  <2>3. CASE testcase \in scheduled
    <3>1. stage' = (stage + 1) % 4 /\ UNCHANGED <<minimizer, current_ir, success, errored>>
      BY <1>9, <2>3 DEF StartStage, NextStage
    <3>2. stage' \in 0..3 /\ (stage' # 0 => stage' = stage + 1)
      BY <2>2, <3>1
    <3>3. ScheduleInv'
      <4>1. stage' # 0 => continue_minimizing <= stage' - 1
        BY <2>2, <3>2
      <4>2. continue_minimizing \in 0..3 /\ testcase # 0
        BY <1>0, <2>1 DEF ScheduleInv
      <4>3. QED
        BY <1>0, <2>1, <3>2, <4>1, <4>2 DEF ScheduleInv
    <3>4. QED
      BY <1>1, <1>3, <1>5, <2>1, <3>1, <3>3 DEF StageInv
  <2>4. CASE testcase \notin scheduled
    <3>1. /\ minimizer' = New(Kinds[stage], p) /\ current_ir' = p
          /\ success' = FALSE /\ errored' = FALSE /\ UNCHANGED stage
      BY <1>9, <2>4 DEF StartStage
    <3>2. Kinds[stage] \in {"cutting", "blocks", "nopping"}
      BY <2>2 DEF Kinds
    <3>3. MinimizerOf(minimizer', p, p, FALSE)
      BY <2>2, <3>1, <3>2, NewMinimizer
    <3>4. Reduces(p, p)
      BY <2>2, ReducesItself
    <3>5. corpus'[testcase'] = p
      BY <2>1
    <3>6. MinimizerInv'
      BY <2>1, <2>2, <2>4, <3>1, <3>3, <3>4, <3>5 DEF MinimizerInv, Minimizing
    <3>7. KeptInv'
      BY <1>0, <2>1, <2>2, <3>1 DEF KeptInv
    <3>8. QED
      BY <1>1, <1>2, <2>1, <3>1, <3>6, <3>7 DEF StageInv
  <2>5. QED
    BY <2>3, <2>4
<1> DEFINE a == Advanced(minimizer)
<1>10. ASSUME Looping
       PROVE  /\ stage > 0 /\ Minimizing(p) /\ p \in Seq(Instr)
              /\ Reduces(Attempt, p) /\ Smaller(Attempt, p) /\ Attempt \in Seq(Instr)
              /\ MinimizerOf(Succeeded(a), p, Attempt, errored)
              /\ MinimizerOf(Failed(a), p, current_ir, errored)
              /\ MinimizerOf(a, p, current_ir, TRUE)
  <2>1. Progresses(minimizer, p, current_ir, errored) /\ Minimizing(p) /\ stage > 0
    BY <1>10, Loops
  <2>2. p \in Seq(Instr)
    BY <2>1, AtWork
  <2>3. QED
    BY <2>1, <2>2 DEF Progresses, Attempt, Reduces
<1>11. ASSUME Looping, Fails, UNCHANGED <<corpus, scheduled, testcase, stage, continue_minimizing>>
       PROVE  StageInv'
  <2>1. minimizer' = Failed(a) /\ UNCHANGED <<current_ir, success, errored>>
        /\ consecutive_failures' = [consecutive_failures EXCEPT ![stage] = consecutive_failures[stage] + 1]
    BY <1>11 DEF Fails
  <2>2. KeptInv'
    <3>1. consecutive_failures' \in [1..3 -> 0..(MaxConsecutiveFailures + 1)]
      BY <1>11, <2>1, Loops
    <3>2. QED
      BY <1>0, <2>1, <3>1 DEF KeptInv
  <2>3. corpus'[testcase'] = p
    BY <1>11
  <2>4. Minimizing(p) /\ MinimizerOf(minimizer', p, current_ir', errored')
    BY <1>10, <1>11, <2>1
  <2>5. MinimizerInv'
    BY <1>11, <2>1, <2>3, <2>4 DEF MinimizerInv, Minimizing
  <2>6. QED
    BY <1>1, <1>2, <1>11, <2>2, <2>5 DEF StageInv
<1>12. CASE RejectInvalid
  BY <1>11, <1>12 DEF RejectInvalid
<1>13. CASE ExecuteLost
  BY <1>11, <1>13 DEF ExecuteLost
<1>14. CASE ExecuteRetained
  <2>1. /\ Looping /\ IsStaticallyValid(Attempt)
        /\ minimizer' = Succeeded(a) /\ current_ir' = Attempt /\ success' = TRUE
        /\ consecutive_failures' = [consecutive_failures EXCEPT ![stage] = 0]
        /\ UNCHANGED <<corpus, scheduled, testcase, stage, continue_minimizing, errored>>
    BY <1>14 DEF ExecuteRetained
  <2>2. KeptInv'
    <3>1. consecutive_failures' \in [1..3 -> 0..(MaxConsecutiveFailures + 1)]
      BY <2>1, Loops
    <3>2. current_ir' \in Seq(Instr)
      BY <1>10, <2>1
    <3>3. QED
      BY <1>0, <2>1, <3>1, <3>2 DEF KeptInv
  <2>3. corpus'[testcase'] = p
    BY <2>1
  <2>4. /\ Minimizing(p) /\ MinimizerOf(minimizer', p, current_ir', errored')
        /\ Reduces(current_ir', p) /\ Smaller(current_ir', p) /\ IsStaticallyValid(current_ir')
    BY <1>10, <2>1
  <2>5. MinimizerInv'
    BY <2>1, <2>3, <2>4 DEF MinimizerInv, Minimizing
  <2>6. QED
    BY <1>1, <1>2, <2>1, <2>2, <2>5 DEF StageInv
<1>15. CASE ExecuteError
  <2>1. /\ Looping /\ minimizer' = a /\ errored' = TRUE
        /\ UNCHANGED <<corpus, scheduled, testcase, stage, current_ir, success,
                       consecutive_failures, continue_minimizing>>
    BY <1>15 DEF ExecuteError
  <2>2. KeptInv'
    BY <1>0, <2>1 DEF KeptInv
  <2>3. corpus'[testcase'] = p
    BY <2>1
  <2>4. Minimizing(p) /\ MinimizerOf(minimizer', p, current_ir', errored')
    BY <1>10, <2>1
  <2>5. MinimizerInv'
    BY <2>1, <2>3, <2>4 DEF MinimizerInv, Minimizing
  <2>6. QED
    BY <1>1, <1>2, <2>1, <2>2, <2>5 DEF StageInv
<1>16. CASE FinishStage
  <2>1. /\ minimizer # None /\ minimizer' = None /\ current_ir' = <<>>
        /\ success' = FALSE /\ errored' = FALSE /\ stage' = (stage + 1) % 4
        /\ UNCHANGED <<scheduled, testcase, consecutive_failures>>
    BY <1>16 DEF FinishStage, NextStage
  <2>2. Minimizing(p) /\ stage > 0
    BY <1>0, <2>1 DEF MinimizerInv, Minimizing
  <2>3. /\ testcase \in DOMAIN InitialCorpus /\ p \in Seq(Instr)
        /\ stage \in 1..3 /\ continue_minimizing \in 0..(stage - 1)
    BY <2>2, AtWork
  <2>4. stage' \in 0..3 /\ (stage' # 0 => stage' = stage + 1)
    BY <2>1, <2>3
  <2>5. <<>> \in Seq(Instr)
    OBVIOUS
  <2>6. KeptInv'
    BY <1>0, <2>1, <2>5 DEF KeptInv
  <2>7. MinimizerInv'
    BY <2>1 DEF MinimizerInv
  <2>8. CASE success
    <3>1. continue_minimizing' = continue_minimizing + 1
          /\ corpus' = [corpus EXCEPT ![testcase] = RemoveNops(current_ir)]
      BY <1>16, <2>8 DEF FinishStage
    <3>2. RemoveNops(current_ir) \in Seq(Instr) /\ IsStaticallyValid(RemoveNops(current_ir))
      BY <2>2, <2>3, <2>8, ShorterWithoutNops DEF Minimizing
    <3>3. CorpusInv'
      BY <1>0, <2>3, <3>1, <3>2 DEF CorpusInv, CorpusStaysValid
    <3>4. continue_minimizing' \in 0..3 /\ (stage' # 0 => continue_minimizing' <= stage' - 1)
      <4>1. /\ stage \in Nat /\ stage <= 3 /\ continue_minimizing \in Nat
            /\ continue_minimizing + 1 <= stage
        BY <2>3
      <4>2. continue_minimizing' \in Nat /\ continue_minimizing' <= stage
        BY <3>1, <4>1
      <4>3. continue_minimizing' \in 0..3
        BY <4>1, <4>2
      <4>4. ASSUME stage' # 0 PROVE continue_minimizing' <= stage' - 1
        <5>1. stage' = stage + 1
          BY <2>4, <4>4
        <5>2. QED
          BY <4>1, <4>2, <5>1
      <4>5. QED
        BY <4>3, <4>4
    <3>5. ScheduleInv'
      BY <1>0, <2>1, <2>2, <2>3, <2>4, <3>4 DEF ScheduleInv
    <3>6. QED
      BY <2>6, <2>7, <3>3, <3>5 DEF StageInv
  <2>9. CASE ~ success
    <3>1. UNCHANGED <<continue_minimizing, corpus>>
      BY <1>16, <2>9 DEF FinishStage
    <3>2. ScheduleInv'
      BY <1>0, <2>1, <2>3, <2>4, <3>1 DEF ScheduleInv
    <3>3. QED
      BY <1>1, <2>6, <2>7, <3>1, <3>2 DEF StageInv
  <2>10. QED
    BY <2>8, <2>9
<1>17. CASE UNCHANGED vars
  BY <1>0, <1>17 DEF StageInv, CorpusInv, CorpusStaysValid, ScheduleInv, KeptInv, MinimizerInv,
                     Minimizing, vars
<1>18. QED
  BY <1>6, <1>7, <1>8, <1>9, <1>12, <1>13, <1>14, <1>15, <1>16, <1>17 DEF Next, Works

(* Kept lists the positions of the instructions that are no Nops.          *)
LEMMA KeptNumbers ==
  ASSUME NEW p \in Seq(Instr)
  PROVE  /\ Len(Kept(p)) = CountUpTo(Real(p), Len(p))
         /\ \A n \in Real(p) : Kept(p)[CountUpTo(Real(p), n)] = n
<1> DEFINE N == Len(p)
           D == 1..N
           s == [k \in D |-> k]
           step == [x \in Seq(D) \X D |-> IF p[x[2]].op \notin NopOp THEN Append(x[1], x[2]) ELSE x[1]]
           empty == <<>>
           Filters(g) == g = [n \in 0..Len(s) |->
                                IF n = 0 THEN <<>>
                                ELSE IF p[s[n]].op \notin NopOp THEN Append(g[n - 1], s[n]) ELSE g[n - 1]]
<1>1. empty \in Seq(D)
  OBVIOUS
<1>2. step \in [Seq(D) \X D -> Seq(D)]
  <2> HIDE DEF D
  <2>1. QED
    OBVIOUS
<1>3. \A u \in Seq(D) : \A k \in D :
        step[<<u, k>>] = IF p[k].op \notin NopOp THEN Append(u, k) ELSE u
  OBVIOUS
<1>4. N \in Nat
  OBVIOUS
<1>5. s \in Seq(D) /\ Len(s) = N /\ \A n \in 1..N : s[n] = n
  BY <1>4
<1> HIDE DEF step, empty, s, D
<1>6. Folds(Seq(D), empty, s, step)
  BY <1>1, <1>2, <1>5, FoldSteps
<1>7. PICK f \in [0..N -> Seq(D)] :
        f[0] = empty /\ \A n \in 1..N : f[n] = step[<<f[n - 1], s[n]>>]
  BY <1>5, <1>6 DEF Folds
<1>8. ASSUME NEW n \in 1..N
      PROVE  f[n] = IF p[n].op \notin NopOp THEN Append(f[n - 1], n) ELSE f[n - 1]
  <2>1. n - 1 \in 0..N /\ n \in D /\ s[n] = n
    BY <1>4, <1>5 DEF D
  <2>2. f[n - 1] \in Seq(D)
    BY <2>1
  <2>3. f[n] = step[<<f[n - 1], n>>]
    BY <1>7, <2>1
  <2>4. step[<<f[n - 1], n>>] = IF p[n].op \notin NopOp THEN Append(f[n - 1], n) ELSE f[n - 1]
    BY <1>3, <2>1, <2>2
  <2>5. QED
    BY <2>3, <2>4
<1>9. Filters(f)
  <2>1. f = [n \in 0..N |-> f[n]]
    OBVIOUS
  <2>2. \A n \in 0..N : n = 0 \/ n \in 1..N
    BY <1>4
  <2>3. ASSUME NEW n \in 0..N
        PROVE  f[n] = IF n = 0 THEN <<>>
                      ELSE IF p[s[n]].op \notin NopOp THEN Append(f[n - 1], s[n]) ELSE f[n - 1]
    <3>1. CASE n = 0
      BY <1>7, <3>1 DEF empty
    <3>2. CASE n \in 1..N
      <4>1. s[n] = n /\ n # 0
        BY <1>5, <3>2
      <4>2. QED
        BY <1>8, <3>2, <4>1
    <3>3. QED
      BY <2>2, <3>1, <3>2
  <2>4. QED
    BY <1>5, <2>1, <2>3
<1> DEFINE g == CHOOSE h : Filters(h)
<1>10. Filters(g)
  BY <1>9
<1>11. Kept(p) = g[N]
  <2>1. Kept(p) = g[Len(s)]
    BY DEF Kept, Filtered, Folded, Indices, s, D
  <2>2. QED
    BY <1>5, <2>1
<1> HIDE DEF g
<1>12. Keeps(s, Real(p), g)
  <2>1. \A n \in 1..N : n \in 0..N /\ n # 0 /\ (n \in Real(p) <=> p[n].op \notin NopOp)
    BY <1>4 DEF Real
  <2>2. 0 \in 0..N
    BY <1>4
  <2>3. QED
    BY <1>5, <1>10, <2>1, <2>2 DEF Keeps
<1>13. /\ Len(g[N]) = CountUpTo(Real(p), N)
       /\ \A k \in 1..N : k \in Real(p) => g[N][CountUpTo(Real(p), k)] = s[k]
  <2>1. N \in 0..N
    BY <1>4
  <2> HIDE DEF N
  <2>2. QED
    BY <1>5, <1>12, <2>1, KeptPositions
<1>14. \A k \in Real(p) : k \in 1..N
  BY DEF Real
<1>15. QED
  BY <1>5, <1>11, <1>13, <1>14

(* What the stages write back takes its inputs from where it took them     *)
(* when it was executed.                                                   *)
SameInputs(q, r, k) ==
  /\ r[k].op = q[Kept(q)[k]].op /\ r[k].arg = q[Kept(q)[k]].arg
  /\ \A s \in Indices(r[k].inputs) :
       LET was == Dataflow(q)[Kept(q)[k]][s]
           is  == Dataflow(r)[k][s]
       IN  Kept(q)[is[1]] = was[1] /\ is[2] = was[2]

(* Every instruction that remove_nops leaves is the counterpart of one     *)
(* that it was given, on the same data.                                    *)
LEMMA RemoveNopsKeepsInputs ==
  ASSUME NEW q \in Seq(Instr), IsStaticallyValid(q)
  PROVE  /\ Len(RemoveNops(q)) = Len(Kept(q))
         /\ \A k \in Indices(RemoveNops(q)) : SameInputs(q, RemoveNops(q), k)
<1> DEFINE N == Len(q)
           R == Real(q)
           r == RemoveNops(q)
           types == TypesOf(q)
           mu == MovedTo(types)
           o == Origins(q)
           u == Origins(r)
           kept == Kept(q)
<1>1. NopsRemoved(q, r, mu) /\ OriginsMoved(o, u, R, types)
  BY RemoveNopsValid, OriginsWithoutNops
<1>2. /\ Len(o) = Len(types)
      /\ \A n \in 1..N : \A k \in 1..Len(q[n].inputs) : q[n].inputs[k] \in NoNop(types)
  BY InputsOfValid
<1>3. Len(kept) = CountUpTo(R, N) /\ \A n \in R : kept[CountUpTo(R, n)] = n
  BY KeptNumbers
<1>4. N \in Nat /\ R \subseteq 1..N
  BY DEF Real
<1> HIDE DEF r, types, kept, R, N
<1>5. /\ r \in Seq(Instr) /\ Len(r) = CountUpTo(R, N)
      /\ \A n \in R : Counterpart(q[n], r[CountUpTo(R, n)], mu)
  BY <1>1 DEF NopsRemoved, N, R
<1>6. ASSUME NEW k \in Indices(r)
      PROVE  SameInputs(q, r, k)
  <2>1. k \in 1..CountUpTo(R, N)
    BY <1>5, <1>6 DEF Indices
  <2>2. PICK n \in 1..N : n \in R /\ CountUpTo(R, n) = k
    BY <1>4, <2>1, CountedAll
  <2>3. kept[k] = n /\ Counterpart(q[n], r[k], mu)
    BY <1>3, <1>5, <2>2
  <2>4. r[k].op = q[n].op /\ r[k].arg = q[n].arg /\ Len(r[k].inputs) = Len(q[n].inputs)
        /\ \A s \in 1..Len(q[n].inputs) : r[k].inputs[s] = mu[q[n].inputs[s]]
    BY <2>3 DEF Counterpart
  <2>5. ASSUME NEW s \in Indices(r[k].inputs)
        PROVE  LET was == Dataflow(q)[n][s]
                   is  == Dataflow(r)[k][s]
               IN  kept[is[1]] = was[1] /\ is[2] = was[2]
    <3>1. s \in 1..Len(q[n].inputs)
      BY <2>4 DEF Indices
    <3>2. q[n].inputs[s] \in NoNop(types) /\ r[k].inputs[s] = mu[q[n].inputs[s]]
      BY <1>2, <2>2, <2>4, <3>1 DEF N
    <3> DEFINE v == q[n].inputs[s]
    <3>3. v \in 1..Len(o) /\ v \in NoNop(types)
      BY <1>2, <3>2 DEF NoNop
    <3>4. o[v][1] \in R /\ u[mu[v]] = <<CountUpTo(R, o[v][1]), o[v][2]>>
      BY <1>1, <3>3 DEF OriginsMoved
    <3>5. Dataflow(q)[n][s] = o[v]
      BY <2>2, <3>1 DEF Dataflow, Indices, N
    <3>6. Dataflow(r)[k][s] = u[mu[v]]
      BY <1>6, <2>5, <3>2 DEF Dataflow, Indices
    <3>7. kept[CountUpTo(R, o[v][1])] = o[v][1]
      BY <1>3, <3>4
    <3> HIDE DEF v, mu, o, u
    <3>8. QED
      BY <3>4, <3>5, <3>6, <3>7
  <2>6. QED
    BY <2>3, <2>4, <2>5 DEF SameInputs, kept
<1>7. QED
  BY <1>3, <1>5, <1>6 DEF r, kept, N, R

-----------------------------------------------------------------------------
(* The second part of the invariant, about the programs that were executed *)
(* and retained: a stage that kept one keeps the last of them, and every   *)
(* other testcase has it in the corpus, with its Nops or without.          *)
IsWhatRan(r, q) == r = q \/ WithoutNops(r, q)

RetainedInv ==
  /\ retained \in [DOMAIN InitialCorpus -> Seq(Instr)]
  /\ success => minimizer # None /\ current_ir = retained[testcase]
  /\ \A t \in DOMAIN InitialCorpus : (t = testcase /\ success) \/ IsWhatRan(corpus[t], retained[t])

(* The program of a finished stage without its Nops is what was executed.  *)
LEMMA WrittenIsWhatRan ==
  ASSUME NEW q \in Seq(Instr), IsStaticallyValid(q)
  PROVE  IsWhatRan(RemoveNops(q), q)
<1>1. /\ Len(RemoveNops(q)) = Len(Kept(q))
      /\ \A k \in Indices(RemoveNops(q)) : SameInputs(q, RemoveNops(q), k)
  BY RemoveNopsKeepsInputs
<1>2. QED
  BY <1>1 DEF IsWhatRan, WithoutNops, SameInputs

(* Only an execution that retained the novelties changes what was          *)
(* retained, and only a stage that kept a program writes it.               *)
LEMMA NextRetainedInv == StageInv /\ RetainedInv /\ [Next]_vars => RetainedInv'
<1> SUFFICES ASSUME StageInv, RetainedInv, [Next]_vars
             PROVE  RetainedInv'
  OBVIOUS
<1>1. CASE UNCHANGED <<corpus, retained>> /\ success' = FALSE /\ success = FALSE
  BY <1>1 DEF RetainedInv
<1>2. CASE /\ UNCHANGED <<corpus, retained, success, testcase, current_ir>>
           /\ minimizer # None => minimizer' # None
  BY <1>2 DEF RetainedInv
<1>3. ASSUME Looping
      PROVE  /\ testcase \in DOMAIN InitialCorpus /\ Attempt \in Seq(Instr)
             /\ Failed(Advanced(minimizer)) # None /\ Advanced(minimizer) # None
             /\ Succeeded(Advanced(minimizer)) # None
  <2> DEFINE p == corpus[testcase]
             a == Advanced(minimizer)
  <2>1. Progresses(minimizer, p, current_ir, errored) /\ stage > 0
    BY <1>3, Loops
  <2>2. testcase \in DOMAIN InitialCorpus
    BY <2>1, AtWork
  <2>3. /\ Attempt \in Seq(Instr)
        /\ MinimizerOf(Succeeded(a), p, Attempt, errored)
        /\ MinimizerOf(Failed(a), p, current_ir, errored) /\ MinimizerOf(a, p, current_ir, TRUE)
    BY <2>1 DEF Progresses, Attempt, Reduces
  <2>4. ASSUME NEW m, NEW q, NEW failed, MinimizerOf(m, p, q, failed)
        PROVE  m # None
    <3>1. m.kind \in {"cutting", "blocks", "nopping"}
      BY <2>4 DEF MinimizerOf, CuttingOf, BlocksOf, NoppingOf
    <3>2. None.kind = "none"
      BY DEF None
    <3>3. QED
      BY <3>1, <3>2
  <2>5. QED
    BY <2>2, <2>3, <2>4
<1>4. minimizer = None => success = FALSE
  BY DEF RetainedInv, StageInv, KeptInv
<1>5. CASE \E t \in DOMAIN corpus : Schedule(t)
  <2>1. minimizer = None /\ UNCHANGED <<corpus, retained, success>>
    BY <1>5 DEF Schedule, StageInv, ScheduleInv, MinimizerInv, Minimizing
  <2>2. QED
    BY <1>1, <1>4, <2>1
<1>6. CASE StartRound
  BY <1>2, <1>6 DEF StartRound
<1>7. CASE Leave
  <2>1. minimizer = None /\ UNCHANGED <<corpus, retained, success>>
    BY <1>7 DEF Leave, StageInv, ScheduleInv, MinimizerInv, Minimizing
  <2>2. QED
    BY <1>1, <1>4, <2>1
<1>8. CASE StartStage
  <2>1. minimizer = None /\ UNCHANGED <<corpus, retained>> /\ success' \in {success, FALSE}
    BY <1>8 DEF StartStage
  <2>2. QED
    BY <1>1, <1>4, <2>1
<1>9. CASE RejectInvalid \/ ExecuteLost
  BY <1>2, <1>3, <1>9 DEF RejectInvalid, ExecuteLost, Fails
<1>10. CASE ExecuteError
  BY <1>2, <1>3, <1>10 DEF ExecuteError
<1>11. CASE ExecuteRetained
  <2>1. /\ Looping /\ retained' = [retained EXCEPT ![testcase] = Attempt]
        /\ current_ir' = Attempt /\ success' = TRUE /\ minimizer' = Succeeded(Advanced(minimizer))
        /\ UNCHANGED <<corpus, testcase>>
    BY <1>11 DEF ExecuteRetained
  <2>2. retained \in [DOMAIN InitialCorpus -> Seq(Instr)]
    BY DEF RetainedInv
  <2>3. retained' \in [DOMAIN InitialCorpus -> Seq(Instr)] /\ retained'[testcase] = Attempt
    BY <1>3, <2>1, <2>2
  <2>4. ASSUME NEW t \in DOMAIN InitialCorpus, t # testcase
        PROVE  IsWhatRan(corpus'[t], retained'[t])
    <3>1. corpus'[t] = corpus[t] /\ retained'[t] = retained[t]
      BY <2>1, <2>2, <2>4
    <3>2. IsWhatRan(corpus[t], retained[t])
      BY <2>4 DEF RetainedInv
    <3>3. QED
      BY <3>1, <3>2
  <2>5. QED
    BY <1>3, <2>1, <2>3, <2>4 DEF RetainedInv
<1>12. CASE FinishStage
  <2>1. minimizer # None /\ success' = FALSE /\ UNCHANGED retained
    BY <1>12 DEF FinishStage
  <2>2. Minimizing(corpus[testcase])
    BY <2>1 DEF StageInv, MinimizerInv
  <2>3. testcase \in DOMAIN InitialCorpus /\ DOMAIN corpus = DOMAIN InitialCorpus
    BY <2>2, AtWork DEF Minimizing
  <2>4. CASE success
    <3>1. corpus' = [corpus EXCEPT ![testcase] = RemoveNops(current_ir)]
          /\ current_ir = retained[testcase]
      BY <1>12, <2>4 DEF FinishStage, RetainedInv
    <3>2. IsWhatRan(RemoveNops(current_ir), current_ir)
      BY <2>2, WrittenIsWhatRan DEF Minimizing, Reduces
    <3>3. ASSUME NEW t \in DOMAIN InitialCorpus
          PROVE  IsWhatRan(corpus'[t], retained'[t])
      <4>1. CASE t = testcase
        BY <2>1, <2>3, <3>1, <3>2, <4>1
      <4>2. CASE t # testcase
        <5>1. corpus'[t] = corpus[t] /\ retained'[t] = retained[t]
          BY <2>1, <2>3, <3>1, <4>2
        <5>2. IsWhatRan(corpus[t], retained[t])
          BY <4>2 DEF RetainedInv
        <5>3. QED
          BY <5>1, <5>2
      <4>3. QED
        BY <4>1, <4>2
    <3>4. QED
      BY <2>1, <3>3 DEF RetainedInv
  <2>5. CASE ~ success
    <3>1. UNCHANGED corpus /\ success = FALSE
      BY <1>12, <2>5 DEF FinishStage, StageInv, KeptInv
    <3>2. QED
      BY <1>1, <2>1, <3>1
  <2>6. QED
    BY <2>4, <2>5
<1>13. CASE UNCHANGED vars
  BY <1>2, <1>13 DEF vars
<1>14. QED
  BY <1>5, <1>6, <1>7, <1>8, <1>9, <1>10, <1>11, <1>12, <1>13 DEF Next, Works

-----------------------------------------------------------------------------
(* The invariant holds in every behaviour of the stages.                   *)
LEMMA StageInvariance == Spec => [](StageInv /\ RetainedInv)
<1>1. Init => StageInv /\ RetainedInv
  <2>1. Init => RetainedInv
    BY StageAssumption DEF Init, RetainedInv, IsWhatRan
  <2>2. QED
    BY <2>1, InitStageInv
<1>2. StageInv /\ RetainedInv /\ [Next]_vars => StageInv' /\ RetainedInv'
  BY NextStageInv, NextRetainedInv
<1>3. QED
  BY <1>1, <1>2, PTL DEF Spec

(* Whatever a target answers and however often an execution fails, the     *)
(* state of the stages keeps its types: the counts of consecutive failures *)
(* stop one past the limit, and the indices of the minimizers stay in      *)
(* their programs (block.rs:33, nopping.rs:35).                            *)
THEOREM TypeCorrect == Spec => []TypeOK
<1>1. StageInv /\ RetainedInv => TypeOK
  <2> SUFFICES ASSUME StageInv, RetainedInv
               PROVE  TypeOK
    OBVIOUS
  <2>1. /\ corpus \in [DOMAIN InitialCorpus -> Seq(Instr)]
        /\ scheduled \subseteq DOMAIN InitialCorpus
        /\ testcase \in DOMAIN InitialCorpus \cup {0}
        /\ stage \in 0..3 /\ continue_minimizing \in 0..3
        /\ current_ir \in Seq(Instr)
        /\ consecutive_failures \in [1..3 -> 0..(MaxConsecutiveFailures + 1)]
    BY DEF StageInv, CorpusInv, ScheduleInv, KeptInv
  <2>2. {success, errored} \subseteq BOOLEAN
    <3>1. success \in BOOLEAN /\ errored \in BOOLEAN
      BY DEF StageInv, KeptInv
    <3>2. QED
      BY <3>1
  <2>3. Minimizer(minimizer)
    <3>1. CASE minimizer = None
      BY <3>1 DEF Minimizer
    <3>2. CASE minimizer # None
      <4> DEFINE m == minimizer
                 p == corpus[testcase]
      <4>1. Minimizing(p)
        BY <3>2 DEF StageInv, MinimizerInv
      <4>2. p \in Seq(Instr) /\ Len(p) \in Nat /\ MinimizerOf(m, p, current_ir, errored)
        BY <4>1, AtWork DEF Minimizing
      <4> HIDE DEF m, p
      <4>3. CASE CuttingOf(m, p, current_ir)
        BY <4>3 DEF CuttingOf, Minimizer, m
      <4>4. CASE NoppingOf(m, p, current_ir, errored)
        <5>1. m.program = p /\ m.current_nop \in 1..(Len(m.program) + 1)
          BY <4>2, <4>4 DEF NoppingOf
        <5>2. QED
          BY <4>4, <5>1 DEF NoppingOf, Minimizer, m
      <4>5. CASE BlocksOf(m, p, current_ir)
        <5>1. /\ m.kind = "blocks" /\ {m.last_good, m.current} \subseteq Seq(Instr)
              /\ m.current_index \in Nat \ {0} /\ Len(m.current) = Len(p)
              /\ m.current_index = 1 \/ m.current_index <= Len(p)
          BY <4>5 DEF BlocksOf
        <5>2. /\ Max({1, Len(p)}) \in {1, Len(p)}
              /\ \A x \in {1, Len(p)} : x <= Max({1, Len(p)})
          <6>1. {1, Len(p)} # {} /\ \E x \in {1, Len(p)} : \A y \in {1, Len(p)} : x >= y
            BY <4>2
          <6>2. Max({1, Len(p)}) \in {1, Len(p)} /\ \A y \in {1, Len(p)} : Max({1, Len(p)}) >= y
            BY <6>1 DEF Max
          <6>3. QED
            BY <4>2, <6>2
        <5>3. m.current_index \in 1..Max({1, Len(m.current)})
          BY <4>2, <5>1, <5>2
        <5>4. QED
          BY <5>1, <5>3 DEF Minimizer, m
      <4>6. QED
        BY <4>2, <4>3, <4>4, <4>5 DEF MinimizerOf
    <3>3. QED
      BY <3>1, <3>2
  <2>4. retained \in [DOMAIN InitialCorpus -> Seq(Instr)]
    BY DEF RetainedInv
  <2>5. QED
    BY <2>1, <2>2, <2>3, <2>4 DEF TypeOK
<1>2. QED
  BY <1>1, StageInvariance, PTL

(* Every program of the corpus compiles, those that remove_nops renumbered *)
(* included (lib.rs:163, 199 assert it in debug builds only).              *)
THEOREM CorpusAlwaysValid == Spec => []CorpusStaysValid
<1>1. StageInv => CorpusStaysValid
  BY DEF StageInv, CorpusInv
<1>2. QED
  BY <1>1, StageInvariance, PTL

(* What the corpus holds is the last program that was executed and         *)
(* retained the novelties, or has its instructions on the same data, and   *)
(* those are of the testcase; an attempt whose execution failed is never   *)
(* written (stages/mod.rs:131, 156-175, lib.rs:163).                       *)
THEOREM WritesWhatRan == Spec => []MinimizedIsWhatRan
<1>1. StageInv /\ RetainedInv => MinimizedIsWhatRan
  <2> SUFFICES ASSUME StageInv, RetainedInv
               PROVE  MinimizedIsWhatRan
    OBVIOUS
  <2>1. DOMAIN corpus = DOMAIN InitialCorpus
    BY DEF StageInv, CorpusInv
  <2>2. \A t \in DOMAIN corpus :
          \/ t = testcase /\ success
          \/ corpus[t] = retained[t]
          \/ WithoutNops(corpus[t], retained[t])
    BY <2>1 DEF RetainedInv, IsWhatRan
  <2>3. ASSUME success
        PROVE  \A k \in Indices(retained[testcase]) :
                 retained[testcase][k] \in {corpus[testcase][k], Nop(corpus[testcase][k])}
    <3>1. minimizer # None /\ current_ir = retained[testcase]
      BY <2>3 DEF RetainedInv
    <3>2. Reduces(current_ir, corpus[testcase])
      BY <3>1 DEF StageInv, MinimizerInv, Minimizing
    <3>3. QED
      BY <3>1, <3>2 DEF Reduces, Indices
  <2>4. QED
    BY <2>2, <2>3 DEF MinimizedIsWhatRan
<1>2. QED
  BY <1>1, StageInvariance, PTL

(* The minimizer and the stage agree on the smallest program known to be   *)
(* enough, and chopped - current never goes below zero (cutting.rs:29).    *)
THEOREM StageAgrees == Spec => []MinimizerAgreesWithStage
<1>1. StageInv => MinimizerAgreesWithStage
  <2> SUFFICES ASSUME StageInv, minimizer # None
               PROVE  /\ ~ errored => Accepted(minimizer) = current_ir
                      /\ minimizer.kind = "cutting" => minimizer.current <= minimizer.chopped
    BY DEF MinimizerAgreesWithStage
  <2> DEFINE p == corpus[testcase]
  <2>1. MinimizerOf(minimizer, p, current_ir, errored)
    BY DEF StageInv, MinimizerInv, Minimizing
  <2> HIDE DEF p
  <2>2. CASE CuttingOf(minimizer, p, current_ir)
    BY <2>2 DEF CuttingOf, Accepted
  <2>3. CASE BlocksOf(minimizer, p, current_ir)
    BY <2>3 DEF BlocksOf, Accepted
  <2>4. CASE NoppingOf(minimizer, p, current_ir, errored)
    BY <2>4 DEF NoppingOf, Accepted
  <2>5. QED
    BY <2>1, <2>2, <2>3, <2>4 DEF MinimizerOf
<1>2. QED
  BY <1>1, StageInvariance, PTL

(* The only program that changes is the one of the scheduled testcase, on  *)
(* its first schedule, and it becomes shorter (stages/mod.rs:94-97,        *)
(* 156-175).                                                               *)
THEOREM CorpusOnlyShrinks == Spec => OnlyShrinks
<1> DEFINE Shrinks == \A t \in DOMAIN corpus : corpus'[t] # corpus[t] =>
                        /\ t = testcase /\ t \notin scheduled
                        /\ Len(corpus'[t]) < Len(corpus[t])
<1>1. StageInv /\ [Next]_vars => [Shrinks]_vars
  <2> SUFFICES ASSUME StageInv, Next
               PROVE  Shrinks
    OBVIOUS
  <2>1. CASE UNCHANGED corpus
    BY <2>1
  <2>2. CASE FinishStage /\ success
    <3>1. minimizer # None /\ corpus' = [corpus EXCEPT ![testcase] = RemoveNops(current_ir)]
      BY <2>2 DEF FinishStage
    <3>2. Minimizing(corpus[testcase])
      BY <3>1 DEF StageInv, MinimizerInv
    <3>3. testcase \in DOMAIN corpus /\ corpus[testcase] \in Seq(Instr) /\ testcase \notin scheduled
      BY <3>2, AtWork DEF Minimizing
    <3>4. Len(RemoveNops(current_ir)) < Len(corpus[testcase])
      BY <2>2, <3>2, <3>3, ShorterWithoutNops DEF Minimizing
    <3>5. QED
      BY <3>1, <3>3, <3>4
  <2>3. CASE FinishStage /\ ~ success
    BY <2>1, <2>3 DEF FinishStage
  <2>4. QED
    BY <2>1, <2>2, <2>3 DEF Next, Works, Schedule, StartRound, Leave, StartStage, RejectInvalid,
                            ExecuteRetained, ExecuteLost, ExecuteError
<1>2. QED
  BY <1>1, StageInvariance, PTL DEF Spec, OnlyShrinks
=============================================================================

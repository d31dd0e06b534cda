----------------------------- MODULE Minimizers -----------------------------
(***************************************************************************)
(* The three minimizers, each as a record of its state, what its iterator  *)
(* does next and how it takes the verdict on the program it offered.       *)
(* Positions are counted from 1 (0 in the code).                           *)
(***************************************************************************)
EXTENDS Programs

CONSTANTS
  Noppable,    \* Op -> Instruction::is_noppable
  NoppedOp     \* Op -> the Nop that replaces it

ASSUME MinimizersAssumption ==
  /\ Noppable \in [Op -> BOOLEAN]
  /\ NoppedOp \in [Op -> NopOp]
  /\ \A op \in Op : /\ Len(Signature[NoppedOp[op]].out) = Len(Signature[op].out)
                    /\ Len(Signature[NoppedOp[op]].inner) = Len(Signature[op].inner)
  /\ \A op \in NopOp : NoppedOp[op] = op

(* Instruction::nop.                                                       *)
Nop(i) == [op |-> NoppedOp[i.op], inputs |-> <<>>, arg |-> 0]

NopAll(p, S) == [ k \in Indices(p) |-> IF k \in S THEN Nop(p[k]) ELSE p[k] ]

-----------------------------------------------------------------------------
(* CuttingMinimizer: the first `current' instructions, where `chopped' of  *)
(* them are known to be enough.                                            *)
NewCutting(p) == [kind |-> "cutting", original |-> p, current |-> Len(p) \div 2, chopped |-> Len(p)]

CuttingDone(m) == m.current = m.chopped \/ m.current > Len(m.original)

CuttingSuccess(m) == [m EXCEPT !.chopped = m.current, !.current = @ \div 2]

CuttingFailure(m) ==
  [m EXCEPT !.current = @ + LET half == (m.chopped - @) \div 2 IN IF half < 1 THEN 1 ELSE half]

(* NoppingMinimizer: instruction after instruction from the last to the    *)
(* first, `current_nop' is the last one nopped.                            *)
NewNopping(p) == [kind |-> "nopping", program |-> p, current |-> p, current_nop |-> Len(p) + 1]

NextNops(m) == { k \in 1..(m.current_nop - 1) : Noppable[m.current[k].op] }

NoppingNext(m) ==
  LET k == Max(NextNops(m))
  IN  [m EXCEPT !.current_nop = k, !.current[k] = Nop(@)]

(* Mutant of NoppingFailure: the Nop stays.                                *)
NoppingFailureKeepsNop(m) == m

NoppingFailure(m) == [m EXCEPT !.current[m.current_nop] = m.program[m.current_nop]]

(* InstrBlockMinimizer: from the end of the program, the last end before   *)
(* `current_index' with the nearest begin it matches.                      *)
NewBlocks(p) ==
  [kind |-> "blocks", last_good |-> p, current |-> p, current_index |-> IF p = <<>> THEN 1 ELSE Len(p)]

EndsBefore(m) == { k \in 1..m.current_index : k <= Len(m.current) /\ m.current[k].op \in Ends }

BeginsBefore(m, end) == { k \in 1..(end - 1) : m.current[k].op = BeginOf[m.current[end].op] }

BlocksDone(m) ==
  ~ /\ m.current_index # 1
    /\ EndsBefore(m) # {}
    /\ BeginsBefore(m, Max(EndsBefore(m))) # {}

BlocksNext(m) ==
  LET end   == Max(EndsBefore(m))
      begin == Max(BeginsBefore(m, end))
  IN  [m EXCEPT !.current_index = begin, !.current = NopAll(@, begin..end)]

BlocksSuccess(m) == [m EXCEPT !.last_good = m.current]

BlocksFailure(m) == [m EXCEPT !.current = m.last_good]

-----------------------------------------------------------------------------
(* The trait Minimizer over the three.                                     *)
New(kind, p) ==
  CASE kind = "cutting" -> NewCutting(p)
    [] kind = "blocks"  -> NewBlocks(p)
    [] kind = "nopping" -> NewNopping(p)

Done(m) ==
  CASE m.kind = "cutting" -> CuttingDone(m)
    [] m.kind = "blocks"  -> BlocksDone(m)
    [] m.kind = "nopping" -> NextNops(m) = {}

(* The minimizer after its iterator was advanced, and what it offers.      *)
Advanced(m) ==
  CASE m.kind = "cutting" -> m
    [] m.kind = "blocks"  -> BlocksNext(m)
    [] m.kind = "nopping" -> NoppingNext(m)

Offered(m) == IF m.kind = "cutting" THEN SubSeq(m.original, 1, m.current) ELSE m.current

Succeeded(m) ==
  CASE m.kind = "cutting" -> CuttingSuccess(m)
    [] m.kind = "blocks"  -> BlocksSuccess(m)
    [] m.kind = "nopping" -> m

Failed(m) ==
  CASE m.kind = "cutting" -> CuttingFailure(m)
    [] m.kind = "blocks"  -> BlocksFailure(m)
    [] m.kind = "nopping" -> NoppingFailure(m)
=============================================================================

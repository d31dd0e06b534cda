---------------------------- MODULE TimeoutsProofs ----------------------------
(***************************************************************************)
(* Proofs about Timeouts, for every set of inputs and every bound on the   *)
(* queue: only reproduced hangs are reported, and none is forgotten.       *)
(***************************************************************************)
EXTENDS Timeouts, TLAPS, SequenceTheorems

(* The switch, the timeout of the executor and the stage change together.  *)
InStep ==
  /\ phase = "Mutating" => timeout = "configured" /\ capture_timeouts
  /\ phase = "Verifying" => timeout = "multiple" /\ ~ capture_timeouts /\ ~ ignore_hangs

TInv == TypeOK /\ InStep /\ CapturedWaits /\ HangsAreVerified

-----------------------------------------------------------------------------
(* The queue: what joins it and what leaves it.                            *)
LEMMA RangeOfAppend ==
  ASSUME NEW S, NEW q \in Seq(S), NEW e \in S
  PROVE  Append(q, e) \in Seq(S) /\ Range(q) \cup {e} \subseteq Range(Append(q, e))
<1>1. /\ Append(q, e) \in Seq(S)
      /\ Len(Append(q, e)) = Len(q) + 1
      /\ \A k \in 1..Len(q) : Append(q, e)[k] = q[k]
      /\ Append(q, e)[Len(q) + 1] = e
  BY AppendProperties
<1>2. Len(q) \in Nat /\ DOMAIN q = 1..Len(q) /\ DOMAIN Append(q, e) = 1..(Len(q) + 1)
  BY <1>1
<1>3. QED
  BY <1>1, <1>2 DEF Range

LEMMA RangeOfTail ==
  ASSUME NEW S, NEW q \in Seq(S), q # <<>>
  PROVE  /\ Head(q) \in S /\ Tail(q) \in Seq(S)
         /\ Range(q) \ {Head(q)} \subseteq Range(Tail(q))
<1>1. /\ Head(q) \in S /\ Head(q) = q[1] /\ Tail(q) \in Seq(S)
      /\ Len(Tail(q)) = Len(q) - 1 /\ Len(q) \in Nat \ {0}
      /\ \A k \in 1..Len(Tail(q)) : Tail(q)[k] = q[k + 1]
  BY HeadTailProperties
<1>2. DOMAIN q = 1..Len(q) /\ DOMAIN Tail(q) = 1..Len(Tail(q))
  BY <1>1
<1>3. ASSUME NEW k \in 1..Len(q), q[k] # q[1]
      PROVE  q[k] \in Range(Tail(q))
  <2>1. k - 1 \in 1..Len(Tail(q)) /\ (k - 1) + 1 = k
    BY <1>1, <1>3
  <2>2. Tail(q)[k - 1] = q[k]
    BY <1>1, <2>1
  <2>3. QED
    BY <1>2, <2>1, <2>2 DEF Range
<1>4. Range(q) \ {q[1]} \subseteq Range(Tail(q))
  BY <1>2, <1>3 DEF Range
<1>5. QED
  BY <1>1, <1>4

(* An execution leaves well-typed verdicts behind.                         *)
LEMMA EvaluateType ==
  ASSUME TypeOK, NEW input \in Inputs, Evaluate(input)
  PROVE  /\ triggered' \in BOOLEAN /\ inputs' \in Seq(Inputs) /\ owed' \subseteq Inputs
         /\ solutions' \subseteq [ exit : ExitKind \ {"Ok"}, ran : {"configured", "multiple"},
                                   name : {"cause", "timeout"} ]
<1>1. PICK exit \in ExitKind, novel \in BOOLEAN :
        /\ AsksCapture(input, exit)
        /\ IF IsSolution(exit, novel) THEN Files(exit) ELSE UNCHANGED solutions
        /\ Remembers(input, exit)
  BY DEF Evaluate
<1>2. triggered' \in BOOLEAN /\ inputs' \in Seq(Inputs)
  BY <1>1, RangeOfAppend DEF AsksCapture, Captures, Judges, TypeOK
<1>3. owed' \subseteq Inputs
  BY <1>1 DEF Remembers, TypeOK
<1>4. exit = "Ok" => ~ triggered' \/ triggered' = triggered
  BY <1>1 DEF AsksCapture, Captures, Judges
<1>5. IsSolution(exit, novel) => exit # "Ok"
  BY <1>1 DEF IsSolution, AsksCapture, Captures, Judges
<1>6. NamePrefix \in {"cause", "timeout"}
  BY DEF NamePrefix
<1>7. QED
  BY <1>1, <1>2, <1>3, <1>5, <1>6 DEF Files, TypeOK

(* Under the configured timeout a hang is queued and not reported.         *)
LEMMA EvaluateConfigured ==
  ASSUME TypeOK, NEW input \in Inputs, Evaluate(input),
         timeout = "configured", capture_timeouts, owed \subseteq Range(inputs)
  PROVE  owed' \subseteq Range(inputs') /\ \A s \in solutions' \ solutions : s.exit # "Timeout"
<1>1. PICK exit \in ExitKind, novel \in BOOLEAN :
        /\ AsksCapture(input, exit)
        /\ IF IsSolution(exit, novel) THEN Files(exit) ELSE UNCHANGED solutions
        /\ Remembers(input, exit)
  BY DEF Evaluate
<1>2. inputs \in Seq(Inputs)
  BY DEF TypeOK
<1>3. CASE exit = "Timeout"
  <2>1. inputs' = Append(inputs, input) /\ ~ triggered'
    BY <1>1, <1>3 DEF AsksCapture, Captures
  <2>2. owed' = owed \cup {input} /\ UNCHANGED solutions
    BY <1>1, <1>3, <2>1 DEF Remembers, IsSolution
  <2>3. QED
    BY <1>2, <2>1, <2>2, RangeOfAppend
<1>4. CASE exit # "Timeout"
  <2>1. UNCHANGED inputs /\ UNCHANGED owed
    BY <1>1, <1>4 DEF AsksCapture, Judges, Remembers
  <2>2. \A s \in solutions' \ solutions : s.exit = exit
    BY <1>1 DEF Files
  <2>3. QED
    BY <1>4, <2>1, <2>2
<1>5. QED
  BY <1>3, <1>4

(* Under the multiple of it the verdict is final.                          *)
LEMMA EvaluateMultiple ==
  ASSUME NEW input \in Inputs, Evaluate(input), timeout = "multiple", ~ capture_timeouts
  PROVE  /\ owed' = owed \ {input} /\ UNCHANGED inputs
         /\ \A s \in solutions' \ solutions : s.ran = "multiple"
<1>1. PICK exit \in ExitKind, novel \in BOOLEAN :
        /\ AsksCapture(input, exit)
        /\ IF IsSolution(exit, novel) THEN Files(exit) ELSE UNCHANGED solutions
        /\ Remembers(input, exit)
  BY DEF Evaluate
<1>2. UNCHANGED inputs /\ (exit = "Timeout" => triggered')
  BY <1>1 DEF AsksCapture, Judges
<1>3. owed' = owed \ {input}
  BY <1>1, <1>2 DEF Remembers
<1>4. \A s \in solutions' \ solutions : s.ran = "multiple"
  BY <1>1 DEF Files
<1>5. QED
  BY <1>2, <1>3, <1>4

-----------------------------------------------------------------------------
LEMMA InitTInv == Init => TInv
<1>1. SUFFICES ASSUME Init PROVE TInv
  OBVIOUS
<1>2. TypeOK
  <2>1. inputs \in Seq(Inputs) /\ timeouts \in Seq(Inputs)
    BY <1>1 DEF Init
  <2>2. /\ ignore_hangs \in BOOLEAN /\ capture_timeouts \in BOOLEAN /\ triggered \in BOOLEAN
        /\ timeout \in {"configured", "multiple"}
        /\ phase \in {"Mutating", "Verifying", "Stopped"}
    BY <1>1 DEF Init
  <2>3. solutions = {} /\ owed = {}
    BY <1>1 DEF Init
  <2>4. QED
    BY <2>1, <2>2, <2>3, Zenon DEF TypeOK
<1>3. InStep /\ HangsAreVerified
  BY <1>1 DEF Init, InStep, HangsAreVerified
<1>4. CapturedWaits
  BY <1>1 DEF Init, CapturedWaits
<1>5. QED
  BY <1>2, <1>3, <1>4 DEF TInv

LEMMA NextTInv == TInv /\ [Next]_vars => TInv'
<1>1. SUFFICES ASSUME TInv, [Next]_vars PROVE TInv'
  OBVIOUS
<1>2. TypeOK /\ InStep /\ CapturedWaits /\ HangsAreVerified
  BY <1>1 DEF TInv
<1>3. CASE Mutate
  <2>1. PICK input \in Inputs : Evaluate(input)
    BY <1>3 DEF Mutate
  <2>2. /\ phase = "Mutating" /\ timeout = "configured" /\ capture_timeouts
        /\ UNCHANGED <<ignore_hangs, timeout, capture_timeouts, timeouts, phase>>
    BY <1>2, <1>3 DEF Mutate, InStep
  <2>3. owed \subseteq Range(inputs)
    BY <1>2, <2>2 DEF CapturedWaits, Waiting
  <2>4. TypeOK'
    BY <1>2, <2>1, <2>2, EvaluateType DEF TypeOK
  <2>5. owed' \subseteq Range(inputs') /\ \A s \in solutions' \ solutions : s.exit # "Timeout"
    BY <1>2, <2>1, <2>2, <2>3, EvaluateConfigured
  <2>6. CapturedWaits'
    BY <2>2, <2>5 DEF CapturedWaits, Waiting
  <2>7. HangsAreVerified'
    BY <1>2, <2>2, <2>5 DEF HangsAreVerified
  <2>8. InStep'
    BY <1>2, <2>2 DEF InStep
  <2>9. QED
    BY <2>4, <2>6, <2>7, <2>8 DEF TInv
<1>4. CASE Verify
  <2>1. /\ phase = "Mutating" /\ ~ ignore_hangs /\ phase' = "Verifying" /\ timeouts' = inputs
        /\ timeout' = "multiple" /\ ~ capture_timeouts'
        /\ UNCHANGED <<ignore_hangs, triggered, inputs, solutions, owed>>
    BY <1>4 DEF Verify
  <2>2. TypeOK'
    BY <1>2, <1>4, <2>1 DEF TypeOK, Verify
  <2>3. CapturedWaits'
    BY <1>2, <2>1 DEF CapturedWaits, Waiting
  <2>4. InStep' /\ HangsAreVerified'
    BY <1>2, <2>1 DEF InStep, HangsAreVerified
  <2>5. QED
    BY <2>2, <2>3, <2>4 DEF TInv
<1>5. CASE VerifyNext
  <2>1. /\ phase = "Verifying" /\ timeouts # <<>> /\ timeouts' = Tail(timeouts)
        /\ Evaluate(Head(timeouts))
        /\ UNCHANGED <<ignore_hangs, timeout, capture_timeouts, phase>>
    BY <1>5 DEF VerifyNext
  <2>2. timeout = "multiple" /\ ~ capture_timeouts /\ ~ ignore_hangs /\ timeouts \in Seq(Inputs)
    BY <1>2, <2>1 DEF InStep, TypeOK
  <2>3. /\ Head(timeouts) \in Inputs /\ timeouts' \in Seq(Inputs)
        /\ Range(timeouts) \ {Head(timeouts)} \subseteq Range(timeouts')
    BY <2>1, <2>2, RangeOfTail
  <2>4. TypeOK'
    BY <1>2, <2>1, <2>3, EvaluateType DEF TypeOK
  <2>5. /\ owed' = owed \ {Head(timeouts)}
        /\ \A s \in solutions' \ solutions : s.ran = "multiple"
    BY <2>1, <2>2, <2>3, EvaluateMultiple
  <2>6. CapturedWaits'
    BY <1>2, <2>1, <2>3, <2>5 DEF CapturedWaits, Waiting
  <2>7. HangsAreVerified'
    BY <1>2, <2>1, <2>2, <2>5 DEF HangsAreVerified
  <2>8. InStep'
    BY <1>2, <2>1 DEF InStep
  <2>9. QED
    BY <2>4, <2>6, <2>7, <2>8 DEF TInv
<1>6. CASE Verified
  <2>1. /\ phase = "Verifying" /\ timeouts = <<>> /\ phase' = "Mutating" /\ inputs' = <<>>
        /\ timeout' = "configured" /\ capture_timeouts'
        /\ UNCHANGED <<ignore_hangs, triggered, timeouts, solutions, owed>>
    BY <1>6 DEF Verified
  <2>2. TypeOK'
    BY <1>2, <1>6, <2>1 DEF TypeOK, Verified
  <2>3. owed \subseteq Range(timeouts)
    BY <1>2, <2>1 DEF CapturedWaits, Waiting
  <2>4. CapturedWaits'
    BY <2>1, <2>3 DEF CapturedWaits, Waiting
  <2>5. InStep' /\ HangsAreVerified'
    BY <1>2, <2>1 DEF InStep, HangsAreVerified
  <2>6. QED
    BY <2>2, <2>4, <2>5 DEF TInv
<1>7. CASE Fail
  <2>1. TypeOK' /\ InStep' /\ HangsAreVerified'
    BY <1>2, <1>7 DEF Fail, TypeOK, InStep, HangsAreVerified
  <2>2. CapturedWaits'
    BY <1>7 DEF Fail, CapturedWaits
  <2>3. QED
    BY <2>1, <2>2 DEF TInv
<1>8. CASE Respawn
  <2>1. TypeOK' /\ InStep' /\ HangsAreVerified'
    BY <1>2, <1>8 DEF Respawn, TypeOK, InStep, HangsAreVerified
  <2>2. CapturedWaits'
    BY <1>2, <1>8 DEF Respawn, CapturedWaits, Waiting
  <2>3. QED
    BY <2>1, <2>2 DEF TInv
<1>9. CASE UNCHANGED vars
  BY <1>2, <1>9 DEF vars, TInv, TypeOK, InStep, CapturedWaits, Waiting, HangsAreVerified
<1>10. QED
  BY <1>1, <1>3, <1>4, <1>5, <1>6, <1>7, <1>8, <1>9 DEF Next

(* TInv holds in every reachable state.                                    *)
THEOREM TimeoutsInvariant == Spec => []TInv
BY InitTInv, NextTInv, PTL DEF Spec

(* The state of the stage and of the feedback keeps its types.             *)
THEOREM TimeoutsTypes == Spec => []TypeOK
<1>1. TInv => TypeOK
  BY DEF TInv
<1>2. QED
  BY <1>1, TimeoutsInvariant, PTL

(* A captured hang is in the queue or in the stage's copy until it was run *)
(* with the multiple of the timeout, however long the queue and however    *)
(* often the client restarts: emptying the queue loses nothing.            *)
THEOREM NothingCapturedIsLost == Spec => []CapturedWaits
<1>1. TInv => CapturedWaits
  BY DEF TInv
<1>2. QED
  BY <1>1, TimeoutsInvariant, PTL

(* Only hangs that were reproduced with the multiple of the timeout are    *)
(* reported, and none if hangs are ignored.                                *)
THEOREM OnlyVerifiedHangs == Spec => []HangsAreVerified
<1>1. TInv => HangsAreVerified
  BY DEF TInv
<1>2. QED
  BY <1>1, TimeoutsInvariant, PTL
=============================================================================

------------------------- MODULE StabilityCheckProofs -------------------------
(***************************************************************************)
(* Proofs about StabilityCheck, for every map, every set of testcases and  *)
(* every number of runs: the count of covered entries stays in sync with   *)
(* the history, an entry is disabled only if it is flaky or a run that was *)
(* cut off missed it, and the stability that is sent is sound.             *)
(***************************************************************************)
EXTENDS StabilityCheck, TLAPS, FiniteSetTheorems

(* What the check in progress has disabled and not yet added to the        *)
(* metadata.                                                               *)
Found == IF phase = "checking" THEN run.unstable_entries ELSE {}

DisabledAreCounted == phase # "stopped" => Disabled = unstable_entries \cup Found

CorpusCovers == corpus # {} => num_covered_map_indexes # 0

RunInStep ==
  phase = "checking" =>
    /\ run.filled_count \in 1..num_covered_map_indexes
    /\ run.first \in CutOffRuns(run.cur)
    /\ ~ run.cut_off => run.first \in CompleteRuns(run.cur)

RatioIsSound ==
  phase # "stopped" /\ Found = {} /\ stability \notin {NoRatio, DefaultRatio} =>
    /\ stability.stable <= stability.filled
    /\ stability.stable <= Cardinality(Covered \ Disabled)

SInv ==
  /\ TypeOK /\ CoveredInSync /\ OnlyFlakyDisabled
  /\ DisabledAreCounted /\ CorpusCovers /\ RunInStep /\ RatioIsSound

-----------------------------------------------------------------------------
(* Sets of entries are finite.                                             *)
LEMMA FiniteEntries ==
  ASSUME NEW S \in SUBSET Entries
  PROVE  IsFiniteSet(S) /\ Cardinality(S) \in 0..Cardinality(Entries)
<1>1. IsFiniteSet(Entries) /\ IsFiniteSet(S) /\ Cardinality(S) <= Cardinality(Entries)
  BY FS_Subset, StabilityAssumption
<1>2. Cardinality(S) \in Nat /\ Cardinality(Entries) \in Nat
  BY <1>1, FS_CardinalityType
<1>3. QED
  BY <1>1, <1>2

(* Covering entries that were not covered adds their number.               *)
LEMMA CountOfNew ==
  ASSUME NEW S \in SUBSET Entries, NEW N \in SUBSET Entries, S \cap N = {}
  PROVE  Cardinality(S \cup N) = Cardinality(S) + Cardinality(N)
<1>1. IsFiniteSet(S) /\ IsFiniteSet(N)
  BY FiniteEntries
<1>2. Cardinality(S \cup N) = Cardinality(S) + Cardinality(N) - Cardinality(S \cap N)
  BY <1>1, FS_Union
<1>3. Cardinality(S \cap N) = 0
  BY FS_EmptySet
<1>4. Cardinality(S) \in Nat /\ Cardinality(N) \in Nat
  BY FiniteEntries
<1>5. QED
  BY <1>2, <1>3, <1>4

(* Runs are maps of counts; outside the flaky entries none counts more     *)
(* than a complete run, which a run that was not cut off is.               *)
LEMMA RunsAreMaps ==
  ASSUME NEW t \in Testcases, NEW exit_kind \in ExitKind, NEW map \in Runs(t, exit_kind)
  PROVE  /\ map \in [Entries -> Counts]
         /\ map \in CutOffRuns(t)
         /\ exit_kind = "Ok" => map \in CompleteRuns(t)
<1>1. Covers[t] \in [Entries -> Counts] /\ Counts \subseteq Nat
  BY StabilityAssumption DEF Counts
<1>2. CompleteRuns(t) \subseteq CutOffRuns(t)
  <2> SUFFICES ASSUME NEW m \in CompleteRuns(t) PROVE m \in CutOffRuns(t)
    OBVIOUS
  <2>1. m \in [Entries -> Counts] /\ \A e \in Entries \ Flaky[t] : m[e] = Covers[t][e]
    BY DEF CompleteRuns
  <2>2. \A e \in Entries : Covers[t][e] \in Nat
    BY <1>1
  <2>3. \A e \in Entries \ Flaky[t] : m[e] <= Covers[t][e]
    BY <2>1, <2>2
  <2>4. QED
    BY <2>1, <2>3 DEF CutOffRuns
<1>3. map \in CutOffRuns(t) /\ (exit_kind = "Ok" => map \in CompleteRuns(t))
  BY <1>2 DEF Runs
<1>4. QED
  BY <1>3 DEF CutOffRuns

LEMMA CountsAreSmall == \A n \in Counts : n \in 0..MaxValue /\ n # MaxValue /\ n \in Nat
BY StabilityAssumption DEF Counts

(* What the map feedback does to the history.                              *)
LEMMA RememberCovers ==
  ASSUME SInv, NEW map \in [Entries -> Counts], IsInteresting(map), Remember(map)
  PROVE  /\ history_map' \in [Entries -> 0..MaxValue]
         /\ Covered \subseteq Covered' /\ Disabled' = Disabled
         /\ num_covered_map_indexes' = Cardinality(Covered')
         /\ num_covered_map_indexes' \in 0..Cardinality(Entries) \ {0}
         /\ num_covered_map_indexes <= num_covered_map_indexes'
<1> DEFINE New == { e \in Entries : IsDefault(e) /\ map[e] # 0 }
<1>0. /\ history_map \in [Entries -> 0..MaxValue] /\ MaxValue \in Nat
      /\ num_covered_map_indexes = Cardinality(Covered)
  BY StabilityAssumption DEF SInv, TypeOK, CoveredInSync
<1>1. history_map' = [ e \in Entries |-> IF map[e] > history_map[e] THEN map[e] ELSE history_map[e] ]
  BY DEF Remember
<1>2. \A e \in Entries : /\ map[e] \in 0..MaxValue /\ map[e] # MaxValue
                         /\ history_map[e] \in 0..MaxValue
  BY <1>0, CountsAreSmall
<1>3. history_map' \in [Entries -> 0..MaxValue]
  BY <1>1, <1>2
<1>4. \A e \in Entries : (history_map'[e] = MaxValue) <=> (history_map[e] = MaxValue)
  BY <1>0, <1>1, <1>2
<1>5. \A e \in Entries : (history_map'[e] # 0) <=> (history_map[e] # 0 \/ map[e] # 0)
  BY <1>0, <1>1, <1>2
<1>6. Disabled' = Disabled
  BY <1>4 DEF Disabled, IsMax
<1>7. Covered' = Covered \cup New /\ Covered \cap New = {}
  BY <1>5 DEF Covered, IsDefault
<1>8. Covered \in SUBSET Entries /\ New \in SUBSET Entries
  BY DEF Covered
<1>9. num_covered_map_indexes' = num_covered_map_indexes + Cardinality(New)
  BY DEF Remember
<1>10. num_covered_map_indexes' = Cardinality(Covered')
  BY <1>0, <1>7, <1>8, <1>9, CountOfNew
<1>11. Cardinality(Covered') \in 0..Cardinality(Entries) /\ IsFiniteSet(Covered')
  <2>1. Covered' \in SUBSET Entries
    BY <1>7, <1>8
  <2>2. QED
    BY <2>1, FiniteEntries
<1>12. Cardinality(Covered') # 0
  <2>1. PICK e \in Entries : map[e] > history_map[e]
    BY DEF IsInteresting
  <2>2. map[e] # 0
    BY <1>2, <2>1
  <2>3. e \in Covered'
    BY <1>5, <2>2 DEF Covered, IsDefault
  <2>4. QED
    BY <1>11, <2>3, FS_EmptySet
<1>13. Cardinality(New) \in Nat /\ num_covered_map_indexes \in Nat
  BY <1>0, <1>8, FiniteEntries
<1>14. QED
  BY <1>3, <1>6, <1>7, <1>9, <1>10, <1>11, <1>12, <1>13

(* What disabling entries does to it.                                      *)
LEMMA DisableCovers ==
  ASSUME SInv, NEW unstable \in SUBSET Entries, Disable(unstable)
  PROVE  /\ history_map' \in [Entries -> 0..MaxValue]
         /\ Covered \subseteq Covered' /\ Disabled' = Disabled \cup unstable
         /\ num_covered_map_indexes' = Cardinality(Covered')
         /\ num_covered_map_indexes' \in 0..Cardinality(Entries)
         /\ num_covered_map_indexes <= num_covered_map_indexes'
<1> DEFINE New == { e \in unstable : IsDefault(e) }
<1>0. /\ history_map \in [Entries -> 0..MaxValue] /\ MaxValue \in Nat \ {0}
      /\ num_covered_map_indexes = Cardinality(Covered)
  BY StabilityAssumption DEF SInv, TypeOK, CoveredInSync
<1>1. history_map' = [ e \in Entries |-> IF e \in unstable THEN MaxValue ELSE history_map[e] ]
  BY DEF Disable
<1>2. history_map' \in [Entries -> 0..MaxValue]
  BY <1>0, <1>1
<1>3. Disabled' = Disabled \cup unstable
  BY <1>1 DEF Disabled, IsMax
<1>4. Covered' = Covered \cup New /\ Covered \cap New = {}
  BY <1>0, <1>1 DEF Covered, IsDefault
<1>5. Covered \in SUBSET Entries /\ New \in SUBSET Entries
  BY DEF Covered
<1>6. num_covered_map_indexes' = num_covered_map_indexes + Cardinality(New)
  BY DEF Disable
<1>7. num_covered_map_indexes' = Cardinality(Covered')
  BY <1>0, <1>4, <1>5, <1>6, CountOfNew
<1>8. Covered' \in SUBSET Entries
  BY <1>4, <1>5
<1>9. Cardinality(Covered') \in 0..Cardinality(Entries)
  BY <1>8, FiniteEntries
<1>10. Cardinality(New) \in Nat /\ num_covered_map_indexes \in Nat
  BY <1>0, <1>5, FiniteEntries
<1>11. QED
  BY <1>2, <1>3, <1>4, <1>6, <1>7, <1>9, <1>10

(* Two complete runs of a testcase differ only on its flaky entries, and   *)
(* others only on entries that the testcase covers as well.                *)
LEMMA DifferingHasReason ==
  ASSUME SInv, phase = "checking", NEW exit_kind \in ExitKind, Compares(exit_kind),
         NEW map \in Runs(run.cur, exit_kind)
  PROVE  /\ Differing(map) \in SUBSET Entries
         /\ \A e \in Differing(map) :
              \/ e \in Flaky[run.cur]
              \/ (run.cut_off \/ exit_kind = "Crash") /\ Covers[run.cur][e] # 0
<1>1. /\ run.cur \in Testcases /\ run.first \in CutOffRuns(run.cur)
      /\ ~ run.cut_off => run.first \in CompleteRuns(run.cur)
  BY DEF SInv, TypeOK, RunInStep
<1>2. map \in CutOffRuns(run.cur) /\ (exit_kind = "Ok" => map \in CompleteRuns(run.cur))
  BY <1>1, RunsAreMaps
<1>3. exit_kind \in {"Ok", "Crash"}
  BY DEF ExitKind, Compares
<1>4. Differing(map) \in SUBSET Entries /\ \A e \in Differing(map) : run.first[e] # map[e]
  BY DEF Differing
<1>5. Counts \subseteq Nat /\ Covers[run.cur] \in [Entries -> Counts]
  BY <1>1, StabilityAssumption DEF Counts
<1>6. SUFFICES ASSUME NEW e \in Differing(map), e \notin Flaky[run.cur]
               PROVE  (run.cut_off \/ exit_kind = "Crash") /\ Covers[run.cur][e] # 0
  BY <1>4
<1>7. run.cut_off \/ exit_kind = "Crash"
  BY <1>1, <1>2, <1>3, <1>4, <1>6 DEF CompleteRuns
<1>8. Covers[run.cur][e] # 0
  <2>1. /\ run.first[e] \in Nat /\ map[e] \in Nat /\ Covers[run.cur][e] \in Nat
        /\ run.first[e] <= Covers[run.cur][e] /\ map[e] <= Covers[run.cur][e]
    BY <1>1, <1>2, <1>4, <1>5, <1>6 DEF CutOffRuns
  <2>2. QED
    BY <1>4, <1>6, <2>1
<1>9. QED
  BY <1>7, <1>8

(* A set that covers more leaves at least as much beside what is disabled. *)
LEMMA StableGrow ==
  ASSUME NEW C \in SUBSET Entries, NEW D \in SUBSET Entries, C \subseteq D, NEW X \in SUBSET Entries
  PROVE  Cardinality(C \ X) <= Cardinality(D \ X)
<1>1. IsFiniteSet(D \ X) /\ C \ X \subseteq D \ X
  BY FiniteEntries
<1>2. QED
  BY <1>1, FS_Subset

(* What is left of the covered entries once some of them are disabled.     *)
LEMMA CountOfStable ==
  ASSUME NEW C \in SUBSET Entries, NEW X \in SUBSET Entries, X \subseteq C
  PROVE  Cardinality(C \ X) = Cardinality(C) - Cardinality(X)
<1>1. IsFiniteSet(C)
  BY FiniteEntries
<1>2. Cardinality(C \ X) = Cardinality(C) - Cardinality(C \cap X)
  BY <1>1, FS_Difference
<1>3. C \cap X = X
  OBVIOUS
<1>4. QED
  BY <1>2, <1>3

-----------------------------------------------------------------------------
LEMMA SInvInit == Init => SInv
<1> SUFFICES ASSUME Init PROVE SInv
  OBVIOUS
<1>1. MaxValue \in Nat \ {0} /\ Cardinality(Entries) \in Nat
  BY FiniteEntries, StabilityAssumption
<1>2. Disabled = {} /\ Covered = {} /\ Found = {}
  BY <1>1 DEF Init, Disabled, Covered, IsMax, IsDefault, Found
<1>3. TypeOK
  BY <1>1 DEF Init, TypeOK, NoRatio
<1>4. CoveredInSync
  BY <1>2, FS_EmptySet DEF Init, CoveredInSync
<1>5. OnlyFlakyDisabled /\ DisabledAreCounted /\ CorpusCovers /\ RunInStep /\ RatioIsSound
  BY <1>2 DEF Init, OnlyFlakyDisabled, DisabledAreCounted, CorpusCovers, RunInStep, RatioIsSound
<1>6. QED
  BY <1>3, <1>4, <1>5 DEF SInv

LEMMA EvaluateKeeps ==
  ASSUME SInv, NEW t \in Testcases, Evaluate(t)
  PROVE  SInv'
<1>1. PICK exit_kind \in ExitKind : \E map \in Runs(t, exit_kind) : IsInteresting(map) /\ Remember(map)
  BY DEF Evaluate
<1>2. PICK map \in Runs(t, exit_kind) : IsInteresting(map) /\ Remember(map)
  BY <1>1
<1>3. map \in [Entries -> Counts]
  BY RunsAreMaps
<1>4. /\ history_map' \in [Entries -> 0..MaxValue]
      /\ Covered \subseteq Covered' /\ Disabled' = Disabled
      /\ num_covered_map_indexes' = Cardinality(Covered')
      /\ num_covered_map_indexes' \in 0..Cardinality(Entries) \ {0}
  BY <1>2, <1>3, RememberCovers
<1>5. /\ phase = "idle" /\ corpus' = corpus \cup {t}
      /\ UNCHANGED <<seen, unstable_entries, stability, phase, run, missed>>
  BY DEF Evaluate
<1>6. TypeOK'
  BY <1>4, <1>5 DEF SInv, TypeOK
<1>7. CoveredInSync' /\ CorpusCovers' /\ RunInStep' /\ DisabledAreCounted'
  BY <1>4, <1>5 DEF SInv, CoveredInSync, CorpusCovers, RunInStep, DisabledAreCounted, Found
<1>8. OnlyFlakyDisabled'
  BY <1>4, <1>5 DEF SInv, OnlyFlakyDisabled
<1>9. RatioIsSound'
  <2>1. Covered \in SUBSET Entries /\ Covered' \in SUBSET Entries /\ Disabled \in SUBSET Entries
    BY DEF Covered, Disabled
  <2>2. Cardinality(Covered \ Disabled) <= Cardinality(Covered' \ Disabled)
    BY <1>4, <2>1, StableGrow
  <2>3. Cardinality(Covered \ Disabled) \in Nat /\ Cardinality(Covered' \ Disabled) \in Nat
    BY <2>1, FiniteEntries
  <2>4. stability.stable \in Nat
    BY DEF SInv, TypeOK
  <2>5. Found = {} /\ RatioIsSound
    BY <1>5 DEF SInv, Found
  <2>6. QED
    BY <1>4, <1>5, <2>2, <2>3, <2>4, <2>5 DEF RatioIsSound
<1>10. QED
  BY <1>6, <1>7, <1>8, <1>9 DEF SInv

LEMMA CheckKeeps ==
  ASSUME SInv, Check
  PROVE  SInv'
<1>1. PICK t \in corpus \ seen, exit_kind \in ExitKind :
        \E map \in Runs(t, exit_kind) :
          run' = [ cur |-> t, first |-> map, cut_off |-> (exit_kind # "Ok"),
                   filled_count |-> num_covered_map_indexes,
                   unstable_entries |-> {}, i |-> 1, iter |-> stage_max ]
  BY DEF Check
<1>2. PICK map \in Runs(t, exit_kind) :
        run' = [ cur |-> t, first |-> map, cut_off |-> (exit_kind # "Ok"),
                 filled_count |-> num_covered_map_indexes,
                 unstable_entries |-> {}, i |-> 1, iter |-> stage_max ]
  BY <1>1
<1>3. /\ phase = "idle" /\ phase' = "checking"
      /\ UNCHANGED << corpus, history_map, num_covered_map_indexes, seen, unstable_entries, stability,
                      missed >>
  BY DEF Check
<1>4. t \in Testcases /\ corpus # {}
  BY <1>1 DEF SInv, TypeOK
<1>5. map \in [Entries -> Counts]
  BY <1>4, RunsAreMaps
<1>6. num_covered_map_indexes \in Nat \ {0} /\ stage_max \in Nat
  BY <1>4, FiniteEntries, StabilityAssumption DEF SInv, TypeOK, CorpusCovers
<1>7. Disabled' = Disabled /\ Covered' = Covered /\ Found = {} /\ Found' = {}
  BY <1>2, <1>3 DEF Disabled, Covered, IsMax, IsDefault, Found
<1>8. TypeOK'
  <2>1. run' \in [ cur : corpus, first : [Entries -> Counts], cut_off : BOOLEAN, filled_count : Nat,
                   unstable_entries : SUBSET Entries, i : Nat, iter : Nat ]
    BY <1>2, <1>5, <1>6
  <2>2. QED
    BY <1>3, <2>1 DEF SInv, TypeOK
<1>9. RunInStep'
  <2>1. map \in CutOffRuns(t) /\ (exit_kind = "Ok" => map \in CompleteRuns(t))
    BY <1>4, RunsAreMaps
  <2>2. /\ run'.cur = t /\ run'.first = map /\ run'.cut_off = (exit_kind # "Ok")
        /\ run'.filled_count \in 1..num_covered_map_indexes
    BY <1>2, <1>6
  <2>3. QED
    BY <1>3, <2>1, <2>2 DEF RunInStep, CompleteRuns, CutOffRuns
<1>10. CoveredInSync' /\ CorpusCovers' /\ DisabledAreCounted' /\ OnlyFlakyDisabled' /\ RatioIsSound'
  BY <1>3, <1>7 DEF SInv, CoveredInSync, CorpusCovers, DisabledAreCounted, OnlyFlakyDisabled, RatioIsSound
<1>11. QED
  BY <1>8, <1>9, <1>10 DEF SInv

LEMMA RunAgainKeeps ==
  ASSUME SInv, RunAgain
  PROVE  SInv'
<1>0. /\ phase = "checking" /\ phase' = phase
      /\ UNCHANGED <<corpus, seen, unstable_entries, stability, phase>>
  BY DEF RunAgain
<1>1. /\ run.cur \in corpus /\ run.cur \in Testcases /\ run.unstable_entries \in SUBSET Entries
      /\ run.first \in [Entries -> Counts] /\ run.cut_off \in BOOLEAN /\ run.filled_count \in Nat
      /\ run.i \in Nat /\ run.iter \in Nat
      /\ run.filled_count \in 1..num_covered_map_indexes /\ num_covered_map_indexes \in Nat
  BY <1>0, FiniteEntries DEF SInv, TypeOK, RunInStep
<1>2. ASSUME NEW exit_kind \in ExitKind, Compares(exit_kind),
             \E map \in Runs(run.cur, exit_kind) : Compare(map, exit_kind)
      PROVE  SInv'
  <2>1. PICK map \in Runs(run.cur, exit_kind) : Compare(map, exit_kind)
    BY <1>2
  <2> DEFINE D == Differing(map)
  <2>2. /\ D \in SUBSET Entries
        /\ \A e \in D : \/ e \in Flaky[run.cur]
                        \/ (run.cut_off \/ exit_kind = "Crash") /\ Covers[run.cur][e] # 0
    BY <1>0, <1>2, DifferingHasReason
  <2>3. /\ Disable(D)
        /\ run' = [ run EXCEPT !.unstable_entries = run.unstable_entries \cup D, !.i = @ + 1,
                                !.iter = Prolonged(run.unstable_entries \cup D) ]
        /\ missed' = IF run.cut_off \/ exit_kind = "Crash" THEN missed \cup D ELSE missed
    BY <2>1 DEF Compare
  <2>4. /\ history_map' \in [Entries -> 0..MaxValue]
        /\ Covered \subseteq Covered' /\ Disabled' = Disabled \cup D
        /\ num_covered_map_indexes' = Cardinality(Covered')
        /\ num_covered_map_indexes' \in 0..Cardinality(Entries)
        /\ num_covered_map_indexes <= num_covered_map_indexes'
    BY <2>2, <2>3, DisableCovers
  <2>5. Prolonged(run.unstable_entries \cup D) \in Nat
    BY <1>1 DEF Prolonged
  <2>6. run \in [ cur : corpus, first : [Entries -> Counts], cut_off : BOOLEAN, filled_count : Nat,
                  unstable_entries : SUBSET Entries, i : Nat, iter : Nat ]
    BY <1>0 DEF SInv, TypeOK
  <2>7. run' \in [ cur : corpus, first : [Entries -> Counts], cut_off : BOOLEAN, filled_count : Nat,
                   unstable_entries : SUBSET Entries, i : Nat, iter : Nat ]
    <3> DEFINE U == run.unstable_entries \cup D
               P == Prolonged(U)
    <3>1. U \in SUBSET Entries /\ P \in Nat /\ run.i + 1 \in Nat
      BY <1>1, <2>2, <2>5
    <3>2. run' = [run EXCEPT !.unstable_entries = U, !.i = run.i + 1, !.iter = P]
      BY <2>3
    <3> HIDE DEF U, P
    <3>3. QED
      BY <2>6, <3>1, <3>2
  <2>8. TypeOK'
    BY <1>0, <2>2, <2>3, <2>4, <2>7 DEF SInv, TypeOK
  <2>9. /\ run'.unstable_entries = run.unstable_entries \cup D /\ run'.cur = run.cur
        /\ run'.first = run.first /\ run'.cut_off = run.cut_off /\ run'.filled_count = run.filled_count
    BY <2>3, <2>6
  <2>10. Found' = Found \cup D /\ Found = run.unstable_entries
    BY <1>0, <2>9 DEF Found
  <2>11. DisabledAreCounted'
    BY <1>0, <2>4, <2>10 DEF SInv, DisabledAreCounted
  <2>12. CorpusCovers'
    <3>1. Cardinality(Entries) \in Nat
      BY FiniteEntries
    <3>2. num_covered_map_indexes' # 0
      BY <1>1, <2>4, <3>1
    <3>3. QED
      BY <3>2 DEF CorpusCovers
  <2>13. RunInStep'
    <3>1. run'.filled_count \in 1..num_covered_map_indexes'
      BY <1>1, <2>4, <2>9, FiniteEntries
    <3>2. /\ run.first \in CutOffRuns(run.cur)
          /\ ~ run.cut_off => run.first \in CompleteRuns(run.cur)
      BY <1>0 DEF SInv, RunInStep
    <3>3. QED
      BY <2>9, <3>1, <3>2 DEF RunInStep, CompleteRuns, CutOffRuns
  <2>14. OnlyFlakyDisabled'
    <3>1. missed \subseteq missed' /\ (run.cut_off \/ exit_kind = "Crash" => D \subseteq missed')
      BY <2>3
    <3>2. ASSUME NEW e \in D
          PROVE  \/ \E t \in corpus : e \in Flaky[t]
                 \/ e \in missed' /\ \E t \in corpus : Covers[t][e] # 0
      BY <1>1, <2>2, <3>1
    <3>3. ASSUME NEW e \in Disabled
          PROVE  \/ \E t \in corpus : e \in Flaky[t]
                 \/ e \in missed' /\ \E t \in corpus : Covers[t][e] # 0
      BY <3>1 DEF SInv, OnlyFlakyDisabled
    <3>4. QED
      BY <1>0, <2>4, <3>2, <3>3 DEF OnlyFlakyDisabled
  <2>15. RatioIsSound'
    <3>1. CASE Found' # {}
      BY <3>1 DEF RatioIsSound
    <3>2. CASE Found' = {}
      <4>1. D = {} /\ Found = {} /\ Disabled' = Disabled
        BY <2>4, <2>10, <3>2
      <4>2. Covered \in SUBSET Entries /\ Covered' \in SUBSET Entries /\ Disabled \in SUBSET Entries
        BY DEF Covered, Disabled
      <4>3. Cardinality(Covered \ Disabled) <= Cardinality(Covered' \ Disabled)
        BY <2>4, <4>2, StableGrow
      <4>4. Cardinality(Covered \ Disabled) \in Nat /\ Cardinality(Covered' \ Disabled) \in Nat
        BY <4>2, FiniteEntries
      <4>5. stability.stable \in Nat
        BY DEF SInv, TypeOK
      <4>6. QED
        BY <1>0, <4>1, <4>3, <4>4, <4>5 DEF SInv, RatioIsSound
    <3>3. QED
      BY <3>1, <3>2
  <2>16. CoveredInSync'
    BY <2>4 DEF CoveredInSync
  <2>17. QED
    BY <2>8, <2>11, <2>12, <2>13, <2>14, <2>15, <2>16 DEF SInv
<1>3. CASE /\ run' = [run EXCEPT !.i = @ + 1]
           /\ UNCHANGED <<history_map, num_covered_map_indexes, missed>>
  <2>1. run \in [ cur : corpus, first : [Entries -> Counts], cut_off : BOOLEAN, filled_count : Nat,
                  unstable_entries : SUBSET Entries, i : Nat, iter : Nat ]
    BY <1>0 DEF SInv, TypeOK
  <2>2. run' \in [ cur : corpus, first : [Entries -> Counts], cut_off : BOOLEAN, filled_count : Nat,
                   unstable_entries : SUBSET Entries, i : Nat, iter : Nat ]
    BY <1>1, <1>3, <2>1
  <2>3. /\ run'.unstable_entries = run.unstable_entries /\ run'.cur = run.cur /\ run'.first = run.first
        /\ run'.cut_off = run.cut_off /\ run'.filled_count = run.filled_count
    BY <1>3, <2>1
  <2>4. TypeOK'
    BY <1>0, <1>3, <2>2 DEF SInv, TypeOK
  <2>5. Disabled' = Disabled /\ Covered' = Covered /\ Found' = Found
    BY <1>0, <1>3, <2>3 DEF Disabled, Covered, IsMax, IsDefault, Found
  <2>6. RunInStep'
    <3>1. /\ run.first \in CutOffRuns(run.cur)
          /\ ~ run.cut_off => run.first \in CompleteRuns(run.cur)
      BY <1>0 DEF SInv, RunInStep
    <3>2. QED
      BY <1>1, <1>3, <2>3, <3>1 DEF RunInStep, CompleteRuns, CutOffRuns
  <2>7. CoveredInSync' /\ CorpusCovers' /\ DisabledAreCounted' /\ OnlyFlakyDisabled' /\ RatioIsSound'
    BY <1>0, <1>3, <2>5
    DEF SInv, CoveredInSync, CorpusCovers, DisabledAreCounted, OnlyFlakyDisabled, RatioIsSound
  <2>8. QED
    BY <2>4, <2>6, <2>7 DEF SInv
<1>4. QED
  <2>1. PICK exit_kind \in ExitKind :
          IF Compares(exit_kind) THEN \E map \in Runs(run.cur, exit_kind) : Compare(map, exit_kind)
          ELSE /\ run' = [run EXCEPT !.i = @ + 1]
               /\ UNCHANGED <<history_map, num_covered_map_indexes, missed>>
    BY DEF RunAgain
  <2>2. CASE Compares(exit_kind)
    BY <1>2, <2>1, <2>2
  <2>3. CASE ~ Compares(exit_kind)
    BY <1>3, <2>1, <2>3
  <2>4. QED
    BY <2>2, <2>3

LEMMA CheckedKeeps ==
  ASSUME SInv, Checked
  PROVE  SInv'
<1>0. /\ phase = "checking" /\ phase' = "idle" /\ seen' = seen \cup {run.cur}
      /\ UNCHANGED <<corpus, history_map, num_covered_map_indexes, missed>>
  BY DEF Checked
<1>1. /\ run.cur \in corpus /\ run.unstable_entries \in SUBSET Entries /\ run.filled_count \in Nat \ {0}
      /\ run.filled_count <= num_covered_map_indexes /\ num_covered_map_indexes \in Nat
  BY <1>0, FiniteEntries DEF SInv, TypeOK, RunInStep
<1>2. Disabled' = Disabled /\ Covered' = Covered /\ Found' = {} /\ Found = run.unstable_entries
  BY <1>0 DEF Disabled, Covered, IsMax, IsDefault, Found
<1>3. CASE run.unstable_entries # {}
  <2>1. /\ unstable_entries' = unstable_entries \cup run.unstable_entries
        /\ stability' = [ stable |-> SaturatingSub(run.filled_count, Cardinality(unstable_entries')),
                          filled |-> run.filled_count ]
    BY <1>3 DEF Checked, Merged, Ratio
  <2>2. unstable_entries' = Disabled /\ unstable_entries' \in SUBSET Entries
    BY <1>0, <1>2, <2>1 DEF SInv, DisabledAreCounted, Disabled
  <2>3. Disabled \in SUBSET Entries /\ Covered \in SUBSET Entries /\ Disabled \subseteq Covered
    BY StabilityAssumption DEF Disabled, Covered, IsMax, IsDefault
  <2>4. Cardinality(Covered \ Disabled) = Cardinality(Covered) - Cardinality(Disabled)
    BY <2>3, CountOfStable
  <2>5. /\ Cardinality(Disabled) \in Nat /\ Cardinality(Covered) \in Nat
        /\ Cardinality(Covered \ Disabled) \in Nat
    BY <2>3, FiniteEntries
  <2>6. num_covered_map_indexes = Cardinality(Covered)
    BY DEF SInv, CoveredInSync
  <2>7. /\ stability' = [ stable |-> SaturatingSub(run.filled_count, Cardinality(Disabled)),
                          filled |-> run.filled_count ]
        /\ SaturatingSub(run.filled_count, Cardinality(Disabled)) \in Nat
        /\ SaturatingSub(run.filled_count, Cardinality(Disabled)) <= run.filled_count
        /\ SaturatingSub(run.filled_count, Cardinality(Disabled)) <= Cardinality(Covered \ Disabled)
    BY <1>1, <2>1, <2>2, <2>4, <2>5, <2>6 DEF SaturatingSub
  <2>8. TypeOK' /\ DisabledAreCounted' /\ RatioIsSound'
    <3>1. stability' \in [stable : Nat, filled : Nat]
      BY <1>1, <2>7
    <3>2. TypeOK'
      BY <1>0, <1>1, <2>2, <3>1 DEF SInv, TypeOK
    <3>3. DisabledAreCounted'
      BY <1>2, <2>2 DEF DisabledAreCounted
    <3>4. RatioIsSound'
      BY <1>2, <2>7 DEF RatioIsSound
    <3>5. QED
      BY <3>2, <3>3, <3>4
  <2>9. QED
    BY <1>0, <1>2, <2>8
    DEF SInv, CoveredInSync, CorpusCovers, OnlyFlakyDisabled, RunInStep
<1>4. CASE run.unstable_entries = {}
  <2>1. /\ unstable_entries' = unstable_entries
        /\ stability' = stability \/ stability' = DefaultRatio
    BY <1>4 DEF Checked
  <2>2. TypeOK' /\ DisabledAreCounted' /\ RatioIsSound'
    BY <1>0, <1>1, <1>2, <1>4, <2>1
    DEF SInv, TypeOK, DisabledAreCounted, RatioIsSound, DefaultRatio
  <2>3. QED
    BY <1>0, <1>2, <2>2
    DEF SInv, CoveredInSync, CorpusCovers, OnlyFlakyDisabled, RunInStep
<1>5. QED
  BY <1>3, <1>4

(* Steps that leave the history, the metadata and the ratio as they are.   *)
LEMMA OthersKeep ==
  ASSUME SInv, Fail \/ Respawn \/ UNCHANGED vars
  PROVE  SInv'
<1>1. /\ UNCHANGED << corpus, history_map, num_covered_map_indexes, unstable_entries, stability, run,
                      missed >>
      /\ seen' \in {seen, {}}
      /\ phase' = "stopped" \/ phase' = phase
  BY DEF Fail, Respawn, vars
<1>2. Disabled' = Disabled /\ Covered' = Covered
  BY <1>1 DEF Disabled, Covered, IsMax, IsDefault
<1>3. phase' # "stopped" => Found' = Found
  BY <1>1 DEF Found
<1>4. TypeOK'
  BY <1>1 DEF SInv, TypeOK
<1>5. RunInStep'
  BY <1>1 DEF SInv, RunInStep, CompleteRuns, CutOffRuns
<1>6. CoveredInSync' /\ CorpusCovers' /\ DisabledAreCounted' /\ OnlyFlakyDisabled' /\ RatioIsSound'
  BY <1>1, <1>2, <1>3
  DEF SInv, CoveredInSync, CorpusCovers, DisabledAreCounted, OnlyFlakyDisabled, RatioIsSound
<1>7. QED
  BY <1>4, <1>5, <1>6 DEF SInv

-----------------------------------------------------------------------------
LEMMA SInvInductive == Spec => []SInv
<1>1. Init => SInv
  BY SInvInit
<1>2. SInv /\ [Next]_vars => SInv'
  <2> SUFFICES ASSUME SInv, [Next]_vars PROVE SInv'
    OBVIOUS
  <2>1. CASE \E t \in Testcases : Evaluate(t)
    BY <2>1, EvaluateKeeps
  <2>2. CASE Check
    BY <2>2, CheckKeeps
  <2>3. CASE RunAgain
    BY <2>3, RunAgainKeeps
  <2>4. CASE Checked
    BY <2>4, CheckedKeeps
  <2>5. CASE Fail \/ Respawn \/ UNCHANGED vars
    BY <2>5, OthersKeep
  <2>6. QED
    BY <2>1, <2>2, <2>3, <2>4, <2>5 DEF Next
<1>3. QED
  BY <1>1, <1>2, PTL DEF Spec

(* The state of the stage and the feedback keeps its types; in particular  *)
(* the count of covered entries never exceeds the map.                     *)
THEOREM StabilityTypes == Spec => []TypeOK
<1>1. SInv => TypeOK
  BY DEF SInv
<1>2. QED
  BY <1>1, SInvInductive, PTL

(* The map feedback (external) and the stability check (stability_check.rs *)
(* :197) keep the count of covered entries in sync with the history.       *)
THEOREM CountInSync == Spec => []CoveredInSync
<1>1. SInv => CoveredInSync
  BY DEF SInv
<1>2. QED
  BY <1>1, SInvInductive, PTL

(* An entry on which complete runs of every testcase of the corpus agree   *)
(* is disabled only if a run that was cut off, the first of a check        *)
(* (stability_check.rs:142) or one that crashed (:174), missed what some   *)
(* testcase of the corpus covers; a later run that timed out disables      *)
(* nothing, and neither is coverage disabled that is still to be found.    *)
THEOREM OnlyFlaky == Spec => []OnlyFlakyDisabled
<1>1. SInv => OnlyFlakyDisabled
  BY DEF SInv
<1>2. QED
  BY <1>1, SInvInductive, PTL

(* The assertion on the filled count (stability_check.rs:230) cannot fail, *)
(* and the ratio that is sent promises no more than the history has.       *)
THEOREM StabilityIsSound == Spec => []ReportedIsSound
<1>1. SInv => ReportedIsSound
  <2> SUFFICES ASSUME SInv PROVE ReportedIsSound
    OBVIOUS
  <2>1. phase = "checking" => run.filled_count # 0
    BY FiniteEntries DEF SInv, TypeOK, RunInStep
  <2>2. phase = "idle" => Found = {}
    BY DEF Found
  <2>3. QED
    BY <2>1, <2>2 DEF SInv, RatioIsSound, ReportedIsSound
<1>2. QED
  BY <1>1, SInvInductive, PTL
=============================================================================

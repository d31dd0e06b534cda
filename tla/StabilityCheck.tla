---------------------------- MODULE StabilityCheck ----------------------------
(***************************************************************************)
(* The stability check: the testcases of the corpus are run several times, *)
(* and the entries of the coverage map on which the runs differ are        *)
(* disabled in the history that decides what is new.  The map feedback     *)
(* writes the same history.  What the target covers is external: each      *)
(* testcase has a map, in which some entries are flaky, and a run that is  *)
(* cut off by the timeout or by a crash has covered less.                  *)
(***************************************************************************)
EXTENDS Naturals, FiniteSets

CONSTANTS
  Testcases,
  Entries,          \* the indexes of the coverage map
  MaxValue,         \* O::Entry::max_value()
  Covers,           \* testcase -> entry -> what a complete run counts there
  Flaky,            \* testcase -> the entries that may count anything
  stage_max,        \* runs of a testcase, the first one included
  CAL_STAGE_MAX

(* The observer puts the counts of a run into classes below the maximum.   *)
Counts == 0..(MaxValue - 1)

ASSUME StabilityAssumption ==
  /\ IsFiniteSet(Entries)
  /\ MaxValue \in Nat \ {0, 1}
  /\ Covers \in [Testcases -> [Entries -> Counts]]
  /\ Flaky \in [Testcases -> SUBSET Entries]
  /\ stage_max \in Nat \ {0} /\ CAL_STAGE_MAX \in Nat

VARIABLES
  corpus,
  history_map,              \* of MapFeedbackMetadata
  num_covered_map_indexes,
  seen,                     \* of the stage
  unstable_entries,         \* of UnstableEntriesMetadata
  stability,                \* the last ratio sent to the broker
  phase,                    \* "idle", "checking", "stopped"
  run,                      \* the locals of perform
  missed                    \* auxiliary: disabled where one of two runs was cut off

vars == << corpus, history_map, num_covered_map_indexes, seen, unstable_entries, stability, phase,
           run, missed >>

(* No metadata yet: the ratio of the first event is 1 of 1.                *)
NoRatio == [stable |-> 0, filled |-> 0]
DefaultRatio == [stable |-> 1, filled |-> 1]

IsMax(e) == history_map[e] = MaxValue
IsDefault(e) == history_map[e] = 0

Init ==
  /\ corpus = {}
  /\ history_map = [e \in Entries |-> 0] /\ num_covered_map_indexes = 0
  /\ seen = {} /\ unstable_entries = {}
  /\ stability = NoRatio
  /\ phase = "idle"
  /\ run = <<>>
  /\ missed = {}

-----------------------------------------------------------------------------
(* The target.                                                             *)
CompleteRuns(t) ==
  { map \in [Entries -> Counts] : \A e \in Entries \ Flaky[t] : map[e] = Covers[t][e] }

CutOffRuns(t) ==
  { map \in [Entries -> Counts] : \A e \in Entries \ Flaky[t] : map[e] <= Covers[t][e] }

ExitKind == {"Ok", "Timeout", "Crash"}

Runs(t, exit_kind) == IF exit_kind = "Ok" THEN CompleteRuns(t) ELSE CutOffRuns(t)

(* The map feedback: a mutated testcase joins the corpus if it counts more *)
(* than ever somewhere, and the history then keeps the greater counts.  A  *)
(* run that was cut off may join it, too, and need not be cut off again.   *)
IsInteresting(map) == \E e \in Entries : map[e] > history_map[e]

Remember(map) ==
  /\ history_map' = [ e \in Entries |-> IF map[e] > history_map[e] THEN map[e] ELSE history_map[e] ]
  /\ num_covered_map_indexes' =
       num_covered_map_indexes + Cardinality({ e \in Entries : IsDefault(e) /\ map[e] # 0 })

Evaluate(t) ==
  /\ phase = "idle" /\ t \notin corpus
  /\ \E exit_kind \in ExitKind : \E map \in Runs(t, exit_kind) : IsInteresting(map) /\ Remember(map)
  /\ corpus' = corpus \cup {t}
  /\ UNCHANGED <<seen, unstable_entries, stability, phase, run, missed>>

-----------------------------------------------------------------------------
(* The first run of perform.  How it ended is not looked at.               *)
Check ==
  /\ phase = "idle"
  /\ \E t \in corpus \ seen, exit_kind \in ExitKind :
       \E map \in Runs(t, exit_kind) :
         run' = [ cur |-> t, first |-> map, cut_off |-> (exit_kind # "Ok"),
                  filled_count |-> num_covered_map_indexes,
                  unstable_entries |-> {}, i |-> 1, iter |-> stage_max ]
  /\ phase' = "checking"
  /\ UNCHANGED << corpus, history_map, num_covered_map_indexes, seen, unstable_entries, stability,
                  missed >>

Differing(map) == { e \in Entries : run.first[e] # map[e] /\ ~ IsMax(e) }

(* Mutant of Disable: entries that were covered before are counted again.  *)
DisableCountingAll(unstable) ==
  /\ history_map' = [ e \in Entries |-> IF e \in unstable THEN MaxValue ELSE history_map[e] ]
  /\ num_covered_map_indexes' = num_covered_map_indexes + Cardinality(unstable)

(* Mutant of Disable: entries that were not covered before are not counted. *)
DisableUncounted(unstable) ==
  /\ history_map' = [ e \in Entries |-> IF e \in unstable THEN MaxValue ELSE history_map[e] ]
  /\ UNCHANGED num_covered_map_indexes

Disable(unstable) ==
  /\ history_map' = [ e \in Entries |-> IF e \in unstable THEN MaxValue ELSE history_map[e] ]
  /\ num_covered_map_indexes' =
       num_covered_map_indexes + Cardinality({ e \in unstable : IsDefault(e) })

(* A testcase with unstable entries is run more often, up to a limit.      *)
Prolonged(unstable) ==
  IF unstable # {} /\ run.iter < CAL_STAGE_MAX THEN run.iter + 2 ELSE run.iter

(* A crash is compared like a complete run (stability_check.rs:174).       *)
Compare(map, exit_kind) ==
  LET unstable == run.unstable_entries \cup Differing(map)
  IN  /\ Disable(Differing(map))
      /\ run' = [ run EXCEPT !.unstable_entries = unstable, !.i = @ + 1, !.iter = Prolonged(unstable) ]
      /\ missed' = IF run.cut_off \/ exit_kind = "Crash" THEN missed \cup Differing(map) ELSE missed

(* Mutant of Compares: a run that timed out is compared as well.           *)
ComparesAll(exit_kind) == TRUE

Compares(exit_kind) == exit_kind # "Timeout"

RunAgain ==
  /\ phase = "checking" /\ run.i < run.iter
  /\ \E exit_kind \in ExitKind :
       IF Compares(exit_kind) THEN \E map \in Runs(run.cur, exit_kind) : Compare(map, exit_kind)
       ELSE /\ run' = [run EXCEPT !.i = @ + 1]
            /\ UNCHANGED <<history_map, num_covered_map_indexes, missed>>
  /\ UNCHANGED <<corpus, seen, unstable_entries, stability, phase>>

(* Mutant of Merged: the entries of this testcase replace the others.      *)
Replaced(found) == found

Merged(found) == unstable_entries \cup found

SaturatingSub(a, b) == IF a >= b THEN a - b ELSE 0

Ratio(filled_count, unstable) ==
  [stable |-> SaturatingSub(filled_count, Cardinality(unstable)), filled |-> filled_count]

(* The end of perform: the metadata and the event to the broker.           *)
Checked ==
  /\ phase = "checking" /\ run.i >= run.iter
  /\ IF run.unstable_entries # {}
     THEN /\ unstable_entries' = Merged(run.unstable_entries)
          /\ stability' = Ratio(run.filled_count, unstable_entries')
     ELSE /\ stability' = IF stability = NoRatio /\ run.filled_count > 0 THEN DefaultRatio ELSE stability
          /\ UNCHANGED unstable_entries
  /\ seen' = seen \cup {run.cur}
  /\ phase' = "idle" /\ run' = <<>>
  /\ UNCHANGED <<corpus, history_map, num_covered_map_indexes, missed>>

(* An execution that fails ends the stages, and the client with them.      *)
Fail ==
  /\ phase # "stopped"
  /\ phase' = "stopped"
  /\ UNCHANGED << corpus, history_map, num_covered_map_indexes, seen, unstable_entries, stability, run,
                  missed >>

(* After its iterations a client stores its state for the next process,    *)
(* which makes the stage anew.                                             *)
Respawn ==
  /\ phase = "idle"
  /\ seen' = {}
  /\ UNCHANGED << corpus, history_map, num_covered_map_indexes, unstable_entries, stability, phase, run,
                  missed >>

Next == (\E t \in Testcases : Evaluate(t)) \/ Check \/ RunAgain \/ Checked \/ Fail \/ Respawn

Spec == Init /\ [][Next]_vars

-----------------------------------------------------------------------------
Disabled == { e \in Entries : IsMax(e) }
Covered == { e \in Entries : ~ IsDefault(e) }

TypeOK ==
  /\ corpus \subseteq Testcases /\ seen \subseteq corpus
  /\ history_map \in [Entries -> 0..MaxValue]
  /\ num_covered_map_indexes \in 0..Cardinality(Entries)
  /\ unstable_entries \subseteq Entries /\ missed \subseteq Entries
  /\ stability \in [stable : Nat, filled : Nat]
  /\ phase \in {"idle", "checking", "stopped"}
  /\ phase = "checking" =>
       run \in [ cur : corpus, first : [Entries -> Counts], cut_off : BOOLEAN, filled_count : Nat,
                 unstable_entries : SUBSET Entries, i : Nat, iter : Nat ]

(* "we need to make sure the num_covered_map_indexes is kept in sync"      *)
(* (stability_check.rs:194): two writers of the history count the entries  *)
(* that are covered, and neither misses one or counts one twice.           *)
CoveredInSync == num_covered_map_indexes = Cardinality(Covered)

(* What the check takes away from the search: an entry is disabled only if *)
(* some testcase of the corpus is flaky there, or if two runs were compared*)
(* of which one was cut off (stability_check.rs:142, 174), and then some   *)
(* testcase of the corpus covers it: coverage that is still to be found    *)
(* stays interesting, and a run that timed out disables nothing.           *)
OnlyFlakyDisabled ==
  \A e \in Disabled :
    \/ \E t \in corpus : e \in Flaky[t]
    \/ e \in missed /\ \E t \in corpus : Covers[t][e] # 0

(* "The map's filled count must never be 0" (stability_check.rs:230), and  *)
(* the stability that is sent never promises more stable entries than the  *)
(* history has, although the count was read before entries were disabled   *)
(* and entries are disabled in the check of any testcase.                  *)
ReportedIsSound ==
  /\ phase = "checking" => run.filled_count # 0
  /\ phase = "idle" /\ stability \notin {NoRatio, DefaultRatio} =>
       /\ stability.stable <= stability.filled
       /\ stability.stable <= Cardinality(Covered \ Disabled)
=============================================================================

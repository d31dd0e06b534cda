--------------------------- MODULE MinimizerStage ---------------------------
(***************************************************************************)
(* How a fuzzer client minimizes the testcases of its corpus: for the      *)
(* testcase that was scheduled, rounds of the three minimizer stages while *)
(* a round still made progress.  A stage keeps its count of consecutive    *)
(* failures from testcase to testcase.  Whether an execution retains the   *)
(* novelties (or the crash) of the testcase is up to the target, which may *)
(* be unstable; an execution may also fail with an error.                  *)
(***************************************************************************)
EXTENDS Minimizers

CONSTANTS
  InitialCorpus,            \* testcase ids -> their programs when they are found
  MaxConsecutiveFailures    \* max_consecutive_failures, 200 in instance.rs

ASSUME StageAssumption ==
  /\ InitialCorpus \in [DOMAIN InitialCorpus -> Seq(Instr)] /\ 0 \notin DOMAIN InitialCorpus
  /\ \A t \in DOMAIN InitialCorpus : IsStaticallyValid(InitialCorpus[t])
  /\ MaxConsecutiveFailures \in Nat

Kinds == <<"cutting", "blocks", "nopping">>
None  == [kind |-> "none"]

VARIABLES
  corpus,                   \* the programs of the testcases now
  scheduled,                \* the testcases that went through the stages before
  testcase,                 \* the testcase scheduled now, 0 if there is none
  stage,                    \* 0: the condition of the while stage, 1..3: a minimizer stage
  minimizer,                \* the minimizer of the stage, None before it starts
  current_ir,               \* the smallest program that was executed and kept
  success,                  \* this stage kept a program
  consecutive_failures,     \* of each of the three stages
  continue_minimizing,      \* the stages of this round that were successful
  errored,                  \* auxiliary: an execution of this stage failed
  retained                  \* auxiliary: of each testcase the program that was executed last of
                            \* those that retained its novelties

vars == <<corpus, scheduled, testcase, stage, minimizer, current_ir, success,
          consecutive_failures, continue_minimizing, errored, retained>>

Init ==
  /\ corpus = InitialCorpus
  /\ scheduled = {}
  /\ testcase = 0 /\ stage = 0
  /\ minimizer = None /\ current_ir = <<>> /\ success = FALSE
  /\ consecutive_failures = [ s \in 1..3 |-> 0 ]
  /\ continue_minimizing = 1
  /\ errored = FALSE
  /\ retained = InitialCorpus

(* The stages of one testcase begin: "Always try minimizing at least for   *)
(* one pass".                                                              *)
Schedule(t) ==
  /\ testcase = 0
  /\ testcase' = t
  /\ continue_minimizing' = 1
  /\ UNCHANGED <<corpus, scheduled, stage, minimizer, current_ir, success,
                 consecutive_failures, errored, retained>>

(* Mutant of StartRound: the count of the last round is kept.              *)
StartRoundKeepsCount ==
  /\ testcase # 0 /\ stage = 0 /\ continue_minimizing > 0
  /\ stage' = 1
  /\ UNCHANGED <<corpus, scheduled, testcase, minimizer, current_ir, success,
                 consecutive_failures, continue_minimizing, errored, retained>>

(* The while stage: another round if the last one made progress.           *)
StartRound ==
  /\ testcase # 0 /\ stage = 0 /\ continue_minimizing > 0
  /\ continue_minimizing' = 0
  /\ stage' = 1
  /\ UNCHANGED <<corpus, scheduled, testcase, minimizer, current_ir, success,
                 consecutive_failures, errored, retained>>

Leave ==
  /\ testcase # 0 /\ stage = 0 /\ continue_minimizing = 0
  /\ scheduled' = scheduled \cup {testcase}
  /\ testcase' = 0
  /\ UNCHANGED <<corpus, stage, minimizer, current_ir, success,
                 consecutive_failures, continue_minimizing, errored, retained>>

(* IrMinimizerStage::perform, up to the loop.                              *)
NextStage == stage' = (stage + 1) % 4

(* Mutant of StartStage: a stage minimizes on every schedule.              *)
StartStageAlways ==
  /\ stage > 0 /\ minimizer = None
  /\ minimizer' = New(Kinds[stage], corpus[testcase])
  /\ current_ir' = corpus[testcase]
  /\ success' = FALSE /\ errored' = FALSE
  /\ UNCHANGED <<stage, corpus, scheduled, testcase, consecutive_failures, continue_minimizing,
                 retained>>

StartStage ==
  /\ stage > 0 /\ minimizer = None
  /\ IF testcase \in scheduled
     THEN NextStage /\ UNCHANGED <<minimizer, current_ir, success, errored>>
     ELSE /\ minimizer' = New(Kinds[stage], corpus[testcase])
          /\ current_ir' = corpus[testcase]
          /\ success' = FALSE /\ errored' = FALSE
          /\ UNCHANGED stage
  /\ UNCHANGED <<corpus, scheduled, testcase, consecutive_failures, continue_minimizing, retained>>

(* The loop: the minimizer offers a program, and the stage has not given   *)
(* up.                                                                     *)
(* Mutant of GivesUp: one failure too late.                                *)
GivesUpLate == consecutive_failures[stage] > MaxConsecutiveFailures + 1

GivesUp == consecutive_failures[stage] > MaxConsecutiveFailures
Looping == minimizer # None /\ ~ Done(minimizer) /\ ~ GivesUp
Attempt == Offered(Advanced(minimizer))

Fails ==
  /\ minimizer' = Failed(Advanced(minimizer))
  /\ consecutive_failures' = [consecutive_failures EXCEPT ![stage] = @ + 1]
  /\ UNCHANGED <<current_ir, success, errored>>

RejectInvalid ==
  /\ Looping /\ ~ IsStaticallyValid(Attempt)
  /\ Fails
  /\ UNCHANGED <<corpus, scheduled, testcase, stage, continue_minimizing, retained>>

ExecuteRetained ==
  /\ Looping /\ IsStaticallyValid(Attempt)
  /\ minimizer' = Succeeded(Advanced(minimizer))
  /\ current_ir' = Attempt /\ retained' = [retained EXCEPT ![testcase] = Attempt]
  /\ success' = TRUE
  /\ consecutive_failures' = [consecutive_failures EXCEPT ![stage] = 0]
  /\ UNCHANGED <<corpus, scheduled, testcase, stage, continue_minimizing, errored>>

ExecuteLost ==
  /\ Looping /\ IsStaticallyValid(Attempt)
  /\ Fails
  /\ UNCHANGED <<corpus, scheduled, testcase, stage, continue_minimizing, retained>>

(* execute_input returned an error: neither success nor failure is called. *)
ExecuteError ==
  /\ Looping /\ IsStaticallyValid(Attempt)
  /\ minimizer' = Advanced(minimizer)
  /\ errored' = TRUE
  /\ UNCHANGED <<corpus, scheduled, testcase, stage, current_ir, success,
                 consecutive_failures, continue_minimizing, retained>>

(* What the minimizer goes on from.                                        *)
Accepted(m) ==
  CASE m.kind = "cutting" -> SubSeq(m.original, 1, m.chopped)
    [] m.kind = "blocks"  -> m.last_good
    [] m.kind = "nopping" -> m.current

(* Mutant of FinishStage: the program of the minimizer is written.         *)
FinishStageFromMinimizer ==
  /\ minimizer # None /\ (Done(minimizer) \/ GivesUp)
  /\ IF success
     THEN /\ continue_minimizing' = continue_minimizing + 1
          /\ corpus' = [corpus EXCEPT ![testcase] = RemoveNops(Accepted(minimizer))]
     ELSE UNCHANGED <<continue_minimizing, corpus>>
  /\ minimizer' = None
  /\ current_ir' = <<>> /\ success' = FALSE /\ errored' = FALSE
  /\ NextStage
  /\ UNCHANGED <<scheduled, testcase, consecutive_failures, retained>>

(* After the loop: a program that was kept replaces the testcase's input,  *)
(* without its Nops.                                                       *)
FinishStage ==
  /\ minimizer # None /\ (Done(minimizer) \/ GivesUp)
  /\ IF success
     THEN /\ continue_minimizing' = continue_minimizing + 1
          /\ corpus' = [corpus EXCEPT ![testcase] = RemoveNops(current_ir)]
     ELSE UNCHANGED <<continue_minimizing, corpus>>
  /\ minimizer' = None
  /\ current_ir' = <<>> /\ success' = FALSE /\ errored' = FALSE
  /\ NextStage
  /\ UNCHANGED <<scheduled, testcase, consecutive_failures, retained>>

Works ==
  \/ StartRound \/ Leave \/ StartStage
  \/ RejectInvalid \/ ExecuteRetained \/ ExecuteLost
  \/ FinishStage

Next == (\E t \in DOMAIN corpus : Schedule(t)) \/ Works \/ ExecuteError

Spec == Init /\ [][Next]_vars

(* The client keeps running the stages of the testcase it scheduled, and   *)
(* an execution that fails with an error is repeated only finitely often   *)
(* before the target gives a verdict (the cutting minimizer offers the     *)
(* same program again after an error).  Works is enabled just when a       *)
(* testcase is scheduled, so this is WF_vars(Works), without ENABLED.      *)
FairSpec == Spec /\ ([]<>(testcase = 0) \/ []<><<Works>>_vars)

-----------------------------------------------------------------------------
Minimizer(m) ==
  \/ m = None
  \/ /\ m.kind = "cutting" /\ m.original \in Seq(Instr) /\ m.current \in Nat /\ m.chopped \in Nat
  \/ /\ m.kind = "nopping" /\ {m.program, m.current} \subseteq Seq(Instr)
     /\ m.current_nop \in 1..(Len(m.program) + 1)
  \/ /\ m.kind = "blocks" /\ {m.last_good, m.current} \subseteq Seq(Instr)
     /\ m.current_index \in 1..Max({1, Len(m.current)})

TypeOK ==
  /\ corpus \in [DOMAIN InitialCorpus -> Seq(Instr)]
  /\ scheduled \subseteq DOMAIN InitialCorpus
  /\ testcase \in DOMAIN InitialCorpus \cup {0}
  /\ stage \in 0..3
  /\ Minimizer(minimizer)
  /\ current_ir \in Seq(Instr)
  /\ consecutive_failures \in [1..3 -> 0..(MaxConsecutiveFailures + 1)]
  /\ continue_minimizing \in 0..3
  /\ {success, errored} \subseteq BOOLEAN
  /\ retained \in [DOMAIN InitialCorpus -> Seq(Instr)]

(* The corpus never holds a program the compiler could not compile: the    *)
(* renumbering of remove_nops included (lib.rs:163, 199 assert it in debug *)
(* builds only).                                                           *)
CorpusStaysValid == \A t \in DOMAIN corpus : IsStaticallyValid(corpus[t])

(* The instructions that are no Nops, and whether r has the same of them   *)
(* on the same data.                                                       *)
Kept(p) == Filtered([ k \in Indices(p) |-> k ], LAMBDA k : p[k].op \notin NopOp)

WithoutNops(r, p) ==
  LET kept == Kept(p)
  IN  /\ Len(r) = Len(kept)
      /\ \A k \in Indices(r) :
           /\ r[k].op = p[kept[k]].op /\ r[k].arg = p[kept[k]].arg
           /\ \A s \in Indices(r[k].inputs) :
                LET was == Dataflow(p)[kept[k]][s]
                    is  == Dataflow(r)[k][s]
                IN  kept[is[1]] = was[1] /\ is[2] = was[2]

(* What the corpus holds is what was executed, with the verdict that it    *)
(* retains the novelties, for no program is executed again after its Nops  *)
(* were removed: as soon as no stage has something to write, the program   *)
(* of a testcase is the one that was retained last, or that without its    *)
(* Nops, the same instructions on the same data; an attempt whose          *)
(* execution failed is never written (stages/mod.rs:131, 156-175).  What   *)
(* is retained has the testcase's instructions in their places.            *)
MinimizedIsWhatRan ==
  /\ \A t \in DOMAIN corpus :
       \/ t = testcase /\ success
       \/ corpus[t] = retained[t]
       \/ WithoutNops(corpus[t], retained[t])
  /\ success => \A k \in Indices(retained[testcase]) :
                  retained[testcase][k] \in {corpus[testcase][k], Nop(corpus[testcase][k])}

(* The minimizer and the stage agree on the smallest program known to be   *)
(* enough, so that the next program offered is one step away from a        *)
(* program that was executed (unless an execution failed with an error);   *)
(* and the cutting minimizer never computes chopped - current below zero   *)
(* (cutting.rs:29).                                                        *)
MinimizerAgreesWithStage ==
  minimizer # None =>
    /\ ~ errored => Accepted(minimizer) = current_ir
    /\ minimizer.kind = "cutting" => minimizer.current <= minimizer.chopped

(* A stage either leaves the program of a testcase alone or makes it       *)
(* shorter, and only the program of the scheduled testcase, on its first   *)
(* schedule (stages/mod.rs:94-97, 156-175).                                *)
OnlyShrinks ==
  [][\A t \in DOMAIN corpus : corpus'[t] # corpus[t] =>
       /\ t = testcase /\ t \notin scheduled
       /\ Len(corpus'[t]) < Len(corpus[t])]_vars

(* Minimizing a testcase comes to an end.                                  *)
Terminates == testcase # 0 ~> testcase = 0
=============================================================================

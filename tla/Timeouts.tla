------------------------------- MODULE Timeouts -------------------------------
(***************************************************************************)
(* Hangs: an input that runs into the timeout is not reported but captured *)
(* by a feedback, and VerifyTimeoutsStage runs it again with a multiple of *)
(* the timeout.  The stage and the feedback share a switch, and the queue  *)
(* is part of the fuzzer's state, which outlives the process.  Whether an  *)
(* execution covers something new is left open.  The mode that minimizes a *)
(* single input, and has no such stage, is left out.                       *)
(***************************************************************************)
EXTENDS SequencesExt

CONSTANTS
  Inputs,      \* the inputs that the mutations produce
  MaxQueue     \* bound: captured inputs that wait

ASSUME TimeoutsAssumption == MaxQueue \in Nat

VARIABLES
  ignore_hangs,
  timeout,            \* of the executor: "configured" or "multiple"
  capture_timeouts,   \* the switch
  triggered,          \* of CaptureTimeoutFeedback
  inputs,             \* of TimeoutsToVerify, in the fuzzer's state
  timeouts,           \* the stage's copy of it
  phase,              \* "Mutating", "Verifying", "Stopped"
  solutions,          \* how they ended, under which timeout, and their file's name
  owed                \* auxiliary: hung without being judged, and not run with the
                      \* multiple of the timeout since

vars == << ignore_hangs, timeout, capture_timeouts, triggered, inputs, timeouts, phase,
           solutions, owed >>

ExitKind == {"Ok", "Crash", "Timeout"}

Init ==
  /\ ignore_hangs \in BOOLEAN
  /\ timeout = "configured" /\ capture_timeouts = TRUE /\ triggered = FALSE
  /\ inputs = <<>> /\ timeouts = <<>>
  /\ phase = "Mutating"
  /\ solutions = {} /\ owed = {}

-----------------------------------------------------------------------------
(* evaluate_input.                                                         *)

(* CaptureTimeoutFeedback::is_interesting.                                 *)
Captures(input) ==
  /\ inputs' = Append(inputs, input)
  /\ triggered' = FALSE

Judges(exit) ==
  /\ triggered' = (exit = "Timeout")
  /\ UNCHANGED inputs

(* The objective asks it only about what did not crash.                    *)
AsksCapture(input, exit) ==
  IF exit = "Crash" THEN UNCHANGED <<inputs, triggered>>
  ELSE IF capture_timeouts /\ exit = "Timeout" THEN Captures(input)
  ELSE Judges(exit)

(* Mutant of IsSolution: new coverage is enough.                           *)
IsSolutionNovel(exit, novel) == exit = "Crash" \/ (~ ignore_hangs /\ triggered') \/ novel

(* A crash, or a hang unless hangs are ignored, with new coverage.         *)
IsSolution(exit, novel) == (exit = "Crash" \/ (~ ignore_hangs /\ triggered')) /\ novel

(* A solution is named by append_metadata of CrashCauseFeedback, after what *)
(* the output says, and then by that of CaptureTimeoutFeedback: both are   *)
(* asked, whichever made it a solution.                                    *)
NamePrefix == IF triggered' THEN "timeout" ELSE "cause"

Files(exit) ==
  solutions' = solutions \cup { [exit |-> exit, ran |-> timeout, name |-> NamePrefix] }

Remembers(input, exit) ==
  owed' = IF exit = "Timeout" /\ ~ triggered' THEN owed \cup {input}
          ELSE IF timeout = "multiple" THEN owed \ {input} ELSE owed

Evaluate(input) ==
  \E exit \in ExitKind, novel \in BOOLEAN :
    /\ AsksCapture(input, exit)
    /\ IF IsSolution(exit, novel) THEN Files(exit) ELSE UNCHANGED solutions
    /\ Remembers(input, exit)

-----------------------------------------------------------------------------
(* A mutational stage, or the loading of the first inputs.                 *)
Mutate ==
  /\ phase = "Mutating" /\ Len(inputs) < MaxQueue
  /\ \E input \in Inputs : Evaluate(input)
  /\ UNCHANGED <<ignore_hangs, timeout, capture_timeouts, timeouts, phase>>

(* Mutant of Verify: a single hang is not worth the time.                  *)
VerifySeveral ==
  /\ phase = "Mutating" /\ ~ ignore_hangs /\ Len(inputs) > 1
  /\ timeouts' = inputs /\ timeout' = "multiple" /\ capture_timeouts' = FALSE
  /\ phase' = "Verifying"
  /\ UNCHANGED <<ignore_hangs, triggered, inputs, solutions, owed>>

(* Mutant of Verify: the feedback goes on capturing.                       *)
VerifyCapturing ==
  /\ phase = "Mutating" /\ ~ ignore_hangs /\ inputs # <<>>
  /\ timeouts' = inputs /\ timeout' = "multiple"
  /\ phase' = "Verifying"
  /\ UNCHANGED <<ignore_hangs, capture_timeouts, triggered, inputs, solutions, owed>>

(* VerifyTimeoutsStage::perform, which is not run if hangs are ignored.    *)
Verify ==
  /\ phase = "Mutating" /\ ~ ignore_hangs /\ inputs # <<>>
  /\ timeouts' = inputs /\ timeout' = "multiple" /\ capture_timeouts' = FALSE
  /\ phase' = "Verifying"
  /\ UNCHANGED <<ignore_hangs, triggered, inputs, solutions, owed>>

VerifyNext ==
  /\ phase = "Verifying" /\ timeouts # <<>>
  /\ timeouts' = Tail(timeouts)
  /\ Evaluate(Head(timeouts))
  /\ UNCHANGED <<ignore_hangs, timeout, capture_timeouts, phase>>

(* Mutant of Verified: the switch stays off.                               *)
VerifiedOff ==
  /\ phase = "Verifying" /\ timeouts = <<>>
  /\ timeout' = "configured"
  /\ inputs' = <<>>
  /\ phase' = "Mutating"
  /\ UNCHANGED <<ignore_hangs, capture_timeouts, triggered, timeouts, solutions, owed>>

Verified ==
  /\ phase = "Verifying" /\ timeouts = <<>>
  /\ timeout' = "configured" /\ capture_timeouts' = TRUE
  /\ inputs' = <<>>
  /\ phase' = "Mutating"
  /\ UNCHANGED <<ignore_hangs, triggered, timeouts, solutions, owed>>

(* An execution that fails ends the stages, and the client with them.      *)
Fail ==
  /\ phase # "Stopped"
  /\ phase' = "Stopped"
  /\ UNCHANGED << ignore_hangs, timeout, capture_timeouts, triggered, inputs, timeouts, solutions,
                  owed >>

(* After its iterations a client stores its state for the next process,    *)
(* which makes the executor, the switch and the feedback anew.             *)
Respawn ==
  /\ phase = "Mutating"
  /\ timeout' = "configured" /\ capture_timeouts' = TRUE /\ triggered' = FALSE
  /\ UNCHANGED <<ignore_hangs, inputs, timeouts, phase, solutions, owed>>

Next == Mutate \/ Verify \/ VerifyNext \/ Verified \/ Fail \/ Respawn

Spec == Init /\ [][Next]_vars

(* The stages run one after the other, each for a number of executions.    *)
FairSpec == Spec /\ WF_vars(Verify) /\ WF_vars(VerifyNext) /\ WF_vars(Verified)

-----------------------------------------------------------------------------
TypeOK ==
  /\ ignore_hangs \in BOOLEAN /\ capture_timeouts \in BOOLEAN /\ triggered \in BOOLEAN
  /\ timeout \in {"configured", "multiple"}
  /\ inputs \in Seq(Inputs) /\ timeouts \in Seq(Inputs)
  /\ phase \in {"Mutating", "Verifying", "Stopped"}
  /\ solutions \subseteq [ exit : ExitKind \ {"Ok"}, ran : {"configured", "multiple"},
                           name : {"cause", "timeout"} ]
  /\ owed \subseteq Inputs

Waiting == IF phase = "Mutating" THEN inputs ELSE timeouts

(* No hang is forgotten: until the input was judged under the multiple of  *)
(* the timeout it waits in the queue or in the stage's copy, although the  *)
(* stage empties the queue at its end, whatever was captured meanwhile     *)
(* (verify_timeouts.rs:90-104).                                            *)
CapturedWaits == phase # "Stopped" => owed \subseteq Range(Waiting)

(* A hang is a solution only if it also hung under the multiple of the     *)
(* timeout ("to assert that they are not false positives", verify_timeouts *)
(* .rs:17), and never if hangs are ignored (options.rs:46).                *)
HangsAreVerified ==
  \A s \in solutions : s.exit = "Timeout" => s.ran = "multiple" /\ ~ ignore_hangs

(* Every captured input is run again in the end, unless hangs are ignored  *)
(* or the client stops (feedbacks/mod.rs:25).                              *)
CapturedIsVerified ==
  \A input \in Inputs :
    (input \in owed /\ ~ ignore_hangs) ~> (input \notin owed \/ phase = "Stopped")

(* "hang detection threshold (hang_timeout = hang_multiple * timeout)"     *)
(* (options.rs:51): a solution that is filed as a timeout was one.         *)
NamedForHanging == \A s \in solutions : s.name = "timeout" => s.exit = "Timeout"
=============================================================================

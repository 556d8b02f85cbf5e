---------------------------- MODULE MCComponents ----------------------------
(***************************************************************************)
(* Nine components that share no state, one per behaviour: `part` says     *)
(* which of them moves, the others stay in their initial states.  The      *)
(* evaluation set moves in two of them: no step of its reference passes    *)
(* reads a score, and no step of a labelling sitting reads or changes a    *)
(* reference label, so that "set" has the one and "references" the other.  *)
(***************************************************************************)
EXTENDS QuestionBank, Retrieval, Blueprint, Ability, Grading, Simulation,
        GradingRuns, EvaluationSet, Recordings

VARIABLE part

interviewVars == <<bankVars, searchVars, blueprintVars, abilityVars, gradingVars>>
studyVars == <<simVars, runVars, evalVars, recordingVars>>

(* The components of a group other than the one that moves.                *)
Interviewing(moving) ==
  /\ moving = "bank" \/ UNCHANGED bankVars
  /\ moving = "search" \/ UNCHANGED searchVars
  /\ moving = "blueprint" \/ UNCHANGED blueprintVars
  /\ moving = "ability" \/ UNCHANGED abilityVars
  /\ moving = "grading" \/ UNCHANGED gradingVars

Studies(moving) ==
  /\ moving = "simulation" \/ UNCHANGED simVars
  /\ moving = "runs" \/ UNCHANGED runVars
  /\ moving \in {"set", "references"} \/ UNCHANGED evalVars
  /\ moving = "recordings" \/ UNCHANGED recordingVars

Others == Interviewing(part) /\ Studies(part) /\ UNCHANGED part

Parts == {"bank", "search", "blueprint", "ability", "grading", "simulation",
          "runs", "set", "references", "recordings"}

ComponentsInit ==
  /\ part \in Parts
  /\ BankInit /\ SearchInit /\ BlueprintInit /\ AbilityInit
  /\ GradingInit /\ SimulationInit /\ RunsInit /\ EvalInit /\ RecordingsInit
  /\ \A q \in Questions : files[q].text = "w1"
  /\ part = "simulation" \/ strategy = "adaptive"

ComponentsNext ==
  /\ \/ part = "bank" /\ BankNext
     \/ part = "search" /\ SearchNext
     \/ part = "blueprint" /\ BlueprintNext
     \/ part = "ability" /\ AbilityNext
     \/ part = "grading" /\ GradingNext
     \/ part = "simulation" /\ SimulationNext
     \/ part = "runs" /\ RunsNext
     \/ part = "set" /\ EvalNext /\ UNCHANGED labels
     \/ part = "references" /\ EvalNext /\ worklist' = {} /\ Unscored(dataset') = dataset'
     \/ part = "recordings" /\ RecordingsNext
  /\ Others

ComponentsSpec ==
  ComponentsInit /\ [][ComponentsNext]_<<part, interviewVars, studyVars>>

ComponentsTypeOK ==
  /\ BankTypeOK /\ SearchTypeOK /\ BlueprintTypeOK
  /\ AbilityTypeOK /\ GradingTypeOK /\ SimulationTypeOK /\ RunsTypeOK /\ EvalTypeOK
  /\ RecordingsTypeOK

-----------------------------------------------------------------------------
(* Four questions for a search, graded 0 to 2, with nDCG's discounts.      *)
MCGrades == <<0, 2, 1, 0>>
MCDiscount == <<1000, 631, 500, 431>>

(* The logistic curve in percent, every half point.                        *)
Rising == <<50, 62, 73, 82, 88, 92, 95, 97, 98, 99, 99, 100, 100, 100, 100, 100, 100>>
MCLogistic == [d \in -800..800 |-> IF d >= 0 THEN Rising[d \div 50 + 1]
                                   ELSE 100 - Rising[(-d) \div 50 + 1]]
MCParent == [s \in Subtopics |-> "t"]

(* What six gradings may say of an answer to a question on two concepts.   *)
MCBankOrder == <<"cache", "ttl">>
MCWeight == [k \in {"cache", "ttl"} |-> IF k = "cache" THEN 3 ELSE 1]
Found(label, evidence) == [label |-> label, evidence |-> evidence]
Wrong(severity, evidence) == [severity |-> severity, evidence |-> evidence]
Judged(cache, ttl, errs, rubric, confidence, misconceptions) ==
  [concepts |-> [cache |-> cache, ttl |-> ttl], errors |-> errs, rubric |-> rubric,
   confidence |-> confidence, misconceptions |-> misconceptions]
MCJudgments ==
  { Judged(Found("covered", "exact"), Found("partial", "whitespace_normalised"),
           <<>>, 14, 90, {}),
    Judged(Found("covered", "fabricated"), Found("partial", "exact"),
           <<Wrong("major", "exact")>>, 8, 80, {}),
    Judged(Found("absent", "none"), Found("covered", "exact"),
           <<Wrong("major", "fabricated"), Wrong("minor", "exact")>>, 12, 50, {"m"}),
    Judged(Found("partial", "exact"), Found("absent", "none"),
           [i \in 1..3 |-> Wrong("major", "exact")], 0, 70, {}),
    Judged(Found("covered", "exact"), Found("covered", "exact"), <<>>, 16, 40, {"other"}),
    [concepts |-> [cache |-> Found("covered", "exact")], errors |-> <<>>, rubric |-> 4,
     confidence |-> 90, misconceptions |-> {}] }

(* Six items on two topics, three of them much alike.                      *)
SimItem(t, s, b, minutes, like) ==
  [topic |-> t, subtopic |-> s, b |-> b, time |-> minutes, like |-> like]
MCSimBank ==
  << SimItem(1, "a", 0, 2, {4}), SimItem(1, "a", 0, 1, {4}), SimItem(1, "b", 1, 1, {}),
     SimItem(1, "a", -1, 1, {1, 2}), SimItem(2, "c", 0, 2, {}), SimItem(2, "c", 2, 1, {}) >>
MCParentTopic == [s \in {"a", "b", "c"} |-> IF s = "c" THEN 2 ELSE 1]
MCQuota == <<3, 1>>
MCJdWeight == <<60, 30>>
MCAffinity == [s \in {"a", "b", "c"} |-> IF s = "a" THEN 45 ELSE 0]
MCTruth == [s \in {"a", "b", "c"} |-> IF s = "a" THEN 1 ELSE -1]
MCInfo == [gap \in 0..4 |-> <<60, 47, 25, 11, 4>>[gap + 1]]

(* Two answers to run, or to label, at one level of quality.               *)
MCOrder == <<2, 1>>
MCSampled == <<2>>
MCSample == <<"qa", "qb">>
MCLevels == <<"good">>
MCNoScore == -1
MCShuffle == [n \in 0..2 |-> [i \in 1..n |-> n + 1 - i]]
=============================================================================

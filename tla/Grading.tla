------------------------------ MODULE Grading ------------------------------
(***************************************************************************)
(* Grading one answer (app/grading): the first judgment, its evidence      *)
(* checked against the answer, the score, and, when the confidence gate    *)
(* fires, three judgments more, asked for at once, the median of which is  *)
(* the grade.                                                              *)
(*                                                                         *)
(* A judgment says of each quotation only whether it is in the answer;     *)
(* scores are exact, in units that make every constant of the code whole,  *)
(* where the code computes in floating point.                              *)
(***************************************************************************)
EXTENDS Integers, Sequences, FiniteSets, FiniteSetsExt, Functions

CONSTANTS
  BankOrder,    \* the keys of the question's expected concepts, as the bank lists them
  Weight,       \* their weights, 1 to 3
  Listed,       \* the question's common misconceptions
  Judgments,    \* the judgments a model may give
  Samples,      \* REGRADE_SAMPLES
  ProbesOfItem, ProbesOfSession   \* MAX_FOLLOW_UPS_PER_ITEM, _PER_SESSION

Concepts == Range(BankOrder)

ASSUME GradingSizes == /\ BankOrder \in Seq(Concepts) /\ Concepts # {} /\ "none" \notin Concepts
                       /\ Weight \in [Concepts -> 1..3]
                       /\ Samples \in Nat \ {0} /\ ProbesOfItem \in Nat /\ ProbesOfSession \in Nat

VARIABLES
  stage,     \* where grade_answer is
  first,     \* the first judgment
  rechecks,  \* what became of each recheck
  grade,     \* the grade: a judgment, its score and how it was reached
  probe      \* the follow-up decision

gradingVars == <<stage, first, rechecks, grade, probe>>

(***************************************************************************)
(* A judgment: schema.py, and what validation lets through.                *)
(***************************************************************************)
Evidence == {"exact", "whitespace_normalised", "fabricated", "none"}
Verdict  == [label : {"covered", "partial", "absent"}, evidence : Evidence]
Mistake  == [severity : {"major", "minor"}, evidence : Evidence \ {"none"}]

ASSUME JudgmentShapes ==
  \A j \in Judgments :
    /\ DOMAIN j = {"concepts", "errors", "rubric", "confidence", "misconceptions"}
    /\ j.concepts \in [DOMAIN j.concepts -> Verdict] /\ j.errors \in Seq(Mistake)
    /\ j.rubric \in 0..16 /\ j.confidence \in 0..100

(* Absent has no evidence; covered and partial have some.                  *)
WellFormed(j) ==
  \A k \in DOMAIN j.concepts : (j.concepts[k].label = "absent") <=> (j.concepts[k].evidence = "none")

(* check_judgment: exactly the concepts that were asked about, and no      *)
(* misconception of its own.                                               *)
FitsQuestion(j) == DOMAIN j.concepts = Concepts /\ j.misconceptions \subseteq Listed

(* verify_evidence: a quotation that is not in the answer makes its        *)
(* concept absent, and an error whose claim is not in it is dropped.       *)
IsCredited(evidence) == evidence # "fabricated"
Absent == [label |-> "absent", evidence |-> "none"]

Verified(j) ==
  [j EXCEPT !.concepts = [k \in DOMAIN @ |-> IF IsCredited(@[k].evidence) THEN @[k] ELSE Absent],
            !.errors   = Restrict(@, {i \in DOMAIN @ : IsCredited(@[i].evidence)})]

(***************************************************************************)
(* scoring.py.  A score of 1 is Full: hundredths of the weights, halves of *)
(* a concept's weight, sixteenths of the rubric (four levels of 0 to 4).   *)
(***************************************************************************)
Tally(f, S) == MapThenSumSet(LAMBDA x : f[x], S)

Cover == [covered |-> 2, partial |-> 1, absent |-> 0]
W     == Tally(Weight, Concepts)
Full  == 100 * 2 * W * 16

Worths(concepts) == [k \in DOMAIN concepts |-> Weight[k] * Cover[concepts[k].label]]
Earned(j)  == Tally(Worths(j.concepts), Concepts)
Penalty(j) ==
  LET major == Cardinality({i \in DOMAIN j.errors : j.errors[i].severity = "major"})
      minor == Cardinality({i \in DOMAIN j.errors : j.errors[i].severity = "minor"})
  IN  Min({30, 15 * major + 5 * minor})

Raw(j) == 65 * 16 * Earned(j) + 35 * 2 * W * j.rubric - 2 * W * 16 * Penalty(j)

(* Seeded bug: the penalties may take a score below zero.                  *)
ClampAbove(x) == Min({Full, x})

Clamp(x) == Max({0, Min({Full, x})})
Score(j) == Clamp(Raw(j))

Distance(x, y) == IF x > y THEN x - y ELSE y - x

(* gate_triggers: the two signals differ by more than a quarter, or the    *)
(* grader is less than 0.6 sure.  The confidence is the judgment's own.    *)
Disagrees(j) == 4 * Distance(16 * Earned(j), 2 * W * j.rubric) > 2 * W * 16
GateFires(j) == Disagrees(Verified(j)) \/ j.confidence < 60

(***************************************************************************)
(* grade_answer.                                                           *)
(***************************************************************************)
Pending == [kind |-> "pending"]
Landed(j) == [kind |-> "judgment", judgment |-> j]
Lost    == [kind |-> "failed"]     \* LLMError or ValueError
Broken  == [kind |-> "broken"]     \* anything else

NoGrade == [judgment |-> <<>>, score |-> 0, rechecked |-> FALSE]
NoProbe == [reason |-> "none", target |-> "none"]
GradeOf(j, rechecked) == [judgment |-> Verified(j), score |-> Score(Verified(j)),
                          rechecked |-> rechecked]

GradingInit ==
  /\ stage = "new" /\ first = <<>> /\ grade = NoGrade /\ probe = NoProbe
  /\ rechecks = [i \in 1..Samples |-> Pending]

(* build_grading_inputs refuses an empty or an over-long answer, and a     *)
(* question with no concepts or too many, before any call.                 *)
AskFirst(gradable) ==
  /\ stage = "new" /\ stage' = IF gradable THEN "asked" ELSE "refused"
  /\ UNCHANGED <<first, rechecks, grade, probe>>

(* The first call fails, or its judgment is about other concepts: the      *)
(* grade fails with it.                                                    *)
FirstFails ==
  /\ stage = "asked" /\ stage' = "refused" /\ UNCHANGED <<first, rechecks, grade, probe>>

FirstJudgment(j) ==
  /\ stage = "asked" /\ WellFormed(j) /\ FitsQuestion(j)
  /\ first' = j
  /\ IF GateFires(j)
     THEN stage' = "rechecking" /\ UNCHANGED grade
     ELSE stage' = "graded" /\ grade' = GradeOf(j, FALSE)
  /\ UNCHANGED <<rechecks, probe>>

(* The rechecks are in flight together and end in any order.               *)
RecheckEnds(i, outcome) ==
  /\ stage = "rechecking" /\ rechecks[i] = Pending
  /\ rechecks' = [rechecks EXCEPT ![i] = outcome] /\ UNCHANGED <<stage, first, grade, probe>>

(* The rechecks that came back with a judgment of this question.           *)
Usable == {i \in 1..Samples : rechecks[i].kind = "judgment" /\ FitsQuestion(rechecks[i].judgment)}

(* Seeded bug: any of the samples.                                         *)
PickFirst(scores) == Min(DOMAIN scores)

(* _pick_median: the first sample nearest to the median, which of an even  *)
(* number is the mean of the middle two.  Twice the median stays whole.    *)
Lower(scores, i, k)  == scores[i] < scores[k] \/ (scores[i] = scores[k] /\ i < k)
PlaceOf(scores, k)   == Cardinality({i \in DOMAIN scores : Lower(scores, i, k)}) + 1
Sorted(scores, n)    == scores[CHOOSE k \in DOMAIN scores : PlaceOf(scores, k) = n]

TwiceMedian(scores) ==
  LET n == Cardinality(DOMAIN scores)
  IN  IF n % 2 = 1 THEN 2 * Sorted(scores, (n + 1) \div 2)
                   ELSE Sorted(scores, n \div 2) + Sorted(scores, n \div 2 + 1)

PickMedian(scores) ==
  LET away(i) == Distance(2 * scores[i], TwiceMedian(scores))
  IN  Min({i \in DOMAIN scores : \A k \in DOMAIN scores : away(i) <= away(k)})

Regrade ==
  /\ stage = "rechecking" /\ \A i \in 1..Samples : rechecks[i] # Pending
  /\ IF Broken \in Range(rechecks)
     THEN stage' = "refused" /\ UNCHANGED grade
     ELSE /\ stage' = "graded"
          /\ grade' = IF Usable = {} THEN GradeOf(first, FALSE)
                      ELSE LET scores == [i \in Usable |-> Score(Verified(rechecks[i].judgment))]
                           IN  GradeOf(rechecks[PickMedian(scores)].judgment, TRUE)
  /\ UNCHANGED <<first, rechecks, probe>>

(***************************************************************************)
(* followup.decide on the stored judgment: the first rule that fires gives *)
(* the reason, unless the item or the session has had its follow-ups.      *)
(***************************************************************************)
Labelled(label) == {k \in Concepts : grade.judgment.concepts[k].label = label}
AbsentTops      == {k \in Labelled("absent") : Weight[k] = 3}
MajorErrors     == {i \in DOMAIN grade.judgment.errors : grade.judgment.errors[i].severity = "major"}
IsAmbiguous     == 100 * grade.score >= 45 * Full /\ 100 * grade.score <= 65 * Full

(* max over candidates keeps the first of the heaviest.                    *)
FirstListed(keys) == BankOrder[Min({i \in DOMAIN BankOrder : BankOrder[i] \in keys})]
Heaviest(keys)    == FirstListed({k \in keys : \A m \in keys : Weight[m] <= Weight[k]})

WeakestConcept ==
  IF Labelled("absent") # {} THEN Heaviest(Labelled("absent"))
  ELSE IF Labelled("partial") # {} THEN Heaviest(Labelled("partial"))
  ELSE "none"

Reason(unsure) ==
  CASE AbsentTops # {}                                    -> "concept_absent"
    [] AbsentTops = {} /\ MajorErrors # {}                -> "factual_error"
    [] AbsentTops = {} /\ MajorErrors = {} /\ IsAmbiguous -> "ambiguous_band"
    [] OTHER                                    -> IF unsure THEN "high_uncertainty" ELSE "none"

(* unsure: the subtopic's RD is known and above 0.7.                       *)
Decide(ofItem, ofSession, unsure) ==
  /\ stage = "graded" /\ stage' = "decided"
  /\ probe' = IF ofItem >= ProbesOfItem \/ ofSession >= ProbesOfSession \/ Reason(unsure) = "none"
              THEN NoProbe
              ELSE [reason |-> Reason(unsure),
                    target |-> IF AbsentTops # {} THEN FirstListed(AbsentTops) ELSE WeakestConcept]
  /\ UNCHANGED <<first, rechecks, grade>>

GradingNext ==
  \/ \E gradable \in BOOLEAN : AskFirst(gradable)
  \/ FirstFails
  \/ \E j \in Judgments : FirstJudgment(j)
  \/ \E i \in 1..Samples :
       \/ \E j \in Judgments : WellFormed(j) /\ RecheckEnds(i, Landed(j))
       \/ \E outcome \in {Lost, Broken} : RecheckEnds(i, outcome)
  \/ Regrade
  \/ \E ofItem \in 0..ProbesOfItem, ofSession \in {0, ProbesOfSession}, unsure \in BOOLEAN :
       Decide(ofItem, ofSession, unsure)

GradingSpec == GradingInit /\ [][GradingNext]_gradingVars

GradingTypeOK ==
  /\ stage \in {"new", "asked", "rechecking", "graded", "decided", "refused"}
  /\ first \in Judgments \cup {<<>>} /\ grade.score \in 0..Full
  /\ DOMAIN rechecks = 1..Samples

(***************************************************************************)
(* Properties.                                                             *)
(***************************************************************************)
(* What a judgment is worth when it is read against the answer, computed   *)
(* from the judgment as it was given: only concepts whose quotation is in  *)
(* the answer earn, only errors the answer makes cost.                     *)
Worth(j) ==
  LET quoted == {k \in Concepts : j.concepts[k].evidence \in {"exact", "whitespace_normalised"}}
      cost(e) == IF e.evidence = "fabricated" THEN 0 ELSE IF e.severity = "major" THEN 15 ELSE 5
      costs  == Tally([i \in DOMAIN j.errors |-> cost(j.errors[i])], DOMAIN j.errors)
  IN  Clamp(  65 * 16 * Tally(Worths(j.concepts), quoted)
            + 35 * 2 * W * j.rubric - 2 * W * 16 * (IF costs > 30 THEN 30 ELSE costs))

(* A grade is the worth of one judgment that the model gave for this       *)
(* question; of the rechecks that came back, it is in the middle: half of  *)
(* them are no lower and half no higher, whichever failed and in whatever  *)
(* order they ended.  An invented quotation never earns and an invented    *)
(* error never costs (pipeline.py:145, evidence.py:224, scoring.py:202).   *)
GradesAreOneJudgesMedian ==
  stage \in {"graded", "decided"} =>
    LET given == IF grade.rechecked THEN {i \in 1..Samples : /\ rechecks[i].kind = "judgment"
                                                             /\ FitsQuestion(rechecks[i].judgment)}
                 ELSE {}
        worth(i) == Worth(rechecks[i].judgment)
    IN  IF given = {} THEN grade.score = Worth(first)
        ELSE /\ \E i \in given : grade.score = worth(i) /\ grade.judgment = Verified(rechecks[i].judgment)
             /\ 2 * Cardinality({i \in given : worth(i) <= grade.score}) >= Cardinality(given)
             /\ 2 * Cardinality({i \in given : worth(i) >= grade.score}) >= Cardinality(given)

(* A follow-up asks about the heaviest thing the answer did not show: its  *)
(* target is never a concept credited on a quotation that is in the        *)
(* answer, no heavier concept is wholly missing, and without a target      *)
(* every concept was shown (followup.py:259, 272).                         *)
ProbesWhatIsMissing ==
  (stage = "decided" /\ probe # NoProbe) =>
    LET judged == grade.judgment.concepts
        missing == {k \in Concepts : judged[k].label = "absent"}
    IN  IF probe.target = "none" THEN \A k \in Concepts : judged[k].label = "covered"
        ELSE /\ judged[probe.target].label # "covered"
             /\ \A k \in missing : /\ Weight[probe.target] >= Weight[k]
                                   /\ judged[probe.target].label = "absent"

GradingIsSound == GradesAreOneJudgesMedian /\ ProbesWhatIsMissing

(* Inductive: what a grade was made of is still there to be compared with. *)
Fitting == {j \in Judgments : WellFormed(j) /\ FitsQuestion(j)}

GradingInv ==
  /\ GradingTypeOK /\ GradingIsSound
  /\ \A i \in 1..Samples :
       rechecks[i] \in {Pending, Lost, Broken} \cup {Landed(j) : j \in {k \in Judgments : WellFormed(k)}}
  /\ stage \in {"rechecking", "graded", "decided"} => first \in Fitting
  /\ stage \in {"graded", "decided"} => \E j \in Fitting : grade.judgment = Verified(j)
  /\ stage # "decided" => probe = NoProbe
=============================================================================

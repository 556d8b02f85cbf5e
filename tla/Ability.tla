------------------------------ MODULE Ability ------------------------------
(***************************************************************************)
(* What the interview believes of a candidate: the priors read off the     *)
(* resume (app/interview/priors.py), one update per graded answer          *)
(* (app/ability.py through app/interview/grading.py), the topics they roll *)
(* up to, and the precision that ends the interview                        *)
(* (app/selection/stopping.py, app/interview/flow.py).                     *)
(*                                                                         *)
(* Fixed point, where the code uses floats: theta in hundredths, an RD as  *)
(* its precision 1/RD^2 in ten-thousandths, scores and probabilities in    *)
(* percent.  Every item discriminates 1.0.                                 *)
(***************************************************************************)
EXTENDS Integers, FiniteSets, FiniteSetsExt

CONSTANTS
  Subtopics,      \* the subtopics of the blueprint
  ParentOf,       \* the topic of each
  Required,       \* its required topics
  TargetTheta,    \* the prior where there is no resume
  RdTarget,       \* rd_target, as a precision
  Logistic,       \* probability_correct of theta - difficulty, in percent
  Difficulties, AnswerScores, Confidences,   \* what a grade may bring
  MaxAnswers      \* bound: graded answers

ASSUME LogisticRises ==
  \A d, e \in DOMAIN Logistic : d <= e => Logistic[d] <= Logistic[e]

ASSUME AbilityBounds ==
  /\ IsFiniteSet(Subtopics)
  /\ TargetTheta \in -300..300 /\ Difficulties \subseteq Int /\ MaxAnswers \in Nat
  /\ AnswerScores \subseteq Nat /\ Confidences \subseteq Nat
  /\ Logistic \in [DOMAIN Logistic -> 0..100]
  /\ \A t \in -300..300, d \in Difficulties : t - d \in DOMAIN Logistic

VARIABLES
  started,   \* the session was started, its priors computed
  priors,    \* seeded at the start: subtopic -> ability
  observed,  \* the ability vector: the subtopics that have been graded
  answers,   \* graded answers so far
  completed, \* the stop rule ended the interview on precision
  last       \* history: the grade that came last

abilityVars == <<started, priors, observed, answers, completed, last>>

Ungraded ==
  [subtopic |-> "none", difficulty |-> 0, score |-> 0, confidence |-> 0, stake |-> 0]

ThetaMin == -300
ThetaMax == 300
LeastPrecision == 5917     \* RD_MAX 1.30
MostPrecision  == 111111   \* RD_MIN 0.30
MaxThetaStep == 50
Bank == 2                  \* stakes, in halves
Generated == 1

Within(x, low, high) == IF x < low THEN low ELSE IF x > high THEN high ELSE x
Magnitude(x) == IF x < 0 THEN -x ELSE x
TruncDiv(x, n) == IF x < 0 THEN -((-x) \div n) ELSE x \div n

AbilityState == [theta : ThetaMin..ThetaMax, precision : LeastPrecision..MostPrecision, n : Nat]

(* The RD of a precision, in hundredths, rounded down.                     *)
Rd(precision) == Max({r \in 30..130 : r * r <= 100000000 \div precision})

(***************************************************************************)
(* compute_priors: the strongest evidence for each subtopic, or its        *)
(* absence, once the resume names any skill at all.                        *)
(***************************************************************************)
EvidencePriors == [professional |-> [offset |-> 40, precision |-> 10000],
                   project      |-> [offset |-> 25, precision |-> 8264],
                   listed       |-> [offset |-> 0,  precision |-> 6944],
                   none         |-> [offset |-> -10, precision |-> 5917]]

PriorOf(evidence) ==
  [theta     |-> Within(TargetTheta + EvidencePriors[evidence].offset, ThetaMin, ThetaMax),
   precision |-> EvidencePriors[evidence].precision,
   n         |-> 0]

ComputePriors(profile) ==
  IF \A s \in Subtopics : profile[s] = "none" THEN <<>>
  ELSE [s \in Subtopics |-> PriorOf(profile[s])]

(* Blueprint.prior_ability.                                                *)
BlueprintPrior == [theta |-> TargetTheta, precision |-> LeastPrecision, n |-> 0]

(* {**priors, **ability}, and what a subtopic in neither starts from.      *)
Believed == [s \in DOMAIN observed \cup DOMAIN priors |->
               IF s \in DOMAIN observed THEN observed[s] ELSE priors[s]]
Before(s) == IF s \in DOMAIN Believed THEN Believed[s] ELSE BlueprintPrior

(***************************************************************************)
(* update_ability.  The learning rate is 0.6 of the grader's confidence,   *)
(* of RD / 0.6 up to 1.6, and of the stake.                                *)
(***************************************************************************)
Uncertainty(precision) == Min({160, (Rd(precision) * 100) \div 60})

(* Seeded bug: the residual has the wrong sign.                            *)
RawStepAway(a, score, p, confidence, stake) ==
  TruncDiv(6 * confidence * Uncertainty(a.precision) * stake * (p - score), 200000)

RawStep(a, score, p, confidence, stake) ==
  TruncDiv(6 * confidence * Uncertainty(a.precision) * stake * (score - p), 200000)

Step(a, score, p, confidence, stake) ==
  Within(RawStep(a, score, p, confidence, stake), -MaxThetaStep, MaxThetaStep)

(* update_uncertainty: the information of an answer adds to the precision. *)
Precision(a, p) == Within(a.precision + p * (100 - p), LeastPrecision, MostPrecision)

UpdateAbility(a, difficulty, score, confidence, stake) ==
  LET p == Logistic[a.theta - difficulty]
  IN  [theta     |-> Within(a.theta + Step(a, score, p, confidence, stake), ThetaMin, ThetaMax),
       precision |-> Precision(a, p),
       n         |-> a.n + 1]

(***************************************************************************)
(* roll_up and aggregate_ability: precisions add, thetas are weighed by    *)
(* them.                                                                   *)
(***************************************************************************)
Children(states, topic) == {s \in DOMAIN states : ParentOf[s] = topic}
Together(f, S) == MapThenSumSet(LAMBDA s : f[s], S)

Precisions(states) == [s \in DOMAIN states |-> states[s].precision]
Pulls(states)      == [s \in DOMAIN states |-> states[s].precision * states[s].theta]
Counts(states)     == [s \in DOMAIN states |-> states[s].n]

Aggregate(states, S) ==
  [theta     |-> TruncDiv(Together(Pulls(states), S), Together(Precisions(states), S)),
   precision |-> Together(Precisions(states), S),
   n         |-> Together(Counts(states), S)]

RollUp(states) ==
  [t \in {ParentOf[s] : s \in DOMAIN states} |-> Aggregate(states, Children(states, t))]

PrecisionReached(states) ==
  /\ Required # {} /\ DOMAIN states # {}
  /\ \A t \in Required : t \in DOMAIN RollUp(states) /\ RollUp(states)[t].precision > RdTarget

(* stage_next_bank_question asks the stop rule about what was observed.    *)
MayStop == PrecisionReached(observed)

(***************************************************************************)
(* The interview, as the belief sees it.                                   *)
(***************************************************************************)
AbilityInit ==
  /\ started = FALSE /\ priors = <<>> /\ observed = <<>> /\ answers = 0
  /\ completed = FALSE /\ last = Ungraded

StartBelief ==
  /\ ~started /\ started' = TRUE
  /\ \E profile \in [Subtopics -> DOMAIN EvidencePriors] : priors' = ComputePriors(profile)
  /\ UNCHANGED <<observed, answers, completed, last>>

(* A follow-up is on a subtopic that was graded.  A bank question may come *)
(* although MayStop: after an abandoned follow-up the next one is staged   *)
(* from SELECTING, where the rule is not consulted.                        *)
Graded(s, difficulty, score, confidence, stake) ==
  /\ started /\ ~completed /\ answers < MaxAnswers
  /\ stake = Generated => s \in DOMAIN observed
  /\ observed' = [t \in DOMAIN observed \cup {s} |->
       IF t = s THEN UpdateAbility(Before(s), difficulty, score, confidence, stake)
                ELSE observed[t]]
  /\ answers' = answers + 1
  /\ last' = [subtopic |-> s, difficulty |-> difficulty, score |-> score,
              confidence |-> confidence, stake |-> stake]
  /\ UNCHANGED <<started, priors, completed>>

(* From GRADING, where the next bank question is to be staged.             *)
StopOnPrecision ==
  /\ started /\ ~completed /\ MayStop
  /\ completed' = TRUE /\ UNCHANGED <<started, priors, observed, answers, last>>

AbilityNext ==
  \/ StartBelief
  \/ \E s \in Subtopics, d \in Difficulties, x \in AnswerScores, c \in Confidences,
        stake \in {Bank, Generated} : Graded(s, d, x, c, stake)
  \/ StopOnPrecision

AbilitySpec == AbilityInit /\ [][AbilityNext]_abilityVars

AbilityTypeOK ==
  /\ \A s \in DOMAIN observed : s \in Subtopics /\ observed[s] \in AbilityState
  /\ \A s \in DOMAIN priors : s \in Subtopics /\ priors[s] \in AbilityState
  /\ started \in BOOLEAN /\ completed \in BOOLEAN /\ answers \in Nat
  /\ answers > 0 => /\ last.subtopic \in DOMAIN observed /\ last.difficulty \in Difficulties
                    /\ last.score \in AnswerScores /\ last.confidence \in Confidences
                    /\ last.stake \in {Bank, Generated}

(***************************************************************************)
(* Properties.                                                             *)
(***************************************************************************)
(* One answer moves one subtopic: up when it scored no less than was       *)
(* expected of it, down when no more, by half a point at the most, and by  *)
(* no more than the same answer to a bank question would have moved it; it *)
(* never makes the belief less sure.  Nothing else moves the belief        *)
(* (ability.py:432, grading.py:517).                                       *)
AnswersMoveWithinBounds ==
  [][LET s == last'.subtopic
         a == Before(s)
         b == observed'[s]
         expected == Logistic[a.theta - last'.difficulty]
         asBank == UpdateAbility(a, last'.difficulty, last'.score, last'.confidence, Bank)
     IN  /\ observed' # observed => answers' = answers + 1
         /\ answers' # answers =>
              /\ last'.score >= expected => b.theta >= a.theta
              /\ last'.score <= expected => b.theta <= a.theta
              /\ Magnitude(b.theta - a.theta) <= MaxThetaStep
              /\ Magnitude(b.theta - a.theta) <= Magnitude(asBank.theta - a.theta)
              /\ b.precision >= a.precision /\ b.n = a.n + 1
              /\ \A t \in DOMAIN observed : t # s => observed'[t] = observed[t]]_abilityVars

(* An interview that ended on precision asked about every required topic:  *)
(* what a resume claims ends none (stopping.py:137, flow.py:165).          *)
PrecisionIsEarned ==
  completed =>
    \A t \in Required : \E s \in DOMAIN observed : ParentOf[s] = t /\ observed[s].n > 0

(* A topic's theta lies among its subtopics' and is surer than any.        *)
RollUpIsBetween ==
  \A t \in DOMAIN RollUp(observed) :
    LET S == Children(observed, t)
        thetas == {observed[s].theta : s \in S}
    IN  /\ RollUp(observed)[t].theta \in Min(thetas)..Max(thetas)
        /\ \A s \in S : RollUp(observed)[t].precision >= observed[s].precision

AbilityIsEarned == [](PrecisionIsEarned /\ RollUpIsBetween) /\ AnswersMoveWithinBounds

(* Inductive: what is observed was asked about, and an interview that      *)
(* ended on precision observed every required topic.                       *)
AbilityInv ==
  /\ AbilityTypeOK /\ PrecisionIsEarned
  /\ observed \in [DOMAIN observed -> AbilityState] /\ DOMAIN observed \subseteq Subtopics
  /\ priors \in [DOMAIN priors -> AbilityState] /\ DOMAIN priors \subseteq Subtopics
  /\ \A s \in DOMAIN observed : observed[s].n > 0
=============================================================================

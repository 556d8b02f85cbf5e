----------------------------- MODULE Selection -----------------------------
(***************************************************************************)
(* What may be asked next and when an interview stops: the hard            *)
(* constraints of app/selection/constraints.py, the stopping rule of       *)
(* app/selection/stopping.py, and the flow that joins them                 *)
(* (app/interview/flow.py).                                                *)
(*                                                                         *)
(* Abstracted: the ranking and the random draw among the eligible items    *)
(* (any eligible item may come first), and the difficulty window, which    *)
(* depends on theta and may therefore exclude every item at any time.      *)
(***************************************************************************)
EXTENDS InterviewLog, FiniteSets, FiniteSetsExt

CONSTANTS
  Topics,          \* the topics of the blueprint
  TopicOf,         \* item -> topic (questions.topic_key)
  TimeOf,          \* item -> seconds (questions.time_estimate_s)
  Quota,           \* topic -> blueprint quota
  ItemBudget,      \* blueprint.item_budget
  TimeBudget,      \* blueprint.time_budget_s
  SmallUpdateRun   \* SMALL_UPDATE_RUN (3)

ASSUME BankAssumption == /\ TopicOf \in [Items -> Topics]
                         /\ TimeOf \in [Items -> Nat \ {0}]
ASSUME BlueprintAssumption ==
  /\ Quota \in [Topics -> Nat]
  /\ ItemBudget \in Nat /\ TimeBudget \in Nat /\ SmallUpdateRun \in Nat \ {0}
(* blueprint.py refuses a plan whose quotas total more than its budget.    *)
ASSUME QuotasFill ==
  IsFiniteSet(Topics) /\ MapThenSumSet(LAMBDA t : Quota[t], Topics) <= ItemBudget

AskedItems(s) == {s.asked_question_ids[i] : i \in 1..Len(s.asked_question_ids)}

(* used_s: the time estimates of the asked items.                          *)
UsedTime(s) == MapThenSumSet(LAMBDA q : TimeOf[q], AskedItems(s))

AskedCount(s, topic) == Cardinality({q \in AskedItems(s) : TopicOf[q] = topic})

(* Seeded bug: a quota that admits one item too many.                      *)
EligibleOverQuota(s) ==
  {q \in Items \ AskedItems(s) :
     /\ AskedCount(s, TopicOf[q]) <= Quota[TopicOf[q]]
     /\ UsedTime(s) + TimeOf[q] <= TimeBudget}

(* ineligibility_reason is None, the difficulty window aside.              *)
Eligible(s) ==
  {q \in Items \ AskedItems(s) :
     /\ AskedCount(s, TopicOf[q]) < Quota[TopicOf[q]]
     /\ UsedTime(s) + TimeOf[q] <= TimeBudget}

(* should_stop: any of the four reasons.                                   *)
ShouldStop(s) ==
  \/ s.precise
  \/ Len(s.asked_question_ids) >= ItemBudget
  \/ UsedTime(s) >= TimeBudget
  \/ s.small_run >= SmallUpdateRun

(***************************************************************************)
(* stage_next_bank_question, as the set of states its transaction may      *)
(* stage.  An empty set is a transaction that raises and rolls back; from  *)
(* PREPARING that is NoEligibleQuestion.                                   *)
(***************************************************************************)
StageReporting(s) == Stage(s, Plain("REPORTING_STARTED"))

SelectNext(s) ==
  (UNION {Stage(s, Asked(q)) : q \in Eligible(s)})
    \cup (IF s.state = "PREPARING" THEN {} ELSE StageReporting(s))

StageNextBankQuestion(s) ==
  IF s.state # "GRADING" THEN SelectNext(s)
  ELSE IF ShouldStop(s) THEN StageReporting(s)
  ELSE UNION {SelectNext(x) : x \in Stage(s, Plain("SELECTION_STARTED"))}
=============================================================================

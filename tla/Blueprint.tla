------------------------------ MODULE Blueprint ------------------------------
(***************************************************************************)
(* Planning an interview (app/blueprint): what was asked for becomes a     *)
(* budget of questions, divided among the topics in rounds of largest      *)
(* remainder between each topic's minimum and maximum, or is refused.      *)
(*                                                                         *)
(* Weights are whole numbers here, so the shares are exact; names, notes,  *)
(* subtopics and the taxonomy they are checked against are left out.       *)
(***************************************************************************)
EXTENDS Integers, Sequences, FiniteSets, FiniteSetsExt, SequencesExt, Functions

CONSTANTS
  PlanTopics,      \* the topics: 1..n, in the order of their keys
  JdWeights,       \* weights a request may give a topic
  Minimums,        \* min_items a request may state
  Maximums,        \* max_items a request may state, Uncapped among them
  Uncapped,        \* max_items = None
  ItemBudgets,     \* item_budget a request may state, Derived among them
  Derived,         \* item_budget = None
  Durations,       \* seconds
  SecondsPerItem,  \* MODE_SECONDS_PER_ITEM of the mode
  MinItemBudget, MaxItemBudget

ASSUME PlanConstants ==
  /\ SecondsPerItem \in Nat \ {0} /\ MinItemBudget \in Nat /\ MaxItemBudget \in Nat
  /\ PlanTopics \subseteq Nat /\ IsFiniteSet(PlanTopics)
  /\ JdWeights \subseteq Nat /\ Minimums \subseteq Nat
  /\ Maximums \ {Uncapped} \subseteq Nat /\ Durations \subseteq Nat

VARIABLES
  request,    \* the AssessmentSpec
  quotas,     \* what each topic has been given so far
  remaining,  \* items of the budget not yet given out
  phase       \* "none", "validating", "dividing", "planned" or "refused"

blueprintVars == <<request, quotas, remaining, phase>>

Topic == [weight : JdWeights, min : Minimums, max : Maximums, required : BOOLEAN]

Total(f, S) == MapThenSumSet(LAMBDA t : f[t], S)

(***************************************************************************)
(* The request.  TopicRequest and AssessmentSpec refuse a maximum below    *)
(* the minimum and a request that requires no topic.                       *)
(***************************************************************************)
PlanRequests == [topics : [PlanTopics -> Topic], items : ItemBudgets, seconds : Durations]

ValidRequest(r) ==
  /\ \A t \in PlanTopics : LET q == r.topics[t] IN
       q.max # Uncapped => q.max > 0 /\ q.max >= q.min
  /\ \E t \in PlanTopics : r.topics[t].required
  /\ r.items # Derived => r.items \in MinItemBudget..MaxItemBudget

(* derive_item_budget.                                                     *)
Budget(r) ==
  IF r.items # Derived THEN r.items ELSE Min({r.seconds \div SecondsPerItem, MaxItemBudget})

TopicWeight(t) == request.topics[t].weight
Cap(t)    == request.topics[t].max
Floor(t)  == Max({request.topics[t].min, IF request.topics[t].required THEN 1 ELSE 0})
Floors    == [t \in PlanTopics |-> Floor(t)]
Weights   == [t \in PlanTopics |-> TopicWeight(t)]

NoRequest == [topics |-> <<>>, items |-> Derived, seconds |-> 0]

BlueprintInit ==
  /\ request = NoRequest /\ phase = "none"
  /\ quotas = [t \in PlanTopics |-> 0] /\ remaining = 0

ReceiveRequest ==
  /\ phase = "none" /\ phase' = "validating"
  /\ request' \in PlanRequests /\ ValidRequest(request')
  /\ UNCHANGED <<quotas, remaining>>

Refuse == phase' = "refused" /\ UNCHANGED <<request, quotas, remaining>>

(* allocate_quotas, before its loop.                                       *)
Dividable ==
  /\ Budget(request) >= MinItemBudget
  /\ \A t \in PlanTopics : Cap(t) # Uncapped => Cap(t) >= Floor(t)
  /\ Total(Floors, PlanTopics) <= Budget(request)
  /\ \/ \E t \in PlanTopics : TopicWeight(t) > 0
     \/ Total(Floors, PlanTopics) = Budget(request)

StartDividing ==
  /\ phase = "validating" /\ Dividable
  /\ quotas' = Floors /\ remaining' = Budget(request) - Total(Floors, PlanTopics)
  /\ phase' = "dividing" /\ UNCHANGED request

RefuseRequest == phase = "validating" /\ ~Dividable /\ Refuse

(***************************************************************************)
(* One round: what is left is divided among the topics below their         *)
(* maximum, and what a topic has no room for stays for the next round.     *)
(***************************************************************************)
BelowCap == {t \in PlanTopics : Cap(t) = Uncapped \/ quotas[t] < Cap(t)}

(* _largest_remainder: the units left over go, one each, to the topics     *)
(* with the fewest others before them in the order of the code's sort.     *)
LargestRemainder(budget, S) ==
  LET all       == Total(Weights, S)
      whole     == [t \in S |-> (budget * TopicWeight(t)) \div all]
      rest(t)   == (budget * TopicWeight(t)) % all
      before(t) == {s \in S : rest(s) > rest(t) \/ (rest(s) = rest(t) /\ s < t)}
  IN  [t \in S |-> whole[t]
                    + IF Cardinality(before(t)) < budget - Total(whole, S) THEN 1 ELSE 0]

(* _even_split: round robin in key order.                                  *)
EvenSplit(budget, S) ==
  [t \in S |-> budget \div Cardinality(S)
               + IF Cardinality({s \in S : s < t}) < budget % Cardinality(S) THEN 1 ELSE 0]

Share ==
  IF \E t \in BelowCap : TopicWeight(t) > 0 THEN LargestRemainder(remaining, BelowCap)
                                       ELSE EvenSplit(remaining, BelowCap)

(* Seeded bug: a topic keeps its share when it is over its maximum.        *)
RoomIgnoringCap(t) == Share[t]

Room(t) == IF Cap(t) = Uncapped THEN Share[t] ELSE Min({Share[t], Cap(t) - quotas[t]})

Round ==
  /\ phase = "dividing" /\ remaining > 0 /\ BelowCap # {}
  /\ quotas' = [t \in PlanTopics |-> quotas[t] + IF t \in BelowCap THEN Room(t) ELSE 0]
  /\ remaining' = remaining - Total([t \in BelowCap |-> Room(t)], BelowCap)
  /\ UNCHANGED <<request, phase>>

(* build_blueprint refuses a budget its maximums cannot hold; Blueprint    *)
(* refuses a plan that the clock cannot hold.                              *)
Plannable == remaining = 0 /\ Budget(request) * SecondsPerItem <= request.seconds

Divided == phase = "dividing" /\ (remaining = 0 \/ BelowCap = {})

Plan       == Divided /\ Plannable /\ phase' = "planned" /\ UNCHANGED <<request, quotas, remaining>>
RefusePlan == Divided /\ ~Plannable /\ Refuse

BlueprintNext ==
  ReceiveRequest \/ StartDividing \/ RefuseRequest \/ Round \/ Plan \/ RefusePlan

BlueprintSpec == BlueprintInit /\ [][BlueprintNext]_blueprintVars

BlueprintTypeOK ==
  /\ request \in PlanRequests \cup {NoRequest} /\ quotas \in [PlanTopics -> Nat]
  /\ remaining \in 0..MaxItemBudget
  /\ phase \in {"none", "validating", "dividing", "planned", "refused"}

(***************************************************************************)
(* Properties.                                                             *)
(***************************************************************************)
(* Every topic has between its minimum and its maximum.                    *)
WithinLimits ==
  \A t \in PlanTopics : /\ quotas[t] >= Floor(t)
                        /\ Cap(t) # Uncapped => quotas[t] <= Cap(t)

(* A plan spends its whole budget, within every minimum and maximum and    *)
(* within the clock.                                                       *)
PlanFitsTheRequest ==
  phase = "planned" =>
    /\ Total(quotas, PlanTopics) = Budget(request) /\ WithinLimits
    /\ Budget(request) * SecondsPerItem <= request.seconds

(* Of two topics with the same minimum, neither at its maximum, the one    *)
(* the job weighs more is asked about no less, nor of two equal ones the   *)
(* one that comes first.                                                   *)
QuotasFollowWeights ==
  \A s, t \in PlanTopics :
    (/\ Floor(s) = Floor(t) /\ s \in BelowCap /\ t \in BelowCap
     /\ TopicWeight(s) > TopicWeight(t) \/ (TopicWeight(s) = TopicWeight(t) /\ s < t))
      => quotas[s] >= quotas[t]

WeightIsRespected == phase = "planned" => QuotasFollowWeights

(* A request is refused only when no division of the budget fits it, or    *)
(* there is no weight to divide by, or the clock is too short: the rounds  *)
(* never get stuck while a topic has room (quotas.py:153).                 *)
RefusedWithReason ==
  phase = "refused" =>
    \/ Budget(request) < MinItemBudget \/ Budget(request) * SecondsPerItem > request.seconds
    \/ Total(Floors, PlanTopics) > Budget(request)
    \/ \A t \in PlanTopics : TopicWeight(t) = 0
    \/ \E t \in PlanTopics : Cap(t) # Uncapped /\ Cap(t) < Floor(t)
    \/ /\ \A t \in PlanTopics : Cap(t) # Uncapped
       /\ Total([t \in PlanTopics |-> Cap(t)], PlanTopics) < Budget(request)

(* The rounds come to an end: each gives out an item at least.             *)
RoundsAdvance ==
  [][phase = "dividing" /\ phase' = "dividing" => remaining' < remaining]_blueprintVars

(* A request becomes a plan that fits it and respects its weights, in      *)
(* finitely many rounds, or is refused for a reason.                       *)
QuotasAreFair ==
  [](PlanFitsTheRequest /\ WeightIsRespected /\ RefusedWithReason) /\ RoundsAdvance

(* Inductive: what is given out and what is left make up the budget, and   *)
(* the rounds so far kept to the limits and to the order of the weights.   *)
QuotasInv ==
  /\ BlueprintTypeOK /\ PlanFitsTheRequest /\ RefusedWithReason
  /\ phase # "none" => request \in PlanRequests /\ ValidRequest(request)
  /\ phase \in {"dividing", "planned"} =>
       /\ Total(quotas, PlanTopics) + remaining = Budget(request)
       /\ WithinLimits /\ QuotasFollowWeights
=============================================================================

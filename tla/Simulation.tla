-------------------------------- MODULE Simulation --------------------------------
(***************************************************************************)
(* Choosing items, as the simulated sessions of app/simulation/runner.py   *)
(* do with the production policy of app/selection/ and two baselines:      *)
(* "adaptive" scores every eligible item and takes the best, or now and    *)
(* then one of the best few; "random" draws from the eligible items;       *)
(* "fixed" walks a paper built once from the bank and the quotas.          *)
(*                                                                         *)
(* Abilities, difficulties and errors are small integers.  An item's true  *)
(* response only moves the estimate up, down or not at all; whether RD has *)
(* become precise is open once every topic has been measured, and so is    *)
(* whether the last updates were all small.  The components of the score   *)
(* are scaled to 0..60, where the fractions of the instances are exact.    *)
(***************************************************************************)
EXTENDS Integers, FiniteSets, Sequences, FiniteSetsExt, Functions, Orders

CONSTANTS
  SimBank,      \* item 1..n, in id order -> topic, subtopic, b, time, like
  SimTopics,    \* in name order: 1..n
  ParentTopic,  \* subtopic -> topic
  QuotaOf,      \* topic -> coverage target
  JdWeightOf,   \* topic -> its weight in the job description, 0..60
  Affinity,     \* subtopic -> resume affinity, 0..60
  Truth,        \* subtopic -> the synthetic candidate's ability
  InfoTable,    \* |theta - b| -> normalised information, 0..60
  TimeBudget, ItemBudget, Window, PoolSize, ErrorTarget

Abs(n) == IF n < 0 THEN -n ELSE n

ASSUME SimulationSizes ==
  /\ SimTopics \subseteq Nat /\ IsFiniteSet(SimTopics) /\ QuotaOf \in [SimTopics -> Nat]
  /\ TimeBudget \in Nat \ {0} /\ ItemBudget \in Nat \ {0} /\ PoolSize \in Nat \ {0}
  /\ Window \in Int /\ ErrorTarget \in Int

ASSUME BankOfItems ==
  /\ IsFiniteSet(DOMAIN ParentTopic) /\ Truth \in [DOMAIN ParentTopic -> Int]
  /\ SimBank \in Seq([topic : SimTopics, subtopic : DOMAIN ParentTopic, b : Int,
                      time : Nat, like : SUBSET Nat])

ASSUME ObjectiveTables ==
  /\ JdWeightOf \in [SimTopics -> Int] /\ Affinity \in [DOMAIN ParentTopic -> Int]
  /\ InfoTable \in [DOMAIN InfoTable -> Int]
  /\ \A i \in DOMAIN SimBank, th \in -2..2 : Abs(SimBank[i].b - th) \in DOMAIN InfoTable

VARIABLES
  strategy,   \* "adaptive", "random" or "fixed"
  theta,      \* subtopic -> the estimate
  asked,      \* the items asked, in order
  errors,     \* the sum of absolute errors before and after each answer
  choice,     \* history: how the last item was chosen, and how well
  stopped     \* why the session ended; "no" while it runs

simVars == <<strategy, theta, asked, errors, choice, stopped>>

Items == DOMAIN SimBank
TotalOf(f) == MapThenSumSet(LAMBDA x : f[x], DOMAIN f)
TimeLeft == TimeBudget - TotalOf([n \in DOMAIN asked |-> SimBank[asked[n]].time])
QuotaLeft(t) ==
  LET n == Cardinality({i \in Range(asked) : SimBank[i].topic = t})
  IN IF n < QuotaOf[t] THEN QuotaOf[t] - n ELSE 0
Measured == {SimBank[i].subtopic : i \in Range(asked)}
ErrorOf(th) == TotalOf([s \in DOMAIN ParentTopic |-> Abs(th[s] - Truth[s])])

-----------------------------------------------------------------------------
(* Seeded bug: the difficulty window is one-sided.                          *)
FitsOneSided(i) ==
  /\ i \notin Range(asked) /\ QuotaLeft(SimBank[i].topic) > 0
  /\ SimBank[i].b - theta[SimBank[i].subtopic] <= Window
  /\ SimBank[i].time <= TimeLeft

\* ineligibility_reason is None; eligibility_clauses say the same in SQL.
Fits(i) ==
  /\ i \notin Range(asked) /\ QuotaLeft(SimBank[i].topic) > 0
  /\ Abs(SimBank[i].b - theta[SimBank[i].subtopic]) <= Window
  /\ SimBank[i].time <= TimeLeft
FitItems == {i \in Items : Fits(i)}

\* The components of score_item, the penalties as negative numbers.
Redundancy(i) == IF SimBank[i].like \cap Range(asked) # {} THEN 60 ELSE 0
Components(i) ==
  << InfoTable[Abs(SimBank[i].b - theta[SimBank[i].subtopic])],
     JdWeightOf[SimBank[i].topic],
     Affinity[SimBank[i].subtopic],
     (60 * QuotaLeft(SimBank[i].topic)) \div QuotaOf[SimBank[i].topic],
     -Redundancy(i),
     -((60 * SimBank[i].time) \div TimeLeft) >>
ObjectiveWeights == <<40, 25, 15, 15, 10, 5>>
Weighted(c) ==
  LET w == ObjectiveWeights
  IN w[1] * c[1] + w[2] * c[2] + w[3] * c[3] + w[4] * c[4] + w[5] * c[5] + w[6] * c[6]

(* Seeded bug: the penalties are added instead of taken off.                *)
ScorePenaltiesAdded(i) == Weighted([n \in 1..6 |-> Abs(Components(i)[n])])

ScoreOf(i) == Weighted(Components(i))

\* rank_items, and the pool epsilon_greedy_select explores
Ahead(i, j) == ScoreOf(i) > ScoreOf(j) \/ (ScoreOf(i) = ScoreOf(j) /\ i < j)
Place(i) == Cardinality({j \in FitItems : Ahead(j, i)}) + 1

-----------------------------------------------------------------------------
\* fixed_sequence: a topic's quota at even percentiles, easy to hard, then the rest.
Easier(i, j) == SimBank[i].b < SimBank[j].b \/ (SimBank[i].b = SimBank[j].b /\ i < j)
OfTopic(t) == {i \in Items : SimBank[i].topic = t}
Spread(t) ==
  LET n == Cardinality(OfTopic(t))
      at == {((2 * k + 1) * n) \div (2 * QuotaOf[t]) : k \in 0..QuotaOf[t] - 1}
  IN {i \in OfTopic(t) : Cardinality({j \in OfTopic(t) : Easier(j, i)}) \in at}
TopicPaper(t) ==
  IF QuotaOf[t] \in 1..Cardinality(OfTopic(t)) - 1
  THEN InOrder(Spread(t), Easier) \o InOrder(OfTopic(t) \ Spread(t), Easier)
  ELSE InOrder(OfTopic(t), Easier)

\* The topic furthest behind its share goes next.
Behind(taken, t, u) ==
  IF QuotaOf[t] = 0 THEN QuotaOf[u] = 0 /\ t < u
  ELSE IF QuotaOf[u] = 0 THEN TRUE
  ELSE \/ taken[t] * QuotaOf[u] < taken[u] * QuotaOf[t]
       \/ taken[t] * QuotaOf[u] = taken[u] * QuotaOf[t] /\ t < u

AddToPaper(acc) ==
  LET open == {t \in SimTopics : acc.taken[t] < Len(TopicPaper(t))}
      t == CHOOSE t \in open : \A u \in open \ {t} : Behind(acc.taken, t, u)
  IN [taken |-> [acc.taken EXCEPT ![t] = @ + 1],
      paper |-> Append(acc.paper, TopicPaper(t)[acc.taken[t] + 1])]

PaperUpTo[n \in 0..Len(SimBank)] ==
  IF n = 0 THEN [taken |-> [t \in SimTopics |-> 0], paper |-> <<>>]
           ELSE AddToPaper(PaperUpTo[n - 1])
FixedPaper == PaperUpTo[Len(SimBank)].paper

\* FixedStrategy.select: the first item of the paper that still fits.
OnPaper(i) ==
  i \notin Range(asked) /\ QuotaLeft(SimBank[i].topic) > 0 /\ SimBank[i].time <= TimeLeft

-----------------------------------------------------------------------------
SimulationInit ==
  /\ strategy \in {"adaptive", "random", "fixed"}
  /\ theta = [s \in DOMAIN ParentTopic |-> 0]
  /\ asked = <<>>
  /\ errors = <<ErrorOf(theta)>>
  /\ choice = [how |-> "none", gap |-> 0, beaten |-> FALSE]
  /\ stopped = "no"

\* should_stop, in the order of its reasons; the first is the primary one.
MayBePrecise == {ParentTopic[s] : s \in Measured} = SimTopics
BudgetSpent == Len(asked) >= ItemBudget
TimeSpent == TimeLeft <= 0

Dominated(i, by) ==
  LET c == Components(i)  d == Components(by)
  IN /\ \A n \in DOMAIN c : d[n] >= c[n]
     /\ \E n \in DOMAIN c : d[n] > c[n]

\* update_ability: towards the response, by no more than one step here.
AskItem(i, how) ==
  /\ asked' = Append(asked, i)
  /\ \E step \in {-1, 0, 1} :
       theta' = [theta EXCEPT ![SimBank[i].subtopic] =
                   IF @ + step \in -2..2 THEN @ + step ELSE @]
  /\ errors' = Append(errors, ErrorOf(theta'))
  /\ choice' = [how |-> how, gap |-> Abs(SimBank[i].b - theta[SimBank[i].subtopic]),
                beaten |-> \E j \in FitItems : Dominated(i, j)]
  /\ UNCHANGED <<strategy, stopped>>

Running == stopped = "no" /\ ~BudgetSpent /\ ~TimeSpent

AskBest ==
  /\ Running /\ strategy = "adaptive"
  /\ \E i \in FitItems : Place(i) = 1 /\ AskItem(i, "best")

Explore ==
  /\ Running /\ strategy = "adaptive"
  /\ \E i \in FitItems : Place(i) <= PoolSize /\ AskItem(i, "explored")

AskRandom ==
  /\ Running /\ strategy = "random"
  /\ \E i \in FitItems : AskItem(i, "random")

AskFromPaper ==
  /\ Running /\ strategy = "fixed"
  /\ \E p \in DOMAIN FixedPaper :
       /\ OnPaper(FixedPaper[p])
       /\ \A o \in 1..p - 1 : ~OnPaper(FixedPaper[o])
       /\ AskItem(FixedPaper[p], "fixed")

StopSession(reason) ==
  /\ stopped' = reason
  /\ UNCHANGED <<strategy, theta, asked, errors, choice>>

\* Precision, or nothing new learned from the last answers.
StopEarly ==
  /\ stopped = "no"
  /\ \/ MayBePrecise /\ StopSession("precision")
     \/ ~BudgetSpent /\ ~TimeSpent /\ Len(asked) >= 3 /\ StopSession("no_new_information")

StopOnBudget ==
  /\ stopped = "no"
  /\ \/ BudgetSpent /\ StopSession("item_budget")
     \/ ~BudgetSpent /\ TimeSpent /\ StopSession("time_budget")

StopOnEmptyPool ==
  /\ Running
  /\ IF strategy = "fixed" THEN \A p \in DOMAIN FixedPaper : ~OnPaper(FixedPaper[p])
                           ELSE FitItems = {}
  /\ StopSession("pool_exhausted")

SimulationNext ==
  \/ AskBest \/ Explore \/ AskRandom \/ AskFromPaper
  \/ StopEarly \/ StopOnBudget \/ StopOnEmptyPool

SimulationSpec == SimulationInit /\ [][SimulationNext]_simVars

-----------------------------------------------------------------------------
\* app/simulation/metrics.py and convergence.py, on one session's trajectory.
FirstReached(f) ==
  IF \E n \in DOMAIN f : f[n] <= ErrorTarget
  THEN CHOOSE n \in DOMAIN f : f[n] <= ErrorTarget /\ \A m \in 1..n - 1 : f[m] > ErrorTarget
  ELSE 0
ForwardFilled(f, n) == f[IF n <= Len(f) THEN n ELSE Len(f)]

-----------------------------------------------------------------------------
\* Type correctness of a session.
SimulationTypeOK ==
  /\ strategy \in {"adaptive", "random", "fixed"} /\ theta \in [DOMAIN ParentTopic -> -2..2]
  /\ asked \in Seq(Items) /\ errors \in Seq(Nat) /\ Len(errors) = Len(asked) + 1
  /\ choice \in [how : {"none", "best", "explored", "random", "fixed"}, gap : Nat,
                 beaten : BOOLEAN]
  /\ stopped \in {"no", "precision", "item_budget", "time_budget", "no_new_information",
                  "pool_exhausted"}

\* No strategy repeats an item, passes a topic's quota or overruns the clock,
\* and adaptive and random ask nothing far from the estimate of the moment.
SessionFitsTheBlueprint ==
  /\ IsInjective(asked) /\ TimeLeft >= 0
  /\ \A t \in SimTopics : Cardinality({i \in Range(asked) : SimBank[i].topic = t}) <= QuotaOf[t]
  /\ choice.how \in {"best", "explored", "random"} => choice.gap <= Window

\* The adaptive policy, not exploring, takes no item that another eligible one
\* beats on some component of the objective and equals on the others.
BestIsNotBeaten == choice.how = "best" => ~choice.beaten

\* The paper is the whole bank once, and its front, as long as every topic has
\* its items, is exactly the blueprint's coverage.
PaperCoversTheBlueprint ==
  LET total == TotalOf(QuotaOf)
      front == SubSeq(FixedPaper, 1, total)
  IN /\ Range(FixedPaper) = Items /\ IsInjective(FixedPaper)
     /\ (\A t \in SimTopics : QuotaOf[t] <= Cardinality(OfTopic(t))) =>
          \A t \in SimTopics :
            Cardinality({i \in Range(front) : SimBank[i].topic = t}) = QuotaOf[t]

\* The two figures of a study agree: a session that a curve shows at its target
\* after n answers, its last value carried forward where it had stopped, is
\* counted among those that reached it by then.
CurvesAgree ==
  \A n \in 1..ItemBudget + 2 :
    ForwardFilled(errors, n) <= ErrorTarget =>
      FirstReached(errors) \in 1..n

\* What a simulated session may do, and what its measurements may say.
SimulationIsFair ==
  SessionFitsTheBlueprint /\ BestIsNotBeaten /\ PaperCoversTheBlueprint /\ CurvesAgree

\* Inductive: the types and the rules together.
SimulationInv == SimulationTypeOK /\ SimulationIsFair
=============================================================================

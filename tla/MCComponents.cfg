\* Two questions in the bank; searches over four; three topics to plan; three
\* graded answers; three regradings; six simulated items; two answers in two
\* passes; two questions to label; two recordings in three sittings.
SPECIFICATION ComponentsSpec
CHECK_DEADLOCK FALSE
CONSTANTS
  Questions = {"q1", "q2"}
  Wordings = {"w1", "w2", "bad"}
  Refused = {"bad"}
  EmbedModels = {"m1", "m2"}
  Ingests = {"i1"}
  NoEmbed = TRUE
  MaxChanges = 2
  Ids = {1, 2, 3, 4}
  RrfK = 60
  Scale = 238266
  RetrieverK = 3
  CandidateK = 3
  FinalK = 2
  RerankScores = {0, 1}
  Grades <- MCGrades
  Discount <- MCDiscount
  PlanTopics = {1, 2, 3}
  JdWeights = {0, 2, 5}
  Minimums = {0, 2}
  Maximums = {0, 1, 3}
  Uncapped = 0
  ItemBudgets = {0, 7}
  Derived = 0
  Durations = {2000}
  SecondsPerItem = 330
  MinItemBudget = 3
  MaxItemBudget = 200
  Subtopics = {"s1", "s2"}
  ParentOf <- MCParent
  Required = {"t"}
  TargetTheta = 0
  RdTarget = 12345
  Logistic <- MCLogistic
  Difficulties = {100}
  AnswerScores = {0, 60, 100}
  Confidences = {100}
  MaxAnswers = 3
  BankOrder <- MCBankOrder
  ProbesOfItem = 2
  ProbesOfSession = 6
  Weight <- MCWeight
  Listed = {"m"}
  Judgments <- MCJudgments
  Samples = 3
  SimBank <- MCSimBank
  SimTopics = {1, 2}
  ParentTopic <- MCParentTopic
  QuotaOf <- MCQuota
  JdWeightOf <- MCJdWeight
  Affinity <- MCAffinity
  Truth <- MCTruth
  InfoTable <- MCInfo
  TimeBudget = 5
  ItemBudget = 4
  Window = 1
  PoolSize = 2
  ErrorTarget = 1
  Answers = {1, 2}
  Sampled <- MCSampled
  Order <- MCOrder
  RetestRuns = 2
  Concurrency = 2
  MaxPasses = 2
  MaxCuts = 1
  Sample <- MCSample
  Levels <- MCLevels
  Scores = {0, 2}
  Gap = 2
  NoScore <- MCNoScore
  Shuffle <- MCShuffle
  Terminals = {"t1"}
  MaxSpoiled = 1
  Names = {1, 2}
  Requests = {"k1", "k2"}
  Fallback = TRUE
  Synthesize = TRUE
  MaxRepairs = 1
  MaxSittings = 3
INVARIANTS
  ComponentsTypeOK
  GradingIsSound
  SearchIsHonest
  SimulationIsFair
PROPERTIES
  BankIsMaterialised
  QuotasAreFair
  AbilityIsEarned
  PassesAreResumable
  LabelsStayTrue
  RecordingsAreReplayable

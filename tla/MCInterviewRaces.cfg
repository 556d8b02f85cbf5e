\* Two workers race, die and wake up late; an operator re-queues once.
SPECIFICATION Spec
SYMMETRY Symmetric
CHECK_DEADLOCK FALSE
CONSTANTS
  q1 = q1
  q2 = q2
  q3 = q3
  topicA = topicA
  topicB = topicB
  Items = {q1, q3}
  Turns = {t1, t2}
  Topics = {topicA, topicB}
  Workers = {w1, w2}
  NoItem = NoItem
  NoTurn = NoTurn
  TopicOf <- MCTopicOf
  TimeOf <- MCTimeOf
  Quota <- MCQuota
  ItemBudget = 2
  TimeBudget = 3
  SmallUpdateRun = 2
  MaxPerItem = 2
  MaxPerSession = 2
  MaxAttempts = 2
  MaxFaults = 2
  MaxRequeues = 1
INVARIANTS
  TypeOK
  EveryStateHasItsWork
  GradedOnce
  AttemptsAreCharted
  OneOwnerUntilRequeued
  CallsBounded
PROPERTIES
  SettledIsFinal

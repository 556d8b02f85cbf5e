\* One screen, two drops, one reload, one lost request.
SPECIFICATION FairSpec
CHECK_DEADLOCK FALSE
CONSTANTS
  Items = {q1, q2}
  Turns = {t1}
  NoItem = NoItem
  NoTurn = NoTurn
  MaxPerItem = 1
  MaxPerSession = 1
  MaxLog = 7
  MaxDrops = 2
  MaxReloads = 1
  MaxLost = 1
INVARIANTS
  TypeOK
  ScreenIsTrue
PROPERTIES
  KeepsUp

\* Concurrent transactions of up to three events each on one session; two
\* requests on its cached copy, one late command, one damaged entry and one
\* database restore.
SPECIFICATION StoreSpec
SYMMETRY Symmetric
CONSTANTS
  Items = {q1, q2}
  Turns = {t1}
  NoItem = NoItem
  NoTurn = NoTurn
  MaxPerItem = 1
  MaxPerSession = 1
  Writers = {w1, w2, w3}
  NoWriter = NoWriter
  NoSeq = NoSeq
  MaxBatch = 3
  MaxLog = 7
  Procs = {p1, p2}
  MaxStored = 3
  MaxLate = 1
  MaxDamage = 1
  MaxRestores = 1
INVARIANTS
  StoreTypeOK
  StagedRowsAreNext
  DecidedOnHead
  CacheIsTrue
PROPERTIES
  ImplementsSessionLog
  CacheNeverRegresses

\* One session, one turn at a time; every collaborator but the store may fail.
SPECIFICATION Spec
CONSTANTS
  t1 = t1
  t2 = t2
  r1 = r1
  r2 = r2
  d1 = d1
  d2 = d2
  x1 = x1
  None = None
  Turns = {t1, t2}
  Calls = {r1, d1, x1}
  SessionOf <- OneSession
  TierOf <- Tiers
  Unreadable = {}
  MessageBlocks = 1
  MaxToolIters = 2
  MaxBatch = 2
  MaxAnswers = 1
  Serial = TRUE
  Retry = FALSE
  Faults = {"agent", "sink", "policy", "registry"}
INVARIANTS
  TypeOK
  PauseHolds
  HistoryValid
  BatchAtomic
  BatchFolds
  FinishedAgrees
PROPERTIES
  StatusSettles
  AtomicBatches
  BudgetedLoop

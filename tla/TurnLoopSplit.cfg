\* A batch with a Read call before a Draft call that a human allows.
SPECIFICATION Spec
CONSTANTS
  t1 = t1
  t2 = t2
  r1 = r1
  r2 = r2
  d1 = d1
  d2 = d2
  x1 = x1
  None = None
  Turns = {t1, t2}
  Calls = {r1, d1}
  SessionOf <- OneSession
  TierOf <- Tiers
  Unreadable = {}
  MessageBlocks = 1
  MaxToolIters = 2
  MaxBatch = 2
  MaxAnswers = 1
  Serial = TRUE
  Retry = FALSE
  Faults = {}
INVARIANTS
  EveryBatchFolds

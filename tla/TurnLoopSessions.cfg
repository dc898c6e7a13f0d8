\* Two sessions, one turn each, in one MemStore.
SPECIFICATION Spec
CONSTANTS
  t1 = t1
  t2 = t2
  r1 = r1
  r2 = r2
  d1 = d1
  d2 = d2
  x1 = x1
  None = None
  Turns = {t1, t2}
  Calls = {r1}
  SessionOf <- TwoSessions
  TierOf <- Tiers
  Unreadable = {}
  MessageBlocks = 1
  MaxToolIters = 1
  MaxBatch = 1
  MaxAnswers = 0
  Serial = TRUE
  Retry = FALSE
  Faults = {}
INVARIANTS
  SessionIsolated

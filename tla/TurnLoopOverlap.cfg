\* Two turns of one session overlap, pending calls are submitted
\* again, every collaborator may fail.
SPECIFICATION Spec
CONSTANTS
  t1 = t1
  t2 = t2
  r1 = r1
  r2 = r2
  d1 = d1
  d2 = d2
  x1 = x1
  None = None
  Turns = {t1, t2}
  Calls = {r1, d1}
  SessionOf <- OneSession
  TierOf <- Tiers
  Unreadable = {}
  MessageBlocks = 0
  MaxToolIters = 2
  MaxBatch = 2
  MaxAnswers = 1
  Serial = FALSE
  Retry = TRUE
  Faults = {"registry", "agent", "sink", "policy", "propose", "append"}
INVARIANTS
  AtMostOnce
  ConsentBacked
  ResultAfterCall
  UnattendedBudget
SYMMETRY TurnSymmetry

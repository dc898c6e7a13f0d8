\* Agents that may call tools in every reply, and consumers that keep calling.
SPECIFICATION FairSpec
CONSTANTS
  Turns = {t1, t2}
  MaxToolIters = 3
  MaxBatch = 2
PROPERTIES
  CallsReturn

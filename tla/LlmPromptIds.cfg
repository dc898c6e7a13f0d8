\* Two calls of one tool in two frames of one reply.
SPECIFICATION Spec
CONSTANTS
  a = a
  b = b
  None = None
  Calls = {a, b}
  PiecesOf <- TwoAndOne
  NameOf <- OneTool
  Dialects = {"gemini"}
  Reasons = {"EndTurn", "MaxTokens"}
  MaxFrames = 3
  MaxRetries = 0
  RetryAfters = {}
  Replayable = TRUE
  Faults = {}
INVARIANTS
  DistinctIds

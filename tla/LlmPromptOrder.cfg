\* Calls that the end of the stream completes.
SPECIFICATION Spec
CONSTANTS
  a = a
  b = b
  None = None
  Calls = {a, b}
  PiecesOf <- TwoAndOne
  NameOf <- OneTool
  Dialects = {"openai"}
  Reasons = {"EndTurn", "MaxTokens"}
  MaxFrames = 3
  MaxRetries = 0
  RetryAfters = {}
  Replayable = TRUE
  Faults = {}
INVARIANTS
  IssueOrder

\* Every dialect streams two calls after at most one retry; the request, the
\* stream, the provider and the sink may fail.
SPECIFICATION Spec
CONSTANTS
  a = a
  b = b
  None = None
  Calls = {a, b}
  PiecesOf <- TwoAndOne
  NameOf <- OneTool
  Dialects = {"anthropic", "openai", "gemini"}
  Reasons = {"EndTurn", "MaxTokens"}
  MaxFrames = 6
  MaxRetries = 1
  RetryAfters = {}
  Replayable = TRUE
  Faults = {"http", "stream", "error", "sink"}
INVARIANTS
  OwnArguments
  WholeCallsInOrder
PROPERTIES
  ReplyKept

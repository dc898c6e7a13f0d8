\* Every conversation encoded in every dialect, and many ways to configure an
\* agent and a runtime; then eight retries, so that the backoff reaches its
\* ceiling, and a short stream.
SPECIFICATION ByokSpec
CONSTANTS
  a = a
  None = None
  Calls = {a}
  PiecesOf <- TwoPieces
  NameOf <- OneTool
  Dialects = {"anthropic", "openai", "gemini"}
  Reasons = {"EndTurn", "MaxTokens"}
  MaxFrames = 1
  MaxRetries = 8
  RetryAfters = {3600}
  Replayable = TRUE
  Faults = {"http", "stream", "error", "sink"}
  Hosts <- AllHosts
  Additions <- AllPieces
INVARIANTS
  TypeOK
  PatienceBounded
  NothingLost
  PairsHeld
  PrefixKept
  AsConfigured
  ToolsOffered
PROPERTIES
  NothingRepeated
  PromptReturns

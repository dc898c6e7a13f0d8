SPECIFICATION DesktopSpec
CONSTANTS
  x = x
  y = y
  look = look
  edit = edit
  c1 = c1
  c2 = c2
  t1 = t1
  None = None
  Letters = {x, y}
  Titles = {look, edit}
  ToolCalls = {t1}
  OptionLists <- SomeLists
  Policies = {"ask"}
  UpdateStatuses = {"completed"}
  Styles = {"snapshot", "repeat"}
  MaxText = 2
  MaxMessages = 2
  Chats = {c1, c2}
  Providers = {"cli", "byok", "nokey"}
  MaxSends = 2
  MaxReloads = 1
INVARIANTS
  TypeOK
  TerminalLast
  ShownAsSaid
  ReplyComplete
  ReplyFiled
  OutcomeAgrees
  DeniedStays
PROPERTIES
  SendSettles

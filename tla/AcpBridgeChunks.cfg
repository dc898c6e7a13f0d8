SPECIFICATION BridgeSpec
CONSTANTS
  None = None
  Letters = {x, y}
  Titles = {look}
  ToolCalls = {t1}
  OptionLists = {}
  Policies = {"ask"}
  UpdateStatuses = {"completed"}
  Styles = {"delta"}
  MaxText = 3
  MaxMessages = 3
INVARIANTS
  DeltasShown

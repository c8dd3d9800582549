CONSTANTS
  MaxStates = 3
  MaxLimit = 2
  MaxDepth = 2
  Clients = {"stopping"}
  ResetAfter = {"ERR_TIMEOUT"}
SPECIFICATION Spec
PROPERTY QuietWhenStopped

CONSTANTS
  MaxStates = 3
  MaxLimit = 2
  MaxDepth = 1
  Clients = {"straying"}
  ResetAfter = {"ERR_TIMEOUT"}
SPECIFICATION Spec
INVARIANT EntriesMatchExits

CONSTANTS
  Driven = {"fsm", "publisher"}
  MaxStates = 3
  MaxLimit = 3
  MaxDepth = 3
  Clients = {"straying", "nesting"}
  ResetAfter = {"ERR_TIMEOUT", "ERR_OUT_OF_BOUNDS"}
  Subscriber = {"s1", "s2", "s3"}
  List <- MCList
  MaxEvents = 3
  Callbacks = {{}, {"notify"}, {"configure"}, {"notify", "configure"}}
SPECIFICATION DispatchersSpec
INVARIANTS
  TypeOK
  EntriesMatchExits
  HandlersInTurn
  PublisherTypeOK
  EachHearsOnce
  HeardByPosition
PROPERTIES
  QuietWhenStopped
  CallsReturn
  QuietAfterDeinit
  NotifyReturns

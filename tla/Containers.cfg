CONSTANTS
  Driven = {"ring", "fast", "queue", "heap", "pool"}
  Byte = {b1, b2, b3}
  MaxSize = 4
  SizeMod = 8
  FastMaxSize = 4
  Element = {e1, e2}
  QueueSize = 4
  MaxCount = 3
  MaxElementSize = 2
  Laps = 1
  Item = {1, 2, 3, 4, 5, 6}
  HeapRank <- MCRank
  HeapSize = 6
  Counts = {0, 1, 6}
  BufferSize = 6
  MaxObjects = 3
  MaxObjectSize = 3
  Handle = {h1, h2}
  NULL = NULL
  Foreign = Foreign
SPECIFICATION ContainersSpec
INVARIANTS
  TypeOK
  IndexInv
  OthersTypeOK
  CountInv
  StaysInBuffer
  HeldOnce
  Ordered
  OneOwner
  AvailableIsHonest
  StackInBounds
PROPERTIES
  ImplementsFifo
  FastImplementsFifo
  QueueImplementsFifo
  PopsGreatestUnlessSkipped

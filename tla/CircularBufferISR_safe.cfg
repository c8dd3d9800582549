CONSTANTS
  Size = 3
  Limit = 5
  ByteMod = 9
  Uses = {"masked", "lockstep"}
SPECIFICATION Spec
INVARIANTS
  TypeOK
  PopsOldest
  EmptyMeansEmpty
PROPERTY Delivered

CONSTANTS
  Size = 3
  Limit = 3
  ByteMod = 7
  Uses = {"isr_pushes"}
SPECIFICATION Spec
INVARIANTS
  EmptyMeansEmpty

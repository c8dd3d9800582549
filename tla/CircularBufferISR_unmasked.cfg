CONSTANTS
  Size = 3
  Limit = 2
  ByteMod = 6
  Uses = {"isr_pushes", "isr_pops"}
SPECIFICATION Spec
INVARIANTS
  PopsOldest

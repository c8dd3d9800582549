CONSTANT IntMax = 5
SPECIFICATION Spec
INVARIANTS
  TypeOK
  WindowInv
  ChecksFreshIndex
  ResultIsRight
  Halves

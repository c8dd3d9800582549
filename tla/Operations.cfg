CONSTANTS
  ByteMod = 4
  SizeMod = 16
  DataLen = 9
  MaxPacks = 2
  RawSizes = {0, 3, 9}
  Values <- SampleValues
  WordBytes = 2
SPECIFICATION OperationsSpec
INVARIANTS
  TypeOK
  FieldsReadBack
  BoundsExact
  PowerTestExact
  HammingWeightExact
CHECK_DEADLOCK FALSE

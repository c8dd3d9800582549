CONSTANT IntMax = 3
SPECIFICATION Spec
INVARIANT ExampleStaysInArray

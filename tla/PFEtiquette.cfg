SPECIFICATION Spec
CONSTANT Length = 5
INVARIANTS
  ACopyGetsThrough
  FirstCopiesMiss

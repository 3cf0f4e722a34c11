SPECIFICATION SendSpec
CONSTANT Length = 3
INVARIANT
  NeverAllFive

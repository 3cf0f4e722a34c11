SPECIFICATION Spec
CONSTANTS
  Wrap = 8
  Debounce = 2
  MaxGap = 2
  CountWrap = 3
  HighLevel = 2
INVARIANTS
  TypeOK
  SteadyIsAdopted
PROPERTIES
  CountsAreSpaced
  CountsAreFalls
  SeenLevelsHold

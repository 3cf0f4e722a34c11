SPECIFICATION Spec
CONSTANTS
  Wrap = 16
  Duration = 3
  MaxGap = 2
INVARIANTS
  OffInTime
PROPERTIES
  NeverEarly

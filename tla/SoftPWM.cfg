SPECIFICATION Spec
CONSTANTS
  Outputs = 2
  Period = 3
  PrescaleMax = 2
  Phases = {3, 5}
  DelayTicks = 2
INVARIANTS
  TypeOK
  PwmKeepsPace
  ROMFindsOutputsLow
PROPERTIES
  DutyIsExact

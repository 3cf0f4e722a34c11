SPECIFICATION Spec
CONSTANTS
  MaxToken = 3
  ByteMax = 1
  MaxPhases = 2
  RCXReload <- MCRCXReload
INVARIANT
  BootloaderOwesNothing

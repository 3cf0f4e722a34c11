SPECIFICATION Spec
CONSTANTS
  Outputs = 6
  MaxCount = 1
  Packets <- MCPackets
INVARIANTS
  TypeOK
  SendIsEncodable
PROPERTIES
  BusyMeansBusy
  DutiesArePacked

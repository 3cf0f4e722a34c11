SPECIFICATION FairSpec
CONSTANTS
  MaxToken = 3
  ByteMax = 1
  MaxPhases = 2
  RCXReload <- MCRCXReload
INVARIANTS
  TypeOK
  TokenConservation
  IdleIsDark
  RateMatchesEngine
  PrimeIntact
  AbortQuiesces
PROPERTIES
  ServiceSpec
  EveryTokenResolves

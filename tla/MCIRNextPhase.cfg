SPECIFICATION FairSpec
CONSTANTS
  PFSends <- MCPFSends
  LegacySends <- MCLegacySends
  RCXSends <- MCRCXSends
INVARIANTS
  TypeOK
  PFMessagesAreSpaced
  PFTogglesAlternate
  PFReceiverHearsMessage
  LegacyMessagesAreSpaced
  LegacyReceiverHearsCommand
  RCXReceiverHearsFrame
  RCXRepeatsLeaveGap
PROPERTIES
  ServesBurst
  DoneMeansSent
  BurstEnds

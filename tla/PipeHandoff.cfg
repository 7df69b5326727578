SPECIFICATION FairPipeSpec
CONSTANTS
  Trips = 8
INVARIANTS
  DescriptorsOpenWhileUsed
  PublishedOnlyIfComplete
PROPERTIES
  HandoffEnds

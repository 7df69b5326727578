SPECIFICATION FairSpec
CONSTANTS
  Rounds = 20
INVARIANTS
  TypeOK
  RoundsInStep
  AllLegsTimed
PROPERTIES
  ImplementsRelay
  Terminates

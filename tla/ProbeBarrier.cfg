SPECIFICATION FairSpec
CONSTANTS
  N = 3
  Elements = 5
  MaxPasses = 2
INVARIANTS
  TypeOK
  StreamsPlacedMemory
  FirstTouchIsLocal
  NoWorkerOutlivesFrame
  ChaseUnderLoad
PROPERTIES
  ImplementsWindow
  Terminates

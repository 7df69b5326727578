SPECIFICATION Spec
CONSTANTS
  Cases <- MCCases
  Sweep = 2
  MaxFailures = 2
INVARIANTS
  RunsWhereLabelled
  MemoryWhereLabelled
  DocumentIsComplete
  ThreadsOnOwnCores
  PathsAreCovered

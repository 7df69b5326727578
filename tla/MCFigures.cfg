SPECIFICATION FiguresSpec
CONSTANTS
  Users = {"pipeline", "instruction-fetch", "branch-predictor", "branch-structures",
           "probe-core", "probe-branch", "probe-cache", "compute-scaling"}
  Suites = {"stream", "numa"}
  Operations = {"read", "triad"}
  Layouts <- MCLayouts
  Free = {0, 5, 50, 130}
  Requests = {3, 16}
  BaseBytes = 4
  Cap = 12
  Labels = {2, 4}
  Rates = {20, 21, 22}
  Limits = {0, 20}
  Values = {0, 10, 14, 30, 60}
  Lengths = {7}
  Noise = 20
INVARIANTS
  NoDescriptorLeak
  FiguresCoverKernel
  OwnFiguresSurvive
  SummaryIsBeyondCaches
  LeavesMemoryFree
  ExclusionIsSaid
  SpikesAreRejected
  StepsAreFound

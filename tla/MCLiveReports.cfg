SPECIFICATION LiveSpec
CONSTANTS
  Runs = {r1, r2}
  Dirs = {d1}
  Requests = {q1, q2}
SYMMETRY Symmetry
INVARIANTS
  RawBesideReport
  SuccessIsComplete
  LastRunIsShown
PROPERTIES
  FailureKeepsEarlierReport
CHECK_DEADLOCK FALSE

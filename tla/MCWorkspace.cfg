SPECIFICATION Spec
CONSTANTS
  t0 = t0
  t1 = t1
  t2 = t2
  Ids <- MCIds
  Contents <- MCContents
  Tasks = {t0, t1, t2}
  Startup = t0
  Limit = 2
  Queries <- MCQueries
  Sessions <- MCSessions
SYMMETRY TaskSymmetry
INVARIANTS
  NoStuckSpinner
  RowsShowSelection
  ViewIsLoaded

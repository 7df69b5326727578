SPECIFICATION Spec
CONSTANTS
  t0 = t0
  t1 = t1
  t2 = t2
  Ids <- MCIds
  Contents <- StillRepository
  Tasks = {t0, t1, t2}
  Startup = t0
  Limit = 2
  Queries <- AnySearch
  Sessions <- ReloadedSession
INVARIANTS
  UrlNamesView

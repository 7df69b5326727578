SPECIFICATION Spec
CONSTANTS
  g1 = g1
  g2 = g2
  g3 = g3
  g4 = g4
  Paths = {p1}
  Requests = {r1, r2}
  Generations = {g1, g2, g3}
  Shape <- MCShape
  Size <- MCSize
  MaxTick = 1
SYMMETRY RequestSymmetry
CHECK_DEADLOCK FALSE
INVARIANTS
  CacheIsFaithful
PROPERTIES
  ImplementsCatalog

SPECIFICATION Spec
CONSTANTS
  Kinds = {"pages"}
  Points = 4
  Stride = 4
  Spread = 2
  Line = 2
  Modulus = 8
INVARIANTS
  EveryPageChased

SPECIFICATION KernelsSpec
CONSTANTS
  Kinds = {"lines", "pages"}
  Points = 5
  Stride = 6
  Spread = 3
  Line = 2
  Modulus = 30
  Cases <- MCCases
INVARIANTS
  SingleRing
  StaysInCode
  RunsWhatIsCounted

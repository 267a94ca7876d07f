CONSTANTS
  Rule <- MCRule
  Kinds <- MCKinds
  One = 128
  Precision = 32
  Contents <- MCContents
  Epsilon = 8
  Tol = 8
  Alpha = 64
  Beta = 64
  Slope = 1
  Delta = 48
  ArgmaxTol = 30
  RandomBmu = TRUE
  MaxTicks = 4
  MaxMoves = 2
SPECIFICATION Spec
INVARIANTS TypeSafe FunctionOfArguments NearCell
PROPERTIES NoSilentChange Settles
CHECK_DEADLOCK FALSE

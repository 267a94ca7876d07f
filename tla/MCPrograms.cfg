CONSTANTS
  Forever = 9
  Record = 2
  SavedAt = 3
  Architectures <- MCArchitectures
  Provided <- MCProvided
  OnDisk <- MCOnDisk
  HandNames <- MCHandNames
  HandTypes <- MCHandTypes
  HandDates <- MCHandDates
  HandArgDates <- MCHandArgDates
  HandScopes <- MCHandScopes
  MaxCalls = 4
  Horizon = 3
SPECIFICATION Spec
INVARIANTS
  InitsReachTheirRules
  BuilderIsAccepted
  StuckOnlyOnCycles
  RelaxationIsUnfolded
PROPERTIES
  RenameKeepsRules
CHECK_DEADLOCK FALSE

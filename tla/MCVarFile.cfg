CONSTANTS
  Time <- MCTime
  Value = {v1, v2}
  NoValue = NoValue
  NoTime = NoTime
  file_size = 4
SPECIFICATION Spec
INVARIANT ReadsHistory
PROPERTY ImplementsHistory
CHECK_DEADLOCK FALSE

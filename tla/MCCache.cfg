CONSTANTS
  Time <- MCTime
  Value <- MCTime
  NoValue = NoValue
  NoTime = NoTime
  NoType = NoType
  NoSize = NoSize
  file_size = 2
  Type = {T1, T2}
  CacheSize = {1, 2}
SPECIFICATION CacheSpec
INVARIANTS
  OneInstance
  ReadyIsInFile
PROPERTIES
  ReadyStays
  SeesTheWrite
CHECK_DEADLOCK FALSE

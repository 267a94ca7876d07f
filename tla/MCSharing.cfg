CONSTANTS
  MaxTime = 4
  file_size = 3
  NoTime = NoTime
  NoValue = NoValue
  Crashes = {"head", "tail", "ready"}
SPECIFICATION Spec
INVARIANTS ReadsTheInstant ServerReadsTheInstant

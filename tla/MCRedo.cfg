CONSTANTS
  X = X
  Y = Y
  B = B
  C = C
  DI = {X, Y, B, C}
  NbSteps = 3
  StepOf <- MCStepOf
  Ruled = {X, Y, B, C}
  WithInit = {}
  InitArgs <- MCInitArgs
  UsualArgs <- MCUsualArgs
  Value = {0, 1}
  Default = 0
  Compute <- MCCompute
  Client = {c1, c2}
  Writable = {}
  FileValue <- MCFileValue
  NoValue = NoValue
  MaxObjects = 2
  MaxSessions = 2
SPECIFICATION Spec
INVARIANTS NoLostUnblock SleepsOnlyWhenIdle WriterScope

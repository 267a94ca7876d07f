CONSTANTS
  A = A
  B = B
  W = W
  Variable = {A, B, W}
  Timeline <- MCTimeline
  Horizon = 1
  Patterned = {A, B}
  InitPattern <- MCInitPattern
  UsualPattern <- MCUsualPattern
  Walltime <- MCWalltime
  Static <- MCStatic
  MaxRestarts = 1
  DI <- MCDI
  NbSteps = 4
  StepOf <- MCStepOf
  Ruled <- MCDI
  WithInit <- MCWithInit
  InitArgs <- MCInitArgs
  UsualArgs <- MCUsualArgs
  Value = {0, 1}
  Default = 0
  Compute <- MCCompute
  Client = {c1}
  Writable = {}
  FileValue <- MCFileValue
  NoValue = NoValue
  MaxObjects = 2
  MaxSessions = 2
SPECIFICATION FairSpecP
INVARIANT NoHole
PROPERTIES FileIsFinal Together RunsToWalltime

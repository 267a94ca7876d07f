CONSTANTS
  X = X
  W = W
  U = U
  V = V
  DI = {X, W, U, V}
  NbSteps = 2
  StepOf <- MCStepOf
  Ruled = {X, W, U, V}
  WithInit = {W}
  InitArgs <- MCInitArgs
  UsualArgs <- MCUsualArgs
  Value = {0, 1, 2}
  Default = 0
  Compute <- MCCompute
  Client = {c1}
  Writable = {X}
  FileValue <- MCFileValue
  NoValue = NoValue
  MaxObjects = 1
  MaxSessions = 2
SPECIFICATION FairSpec
INVARIANTS TypeOK QueuedOnce ConfirmedIsStable SkipIsSound ReadyIsFiled
PROPERTIES InteractionEnds Completes

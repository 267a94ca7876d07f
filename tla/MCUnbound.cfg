CONSTANTS
  E = E
  F = F
  P = P
  Q = Q
  DI = {E, F, P, Q}
  NbSteps = 2
  StepOf <- MCStepOf
  Ruled = {P, Q}
  WithInit = {}
  InitArgs <- MCInitArgs
  UsualArgs <- MCUsualArgs
  Value = {0, 1, 2}
  Default = 0
  Compute <- MCCompute
  Client = {c1}
  Writable = {E, F}
  FileValue <- MCFileValue
  NoValue = NoValue
  MaxObjects = 1
  MaxSessions = 3
SPECIFICATION FairSpec
INVARIANTS ReadyIsGrounded
PROPERTIES ReadyIsFinal PingRevives

SPECIFICATION FairSpec
CONSTANTS
  t1 = t1  t2 = t2  c1 = c1  c2 = c2
  None = None
  Threads = {t1, t2}
  MainThread = t1
  Conns = {c1, c2}
  MaxRuns = 2
  MaxMishaps = 2
  Settings <- ServingSettings
INVARIANTS
  TypeOK
  OneAtATime
  NoHandlerOutsideRun
  ReturnsOnlyWhenAsked
  StartFailsForCause
PROPERTIES
  StopReturns
  EveryRequestEnds
  EveryConnectionAccepted

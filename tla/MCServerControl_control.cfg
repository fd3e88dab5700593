SPECIFICATION FairSpec
CONSTANTS
  main = main  c2 = c2
  None = None
  Callers = {main, c2}
  Main = main
  Ports = {80, 8080, 8081}
  DefaultPort = 8080
  Settings <- ControlSettings
  MaxPolls = 2
INVARIANTS
  TypeOK
  ResetKeepsIngress
  PortsAgree
  NoOrphans
  RefusedChangeKeepsServing
  OnMeansServing
PROPERTIES
  EveryCallReturns
  ZeroDowntime
CHECK_DEADLOCK FALSE

SPECIFICATION Spec
CONSTANTS
  main = main  c2 = c2
  None = None
  Callers = {main, c2}
  Main = main
  Ports = {80, 8080, 8081}
  DefaultPort = 8080
  Settings <- NginxProxied
  MaxPolls = 2
INVARIANT EveryResetKeepsIngress
CHECK_DEADLOCK FALSE

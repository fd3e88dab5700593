SPECIFICATION Spec
CONSTANTS
  main = main  c2 = c2
  None = None
  Callers = {main, c2}
  Main = main
  Ports = {80, 8080, 8081}
  DefaultPort = 8080
  Settings <- LighttpdPortTaken
  MaxPolls = 2
INVARIANT PortChangeKeepsIngress
CHECK_DEADLOCK FALSE

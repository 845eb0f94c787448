CONSTANTS
  p1 = p1
  p2 = p2
  e1 = e1
  e2 = e2
  c1 = c1
  c2 = c2
  None = None
  Project <- TwoProjects
  Env <- TwoEnvs
  Owner <- EnvOwner
  Caller <- TwoCallers
  Ops <- AllOps
  MaxCommands = 3
  MaxOverlapping = 3
  MaxRestarts = 1
CHECK_DEADLOCK FALSE
SPECIFICATION FairSpec

  
PROPERTIES
  RestoredContextValid
  CommandsReturn

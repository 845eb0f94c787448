CONSTANTS
  m1 = m1
  m2 = m2
  m3 = m3
  r1 = r1
  p1 = p1
  p2 = p2
  a1 = a1
  a2 = a2
  b1 = b1
  i1 = i1
  i2 = i2
  o1 = o1
  o2 = o2
  Cmd <- ThreeCommands
  Req <- OneRequest
  Project <- TwoProjects
  None = None
  Control <- TwoOfControl
  Bridge <- OneBridge
  Last = 4
  Default = 2
  Tries = 2
  Import <- TwoImports
  Origin <- TwoOrigins
  MaxPort = 3
  MaxEdits = 1
SPECIFICATION MCSpec
CHECK_DEADLOCK FALSE
INVARIANTS
  
  MatchIsTrue
  
PROPERTIES
  ImportsTrue
  CommandsEnd

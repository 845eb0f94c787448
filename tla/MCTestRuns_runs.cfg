CONSTANTS
  w1 = w1
  w2 = w2
  c1 = c1
  c2 = c2
  c3 = c3
  Worker <- TwoWorkers
  Total = 5
  Cases = 3
  MaxCancels = 2
SPECIFICATION MCSpec
INVARIANTS
  ResultWhole
  RunIsWhole
  
  ChecksAgree
PROPERTIES
  KeepsPromise
  AllEnd
CHECK_DEADLOCK FALSE

CONSTANTS
  c1 = c1
  c2 = c2
  f1 = f1
  f2 = f2
  f3 = f3
  Nobody = Nobody
  NoToken = NoToken
  Caller <- TwoCallers
  Flow <- ThreeFlows
  MaxTokens = 3
  MaxLocks = 2
  MaxAuthorizations = 1
SPECIFICATION MCSpec
INVARIANTS
  OneExchange
  CodeIsOwn
PROPERTIES
  RefreshOnce
  AllEnd
CHECK_DEADLOCK FALSE

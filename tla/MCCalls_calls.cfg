CONSTANTS
  c1 = c1
  c2 = c2
  s1 = s1
  s2 = s2
  Call <- TwoCalls
  Server <- TwoServers
  Session <- TwoSessions
  Ws <- OneWs
  Files = files
  None = none
  Cap = 2
  MaxBody = 3
  MaxTold = 1
  ws = ws
  sse = sse
  Capacity = 2
  MaxEvents = 5
SPECIFICATION MCSpec
CHECK_DEADLOCK FALSE
INVARIANTS
  CancelFinds
  AnswersTrue
  
  SnippetsTrue
  TypesFit
PROPERTIES
  EventsInOrder
  AllEnd

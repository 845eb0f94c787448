CONSTANTS
  m1 = m1
  m2 = m2
  m3 = m3
  NoMessage = NoMessage
  Message <- ThreeMessages
  OutboxCapacity = 1
  MaxMissedPongs = 2
  AutoReconnect = TRUE
  HasStore = TRUE
  RequestOk = TRUE
  MaxFaults = 2
  MaxRestarts = 1
SPECIFICATION Spec
SYMMETRY Symmetry
INVARIANTS
  NothingLost
  
  StateTellsTruth

CONSTANTS
  k1 = k1
  k2 = k2
  c1 = c1
  c2 = c2
  Absent = Absent
  Key <- TwoKeys
  Caller <- TwoCallers
  Width = 4
  Starts = {1, 3}
  BackupMaps <- Backups
  MaxTakes = 3
  MaxChanges = 2
  MaxFailures = 1
  MaxRestarts = 1
  Thread = {"t1", "t2"}
  Other = {"other"}
  Slot = {"globals"}
  MaxKeys = 2
  MaxStarts = 3
  Retention = 2
  MaxSecond = 4
  MaxDay = 3
  Keeps = {1, 2}
  Req = {"r"}
  Setter = {"p1", "p2"}
  Proxy = {"proxy"}
  Direct = "direct"
  Host = {"site", "api"}
  Above <- SiteAbove
  Content = {"v", ""}
  NoValue = ""
  MaxHour = 1
  MaxCame = 2
SPECIFICATION MCSpec
SYMMETRY Symmetry
INVARIANTS
  
  KeyFits
  
PROPERTIES
  
  StartKeeps

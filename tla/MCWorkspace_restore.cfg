CONSTANTS
  NF = 2
  NE = 2
  Ops = 3
  Places = {0, 1}
  r1 = r1
  k1 = k1
  v1 = v1
  v2 = v2
  None = None
  Rule = {r1}
  Retired = {2}
  Key = {k1}
  Value = {v1, v2}
  Restores = 2
  Edits = 1
SPECIFICATION MCSpec
INVARIANT EveryQuietExportRestores
CHECK_DEADLOCK FALSE

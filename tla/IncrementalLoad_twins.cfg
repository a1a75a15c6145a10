\* One record without an id, loaded and then synced; no crash.
CONSTANTS
  fg = fg
  fg_dhcp = fg_dhcp
  i1 = i1
  EmptyId = EmptyId
  NullId = NullId
  NoCluster = NoCluster
  c1 = c1
  v1 = v1
  v2 = v2
  Systems = {"fg"}
  Sources = {fg, fg_dhcp}
  SystemOf <- MCSystemOf
  Ids = {i1}
  Vals = {v1, v2}
  SplinkIds = {c1}
  MaxRows = 1
  MaxNew = 2
  MaxCrashes = 0
SYMMETRY Symmetry
SPECIFICATION Spec
INVARIANTS
  OneRowPerRecord
CHECK_DEADLOCK FALSE

\* One system with two sources, one id and the empty one, one resolved
\* cluster, files and meshes of up to two rows, one crash.
CONSTANTS
  fg = fg
  fg_dhcp = fg_dhcp
  i1 = i1
  EmptyId = EmptyId
  NullId = NullId
  NoCluster = NoCluster
  c1 = c1
  v1 = v1
  v2 = v2
  Systems = {"fg"}
  Sources = {fg, fg_dhcp}
  SystemOf <- MCSystemOf
  Ids = {i1}
  Vals = {v1, v2}
  SplinkIds = {c1}
  MaxRows = 2
  MaxNew = 2
  MaxCrashes = 1
SYMMETRY Symmetry
SPECIFICATION Spec
INVARIANTS
  TypeOK
  EveryRowUpserted
  NoMergeWithoutSplink
  DoneMeansRebuilt
PROPERTIES
  ImplementsRegistry
CHECK_DEADLOCK FALSE

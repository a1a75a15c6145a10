\* Two full runs and a sync, all under the lock.
CONSTANTS
  p1 = p1
  p2 = p2
  s1 = s1
  i1 = i1
  i2 = i2
  i3 = i3
  i4 = i4
  i5 = i5
  FullRuns = {p1, p2}
  SyncRuns = {s1}
  WorkerRuns = {}
  NoRun = NoRun
  Inodes = {i1, i2, i3, i4, i5}
  NoInode = NoInode
  MaxGen = 3
  MaxFaults = 2
SPECIFICATION Spec
SYMMETRY InodeSymmetry
INVARIANTS
  TypeOK
  MeshIsFinished
  WritesReachTheMesh
  ReferencesResolve
  QuietMeshIsComplete
PROPERTIES
  MeshNeverGoesBack
CHECK_DEADLOCK FALSE

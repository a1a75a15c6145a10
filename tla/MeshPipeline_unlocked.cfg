\* A full run and a worker run, which takes no lock.  Nothing fails.
CONSTANTS
  p1 = p1
  w1 = w1
  i1 = i1
  i2 = i2
  i3 = i3
  i4 = i4
  FullRuns = {p1}
  SyncRuns = {}
  WorkerRuns = {w1}
  NoRun = NoRun
  Inodes = {i1, i2, i3, i4}
  NoInode = NoInode
  MaxGen = 2
  MaxFaults = 0
SPECIFICATION Spec
SYMMETRY InodeSymmetry
INVARIANTS
  MeshIsFinished
CHECK_DEADLOCK FALSE

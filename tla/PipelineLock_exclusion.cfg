\* Two runs, no crash: is the lock exclusive?
CONSTANTS
  r1 = r1
  r2 = r2
  i1 = i1
  i2 = i2
  i3 = i3
  Runs = {r1, r2}
  Inodes = {i1, i2, i3}
  NoRun = NoRun
  NoInode = NoInode
  MaxCrashes = 0
SPECIFICATION LockSpec
INVARIANT MutualExclusion

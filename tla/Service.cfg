\* Two systems, one process at a time as server or as worker, another process
\* that contends for the lock; one call of run_streaming; and three runs that
\* contend for the lock file, crash and restart.
CONSTANTS
  sp = sp
  me = me
  r1 = r1
  r2 = r2
  r3 = r3
  i1 = i1
  i2 = i2
  i3 = i3
  i4 = i4
  Runs = {r1, r2, r3}
  Inodes = {i1, i2, i3, i4}
  NoRun = NoRun
  NoInode = NoInode
  MaxCrashes = 2
  Groups <- MCGroups
  Versions = 2
  MaxQueued = 1
  MaxConnects = 2
  Capacity = 1
  MaxLines = 2
  MaxAlarms = 2
SPECIFICATION MCSpec
INVARIANTS
  TypeOK
  AnswerOfOneMesh
  ExitLeavesNothing
  EndMeansDone
  LockTypeOK
  OverlapOnlyOnUnlinkedFile
  LeftoverNeedsFault
PROPERTIES
  EveryTaskTriedAgain
  StopEnds
  RequestsAnswered
  CallEnds
  RefusedOnlyByOwner
  LockNeverJams
CHECK_DEADLOCK FALSE

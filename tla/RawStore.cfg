\* Two feeds, one id, one real and one blank content, three runs.
CONSTANTS
  f1 = f1
  f2 = f2
  k1 = k1
  v1 = v1
  v2 = v2
  Feeds = {f1, f2}
  Keys = {k1}
  NoId = NoId
  Vals = {v1, v2}
  Blanks = {v2}
  Nil = Nil
  Absent = Absent
  Batches <- MCBatches
  Modes = {"full", "incremental"}
  MaxRuns = 3
SPECIFICATION Spec
INVARIANTS
  TypeOK
  HistoryIsChain
PROPERTIES
  ChangesAreLogged
  IncrementalKeepsRecords
  EmptyFetchKeepsTable
CHECK_DEADLOCK FALSE

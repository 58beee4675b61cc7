SPECIFICATION FairSpec
CONSTANTS
  Parts = 3
  RowsIn <- MCRowsIn
  Parallelism = 2
  Faults = {"partitions", "open", "rows", "rowsClose", "cancel", "earlyClose"}
INVARIANTS ParallelismBound ReleaseNeverBlocks RowsOnceInOrder
PROPERTIES IsRowIter DrainedAndDone
CHECK_DEADLOCK FALSE

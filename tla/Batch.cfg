\* Two batches over two files.
CONSTANTS
  p1 = p1
  p2 = p2
  Paths <- MCPaths
  MaxBatches = 2
  Parallelisms = {1, 2}
  MayCancel = TRUE
  SpawnMayFail = TRUE
  MayClose = TRUE
SPECIFICATION FairSpec
INVARIANTS
  NoOrphanItem
  RunningWithinParallelism
  ResultFromOwnBatch
PROPERTIES
  FirstBatchEnds
\* A closed bloc whose workers ended has nothing left to do.
CHECK_DEADLOCK FALSE

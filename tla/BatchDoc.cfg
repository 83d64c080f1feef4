\* One batch over two files is enough for the counterexample.
CONSTANTS
  p1 = p1
  p2 = p2
  Paths <- MCPaths
  MaxBatches = 1
  Parallelisms = {2}
  MayCancel = FALSE
  SpawnMayFail = FALSE
  MayClose = FALSE
SPECIFICATION Spec
INVARIANTS
  FinishedMeansAllDone

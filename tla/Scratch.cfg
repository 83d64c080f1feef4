\* A queue of up to two jobs and one of one; a cancel may overtake an await; the
\* process may die once and be launched again.
CONSTANTS
  MaxStarts = 2
  MaxLen = 2
  LenAt <- MCLenAt
  Variants = {"nsz", "unmerge", "benchmark"}
  MayFail = TRUE
  MayClose = TRUE
  MaxRestarts = 1
  MaxClearStarts = 1
SPECIFICATION FairSpec
INVARIANTS
  OneWorkerAtATime
  ScratchOwned
PROPERTIES
  ImplementsJobQueue
  QueueEnds
  LeftoversPurged
\* A closed bloc whose workers ended has nothing left to do.
CHECK_DEADLOCK FALSE

\* Two queues of up to two jobs, one started over the other.
CONSTANTS
  MaxStarts = 2
  MaxLen = 2
  MaxProgress = 1
  KindsAt <- MCKinds
  Gated = FALSE
  SpawnMayFail = TRUE
  MayClose = TRUE
SPECIFICATION FairSpec
INVARIANTS
  IInv
  NoUseAfterFree
  NothingLeaks
  ResultsFaithful
  CleanupTried
PROPERTIES
  CancelStopsQueue
  ImplementsJobQueue
  QueueEnds
\* A closed bloc whose workers ended has nothing left to do.
CHECK_DEADLOCK FALSE

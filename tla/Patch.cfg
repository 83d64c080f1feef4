\* Files of up to four bytes of two bits, patches of two records; one shelf with
\* three ROMs, two patches and three selections.
CONSTANTS
  NoStreamJob = NoStreamJob
  NoUpsJob = NoUpsJob
  IntLimit = 8
  NoBpsJob = NoBpsJob
  NoBlockJob = NoBlockJob
  Chunk = 2
  MaxFileId = 2
  NoXdJob = NoXdJob
  Buffer = 2
  LongBlocks = 3
  None = None
  Shelves <- MCShelves
SPECIFICATION Spec
INVARIANTS
  PatchedRight
  UpsApplies
  BpsApplies
  BlocksApplied
  XdeltaApplies
\* The screen rests when one patcher has ended.
CHECK_DEADLOCK FALSE

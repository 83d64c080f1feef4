CONSTANTS
  NoStreamJob = NoStreamJob
  NoUpsJob = NoUpsJob
  IntLimit = 8
  NoBpsJob = NoBpsJob
  NoBlockJob = NoBlockJob
  Chunk = 2
  MaxFileId = 2
  NoXdJob = NoXdJob
  Buffer = 2
  LongBlocks = 3
  None = None
  Shelves <- MCOnlyRaces
SPECIFICATION Spec
INVARIANT BannerIsOfSelection
CHECK_DEADLOCK FALSE

\* Four NCAs and a copied entry, 1 to 3 slots (and the clamped setting 0).
CONSTANTS
  NumEntries = 5
  Ncas = {1, 3, 4, 5}
  MaxSetting = 3
SPECIFICATION FairSpec
INVARIANTS
  PipelineInv
  IsolatesWithinSlots
  SuccessIsWhole
  DirOutlivesWriters
PROPERTIES
  LateErrorSurfaces
  Ends
\* A killed job whose nested isolates have ended has nothing left to do.
CHECK_DEADLOCK FALSE

\* One job and one cancel are enough for the counterexample.
CONSTANTS
  MaxStarts = 1
  MaxLen = 1
  LenAt <- OneJob
  Variants = {"nsz"}
  MayFail = FALSE
  MayClose = FALSE
  MaxRestarts = 0
  MaxClearStarts = 0
SPECIFICATION Spec
INVARIANTS
  DeletedOnCancel

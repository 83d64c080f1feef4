\* Two operations over a file and a copy of it.
CONSTANTS
  m0 = m0
  m1 = m1
  NParts = 2
  NFiles = 2
  MaxOps = 2
  Methods = {m0, m1}
  Rekeyed = {m1}
  Method0 = m0
  K2C = K2C
  ZeroKey = ZeroKey
  Roms <- MCRoms
SPECIFICATION Spec
INVARIANTS
  AtMostOneDamaged
  OnlyKillDamages
  SuccessConverts
\* The bound on operations ends every behaviour.
CHECK_DEADLOCK FALSE

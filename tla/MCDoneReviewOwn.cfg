CONSTANTS
  d1 = d1
  d2 = d2
  Dones = {d1, d2}
  NoDone = NoDone
  LevelsOf <- Dual
  MaxCycles = 2
  MaxBoots = 1
SPECIFICATION Spec

PROPERTIES VerdictIsOwn
CHECK_DEADLOCK FALSE

CONSTANTS
  d1 = d1
  d2 = d2
  Dones = {d1, d2}
  NoDone = NoDone
  LevelsOf <- LightOrNone
  MaxCycles = 2
  MaxBoots = 2
SPECIFICATION Spec
INVARIANTS ReviewTypeOK
PROPERTIES VerdictIsCurrent NoticesSurvive
CHECK_DEADLOCK FALSE

SPECIFICATION Spec
CONSTANTS
  Tasks = {t1, t2}
  Names = {n1, n2}
  Custom = custom
  Presets = {wave}
  Unborn = Unborn
  Deleted = Deleted
  MaxTries = 2
  MaxFaults = 2
  FaultKinds <- JobFaults
SYMMETRY Symmetry
CHECK_DEADLOCK FALSE
INVARIANTS
  SlotsExclusive
  
  OutcomeMatchesMotion
  LateMotionsExplained

SPECIFICATION Spec
CONSTANTS
  Tasks = {t1}
  Names = {n1, n2}
  Custom = custom
  Presets = {wave}
  Unborn = Unborn
  Deleted = Deleted
  MaxTries = 2
  MaxFaults = 1
  FaultKinds <- EveryFault
SYMMETRY Symmetry
CHECK_DEADLOCK FALSE
INVARIANTS
  CompletedAlwaysPlays

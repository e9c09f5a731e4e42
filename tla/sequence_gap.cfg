SPECIFICATION SequenceSpec
CONSTANTS
  Requests = {r1, r2, r3}
  Missing = Missing
  Faults = {"loss"}
  MaxLosses = 1
SYMMETRY RequestSymmetry
CHECK_DEADLOCK FALSE
INVARIANTS
  SharingNeedsWindow

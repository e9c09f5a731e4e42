SPECIFICATION Spec
CONSTANTS
  Requests = {r1, r2, r3}
  Missing = Missing
  Faults <- EveryFault
  MaxLosses = 2
  Keys = {k1, k2}
  Calls = {f1, f2, f3}
  Seeds = {seed}
  Chunks = 2
  Ids = {1, 2, 3}
  MaxLimit = 2
  MaxTime = 1
  MaxPages = 3
SYMMETRY Symmetry
CHECK_DEADLOCK FALSE
INVARIANTS
  SharingExplained
  CursorCovers
  LeftoversExplained
  ShownOnce
  WalkComplete
  OutsidersLearnNothing
  DeletedStaysHidden
  DetailCoherent
PROPERTIES
  AtomicStore

SPECIFICATION Spec
CONSTANTS
  Calls = {c1, c2, c3}
  Inputs = {note, empty}
  EmptyNote = {empty}
  Threshold = 2
  Window = 2
  OpenFor = 3
  MaxRetries = 1
  RaiRetries = 1
  MaxPolls = 2
SYMMETRY Symmetry
CHECK_DEADLOCK FALSE
INVARIANTS
  OneFailurePerCall
  PaidOnce
PROPERTY
  OpenOnEvidenceUntilTimeout

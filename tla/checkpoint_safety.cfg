SPECIFICATION Spec
CONSTANTS
  Tasks = {t1, t2}
  Sessions = {s1}
  SeqNumbers = {1, 2}
  NoTask = NoTask
  NoPayload = NoPayload
  MaxTries = 2
  MaxFaults = 2
  FaultKinds <- EveryFault
SYMMETRY TaskSymmetry
CHECK_DEADLOCK FALSE
INVARIANTS
  TypeOK
  CommittedRowHasFile
  
  OutcomeMatchesRow
  NeverRegenerated
  AttemptAgrees
PROPERTIES
  EndedSessionIsFrozen
  

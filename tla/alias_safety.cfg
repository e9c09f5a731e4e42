SPECIFICATION Spec
CONSTANTS
  Tasks = {t1, t2}
  Names = {n1, n2}
  Unborn = Unborn
  Deleted = Deleted
  MaxTries = 2
  MaxFaults = 2
  FaultKinds <- EveryFault
SYMMETRY Symmetry
CHECK_DEADLOCK FALSE
INVARIANTS
  UniqueNames
  
  OutcomeMatchesAlias
PROPERTIES
  DeletionIsFinal
  LifecycleSpec

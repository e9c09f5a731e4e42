SPECIFICATION Spec
CONSTANTS
  Tasks = {t1}
  Sessions = {s1}
  SeqNumbers = {1}
  NoTask = NoTask
  NoPayload = NoPayload
  MaxTries = 3
  MaxFaults = 2
  FaultKinds = {"lost_commit"}
CHECK_DEADLOCK FALSE
INVARIANT CommittedRowAlwaysHasFile

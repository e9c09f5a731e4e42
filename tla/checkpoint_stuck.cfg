SPECIFICATION FairSpec
CONSTANTS
  Tasks = {t1}
  Sessions = {s1}
  SeqNumbers = {1}
  NoTask = NoTask
  NoPayload = NoPayload
  MaxTries = 3
  MaxFaults = 2
  FaultKinds = {"timeout"}
CHECK_DEADLOCK FALSE
PROPERTY StuckTaskFails

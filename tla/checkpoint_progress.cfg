SPECIFICATION FairSpec
CONSTANTS
  Tasks = {t1, t2}
  Sessions = {s1}
  SeqNumbers = {1}
  NoTask = NoTask
  NoPayload = NoPayload
  MaxTries = 3
  MaxFaults = 2
  FaultKinds <- RetriedFaults
CHECK_DEADLOCK FALSE
PROPERTIES
  CancelHonoured
  

SPECIFICATION FairSpec
CONSTANTS
  Threads = {w1, w2}
  Items = {i1, i2, i3}
  QueueSize = 2
  MaxRetries = 2
  Exit = Exit
  NoItem = NoItem
INVARIANTS
  TypeOK
  GateConserved
  ReputFits
  UnfinishedCounts
  InOnePlace
PROPERTIES
  WaitMeansDone
  PoolEnds
CHECK_DEADLOCK FALSE

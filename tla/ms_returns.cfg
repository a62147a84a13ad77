SPECIFICATION FairSpec
CONSTANTS
  Txns = {t1, t2}
  Queries = {}
  Keys = {k1, k2}
  Groups <- ThreeGroups
  GroupOf <- OneEach
  Global = 3
  Policy = "MasterSlave"
  MaxEG = 2
  MaxActions = 1
  MaxWrites = 1
  CrossGroup = {TRUE, FALSE}
  Inserts = {TRUE, FALSE}
  VersionReads = FALSE
  k1 = k1
  k2 = k2
  NoValue = NoValue
  NoView = NoView
  Free = Free
INVARIANTS
  MasterSlaveApplied
  TasksOnlyOfCommitted
PROPERTIES
  CallsReturn
  InsertNeverOverwrites
CHECK_DEADLOCK FALSE

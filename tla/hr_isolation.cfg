SPECIFICATION FairSpec
CONSTANTS
  Txns = {t1, t2}
  Queries = {}
  Keys = {k1, k2}
  Groups <- ThreeGroups
  GroupOf <- OneEach
  Global = 3
  Policy = "HighReplication"
  MaxEG = 2
  MaxActions = 0
  MaxWrites = 2
  CrossGroup = {TRUE}
  Inserts = {FALSE}
  VersionReads = FALSE
  k1 = k1
  k2 = k2
  NoValue = NoValue
  NoView = NoView
  Free = Free
INVARIANTS
  ConsistentSnapshots
  LocksOrdered
  TypeOK
  CacheCurrent
  PositionTellsChange
PROPERTIES
  NoLostUpdate
  Serializable
  CallsReturn
CHECK_DEADLOCK FALSE

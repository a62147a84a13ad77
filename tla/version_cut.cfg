SPECIFICATION Spec
CONSTANTS
  Txns = {t1, t2}
  Queries = {}
  Keys = {k1, k2}
  Groups <- ThreeGroups
  GroupOf <- OneEach
  Global = 3
  Policy = "HighReplication"
  MaxEG = 2
  MaxActions = 0
  MaxWrites = 1
  CrossGroup = {TRUE, FALSE}
  Inserts = {TRUE, FALSE}
  VersionReads = TRUE
  k1 = k1
  k2 = k2
  NoValue = NoValue
  NoView = NoView
  Free = Free
SYMMETRY TxnSymmetry
INVARIANTS
  ConsistentSnapshots
CHECK_DEADLOCK FALSE

SPECIFICATION GroomedSpec
CONSTANTS
  Txns = {t1, t2}
  Queries = {q1}
  Keys = {k1}
  Groups <- TwoGroups
  GroupOf <- OneEach
  Global = 2
  Policy = "HighReplication"
  MaxEG = 2
  MaxActions = 0
  MaxWrites = 1
  CrossGroup = {TRUE}
  Inserts = {FALSE}
  VersionReads = TRUE
  k1 = k1
  k2 = k2
  NoValue = NoValue
  NoView = NoView
  Free = Free
INVARIANTS
  LocksHeld
  StorePlusQueue
  QueuedOnce
PROPERTIES
  EventuallyApplied
CHECK_DEADLOCK FALSE

SPECIFICATION FairSpec
CONSTANTS
  Clients = {c1, c2}
  Consoles = {c1}
  Names = {n1, n2}
  Modes = {"push", "pull"}
  MaxTasks = 2
  Etas = {1}
  Leases = {0, 1}
  PushRetries = 1
  PullRetries = 2
  NoLimit = NoLimit
  Backoff = 1
  MaxTime = 4
INVARIANTS
  IndexesAgree
  RunsBounded
  LeaseExclusive
PROPERTIES
  DeletesItsOwn
  PushTasksRun
CHECK_DEADLOCK FALSE

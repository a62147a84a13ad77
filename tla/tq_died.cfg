SPECIFICATION Spec
CONSTANTS
  Clients = {c1, c2}
  Consoles = {c1}
  Names = {n1, n2}
  Modes = {"push"}
  MaxTasks = 2
  Etas = {1}
  Leases = {0, 1}
  PushRetries = NoLimit
  PullRetries = 2
  NoLimit = NoLimit
  Backoff = 1
  MaxTime = 4
INVARIANT SchedulerSurvives
CHECK_DEADLOCK FALSE

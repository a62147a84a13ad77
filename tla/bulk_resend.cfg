SPECIFICATION Spec
CONSTANTS
  Workers = {w1, w2}
  Source = Source
  Nobody = Nobody
  Modes = {"upload"}
  Size = 4
  NumKinds = 1
  BatchSize = 2
  PoolSize = 1
  CommitEvery = 2
  MaxRuns = 2
INVARIANT NothingSentAgain
CHECK_DEADLOCK FALSE

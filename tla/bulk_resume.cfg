SPECIFICATION FairSpec
CONSTANTS
  Workers = {w1, w2}
  Source = Source
  Nobody = Nobody
  Modes = {"upload", "download"}
  Size = 4
  NumKinds = 1
  BatchSize = 2
  PoolSize = 1
  CommitEvery = 2
  MaxRuns = 2
INVARIANTS
  UploadResumable
  OnlyInHandAtRisk
  NotTwice
  UploadExitsTrue
  NobodyStuck
PROPERTIES
  JoinedMeansArrived
  RunEnds
CHECK_DEADLOCK FALSE

SPECIFICATION Spec
CONSTANTS
  Keys = {k1}
  Texts = {a, b}
  Modulus = 1
  MaxRelative = 5
  NoEntry = NoEntry
  MaxCas = 4
  MaxTime = 1
  Contexts = {c1, c2}
  Calls = {"get", "put", "delete", "transaction"}
  None = None
  NotCached = NotCached
  NoKey = NoKey
  LockTime = 1
  Timeout = 0
  Retries = 1
SYMMETRY Symmetry
INVARIANTS
  MemcacheCurrent
  OnlyWrittenShown

SPECIFICATION Spec
CONSTANTS
  Keys = {k1, k2}
  Texts = {a}
  Modulus = 4
  MaxRelative = 2
  NoEntry = NoEntry
  MaxCas = 3
  MaxTime = 3
  Clients = {c1}
  Written <- TextsAndNumbers
  Policies = {"SET", "ADD", "REPLACE", "CAS"}
  Times = {0, 3}
  LockTimes = {0, 2}
  Deltas <- Steps
  Initials <- OptionalInitial
INVARIANTS
  TypeOK
  CasSeesNoChange
  DeletedStaysDeleted

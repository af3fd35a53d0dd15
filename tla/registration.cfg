SPECIFICATION FairSpec
CONSTANTS
  a = a
  b = b
  w = w
  i = i
  k = k
  Card = {a, b}
  Loop = {w}
  Informer = {i}
  Ticker = k
  NoOne = NoOne
  NoList = NoList
  SplitCount = 2
  AtStart = {a}
  MayFail = {"rsmi", "dmi", "lspci", "shutdown", "init", "infos", "numa", "health", "remain", "api"}
  MaxFaults = 1
  MaxChanges = 1
INVARIANTS
  TypeOK
  ClosedUnderLock
  HealthNotBlamed
PROPERTIES
  RegisteredFinally

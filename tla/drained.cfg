SPECIFICATION Spec
CONSTANTS
  a = a
  b = b
  w = w
  i = i
  k = k
  Card = {a, b}
  Loop = {w}
  Informer = {}
  Ticker = k
  NoOne = NoOne
  NoList = NoList
  SplitCount = 2
  AtStart = {a}
  MayFail = {}
  MaxFaults = 0
  MaxChanges = 1
INVARIANTS
  NotDrained

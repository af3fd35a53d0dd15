SPECIFICATION FairSpec
CONSTANTS
  a = a
  b = b
  ta = ta
  tb = tb
  tc = tc
  Node = {a, b}
  Loop = {ta, tb, tc}
  NodeOf <- TwoOnOne
  MaxVersion = 1
  NoEntry = NoEntry
  NoMap = NoMap
  MaxFaults = 2
PROPERTIES
  BoardSpec
  AllPublished

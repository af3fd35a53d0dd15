SPECIFICATION Spec
CONSTANTS
  h1 = h1
  h2 = h2
  p1 = p1
  p2 = p2
  n1 = n1
  n2 = n2
  d1 = d1
  d2 = d2
  d3 = d3
  d4 = d4
  Pod = {p1, p2}
  Name = {n1, n2}
  NoName = NoName
  NoPod = NoPod
  NoCall = NoCall
  NoAnswer = NoAnswer
  N = 2
  Handler = {h1, h2}
  MaxTries = 2
  MaxFaults = 1
  KubeletRestarts = TRUE
  Dev <- MCDev
  NameOf <- TwoNames
  Chosen <- TwoEach
  Other <- NoOther
INVARIANTS
  ServedOwnAlways
CHECK_DEADLOCK FALSE

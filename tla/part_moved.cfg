SPECIFICATION Spec
CONSTANTS
  a = a
  b = b
  v1 = v1
  v2 = v2
  s1 = s1
  s2 = s2
  Card = {a, b}
  Part = {v1}
  Profile = {s1, s2}
  Whole = "hcu"
  Strategies = {"vhcu"}
  Streams = 2
  Nothing = Nothing
  MayFail = {}
  MaxUpsets = 2
SYMMETRY StaticSymmetry
INVARIANTS
  NodesMatchConfAlways
CHECK_DEADLOCK FALSE

SPECIFICATION Spec
CONSTANTS
  a = a
  b = b
  v1 = v1
  v2 = v2
  s1 = s1
  s2 = s2
  Card = {a, b}
  Part = {v1}
  Profile = {s1, s2}
  Whole = "hcu"
  Strategies = {"mixed", "mig", "vhcu", "hcu", "hami"}
  Streams = 2
  Nothing = Nothing
  MayFail = {"driver", "start", "list", "name"}
  MaxUpsets = 3
SYMMETRY StaticSymmetry
INVARIANTS
  TypeOK
  WholeOrParts
  NodesMatchConf
  ShownIsMapped
  OfferedOnce
CHECK_DEADLOCK FALSE

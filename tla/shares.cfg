SPECIFICATION Spec
CONSTANTS
  c1 = c1
  c2 = c2
  c3 = c3
  Units = 60
  Slot = {c1, c2, c3}
  NoVhcu = NoVhcu
  Shares = {33, 34}
INVARIANTS
  SharesFit

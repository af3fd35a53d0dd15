SPECIFICATION Spec
CONSTANTS
  c1 = c1
  c2 = c2
  c3 = c3
  Units = 7
  Slot = {c1, c2, c3}
  NoVhcu = NoVhcu
  Shares = {1, 14, 15, 28, 29, 42, 43, 100}
INVARIANTS
  RemainderCanBeHad

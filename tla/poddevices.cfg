SPECIFICATION ServerSpec
CONSTANTS
  d1 = d1
  d2 = d2
  d3 = d3
  Dev <- MCDev
  Choice <- MCChoice
  MaxCtr = 4
INVARIANTS
  ServedInOrder
  SlotsKept
  NeverStuck
CHECK_DEADLOCK FALSE

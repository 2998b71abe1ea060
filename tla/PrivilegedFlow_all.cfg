SPECIFICATION PrivFairSpec
CONSTANTS
  Op <- MCOp
  Device = {d1}
  d1 = d1
  State = {s1, s2}
  s1 = s1
  s2 = s2
  MaxMoves = 1
INVARIANTS
  WrittenAsProven
PROPERTIES
  DeliveryKept
  PanelAnswers
CHECK_DEADLOCK FALSE

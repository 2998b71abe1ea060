SPECIFICATION Spec
CONSTANTS
  read = read
  again = again
  write = write
  prompt = prompt
  tool = tool
  listing = listing
  Session = {s1, s2}
  Request <- MCExclusive
  Kind <- MCExclusiveKind
  Command <- MCExclusiveCommand
  Capacity = 2
INVARIANTS
  OnePortOwner
  WritesGoOutOnce
PROPERTIES
  NoSuccessAfterTerminal
SYMMETRY MCSessionSymmetry
VIEW MCSessionView
CHECK_DEADLOCK FALSE

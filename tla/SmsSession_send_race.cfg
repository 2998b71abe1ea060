SPECIFICATION FairSpec
CONSTANTS
  Card = {own, other}
  Own = own
  own = own
  other = other
  Kinds = {"Send"}
  Holder <- MCHolder
  Target <- MCTarget
  Known <- MCKnown
  MaxSwaps = 1
INVARIANTS
  FailedWasNotSent
CHECK_DEADLOCK FALSE

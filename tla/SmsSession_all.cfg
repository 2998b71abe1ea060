SPECIFICATION FairSpec
CONSTANTS
  Card = {own, other}
  Own = own
  own = own
  other = other
  Kinds = {"Send", "History", "Delete"}
  Holder <- MCHolder
  Target <- MCTarget
  Known <- MCKnown
  MaxSwaps = 1
INVARIANTS
  DeleteReportIsTrue
  StorageReportIsTrue
  ProvenBeforeEffect
  SubmittedIsReal
PROPERTIES
  TransactionEnds
CHECK_DEADLOCK FALSE

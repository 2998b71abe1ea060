SPECIFICATION FairSpec
CONSTANTS
  helper = helper
  LastFile = 4
  Optional <- MCOptional
  Helper <- MCHelper
  MaxVisits = 2
INVARIANTS
  UntouchedWhileInUse
  OldRecoverable
  OutcomeIsTrue
PROPERTIES
  UpdateResolved
CHECK_DEADLOCK FALSE

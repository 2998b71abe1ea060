SPECIFICATION Spec
CONSTANTS
  m1 = m1
  m2 = m2
  Message <- MCMessage
  Published <- MCPublished
  Cap = 1
  Retention = 2
  MaxClock = 2
  MaxRevision = 2
  MaxLaunches = 2
  Absent = Absent
INVARIANTS
  OnlyWhatWasAllowed
  ReportedIsStored
  PendingIsUnderway
  ExitKeepsWork
CHECK_DEADLOCK FALSE

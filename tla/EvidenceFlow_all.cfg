SPECIFICATION FairEvidenceSpec
CONSTANTS
  a1 = a1
  a2 = a2
  b = b
  dji = dji
  other = other
  Nobody = Nobody
  First = a1
  Attachment <- MCAttachment
  IdOf <- MCIdOf
  TTL = 1
  StageTime = 0
  ProbeTime = 1
  MaxMoves = 1
  MaxAsks = 1
  AtAnswer = {"Ok"}
  AdapterAnswer = {"Usable"}
  ProbeAnswer = {"Full", "Failed"}
INVARIANTS
  GreenIsRecent
  DisabledIsNotGreen
PROPERTIES
  ReportIsOwn
  CheckEnds

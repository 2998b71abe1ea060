SPECIFICATION FairSpec
CONSTANTS
  adapterAction = adapterAction
  deviceAction = deviceAction
  dji = dji
  generic = generic
  up = up
  down = down
  Action <- MCAction
  Ground <- MCGround
  ReadyOn <- MCReadyOn
  Target <- MCTarget
  Writable <- MCWritable
  NoTarget = NoTarget
  PlanLifetime = 1
  EvidenceTTL = 0
  MaxClock = 3
  MaxEpoch = 1
  MaxRevision = 3
  MaxPlans = 2
  MaxJobs = 1
INVARIANTS
  ExecutorHasTheDevice
PROPERTIES
  NoWriteOnMovedGround
  WriteEvidenceAge
  KeepsContract
  OperationEnds
  MonitoringResumes
